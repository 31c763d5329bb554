CONSTANTS
  q1 = q1
  q2 = q2
  main = main
  Requests <- TwoRequests
  Main <- main
SYMMETRY Symmetry
SPECIFICATION Spec
INVARIANTS
  TypeOK
  SerialLedgerIntact
  QuietReceiptAgrees
  TamperEvident
