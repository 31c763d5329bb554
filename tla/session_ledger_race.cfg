CONSTANTS
  q1 = q1
  q2 = q2
  main = main
  Requests <- TwoRequests
  Main <- main
SPECIFICATION Spec
INVARIANTS
  EveryDecisionRecorded
