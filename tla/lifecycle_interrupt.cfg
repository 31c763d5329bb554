CONSTANTS
  r1 = r1
  r2 = r2
  nobody = nobody
  Runs <- OneRun
  Nobody <- nobody
  Options <- RmOption
  Signalled <- OneRun
  WithDestroy = FALSE
  Faulty = TRUE
SPECIFICATION Spec
INVARIANTS
  DestroyedReceiptTrue
