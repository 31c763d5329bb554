CONSTANTS
  r1 = r1
  r2 = r2
  nobody = nobody
  Runs <- TwoRuns
  Nobody <- nobody
  Options <- RealOptions
  Signalled <- OneRun
  WithDestroy = FALSE
  Faulty = TRUE
SPECIFICATION Spec
INVARIANTS
  DestroyedReceiptHonest
PROPERTIES
  CleanTeardownLeavesNothing
