CONSTANTS
  r1 = r1
  r2 = r2
  nobody = nobody
  Runs <- OneRun
  Nobody <- nobody
  Options <- AllOptions
  Signalled <- OneRun
  WithDestroy = TRUE
  Faulty = TRUE
SPECIFICATION FairSpec
INVARIANTS
  TypeOK
  TeardownCompletes
  PersistedReceiptHonest
  CleanupsHonoured
PROPERTIES
  SignalEndsRun
  RunEnds
