CONSTANTS
  r1 = r1
  r2 = r2
  nobody = nobody
  Runs <- TwoRuns
  Nobody <- nobody
  Options <- PlainOption
  Signalled <- NoRun
  WithDestroy = FALSE
  Faulty = FALSE
SPECIFICATION Spec
PROPERTIES
  PersistedBoxSurvives
