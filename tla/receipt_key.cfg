CONSTANTS
  p1 = p1
  p2 = p2
  p3 = p3
  v1 = v1
  repo = repo
  box = box
  NoKey = Nobody
  Nobody = Nobody
  Procs <- MCProcs
  Runs <- MCProcs
  Repo <- MCRepo
  Box <- MCBox
  Verifiers <- MCVerifiers
  Versions = {"new", "old"}
  Embedded = "embedded"
  NoPack = "none"
  MaxEdits = 1
  Faulty = TRUE
SYMMETRY Symmetry
SPECIFICATION MCSpec
INVARIANTS
  TypeOK
  OneIdentity
  NeverPartial
  EveryoneSigns
  OwnReceiptsRecognised
  StashRefTransient
  SeedIsFresh
  NoStrayBroker
  MountedBrokerIsOwn
  ReceiptPairAgrees
PROPERTIES
  RefinesWriteOnceKey
