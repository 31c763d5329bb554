CONSTANTS
  q1 = q1
  q2 = q2
  q3 = q3
  Clients <- ThreeClients
  MaxConns = 2
  ConnTTL = 1
  MaxAnomalies = 1
SPECIFICATION CrowdedSpec
INVARIANTS
  TypeOK
  ConnectionsBounded
  TrailBounded
  MismatchLoggedBeforeMint
  AnswersHaveACause
PROPERTIES
  QueriesEnd
