CONSTANTS
  c1 = c1
  c2 = c2
  c3 = c3
  injected = injected
  plain = plain
  other = other
  none = none
  Conns <- ThreeConns
  InjectHosts <- Injected
  PlainHosts <- Plain
  OtherHosts <- Other
  NoConn <- none
  MaxInject = 2
  IdleTimeout = 1
SPECIFICATION OnePipeSpec
INVARIANTS
  TypeOK
  SlotsAreHolders
  OneLeafPerHost
  PipeStaysWhole
PROPERTIES
  PipeIsTornDown
  SilentClientsDropped
