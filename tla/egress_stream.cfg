CONSTANTS
  c1 = c1
  c2 = c2
  c3 = c3
  injected = injected
  plain = plain
  other = other
  none = none
  Conns <- OneConn
  InjectHosts <- Injected
  PlainHosts <- NoHost
  OtherHosts <- NoHost
  NoConn <- none
  MaxInject = 2
  IdleTimeout = 2
SPECIFICATION Spec
INVARIANTS
  StreamsSurvive
