CONSTANTS
  MaxEdits = 3
SPECIFICATION FullSpec
INVARIANTS
  TypeOK
  
  BoxHasNoWayOut
  OnlyTheProxyLeadsOut
