SPECIFICATION Spec
CONSTANTS
  Versions <- MCVersions
  Extract <- MCExtract
  Names <- MCNames
  Ids <- MCIds
  PolicyIds <- MCPolicyIds
  SodIds <- MCSodIds
  RiskHighMax = 89
  MaxConversions = 1
  MaxLoads = 3
  MaxSwitches = 2
INVARIANTS
  TypeOK
  NoLoadBreaksReferences
  ReloadChangesNothing
  UnscoredFailsClosed
  JoinersStayPending
PROPERTIES
  LoadSwitchesControlsOn
  OnlyPurgeAllForgets
  ImplementsReference
CHECK_DEADLOCK FALSE
