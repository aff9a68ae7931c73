SPECIFICATION Spec
CONSTANTS
  RiskLowMax = 30
  RiskMediumMax = 69
  RiskHighMax = 89
  IncludedStatuses <- MCIncluded
  MinPeerCount = 2
  Threshold = 5000
  Runs = {a1}
  Peers <- MCPeers
  SameRole <- MCSameRole
  SameLevel <- MCSameLevel
  Entitlements <- MCEntitlements
  RiskScore <- MCRiskScore
  SodRules <- MCSodRules
  PeerHoldings <- MCPeerHoldings
  JoinerHoldings <- MCJoinerHoldings
  PolicyOutcomes <- MCPolicyOutcomes
  MaxFaults = 2
  MaxEdits = 2
INVARIANTS
  TypeOK
  GrantsFreeOfToxicPairs
  UncheckedGrantIsFlagged
  FailuresOnRecord
  CandidatesAccounted
PROPERTIES
  AuditRowsStable
CHECK_DEADLOCK FALSE
