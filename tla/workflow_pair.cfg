SPECIFICATION FairSpec
CONSTANTS
  RiskLowMax = 30
  RiskMediumMax = 69
  RiskHighMax = 89
  IncludedStatuses <- MCIncluded
  MinPeerCount = 1
  Threshold = 5000
  Runs = {a1, a2}
  Peers <- PairPeers
  SameRole <- PairPeers
  SameLevel <- PairPeers
  Entitlements <- PairEntitlements
  RiskScore <- PairRiskScore
  SodRules <- PairSodRules
  PeerHoldings <- PairPeerHoldings
  JoinerHoldings = {}
  PolicyOutcomes <- PairOutcomes
  MaxFaults = 1
  MaxEdits = 1
PROPERTIES
  ImplementsLedger
  EveryRunEnds
CHECK_DEADLOCK FALSE
