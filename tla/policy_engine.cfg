SPECIFICATION Spec
CONSTANTS
  MaxEnabled = 2
  RiskLowMax = 30
  RiskMediumMax = 69
  RiskHighMax = 89
  IncludedStatuses <- MCIncluded
  Entitlements <- MCEntitlements
  RiskScore <- MCRiskScore
  SodRules <- MCSodRules
  Profiles <- MCProfiles
  Policies <- MCPolicies
INVARIANTS
  TypeOK
  BrokenPolicyWithholdsAll
  ExclusivesNotGranted
  NoToxicGrant
  AutoApprovedIffClean
PROPERTIES
  TighteningNeverOpens
