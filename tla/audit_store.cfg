SPECIFICATION Spec
CONSTANTS
  Analyses <- MCAnalyses
  Entitlements <- MCEntitlements
  Verdict <- MCVerdict
  Conflicted <- MCConflicted
  Posters = {p1, p2}
  Queries <- MCQueries
  MaxRows = 1
SYMMETRY Swaps
INVARIANTS
  TypeOK
  WholeOrGone
  RequestsAskWhatWasGranted
  AcknowledgedIsStored
  FallbackIsVisible
  ReadBackIsWhole
  NothingAskedForUnseen
  ShownRequestNotSuperseded
  DashboardAddsUp
  TruncationIsTold
  ChatSeesWholeAnalyses
PROPERTY
  ImplementsTrail
CHECK_DEADLOCK FALSE
