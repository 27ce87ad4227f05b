SPECIFICATION FairSpec
CONSTANTS
  Names = {n1}
  Requests = {r1, r2}
  NoName = NoName
  GateSets <- OnlyKubevirt
  MaxIncarnations = 2
INVARIANTS TypeOK KnowsWhatWasThere RightWorkload ForwardsWholeSecrets
PROPERTIES ImplementsAttach AcceptedAtLast
CHECK_DEADLOCK FALSE
