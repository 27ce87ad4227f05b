SPECIFICATION FairSpec
CONSTANTS
  Names = {n1}
  Templates = {}
  NoName = NoName
  NoTemplate = NoTemplate
  TemplateSpecs <- None
  InlineSpecs <- OnlyPod
  Phases <- RunningOnly
  GateSets <- NoGates
  MaxIncarnations = 1
  MaxErrors = 1
  MaxRestarts = 0
  Expiring <- First
PROPERTIES DeletionCompletes OrphansGo ExpiredGoes ConditionFollowsPhase
CHECK_DEADLOCK FALSE
