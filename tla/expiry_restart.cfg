SPECIFICATION Spec
CONSTANTS
  Names = {n1}
  Templates = {}
  NoName = NoName
  NoTemplate = NoTemplate
  TemplateSpecs <- None
  InlineSpecs <- OnlyPod
  Phases <- None
  GateSets <- NoGates
  MaxIncarnations = 1
  MaxErrors = 0
  MaxRestarts = 1
  Expiring <- First
INVARIANT ExpiryNeverMissed
CHECK_DEADLOCK FALSE
