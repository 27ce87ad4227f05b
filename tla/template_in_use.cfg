SPECIFICATION Spec
CONSTANTS
  Names = {n1, n2}
  Templates = {t1}
  NoName = NoName
  NoTemplate = NoTemplate
  TemplateSpecs <- OnlyPod
  InlineSpecs <- None
  Phases <- None
  GateSets <- NoGates
  MaxIncarnations = 1
  MaxErrors = 0
  MaxRestarts = 0
  Expiring <- None
INVARIANT TemplateOutlivesUsers
CHECK_DEADLOCK FALSE
