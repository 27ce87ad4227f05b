SPECIFICATION Spec
CONSTANTS
  Names = {n1}
  Templates = {t1}
  NoName = NoName
  NoTemplate = NoTemplate
  TemplateSpecs <- OnlyPod
  InlineSpecs <- None
  Phases <- None
  GateSets <- NoGates
  MaxIncarnations = 1
  MaxErrors = 0
  MaxRestarts = 0
  Expiring <- None
INVARIANT TerminatingTemplateHasUser
CHECK_DEADLOCK FALSE
