SPECIFICATION Spec
CONSTANTS
  Names = {n1}
  Templates = {}
  NoName = NoName
  NoTemplate = NoTemplate
  TemplateSpecs <- None
  InlineSpecs <- OnlyVMI
  Phases <- RunningOrFailed
  GateSets <- KubevirtMaybe
  MaxIncarnations = 1
  MaxErrors = 1
  MaxRestarts = 1
  Expiring <- None
INVARIANTS TypeOK DisksBackWorkload NoStuckDeletion Settled
CHECK_DEADLOCK FALSE
