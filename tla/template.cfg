SPECIFICATION Spec
CONSTANTS
  Names = {n1}
  Templates = {t1}
  NoName = NoName
  NoTemplate = NoTemplate
  TemplateSpecs <- PodOrVMI
  InlineSpecs <- None
  Phases <- None
  GateSets <- KubevirtOn
  MaxIncarnations = 1
  MaxErrors = 0
  MaxRestarts = 0
  Expiring <- None
INVARIANTS NoStuckDeletion WorkloadUnderProtection
PROPERTIES TypeNeverChanges
CHECK_DEADLOCK FALSE
