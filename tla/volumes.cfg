SPECIFICATION Spec
CONSTANTS
  Names = {n1}
  Templates = {}
  NoName = NoName
  NoTemplate = NoTemplate
  Unset = Unset
  TemplateSpecs <- None
  InlineSpecs <- OnlySameName
  TTLs <- AnHour
  GateSets <- NoGates
  MaxTemplates = 1
  MaxRestarts = 0
INVARIANT VolumesAreMounted
CHECK_DEADLOCK FALSE
