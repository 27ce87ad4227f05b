SPECIFICATION Spec
CONSTANTS
  Names = {n1}
  Templates = {}
  NoName = NoName
  NoTemplate = NoTemplate
  TemplateSpecs <- None
  InlineSpecs <- OnlyPod
  Phases <- None
  GateSets <- NoGates
  MaxIncarnations = 2
  MaxErrors = 1
  MaxRestarts = 0
  Expiring <- First
INVARIANT ReadProtectedIsPresent
PROPERTIES ReleasesWhatItRead ExpiryMarksWhatItRead ImplementsLifecycle
CHECK_DEADLOCK FALSE
