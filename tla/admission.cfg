SPECIFICATION Spec
CONSTANTS
  Names = {n1, n2}
  Templates = {t1}
  NoName = NoName
  NoTemplate = NoTemplate
  Unset = Unset
  TemplateSpecs <- Submitted
  InlineSpecs <- InlinePod
  TTLs <- NoneOrAnHour
  GateSets <- AllGates
  MaxTemplates = 1
  MaxRestarts = 1
INVARIANTS TypeOK TemplateReportSettles OwnDisksOnly ReferencesResolve AdmittedSpecsRun
PROPERTY TerminatingNeverUndone
CHECK_DEADLOCK FALSE
