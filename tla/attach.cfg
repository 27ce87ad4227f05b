SPECIFICATION FairSpec
CONSTANTS
  MaxSessions = 1
  MaxTyped = 2
  MaxSignals = 2
  TermBuf = 2
  CopyBuf = 2
INVARIANTS TypeOK NothingTruncated LastInputArrives
PROPERTIES FirstEscapeObeyed InterruptEndsRetries ConnectionGoes RefusedAttemptsEnd
CHECK_DEADLOCK FALSE
