SPECIFICATION FairSpec
CONSTANTS
  MaxSessions = 2
  MaxTyped = 1
  MaxSignals = 0
  TermBuf = 2
  CopyBuf = 2
PROPERTY EscapeObeyed
CHECK_DEADLOCK FALSE
