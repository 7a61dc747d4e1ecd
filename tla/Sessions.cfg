\* Every session may be revoked and every token used up.
CHECK_DEADLOCK FALSE
CONSTANTS
  MaxTokens = 3
  MaxSessions = 1
  Calls = {c1, c2}
  Requests = {r1, r2}
  MaxBusy = 2
  NoInvocation = NoInvocation
SPECIFICATION FairSpec
INVARIANTS
  SessionLimitOnlyByRacing
  WaitersHaveRefresh
  RotatedTokensAreReplaced
PROPERTIES
  RequestsSettle
