CONSTANTS
  feed = feed
  cmd = cmd
  m = m
  t1 = t1
  t2 = t2
  r = r
  w = w
  s = s
  Feed = feed
  Visit <- MCVisit
  Command <- MCCommand
  Notice <- MCNotice
  Slug <- MCSlug
  Page <- MCPage
  Backoff <- MCBackoff
  MinGap = 1
  BlockRetries = 1
  Margin = 1
  MaxRestarts = 1
  None = None
SPECIFICATION FairSpec
INVARIANT TypeOK
INVARIANT SilenceIsKept
INVARIANT JoinedInTime
INVARIANT BareIsVisible
INVARIANT FailureToldOnce
INVARIANT RetryFindsTheGateOpen
CHECK_DEADLOCK FALSE
