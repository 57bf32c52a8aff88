CONSTANTS
  feed = feed
  cmd = cmd
  m = m
  t1 = t1
  t2 = t2
  r = r
  w = w
  s = s
  Feed = feed
  Visit <- MCVisit
  Command <- MCCommand
  Notice <- MCNotice
  Slug <- MCSlug
  Page <- MCPage
  Backoff <- MCBackoff
  MinGap = 0
  BlockRetries = 1
  Margin = 1
  MaxRestarts = 0
  None = None
SPECIFICATION Spec
CHECK_DEADLOCK FALSE
INVARIANT RerunBringsItIn
