CONSTANTS
  feed = feed
  cmd = cmd
  m = m
  t1 = t1
  t2 = t2
  r = r
  w = w
  s = s
  Feed = feed
  Visit <- MCVisit
  Command <- MCCommand
  Notice <- MCNoticeLive
  Slug <- MCSlug
  Page <- MCPageLive
  Backoff <- MCBackoffLive
  MinGap = 1
  BlockRetries = 1
  Margin = 1
  MaxRestarts = 0
  None = None
SPECIFICATION FairSpec
CHECK_DEADLOCK FALSE
PROPERTY EveryRequestSettles
PROPERTY EveryNoticeIsAnswered
