CONSTANTS
  s1 = s1
  s2 = s2
  Session <- MCSession
  None = None
  FaultKinds = {"death", "stall", "failed write"}
  MaxFaults = 1
SPECIFICATION FairSpec
INVARIANT TypeOK
INVARIANT OneAtATime
INVARIANT HoldersAgree
PROPERTY NobodyJumpsTheQueue
PROPERTY EveryCommandEnds
PROPERTY WaitersAreServed
