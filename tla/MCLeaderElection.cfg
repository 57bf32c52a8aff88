CONSTANTS
  m1 = m1
  m2 = m2
  m3 = m3
  Machine <- MCMachine
  NoOne = NoOne
  Orphan = Orphan
  MaxFaults = 4
SPECIFICATION FairSpec
INVARIANT TypeOK
INVARIANT SessionBackedByLock
INVARIANT HoldsAccountedFor
PROPERTY ServingEndsInExit
PROPERTY OneLeaderInTheEnd
PROPERTY ImplementsLease
