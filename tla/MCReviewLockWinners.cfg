CONSTANTS
  s1 = s1
  s2 = s2
  Session <- MCSession
  None = None
  FaultKinds = {"death"}
  MaxFaults = 1
SPECIFICATION Spec
INVARIANT OneWinner
