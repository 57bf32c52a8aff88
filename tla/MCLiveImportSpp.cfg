CONSTANTS
  a = a
  b = b
  v = v
  w = w
  Import <- MCImport
  Team <- MCTeam
  Match <- MCMatch
  Side <- MCSide
  Request <- MCRequest
  Faults <- MCFaults
  None = None
SPECIFICATION Spec
CHECK_DEADLOCK FALSE
INVARIANT SettledSumsAreComplete
