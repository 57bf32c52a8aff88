CONSTANTS
  a = a
  b = b
  v = v
  w = w
  Import <- MCImport
  Team <- MCTeam
  Match <- MCMatch
  Side <- MCSide
  Request <- MCRequest
  Faults <- MCFaults
  None = None
SPECIFICATION Spec
CHECK_DEADLOCK FALSE
SYMMETRY Symmetry
INVARIANT TypeOK
INVARIANT EndDateMeansFinished
INVARIANT CreatedIsBackfilled
INVARIANT CleanImportSettles
INVARIANT ExtrasSeeTheBackfill
PROPERTY SpanOnlyWidens
