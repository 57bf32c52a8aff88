CONSTANTS
  c1 = c1
  c2 = c2
  c3 = c3
  a = a
  b = b
  star = star
  regular = regular
  Call <- MCCall
  ExtId <- MCExtId
  Kind <- MCKind
  Absent = Absent
  None = None
  Payloads <- MCPayloads
  MaxAttempts = 3
SPECIFICATION FairSpec
INVARIANT TypeOK
INVARIANT NoOrphanRow
INVARIANT SuccessOwnsItsIds
INVARIANT RetryNeverCreates
PROPERTY IdentityNeverChanges
PROPERTY EveryCallEnds
CHECK_DEADLOCK FALSE
