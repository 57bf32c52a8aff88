CONSTANTS
  Timeout = 3
  Interval = 1
  Settling = 1
  Drift = 1
  TriggerTimes <- MCTriggerTimes
  MaxChanges = 4
  Skill = {"Block", "Hatred", "Kick"}
  Starting = {"Kick"}
  Hatred = {"Hatred"}
  Characteristic <- MCCharacteristic
  MaxGained = 3
  MaxImports = 3
  MaxCurations = 2
  Unknown = Unknown
SPECIFICATION MCSpec
CONSTRAINT MCWhole
INVARIANT FoundIsGenuine
INVARIANT TextIsNotHidden
INVARIANT AnswersTheTrigger
INVARIANT EndsInTime
INVARIANT NumberingIsTrue
INVARIANT ConfirmedOrderIsTrue
INVARIANT UnspentIsExact
CHECK_DEADLOCK FALSE
