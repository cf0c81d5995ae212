SPECIFICATION Spec
CONSTANTS
  MaxAddress = 3
  Histories <- MCHistories
  Rates = {1, 3}
  Withholdings = {0, 1, 4}
  Exclusions = {{}, {1}}
  One = 2
  Denominator = 4
  NotGiven = NotGiven
  ForeignFiles = {}
  MaxAmount = 4
CHECK_DEADLOCK FALSE
INVARIANTS
  AcceptedIndicesUnique
