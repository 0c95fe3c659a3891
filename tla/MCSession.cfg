SPECIFICATION Spec
CONSTANTS
  Keys <- FewKeys
  Reps <- OneOrTwo
  Buttons <- LeftAndRight
  Flags <- FirstOrSecond
  Sizes <- ThreeSizes
  Largest <- Three
  KeysWithMouse <- Letters
  Settings <- TwoSettings
  MaxRecords = 4
  Rows = 3
INVARIANTS TypeOK EventCountSound KeysInOrder ModifierAlone NoStuckButton SizeKnown ChoiceAsTyped FitIsLargest CodeNamesKey
CHECK_DEADLOCK FALSE
