SPECIFICATION Spec
CONSTANTS
  OldModes <- OneMode
  Restores = {TRUE, FALSE}
  Lines = 2
  Cols = 2
  Characters = {" ", "x", "low"}
  Styles <- FewStyles
  Terminals = {"console", "conemu", "wt"}
  Cases <- FewCases
INVARIANTS TypeOK ShellRestored CellsAsAsked CacheSound CursorAsSet
CHECK_DEADLOCK FALSE
