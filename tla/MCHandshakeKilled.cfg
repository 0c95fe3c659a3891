SPECIFICATION Spec
CONSTANTS
  l1 = l1
  l2 = l2
  l3 = l3
  NoOne = NoOne
  Listener <- Three
  MAX_NAME = 4
  NameLen <- Names
  INT = 2
  Backlog = 1
  KeyCap = 1
  Conditions <- BroadcasterKilled
INVARIANTS
  AnswerBelieved
