SPECIFICATION FairSpec
CONSTANTS
  l1 = l1
  l2 = l2
  l3 = l3
  NoOne = NoOne
  Listener <- Three
  MAX_NAME = 4
  NameLen <- Names
  INT = 2
  Backlog = 2
  KeyCap = 2
  Conditions <- CalmOrRough
INVARIANTS
  TypeOK
  NameShown
  CalmAnswerBelieved
  RefusalBelieved
  OneReceiver
PROPERTIES
  ConsentSpec
  CalmRequestsSettle
