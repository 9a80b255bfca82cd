\* Two tasks, two aggregates and a third instance.
SPECIFICATION FairSpec
CONSTANTS
  Tasks = {t1, t2}
  MaxObjects = 2
  Ids = {a, b}
  MaxVersion = 1
  NoId = NoId
  None = None
INVARIANTS
  TypeOK
  OneInstancePerId
  SaveIsComplete
PROPERTIES
  SavesInOrder
  CallsEnd
CHECK_DEADLOCK FALSE
