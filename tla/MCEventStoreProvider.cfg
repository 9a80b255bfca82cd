\* Two tasks of one scope read a stream of up to four events, two by two.
SPECIFICATION FairSpec
CONSTANTS
  Tasks = {t1, t2}
  PageSize = 2
  Starts <- MCStarts
  Counts <- MCCounts
  MaxEvents = 4
INVARIANTS
  TypeOK
  ReadIsRange
  RefusedOnlyInside
  ConnectionIsClosed
PROPERTIES
  CallsEnd
