\* Three scopes, one after the other, on the same two dump files.
SPECIFICATION Spec
CONSTANTS
  Scopes = {s1, s2, s3}
  SnapshotFrequency = 2
  MaxVersion = 4
  MaxLong = 7
SYMMETRY ScopeSymmetry
INVARIANTS
  TypeOK
  SavesSurvive
PROPERTIES
  LoadsGiveAllEvents
\* Every scope ends in the end: the system stops.
CHECK_DEADLOCK FALSE
