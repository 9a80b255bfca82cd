\* Event Store, two scopes that compete, and every fault.
SPECIFICATION Spec
CONSTANTS
  Scopes = {s1, s2}
  SnapshotFrequency = 2
  AppendChecksVersion = TRUE
  AppliesDuringSave = FALSE
  Faults <- AllFaults
  MaxVersion = 3
SYMMETRY ScopeSymmetry
INVARIANTS
  TypeOK
  VersionsAreContiguous
  AuthorsSawHistory
PROPERTIES
  NothingDropped
  ImplementsEventLog
\* Every scope ends in the end: the system stops.
CHECK_DEADLOCK FALSE
