\* The in-memory provider shared by two scopes.
SPECIFICATION Spec
CONSTANTS
  Scopes = {s1, s2}
  SnapshotFrequency = 2
  AppendChecksVersion = FALSE
  AppliesDuringSave = FALSE
  Faults <- NoFaults
  MaxVersion = 2
INVARIANTS
  VersionsAreContiguous
\* Every scope ends in the end: the system stops.
CHECK_DEADLOCK FALSE
