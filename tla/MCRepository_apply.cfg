\* An event is applied while the save of its instance is awaited.
SPECIFICATION Spec
CONSTANTS
  Scopes = {s1}
  SnapshotFrequency = 2
  AppendChecksVersion = TRUE
  AppliesDuringSave = TRUE
  Faults <- NoFaults
  MaxVersion = 2
PROPERTIES
  NothingDropped
\* Every scope ends in the end: the system stops.
CHECK_DEADLOCK FALSE
