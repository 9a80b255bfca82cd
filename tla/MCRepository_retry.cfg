\* One scope alone saves again after its publisher has failed.
SPECIFICATION Spec
CONSTANTS
  Scopes = {s1}
  SnapshotFrequency = 2
  AppendChecksVersion = TRUE
  AppliesDuringSave = FALSE
  Faults <- PublisherFaults
  MaxVersion = 2
INVARIANTS
  ModifiedExternallyIsTrue
\* Every scope ends in the end: the system stops.
CHECK_DEADLOCK FALSE
