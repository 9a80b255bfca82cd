\* Event Store, three scopes, no faults: a load meets the snapshots that
\* two saves leave in either order, and calls run to their end.
SPECIFICATION FairSpec
CONSTANTS
  Scopes = {s1, s2, s3}
  SnapshotFrequency = 1
  AppendChecksVersion = TRUE
  AppliesDuringSave = FALSE
  Faults <- NoFaults
  MaxVersion = 2
INVARIANTS
  SnapshotIsPrefix
  ConflictMeansForeignWrite
PROPERTIES
  LoadsReplayTheStream
  StoredIsPublished
\* Every scope ends in the end: the system stops.
CHECK_DEADLOCK FALSE
