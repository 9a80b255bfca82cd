\* Two todos with two texts, batches of up to three events, seven frequencies.
SPECIFICATION ScheduleSpec
CONSTANTS
  Frequencies <- TestedFrequencies
  MaxBatch = 3
  MaxVersion = 15
  TodoIds = {t1, t2}
  UnknownId = UnknownId
  Texts = {x, y}
SYMMETRY Symmetry
INVARIANTS
  TypeOK
  ReplayIsBounded
  LoadsKeepTodosAndTexts
  OnlyOldCompletionsAreLost
PROPERTIES
  SnapshotsMarkMultiples
\* The exploration stops at MaxVersion.
CHECK_DEADLOCK FALSE
