\* Two tasks on one instance and handlers of every kind.
SPECIFICATION FairSpec
CONSTANTS
  Tasks = {t1, t2}
  HandlerKinds <- AllHandlers
  LoadedVersions = {0}
  MaxVersion = 2
  NoId = NoId
  LoadedId = LoadedId
  None = None
INVARIANTS
  TypeOK
  ChangesLeadToVersion
  ResultIsTrue
  StateIsReplayable
PROPERTIES
  CallsEnd
\* At MaxVersion nobody makes an event any more; a nested call is stuck.
CHECK_DEADLOCK FALSE
