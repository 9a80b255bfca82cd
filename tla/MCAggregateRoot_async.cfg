\* One task and an async handler.
SPECIFICATION Spec
CONSTANTS
  Tasks = {t1}
  HandlerKinds <- AsyncHandlers
  LoadedVersions = {0}
  MaxVersion = 2
  NoId = NoId
  LoadedId = LoadedId
  None = None
PROPERTIES
  StateChangesInApply
CHECK_DEADLOCK FALSE
