\* One user creates the note, two others edit it; two fields, two values.
SPECIFICATION Spec
CONSTANTS
  Users = {u1, u2, u3}
  Fields = {title, category}
  Values = {x, y}
SYMMETRY UserSymmetry
INVARIANTS
  TypeOK
  EditsFollowTheirPage
  ReplaysUnlessRaced
  CaughtUpUnlessOverlapped
PROPERTIES
  VersionNeverGoesBack
  BlockedOnceUnanswered
  HandlersEndUnlessOverlapped
\* Every user sends one command: the system stops.
CHECK_DEADLOCK FALSE
