\* one message, edited and deleted by two calls of its author
SPECIFICATION Spec
CONSTANTS
  MessageIds = {m1}
  ThreadIds = {t1}
  Channels = {c1}
  Users = {u1}
  Texts = {x1}
  Tombstone = Tombstone
  Requests = {r1, r2}
  NoThread = NoThread
  NoMessage = NoMessage
SYMMETRY Symmetry
INVARIANTS DeletedSaysNothing
CHECK_DEADLOCK FALSE
