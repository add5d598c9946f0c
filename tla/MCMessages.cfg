\* three messages in two channels, two threads at most and three calls
SPECIFICATION Spec
CONSTANTS
  MessageIds = {m1, m2, m3}
  ThreadIds = {t1, t2}
  Channels = {c1, c2}
  Users = {u1, u2}
  Texts = {x1}
  Tombstone = Tombstone
  Requests = {r1, r2, r3}
  NoThread = NoThread
  NoMessage = NoMessage
SYMMETRY Symmetry
INVARIANTS TypeOK ThreadsAreFlat AnswersAgree
PROPERTIES SealedIsFinal
CHECK_DEADLOCK FALSE
