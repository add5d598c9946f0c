\* three calls of createDirectChannel by two users, among other channels
SPECIFICATION Spec
CONSTANTS
  Users = {u1, u2}
  Founders = {u1, u2}
  Managers = {u1, u2}
  ChannelIds = {c1, c2}
  PlainNames = {n1}
  Requests = {r1, r2, r3}
  NoChannel = NoChannel
  Nobody = Nobody
SYMMETRY Symmetry
INVARIANTS DirectsAreFound
CHECK_DEADLOCK FALSE
