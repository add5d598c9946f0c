\* three users, one of them a newcomer, two channels of any kind
SPECIFICATION Spec
CONSTANTS
  Users = {u1, u2, u3}
  Founders = {u1, u2}
  Managers = {u1, u2}
  ChannelIds = {c1, c2}
  PlainNames = {n1}
  Requests = {r1}
  NoChannel = NoChannel
  Nobody = Nobody
SYMMETRY Symmetry
INVARIANTS TypeOK MembershipIsSound
PROPERTIES CirclesStayClosed
CHECK_DEADLOCK FALSE
