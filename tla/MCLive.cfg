SPECIFICATION LiveSpec
CONSTANTS
  Gateways = {g1, g2}  Pages = {p1}  Channels = {c1, c2}  Messages = {m1}  Calls = {k1, k2}
  c1 = c1  c2 = c2  m1 = m1  ChannelOf <- OneChannel
  MaxFaults = 2  MaxSelects = 2
  NoGateway = NoGateway  NoChannel = NoChannel  NoMessage = NoMessage
  Numbers = {1, 2}  NumberIn <- FirstOnly  PageSize = 1  MaxChanges = 1
  NoPage = NoPage  NotAsked = NotAsked  Asking = Asking
SYMMETRY Symmetry
INVARIANTS LiveTypeOK RoomsFollowThePage LatestIsShown TimelineIsTrue
CHECK_DEADLOCK FALSE
