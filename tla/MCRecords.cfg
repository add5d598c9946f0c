SPECIFICATION SmallSpec
CONSTANTS
  Channels = {c1, c2}  Texts = {t1, t2}  c1 = c1  c2 = c2  t1 = t1  t2 = t2  HomeOf <- Home
  MaxTypes = 2  MaxSelects = 2  MaxSaves = 2  MaxCalls = 1
  NoText = NoText  NoData = NoData  NotAsked = NotAsked  Asking = Asking
  InitialRows = 4  MaxRows = 5  MaxLimit = 2  MaxChanges = 3  NoCursor = NoCursor
  Tabs = {u1, u2}  Accounts = {a1, a2}  Sessions = {s1, s2}  OwnerOf <- Own  a1 = a1  a2 = a2  s1 = s1  s2 = s2
  MaxLoads = 1  MaxRequests = 2  Nobody = Nobody  NoToken = NoToken
  Resends = {r1, r2}  Verifies = {v1, v2}  Register = Register  MaxTime = 1  Life = 1
  NoLink = NoLink
  Files = {f1}  Users = {w1, w2}  Admins = {w1}  Rooms = {d1, d2}  Requests = {q1, q2, q3}
  NoChannel = NoChannel  NoMessage = NoMessage  NoUser = NoUser
  Messages = {m1, m2}  PageSize = 1  MaxClicks = 2  MaxOthers = 1
INVARIANTS RecordsTypeOK DraftsAreKept WalksAreComplete AccountIsTrue MarksAndFilesAreTrue
CHECK_DEADLOCK FALSE
