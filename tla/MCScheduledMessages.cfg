\* two rows, two replicas, batches of one row, one racing cancellation, one crash
SPECIFICATION FairSpec
CONSTANTS
  Schedules = {s1, s2}
  Replicas = {r1, r2}
  CancelRequests = {c1}
  BatchSize = 1
  MinLead = 1
  MaxTime = 2
  MaxCrashes = 1
  NoRow = NoRow
INVARIANTS TypeOK AtMostOneMessage RowsAreTrue
PROPERTIES SettledIsFinal ArchivedStaysSilent ImplementsContract DueRowsAreSettled
CHECK_DEADLOCK FALSE
