\* three calls in two channels, in the mixes of MCPosting
SPECIFICATION MixedFairSpec
CONSTANTS
  c1 = c1
  c2 = c2
  r1 = r1
  r2 = r2
  r3 = r3
  Channels = {c1, c2}
  Requests = {r1, r2, r3}
  Payloads <- MixedPayloads
  UserAttempts = 2
  BotAttempts = 1
INVARIANTS TypeOK NumbersAreFair AnswersAreTrue
PROPERTIES ImplementsLog ArchiveIsFinal EveryRequestAnswered
CHECK_DEADLOCK FALSE
