\* five calls of any kind on one account, two seconds, tokens that expire
SPECIFICATION Spec
CONSTANTS
  Requests = {r1, r2, r3, r4, r5}
  MaxTime = 1
  RefreshLife = 1
  ResetLife = 1
  NoToken = NoToken
SYMMETRY Symmetry
INVARIANTS TypeOK ParentIsRevoked LiveSessionsAreFresh
PROPERTIES RetiredIsFinal ResetTokensSettle
CHECK_DEADLOCK FALSE
