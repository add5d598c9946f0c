\* two resetPassword calls with the token of one forgotPassword
SPECIFICATION Spec
CONSTANTS
  Requests = {r1, r2, r3}
  MaxTime = 1
  RefreshLife = 2
  ResetLife = 2
  NoToken = NoToken
SYMMETRY Symmetry
INVARIANTS ResetTokenIsOneTime
CHECK_DEADLOCK FALSE
