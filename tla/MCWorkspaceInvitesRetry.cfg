\* one user accepts a link for one member twice
SPECIFICATION Spec
CONSTANTS
  owner = owner
  ann = ann
  bob = bob
  Users = {owner, ann, bob}
  Owner = owner
  Links = {l1}
  Terms <- MixedTerms
  MailLife = 2
  GrantedRoles = {"OWNER", "MEMBER"}
  Requests = {r1, r2, r3}
  MaxTime = 1
  NoUser = NoUser
  NoLink = NoLink
SYMMETRY Symmetry
INVARIANTS AcceptanceIsIdempotent
CHECK_DEADLOCK FALSE
