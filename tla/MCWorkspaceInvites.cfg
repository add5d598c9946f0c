\* three calls of any kind by three users, two links
SPECIFICATION Spec
CONSTANTS
  owner = owner
  ann = ann
  bob = bob
  Users = {owner, ann, bob}
  Owner = owner
  Links = {l1, l2}
  Terms <- MixedTerms
  MailLife = 2
  GrantedRoles = {"OWNER", "MEMBER"}
  Requests = {r1, r2, r3}
  MaxTime = 1
  NoUser = NoUser
  NoLink = NoLink
SYMMETRY Symmetry
INVARIANTS TypeOK MembersWereInvited UsesAddUp
PROPERTIES RolesComeFromManagers ClosedIsFinal
CHECK_DEADLOCK FALSE
