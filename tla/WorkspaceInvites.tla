--------------------------- MODULE WorkspaceInvites ---------------------------
(***************************************************************************)
(* The members of one workspace and its invite links, in                   *)
(* workspace-service: creating, revoking and accepting links, inviting by  *)
(* mail address and changing roles. One action is one database round trip, *)
(* or the transaction of acceptInviteLink. A call reads the authority of   *)
(* its actor in one round trip and writes in a later one.                  *)
(***************************************************************************)
EXTENDS Integers, FiniteSets

CONSTANTS
  Users,         \* mail addresses, with or without an account
  Owner,         \* who created the workspace
  Links,         \* identities of WorkspaceInviteLink rows
  Terms,         \* what links may be created with, see Term
  MailLife,      \* life of a link sent by mail ("expiresInHours: 72")
  GrantedRoles,  \* the roles calls ask for
  Requests,      \* calls of the operations
  MaxTime,       \* bound: the clock stops here
  NoUser, NoLink

Roles == {"OWNER", "ADMIN", "MEMBER", "GUEST"}

\* maxUses = 0 is null; recipients are the users whose address the link's
\* invitedEmail and allowedDomain admit
Term == [role : Roles, maxUses : Nat, recipients : SUBSET Users, life : Nat \ {0}]

ASSUME InviteAssumption ==
  /\ Owner \in Users
  /\ IsFiniteSet(Users)
  /\ Terms \subseteq Term
  /\ MailLife \in Nat \ {0}
  /\ GrantedRoles \subseteq Roles
  /\ MaxTime \in Nat
  /\ NoUser \notin Users
  /\ NoLink \notin Links

VARIABLES
  accounts,  \* users that have registered
  member,    \* role of a WorkspaceMember row, "none" without a row
  made,      \* links that exist
  terms,     \* what a link was created with
  expires,   \* expiresAt
  uses,      \* useCount
  revoked,   \* links with isRevoked
  accepted,  \* WorkspaceInviteAcceptance rows: link and user
  pc,        \* the next round trip of a call
  user,      \* the user a call is about
  link,      \* the link a call is about
  role,      \* the role a call asks for
  clock,     \* when acceptInviteLink looked at the clock
  now,       \* clock
  added      \* history: users made members by invite, without a link

table == <<accounts, member, made, terms, expires, uses, revoked, accepted>>
links == <<made, terms, expires, revoked>>
call  == <<user, link, role, clock>>
vars  == <<table, pc, call, now, added>>

Steps == {"new", "makeLink", "findUser", "addMember", "mailLink", "revokeLink", "setRole",
          "findAcceptance", "rejoin", "reserve", "ok", "refused", "failed"}

Init ==
  /\ accounts = {Owner}
  /\ member = [u \in Users |-> IF u = Owner THEN "OWNER" ELSE "none"]
  /\ made = {}
  /\ terms = [l \in Links |-> [role |-> "MEMBER", maxUses |-> 0, recipients |-> {}, life |-> 1]]
  /\ expires = [l \in Links |-> 0]
  /\ uses = [l \in Links |-> 0]
  /\ revoked = {}
  /\ accepted = {}
  /\ pc = [r \in Requests |-> "new"]
  /\ user = [r \in Requests |-> NoUser]
  /\ link = [r \in Requests |-> NoLink]
  /\ role = [r \in Requests |-> "none"]
  /\ clock = [r \in Requests |-> 0]
  /\ now = 0
  /\ added = {}

Goto(r, step) == pc' = [pc EXCEPT ![r] = step]

\* the answer, or a later audit row or mail, may fail: the effect stays
Finish(r) == \E outcome \in {"ok", "failed"} : Goto(r, outcome)

\* ensureCanManageMembers; only owners deal with owners
Manages(a, ro) ==
  /\ member[a] \in {"OWNER", "ADMIN"}
  /\ ro = "OWNER" => member[a] = "OWNER"

\* ensureInviteLinkCanBeAccepted, and the where clause of the reservation
HasRoom(l) == terms[l].maxUses = 0 \/ uses[l] < terms[l].maxUses
InForceAt(l, time) == l \in made \ revoked /\ time < expires[l]
InForce(l) == InForceAt(l, now)

Accepted(r) == <<link[r], user[r]>> \in accepted

\* wrong: the update of the upsert is not empty (a plausible mistake, see below)
JoinOverwriting(u, l) == member' = [member EXCEPT ![u] = terms[l].role]

\* upsert with an empty update: the link's role for who is not a member yet
Join(u, l) ==
  member' = [member EXCEPT ![u] = IF @ = "none" THEN terms[l].role ELSE @]

\* the rows of the transaction of acceptInviteLink
Count(l)  == uses' = [uses EXCEPT ![l] = @ + 1]
Record(r) == accepted' = accepted \cup {<<link[r], user[r]>>}

-------------------------------------------------------------------------------
(* Plausible mistakes. None of them is part of Next: each variant is what a  *)
(* property of this module is there to tell apart from the action it alters. *)

\* wrong: the mail address of the caller is not compared with the link's
AcceptReadAnybody(r, u, l) ==
  /\ pc[r] = "new"
  /\ u \in accounts
  /\ InForce(l) /\ HasRoom(l)
  /\ user' = [user EXCEPT ![r] = u]
  /\ link' = [link EXCEPT ![r] = l]
  /\ Goto(r, "findAcceptance")
  /\ UNCHANGED <<table, role, clock, now, added>>

\* wrong: the account is not looked up
AcceptReadNobody(r, u, l) ==
  /\ pc[r] = "new"
  /\ InForce(l) /\ HasRoom(l)
  /\ u \in terms[l].recipients
  /\ user' = [user EXCEPT ![r] = u]
  /\ link' = [link EXCEPT ![r] = l]
  /\ Goto(r, "findAcceptance")
  /\ UNCHANGED <<table, role, clock, now, added>>

\* wrong: the limit was checked when the link was read
ReserveOnRead(r) ==
  /\ pc[r] = "reserve"
  /\ InForceAt(link[r], clock[r])
  /\ ~Accepted(r)
  /\ Count(link[r]) /\ Join(user[r], link[r]) /\ Record(r)
  /\ Finish(r)
  /\ UNCHANGED <<accounts, links, call, now, added>>

\* wrong: revocation and expiry were checked when the link was read
ReserveOutOfForce(r) ==
  /\ pc[r] = "reserve"
  /\ HasRoom(link[r])
  /\ ~Accepted(r)
  /\ Count(link[r]) /\ Join(user[r], link[r]) /\ Record(r)
  /\ Finish(r)
  /\ UNCHANGED <<accounts, links, call, now, added>>

\* wrong: no transaction, the count stays when the acceptance row is refused
ReserveOutsideTransaction(r) ==
  /\ pc[r] = "reserve"
  /\ InForceAt(link[r], clock[r]) /\ HasRoom(link[r])
  /\ Count(link[r]) /\ Join(user[r], link[r]) /\ Record(r)
  /\ Finish(r)
  /\ UNCHANGED <<accounts, links, call, now, added>>

\* wrong: membership is left to a later call
ReserveWithoutMembership(r) ==
  /\ pc[r] = "reserve"
  /\ InForceAt(link[r], clock[r]) /\ HasRoom(link[r])
  /\ ~Accepted(r)
  /\ Count(link[r]) /\ Record(r)
  /\ Finish(r)
  /\ UNCHANGED <<accounts, member, links, call, now, added>>

-------------------------------------------------------------------------------
(* Managing. A call that is refused at its first reads changes nothing.      *)

\* register, in auth-service
Register(u) ==
  /\ u \notin accounts
  /\ accounts' = accounts \cup {u}
  /\ UNCHANGED <<member, links, uses, accepted, pc, call, now, added>>

\* createInviteLink, its ensureWorkspaceManager
LinkCheck(r, a, ro) ==
  /\ pc[r] = "new"
  /\ Manages(a, ro)
  /\ role' = [role EXCEPT ![r] = ro]
  /\ Goto(r, "makeLink")
  /\ UNCHANGED <<table, user, link, clock, now, added>>

\* generateUniqueInviteCode; if five codes in a row are taken, the call is refused
NewCode(l) == l \notin made

\* createInviteLinkEntity
Create(r, l, t) ==
  /\ NewCode(l)
  /\ t.role = role[r]
  /\ made' = made \cup {l}
  /\ terms' = [terms EXCEPT ![l] = t]
  /\ expires' = [expires EXCEPT ![l] = now + t.life]
  /\ Finish(r)
  /\ UNCHANGED <<accounts, member, uses, revoked, accepted, call, now, added>>

MakeLink(r, l, t) == pc[r] = "makeLink" /\ Create(r, l, t)

\* invite checks its actor
InviteCheck(r, a, u, ro) ==
  /\ pc[r] = "new"
  /\ Manages(a, ro)
  /\ user' = [user EXCEPT ![r] = u]
  /\ role' = [role EXCEPT ![r] = ro]
  /\ Goto(r, "findUser")
  /\ UNCHANGED <<table, link, clock, now, added>>

\* invite looks the account up
InviteFindUser(r) ==
  /\ pc[r] = "findUser"
  /\ Goto(r, IF user[r] \in accounts THEN "addMember" ELSE "mailLink")
  /\ UNCHANGED <<table, call, now, added>>

\* invite of an account: the role is set, whoever had which one before
InviteAdd(r) ==
  /\ pc[r] = "addMember"
  /\ member' = [member EXCEPT ![user[r]] = role[r]]
  /\ added' = added \cup {user[r]}
  /\ Finish(r)
  /\ UNCHANGED <<accounts, links, uses, accepted, call, now>>

\* invite of an address: a link for one use, by that address
InviteMail(r, l) ==
  /\ pc[r] = "mailLink"
  /\ Create(r, l, [role |-> role[r], maxUses |-> 1, recipients |-> {user[r]},
                   life |-> MailLife])

RevokeCheck(r, a, l) ==
  /\ pc[r] = "new"
  /\ l \in made
  /\ Manages(a, terms[l].role)
  /\ link' = [link EXCEPT ![r] = l]
  /\ Goto(r, "revokeLink")
  /\ UNCHANGED <<table, user, role, clock, now, added>>

RevokeLink(r) ==
  /\ pc[r] = "revokeLink"
  /\ revoked' = revoked \cup {link[r]}
  /\ Finish(r)
  /\ UNCHANGED <<accounts, member, made, terms, expires, uses, accepted, call, now, added>>

\* setRole reads both memberships; the new role is not looked at
RoleCheck(r, a, u, ro) ==
  /\ pc[r] = "new"
  /\ member[u] # "none"
  /\ Manages(a, member[u])
  /\ user' = [user EXCEPT ![r] = u]
  /\ role' = [role EXCEPT ![r] = ro]
  /\ Goto(r, "setRole")
  /\ UNCHANGED <<table, link, clock, now, added>>

SetRole(r) ==
  /\ pc[r] = "setRole"
  /\ member' = [member EXCEPT ![user[r]] = role[r]]
  /\ Finish(r)
  /\ UNCHANGED <<accounts, links, uses, accepted, call, now, added>>

-------------------------------------------------------------------------------
(* acceptInviteLink *)

\* the link and the user are read, then looked at
AcceptRead(r, u, l) ==
  /\ pc[r] = "new"
  /\ u \in accounts
  /\ InForce(l) /\ HasRoom(l)
  /\ u \in terms[l].recipients
  /\ user' = [user EXCEPT ![r] = u]
  /\ link' = [link EXCEPT ![r] = l]
  /\ Goto(r, "findAcceptance")
  /\ UNCHANGED <<table, role, clock, now, added>>

AcceptRefused(r, u, l) ==
  /\ pc[r] = "new"
  /\ u \in accounts
  /\ l \in made
  /\ ~InForce(l) \/ ~HasRoom(l) \/ u \notin terms[l].recipients
  /\ user' = [user EXCEPT ![r] = u]
  /\ link' = [link EXCEPT ![r] = l]
  /\ Goto(r, "refused")
  /\ UNCHANGED <<table, role, clock, now, added>>

\* the clock is read before the transaction begins
AcceptLookup(r) ==
  /\ pc[r] = "findAcceptance"
  /\ clock' = [clock EXCEPT ![r] = now]
  /\ Goto(r, IF Accepted(r) THEN "rejoin" ELSE "reserve")
  /\ UNCHANGED <<table, user, link, role, now, added>>

\* accepted before: membership is made sure of
Rejoin(r) ==
  /\ pc[r] = "rejoin"
  /\ Join(user[r], link[r])
  /\ Finish(r)
  /\ UNCHANGED <<accounts, links, uses, accepted, call, now, added>>

\* the transaction: reserve a use, join, record the acceptance
Reserve(r) ==
  /\ pc[r] = "reserve"
  /\ InForceAt(link[r], clock[r]) /\ HasRoom(link[r])
  /\ ~Accepted(r)
  /\ Count(link[r]) /\ Join(user[r], link[r]) /\ Record(r)
  /\ Finish(r)
  /\ UNCHANGED <<accounts, links, call, now, added>>

\* the reservation finds nothing to update, or the unique index on
\* (inviteLinkId, userId) throws: the transaction is rolled back
ReserveRefused(r) ==
  /\ pc[r] = "reserve"
  /\ ~InForceAt(link[r], clock[r]) \/ ~HasRoom(link[r]) \/ Accepted(r)
  /\ Goto(r, "refused")
  /\ UNCHANGED <<table, call, now, added>>

-------------------------------------------------------------------------------

\* a round trip throws or the process dies between two of them
Fail(r) ==
  /\ pc[r] \notin {"new", "ok", "refused", "failed"}
  /\ Goto(r, "failed")
  /\ UNCHANGED <<table, call, now, added>>

Tick ==
  /\ now < MaxTime
  /\ now' = now + 1
  /\ UNCHANGED <<table, pc, call, added>>

Manage(r) ==
  \/ \E a \in Users, ro \in GrantedRoles :
       \/ LinkCheck(r, a, ro)
       \/ \E u \in Users : InviteCheck(r, a, u, ro) \/ RoleCheck(r, a, u, ro)
  \/ \E l \in Links, t \in Terms : MakeLink(r, l, t)
  \/ InviteFindUser(r) \/ InviteAdd(r)
  \/ \E l \in Links : InviteMail(r, l)
  \/ \E a \in Users, l \in Links : RevokeCheck(r, a, l)
  \/ RevokeLink(r) \/ SetRole(r)

Accept(r) ==
  \/ \E u \in Users, l \in Links : AcceptRead(r, u, l) \/ AcceptRefused(r, u, l)
  \/ AcceptLookup(r) \/ Rejoin(r) \/ Reserve(r) \/ ReserveRefused(r)

Next ==
  \/ \E u \in Users : Register(u)
  \/ \E r \in Requests : Manage(r) \/ Accept(r) \/ Fail(r)
  \/ Tick

Spec == Init /\ [][Next]_vars

-------------------------------------------------------------------------------
(* Properties *)

\* Types, and the foreign keys of the acceptances: a link and an account.
TypeOK ==
  /\ accounts \subseteq Users
  /\ member \in [Users -> Roles \cup {"none"}]
  /\ made \subseteq Links
  /\ terms \in [Links -> Term]
  /\ expires \in [Links -> Nat]
  /\ uses \in [Links -> Nat]
  /\ revoked \subseteq made
  /\ accepted \subseteq made \X accounts
  /\ pc \in [Requests -> Steps]
  /\ user \in [Requests -> Users \cup {NoUser}]
  /\ link \in [Requests -> Links \cup {NoLink}]
  /\ role \in [Requests -> Roles \cup {"none"}]
  /\ clock \in [Requests -> 0..MaxTime]
  /\ now \in 0..MaxTime
  /\ added \subseteq Users

AcceptedBy(l) == {u \in Users : <<l, u>> \in accepted}

\* useCount is the number of users that accepted the link: no retry, race or
\* rolled back transaction counts twice, or records without counting.
UseCountMatches == \A l \in Links : uses[l] = Cardinality(AcceptedBy(l))

\* However many calls saw room in the link when they read it, maxUses holds.
LimitRespected ==
  \A l \in made : terms[l].maxUses > 0 => uses[l] <= terms[l].maxUses

\* An acceptance and its membership are stored together.
AcceptedAreMembers == \A l \in Links : \A u \in AcceptedBy(l) : member[u] # "none"

\* Count, limit, acceptances and memberships of a link agree at any moment.
UsesAddUp == UseCountMatches /\ LimitRespected /\ AcceptedAreMembers

\* Every member created the workspace, was added by a manager, or accepted a
\* link that admits his address.
MembersWereInvited ==
  \A u \in Users : member[u] # "none" =>
    \/ u = Owner
    \/ u \in added
    \/ \E l \in made : <<l, u>> \in accepted /\ u \in terms[l].recipients

\* A revoked link takes nobody in, not even calls that read it before; an
\* expired one only calls that looked at the clock in time; and no link that
\* is closed opens again.
ClosedIsFinal ==
  [][\A l \in made :
       /\ AcceptedBy(l)' # AcceptedBy(l) =>
            /\ l \notin revoked
            /\ \E r \in Requests :
                 pc[r] = "reserve" /\ link[r] = l /\ clock[r] < expires[l]
       /\ l \in revoked => l \in revoked'
       /\ expires[l] <= now => (expires[l] <= now)']_vars

\* A member keeps the role that managers gave him: accepting links, for the
\* first time or again, changes the role of nobody who is a member.
RolesComeFromManagers ==
  [][\A u \in Users :
       member[u] # "none" /\ member'[u] # member[u] =>
         \E r \in Requests : user[r] = u /\ pc[r] \in {"addMember", "setRole"}]_vars

\* docs/database-schema-and-tech-stack.md:29: "invite acceptance audit and
\* idempotency record". A user who has accepted a link is not refused when the
\* call is repeated while the link is in force.
AcceptanceIsIdempotent ==
  \A r \in Requests : pc[r] = "refused" /\ InForce(link[r]) => ~Accepted(r)
===============================================================================
