------------------------ MODULE WorkspaceInvitesProofs ------------------------
(***************************************************************************)
(* Theorems about WorkspaceInvites, for any finite set of users and any    *)
(* number of links and concurrent calls.                                   *)
(***************************************************************************)
EXTENDS WorkspaceInvites, FiniteSetTheorems, TLAPS

\* A call knows what its next round trip writes; a link that does not exist
\* has no uses yet.
CallsOK ==
  /\ \A r \in Requests :
       /\ pc[r] \in {"makeLink", "mailLink", "addMember", "setRole", "findUser"} =>
            role[r] \in Roles
       /\ pc[r] \in {"mailLink", "addMember", "setRole", "findUser", "findAcceptance",
                     "rejoin", "reserve"} => user[r] \in Users
       /\ pc[r] \in {"findAcceptance", "rejoin", "reserve", "revokeLink"} => link[r] \in made
       /\ pc[r] \in {"findAcceptance", "rejoin", "reserve"} =>
            user[r] \in accounts /\ user[r] \in terms[link[r]].recipients
       /\ pc[r] = "rejoin" => Accepted(r)
       /\ pc[r] = "setRole" => member[user[r]] # "none"

Unmade == \A l \in Links \ made : uses[l] = 0

Types == TypeOK /\ CallsOK

\* The inductive invariant.
IInv ==
  /\ Types
  /\ Unmade
  /\ UseCountMatches
  /\ LimitRespected
  /\ AcceptedAreMembers
  /\ MembersWereInvited

LEMMA TermFacts ==
  ASSUME NEW t \in Term
  PROVE  /\ t.role \in Roles
         /\ t.maxUses \in Nat
         /\ t.recipients \in SUBSET Users
         /\ t.life \in Nat \ {0}
BY DEF Term

LEMMA InitIInv == Init => IInv
<1> SUFFICES ASSUME Init PROVE IInv
  OBVIOUS
<1> USE InviteAssumption DEF Init
<1>1. [role |-> "MEMBER", maxUses |-> 0, recipients |-> {}, life |-> 1] \in Term
  BY DEF Term, Roles
<1>2. TypeOK
  BY <1>1 DEF TypeOK, Roles, Steps
<1>3. CallsOK
  BY DEF CallsOK
<1>4. UseCountMatches
  <2>1. \A l \in Links : AcceptedBy(l) = {}
    BY DEF AcceptedBy
  <2>2. QED
    BY <2>1, FS_EmptySet DEF UseCountMatches
<1>5. AcceptedAreMembers /\ MembersWereInvited /\ LimitRespected /\ Unmade
  BY DEF AcceptedAreMembers, MembersWereInvited, LimitRespected, Unmade, AcceptedBy
<1>6. QED
  BY <1>2, <1>3, <1>4, <1>5 DEF IInv, Types

\* A new link disturbs no call: what is known of the other links stays.
LEMMA CreateTypes ==
  ASSUME Types, NEW r \in Requests, NEW l \in Links, NEW t \in Term, Create(r, l, t)
  PROVE  Types'
<1>1. now + t.life \in Nat /\ t.role \in Roles
  BY TermFacts, InviteAssumption DEF Types, TypeOK
<1>2. TypeOK'
  <2>1. terms' \in [Links -> Term]
    BY DEF Types, TypeOK, Create
  <2>2. revoked' \subseteq made' /\ accepted' \subseteq made' \X accounts' /\ made' \subseteq Links
    BY DEF Types, TypeOK, Create
  <2>3. expires' \in [Links -> Nat]
    BY <1>1 DEF Types, TypeOK, Create
  <2>4. pc' \in [Requests -> Steps]
    BY DEF Types, TypeOK, Create, Finish, Goto, Steps
  <2>5. UNCHANGED <<accounts, member, uses, user, link, role, clock, now, added>>
    BY DEF Create, call
  <2>6. QED
    BY <2>1, <2>2, <2>3, <2>4, <2>5 DEF Types, TypeOK
<1>3. \A m \in made : terms'[m] = terms[m]
  BY DEF Types, TypeOK, Create, NewCode
<1>4. CallsOK'
  BY <1>3 DEF Types, TypeOK, CallsOK, Create, Finish, Goto, call, Accepted
<1>5. QED
  BY <1>2, <1>4 DEF Types

\* The link that invite mails has well-formed terms.
LEMMA MailedTerm ==
  ASSUME Types, NEW r \in Requests, pc[r] = "mailLink"
  PROVE  [role |-> role[r], maxUses |-> 1, recipients |-> {user[r]}, life |-> MailLife] \in Term
<1>1. role[r] \in Roles /\ user[r] \in Users
  BY DEF Types, CallsOK
<1>2. QED
  BY <1>1, InviteAssumption DEF Term

\* What managing calls do to the types.
LEMMA ManageTypes ==
  ASSUME Types, NEW r \in Requests, Manage(r) PROVE Types'
<1> USE InviteAssumption DEF Goto, Finish, Steps, table, links, call
<1>1. ASSUME NEW a \in Users, NEW ro \in GrantedRoles, LinkCheck(r, a, ro)
      PROVE  Types'
  BY <1>1 DEF LinkCheck, Types, TypeOK, CallsOK, Accepted
<1>2. ASSUME NEW a \in Users, NEW u \in Users, NEW ro \in GrantedRoles, InviteCheck(r, a, u, ro)
      PROVE  Types'
  BY <1>2 DEF InviteCheck, Types, TypeOK, CallsOK, Accepted
<1>3. ASSUME NEW a \in Users, NEW u \in Users, NEW ro \in GrantedRoles, RoleCheck(r, a, u, ro)
      PROVE  Types'
  BY <1>3 DEF RoleCheck, Types, TypeOK, CallsOK, Accepted
<1>4. ASSUME NEW l \in Links, NEW t \in Terms, MakeLink(r, l, t) PROVE Types'
  BY <1>4, CreateTypes DEF MakeLink
<1>5. ASSUME NEW l \in Links, InviteMail(r, l) PROVE Types'
  BY <1>5, CreateTypes, MailedTerm DEF InviteMail
<1>6. CASE InviteFindUser(r)
  BY <1>6 DEF InviteFindUser, Types, TypeOK, CallsOK, Accepted
<1>7. CASE InviteAdd(r)
  <2>1. user[r] \in Users /\ role[r] \in Roles /\ role[r] # "none"
    BY <1>7 DEF InviteAdd, Types, CallsOK, Roles
  <2>2. QED
    BY <1>7, <2>1 DEF InviteAdd, Types, TypeOK, CallsOK, Accepted
<1>8. ASSUME NEW a \in Users, NEW l \in Links, RevokeCheck(r, a, l) PROVE Types'
  BY <1>8 DEF RevokeCheck, Types, TypeOK, CallsOK, Accepted
<1>9. CASE RevokeLink(r)
  <2>1. link[r] \in made
    BY <1>9 DEF RevokeLink, Types, CallsOK
  <2>2. revoked' \subseteq made
    BY <1>9, <2>1 DEF RevokeLink, Types, TypeOK
  <2>3. TypeOK'
    BY <1>9, <2>2 DEF RevokeLink, Types, TypeOK
  <2>4. CallsOK'
    BY <1>9 DEF RevokeLink, Types, TypeOK, CallsOK, Accepted
  <2>5. QED
    BY <2>3, <2>4 DEF Types
<1>10. CASE SetRole(r)
  <2>1. user[r] \in Users /\ role[r] \in Roles /\ role[r] # "none"
    BY <1>10 DEF SetRole, Types, CallsOK, Roles
  <2>2. QED
    BY <1>10, <2>1 DEF SetRole, Types, TypeOK, CallsOK, Accepted
<1>11. QED
  BY <1>1, <1>2, <1>3, <1>4, <1>5, <1>6, <1>7, <1>8, <1>9, <1>10 DEF Manage

\* Joining gives a role to who has none.
LEMMA JoinFacts ==
  ASSUME Types, NEW u \in Users, NEW l \in Links, Join(u, l)
  PROVE  /\ member' \in [Users -> Roles \cup {"none"}]
         /\ member'[u] # "none"
         /\ \A v \in Users : member[v] # "none" => member'[v] = member[v]
         /\ \A v \in Users \ {u} : member'[v] = member[v]
<1>1. terms[l].role \in Roles /\ terms[l].role # "none"
  BY TermFacts DEF Types, TypeOK, Roles
<1>2. QED
  BY <1>1 DEF Join, Types, TypeOK

\* What accepting does to the types.
LEMMA AcceptTypes ==
  ASSUME Types, NEW r \in Requests, Accept(r) PROVE Types'
<1> USE DEF Goto, Finish, Steps, table, links, call
<1>1. ASSUME NEW u \in Users, NEW l \in Links, AcceptRead(r, u, l) PROVE Types'
  BY <1>1 DEF AcceptRead, InForce, InForceAt, Types, TypeOK, CallsOK, Accepted
<1>2. ASSUME NEW u \in Users, NEW l \in Links, AcceptRefused(r, u, l) PROVE Types'
  BY <1>2 DEF AcceptRefused, Types, TypeOK, CallsOK, Accepted
<1>3. CASE AcceptLookup(r)
  BY <1>3 DEF AcceptLookup, Types, TypeOK, CallsOK, Accepted
<1>4. CASE Rejoin(r)
  <2>1. user[r] \in Users /\ link[r] \in Links
    BY <1>4 DEF Rejoin, Types, TypeOK, CallsOK
  <2>2. /\ member' \in [Users -> Roles \cup {"none"}]
        /\ \A v \in Users : member[v] # "none" => member'[v] # "none"
    BY <1>4, <2>1, JoinFacts DEF Rejoin
  <2>3. QED
    BY <1>4, <2>2 DEF Rejoin, Types, TypeOK, CallsOK, Accepted
<1>5. CASE Reserve(r)
  <2>1. user[r] \in Users /\ link[r] \in Links /\ link[r] \in made /\ user[r] \in accounts
    BY <1>5 DEF Reserve, Types, TypeOK, CallsOK
  <2>2. /\ member' \in [Users -> Roles \cup {"none"}]
        /\ \A v \in Users : member[v] # "none" => member'[v] # "none"
    BY <1>5, <2>1, JoinFacts DEF Reserve
  <2>3. TypeOK'
    BY <1>5, <2>1, <2>2 DEF Reserve, Count, Record, Types, TypeOK
  <2>4. CallsOK'
    BY <1>5, <2>2 DEF Reserve, Record, Types, TypeOK, CallsOK, Accepted
  <2>5. QED
    BY <2>3, <2>4 DEF Types
<1>6. CASE ReserveRefused(r)
  BY <1>6 DEF ReserveRefused, Types, TypeOK, CallsOK, Accepted
<1>7. QED
  BY <1>1, <1>2, <1>3, <1>4, <1>5, <1>6 DEF Accept

\* Every step preserves the types.
LEMMA StepTypes ==
  ASSUME Types, [Next]_vars PROVE Types'
<1>1. ASSUME NEW u \in Users, Register(u) PROVE Types'
  BY <1>1 DEF Register, links, call, Types, TypeOK, CallsOK, Accepted
<1>2. ASSUME NEW r \in Requests, Fail(r) PROVE Types'
  BY <1>2 DEF Fail, Goto, Steps, table, call, Types, TypeOK, CallsOK, Accepted
<1>3. CASE Tick \/ UNCHANGED vars
  BY <1>3, InviteAssumption DEF Tick, vars, table, call, Types, TypeOK, CallsOK, Accepted
<1>4. QED
  BY <1>1, <1>2, <1>3, ManageTypes, AcceptTypes DEF Next

-------------------------------------------------------------------------------

\* What the transaction does to the counts.
LEMMA ReserveCounts ==
  ASSUME Types, NEW r \in Requests, Reserve(r),
         NEW l \in Links, l = link[r], NEW u \in Users, u = user[r]
  PROVE  /\ l \in made /\ u \notin AcceptedBy(l)
         /\ AcceptedBy(l)' = AcceptedBy(l) \cup {u}
         /\ \A m \in Links \ {l} : AcceptedBy(m)' = AcceptedBy(m)
         /\ uses' = [uses EXCEPT ![l] = @ + 1]
<1>1. l \in made
  BY DEF Reserve, Types, CallsOK
<1>2. accepted' = accepted \cup {<<l, u>>} /\ <<l, u>> \notin accepted
  BY DEF Reserve, Record, Accepted
<1>3. uses' = [uses EXCEPT ![l] = @ + 1]
  BY DEF Reserve, Count
<1>4. \A m \in Links, v \in Users :
        <<m, v>> \in accepted' <=> <<m, v>> \in accepted \/ (m = l /\ v = u)
  BY <1>2
<1>5. QED
  BY <1>1, <1>2, <1>3, <1>4 DEF AcceptedBy

\* The call of a reservation is about a link and a user.
LEMMA ReserveCall ==
  ASSUME Types, NEW r \in Requests, pc[r] \in {"reserve", "rejoin"}
  PROVE  /\ \E l \in Links : l = link[r]
         /\ \E u \in Users : u = user[r]
BY DEF Types, TypeOK, CallsOK

\* The steps that leave the counts alone: everything but Create and Reserve.
LEMMA OtherSteps ==
  ASSUME [Next]_vars
  PROVE  \/ \E r \in Requests, l \in Links, t \in Terms : MakeLink(r, l, t)
         \/ \E r \in Requests, l \in Links : InviteMail(r, l)
         \/ \E r \in Requests : Reserve(r)
         \/ UNCHANGED <<made, terms, expires, uses, accepted>>
BY DEF Next, Manage, Accept, Register, LinkCheck, InviteCheck, InviteFindUser, InviteAdd,
   RevokeCheck, RevokeLink, RoleCheck, SetRole, AcceptRead, AcceptRefused, AcceptLookup,
   Rejoin, ReserveRefused, Fail, Tick, vars, table, links

Counts == UseCountMatches /\ LimitRespected /\ Unmade

\* A link that is new has no uses and so no acceptance.
LEMMA CreateCounts ==
  ASSUME Types, Counts, NEW r \in Requests, NEW l \in Links, NEW t \in Term, Create(r, l, t)
  PROVE  Counts'
<1>1. UNCHANGED <<uses, accepted>> /\ made' = made \cup {l} /\ l \notin made
        /\ terms' = [terms EXCEPT ![l] = t]
  BY DEF Create, NewCode
<1>2. UseCountMatches'
  BY <1>1 DEF Counts, UseCountMatches, AcceptedBy
<1>3. uses[l] = 0 /\ t.maxUses \in Nat
  BY <1>1, TermFacts DEF Counts, Unmade
<1>4. LimitRespected'
  BY <1>1, <1>3 DEF Counts, LimitRespected, Types, TypeOK
<1>5. QED
  BY <1>1, <1>2, <1>4 DEF Counts, Unmade

\* Every step preserves what is said of the counts.
LEMMA StepCounts ==
  ASSUME Types, Counts, [Next]_vars PROVE Counts'
<1>1. ASSUME NEW r \in Requests, NEW l \in Links, NEW t \in Terms, MakeLink(r, l, t)
      PROVE  Counts'
  BY <1>1, CreateCounts, InviteAssumption DEF MakeLink
<1>2. ASSUME NEW r \in Requests, NEW l \in Links, InviteMail(r, l)
      PROVE  Counts'
  BY <1>2, CreateCounts, MailedTerm DEF InviteMail
<1>3. ASSUME NEW r \in Requests, Reserve(r)
      PROVE  Counts'
  <2>1. PICK l \in Links : l = link[r]
    BY <1>3, ReserveCall DEF Reserve
  <2>2. PICK u \in Users : u = user[r]
    BY <1>3, ReserveCall DEF Reserve
  <2>3. /\ l \in made /\ u \notin AcceptedBy(l)
        /\ AcceptedBy(l)' = AcceptedBy(l) \cup {u}
        /\ \A m \in Links \ {l} : AcceptedBy(m)' = AcceptedBy(m)
        /\ uses' = [uses EXCEPT ![l] = @ + 1]
    BY <1>3, <2>1, <2>2, ReserveCounts
  <2>4. UNCHANGED <<made, terms>> /\ HasRoom(l)
    BY <1>3, <2>1 DEF Reserve, links
  <2>5. uses \in [Links -> Nat] /\ made \subseteq Links /\ terms \in [Links -> Term]
    BY DEF Types, TypeOK
  <2>6. Cardinality(AcceptedBy(l) \cup {u}) = Cardinality(AcceptedBy(l)) + 1
    <3>1. IsFiniteSet(AcceptedBy(l))
      BY FS_Subset, InviteAssumption DEF AcceptedBy
    <3>2. QED
      BY <2>3, <3>1, FS_AddElement
  <2>7. UseCountMatches'
    BY <2>3, <2>5, <2>6 DEF Counts, UseCountMatches
  <2>8. LimitRespected'
    <3>1. \A m \in made : terms[m].maxUses \in Nat
      BY <2>5, TermFacts
    <3>2. QED
      BY <2>3, <2>4, <2>5, <3>1 DEF Counts, LimitRespected, HasRoom
  <2>9. Unmade'
    BY <2>3, <2>4, <2>5 DEF Counts, Unmade
  <2>10. QED
    BY <2>7, <2>8, <2>9 DEF Counts
<1>4. CASE UNCHANGED <<made, terms, expires, uses, accepted>>
  BY <1>4 DEF Counts, UseCountMatches, LimitRespected, Unmade, AcceptedBy
<1>5. QED
  BY <1>1, <1>2, <1>3, <1>4, OtherSteps

-------------------------------------------------------------------------------

Membership == AcceptedAreMembers /\ MembersWereInvited

\* Steps that take no membership away and add only members with a reason.
LEMMA MembershipKept ==
  ASSUME Types, Membership, NEW S \in SUBSET Users,
         \A u \in Users : member[u] # "none" => member'[u] # "none",
         \A u \in Users \ S : member'[u] = member[u],
         \A u \in S : \/ u \in added'
                      \/ \E l \in made' : <<l, u>> \in accepted' /\ u \in terms'[l].recipients,
         added \subseteq added', made \subseteq made', accepted \subseteq accepted',
         \A l \in made : terms'[l] = terms[l],
         \A l \in Links : \A u \in AcceptedBy(l)' \ AcceptedBy(l) : member'[u] # "none"
  PROVE  Membership'
<1>1. AcceptedAreMembers'
  <2> SUFFICES ASSUME NEW l \in Links, NEW u \in AcceptedBy(l)'
               PROVE  member'[u] # "none"
    BY DEF AcceptedAreMembers
  <2>1. u \in Users
    BY DEF AcceptedBy
  <2>2. CASE u \in AcceptedBy(l)
    BY <2>1, <2>2 DEF Membership, AcceptedAreMembers
  <2>3. CASE u \notin AcceptedBy(l)
    BY <2>3
  <2>4. QED
    BY <2>2, <2>3
<1>2. MembersWereInvited'
  <2> SUFFICES ASSUME NEW u \in Users, member'[u] # "none"
               PROVE  \/ u = Owner
                      \/ u \in added'
                      \/ \E l \in made' : <<l, u>> \in accepted' /\ u \in terms'[l].recipients
    BY DEF MembersWereInvited
  <2>1. CASE u \in S
    BY <2>1
  <2>2. CASE u \notin S
    BY <2>2 DEF Membership, MembersWereInvited
  <2>3. QED
    BY <2>1, <2>2
<1>3. QED
  BY <1>1, <1>2 DEF Membership

\* Every step preserves what is said of the members.
LEMMA StepMembers ==
  ASSUME Types, Membership, [Next]_vars PROVE Membership'
<1>1. ASSUME NEW r \in Requests, NEW l \in Links, NEW t \in Term, Create(r, l, t)
      PROVE  Membership'
  <2>1. /\ UNCHANGED <<member, accepted, added>> /\ made' = made \cup {l}
        /\ \A m \in made : terms'[m] = terms[m]
    BY <1>1 DEF Create, NewCode, Types, TypeOK
  <2>2. \A m \in Links : AcceptedBy(m)' = AcceptedBy(m)
    BY <2>1 DEF AcceptedBy
  <2>3. /\ {} \in SUBSET Users
        /\ \A v \in Users \ {} : member'[v] = member[v]
    BY <2>1
  <2>4. QED
    BY <2>1, <2>2, <2>3, MembershipKept
<1>2. ASSUME NEW r \in Requests, InviteAdd(r)
      PROVE  Membership'
  <2>1. PICK u \in Users : u = user[r]
    BY <1>2 DEF InviteAdd, Types, CallsOK
  <2>2. /\ member' = [member EXCEPT ![u] = role[r]] /\ role[r] # "none"
        /\ added' = added \cup {u} /\ UNCHANGED <<made, terms, accepted>>
    BY <1>2, <2>1 DEF InviteAdd, links, Types, CallsOK, Roles
  <2>3. \A m \in Links : AcceptedBy(m)' = AcceptedBy(m)
    BY <2>2 DEF AcceptedBy
  <2>4. \A v \in Users : (member[v] # "none" => member'[v] # "none")
                           /\ (v \notin {u} => member'[v] = member[v])
    BY <2>2 DEF Types, TypeOK
  <2>5. QED
    BY <2>2, <2>3, <2>4, MembershipKept
<1>3. ASSUME NEW r \in Requests, SetRole(r)
      PROVE  Membership'
  <2>1. PICK u \in Users : u = user[r]
    BY <1>3 DEF SetRole, Types, CallsOK
  <2>2. /\ member' = [member EXCEPT ![u] = role[r]] /\ role[r] # "none" /\ member[u] # "none"
        /\ UNCHANGED <<added, made, terms, accepted>>
    BY <1>3, <2>1 DEF SetRole, links, Types, CallsOK, Roles
  <2>3. \A v \in Users : member'[v] # "none" <=> member[v] # "none"
    BY <2>2 DEF Types, TypeOK
  <2>4. QED
    BY <2>2, <2>3 DEF Membership, AcceptedAreMembers, MembersWereInvited, AcceptedBy
<1>4. ASSUME NEW r \in Requests, Rejoin(r)
      PROVE  Membership'
  <2>1. PICK u \in Users : u = user[r]
    BY <1>4, ReserveCall DEF Rejoin
  <2>2. PICK l \in Links : l = link[r]
    BY <1>4, ReserveCall DEF Rejoin
  <2>3. /\ Join(u, l) /\ UNCHANGED <<added, made, terms, accepted>>
        /\ l \in made /\ <<l, u>> \in accepted /\ u \in terms[l].recipients
    BY <1>4, <2>1, <2>2 DEF Rejoin, links, Types, CallsOK, Accepted
  <2>4. \A m \in Links : AcceptedBy(m)' = AcceptedBy(m)
    BY <2>3 DEF AcceptedBy
  <2>5. /\ \A v \in Users : member[v] # "none" => member'[v] # "none"
        /\ \A v \in Users \ {u} : member'[v] = member[v]
    BY <2>3, JoinFacts
  <2>6. /\ {u} \in SUBSET Users
        /\ \A v \in {u} : \E m \in made' : <<m, v>> \in accepted' /\ v \in terms'[m].recipients
    BY <2>3
  <2>7. QED
    BY <2>3, <2>4, <2>5, <2>6, MembershipKept
<1>5. ASSUME NEW r \in Requests, Reserve(r)
      PROVE  Membership'
  <2>1. PICK u \in Users : u = user[r]
    BY <1>5, ReserveCall DEF Reserve
  <2>2. PICK l \in Links : l = link[r]
    BY <1>5, ReserveCall DEF Reserve
  <2>3. /\ Join(u, l) /\ UNCHANGED <<added, made, terms>>
        /\ accepted' = accepted \cup {<<l, u>>}
        /\ l \in made /\ u \in terms[l].recipients
    BY <1>5, <2>1, <2>2 DEF Reserve, Record, links, Types, CallsOK
  <2>4. /\ AcceptedBy(l)' = AcceptedBy(l) \cup {u}
        /\ \A m \in Links \ {l} : AcceptedBy(m)' = AcceptedBy(m)
    BY <1>5, <2>1, <2>2, ReserveCounts
  <2>5. /\ \A v \in Users : member[v] # "none" => member'[v] # "none"
        /\ \A v \in Users \ {u} : member'[v] = member[v]
        /\ member'[u] # "none"
    BY <2>3, JoinFacts
  <2>6. /\ {u} \in SUBSET Users
        /\ \A v \in {u} : \E m \in made' : <<m, v>> \in accepted' /\ v \in terms'[m].recipients
    BY <2>3
  <2>7. \A m \in Links : \A v \in AcceptedBy(m)' \ AcceptedBy(m) : member'[v] # "none"
    BY <2>4, <2>5
  <2>8. accepted \subseteq accepted'
    BY <2>3
  <2>9. QED
    BY <2>3, <2>5, <2>6, <2>7, <2>8, MembershipKept
<1>6. CASE UNCHANGED <<member, made, terms, accepted, added>>
  BY <1>6 DEF Membership, AcceptedAreMembers, MembersWereInvited, AcceptedBy
<1>7. \/ \E r \in Requests, l \in Links, t \in Terms : MakeLink(r, l, t)
      \/ \E r \in Requests, l \in Links : InviteMail(r, l)
      \/ \E r \in Requests : InviteAdd(r) \/ SetRole(r) \/ Rejoin(r) \/ Reserve(r)
      \/ UNCHANGED <<member, made, terms, accepted, added>>
  BY DEF Next, Manage, Accept, Register, LinkCheck, InviteCheck, InviteFindUser, RevokeCheck,
     RevokeLink, RoleCheck, AcceptRead, AcceptRefused, AcceptLookup, ReserveRefused, Fail,
     Tick, vars, table, links
<1>8. ASSUME NEW r \in Requests, NEW l \in Links, NEW t \in Terms, MakeLink(r, l, t)
      PROVE  Membership'
  BY <1>1, <1>8, InviteAssumption DEF MakeLink
<1>9. ASSUME NEW r \in Requests, NEW l \in Links, InviteMail(r, l)
      PROVE  Membership'
  BY <1>1, <1>9, MailedTerm DEF InviteMail
<1>10. QED
  BY <1>2, <1>3, <1>4, <1>5, <1>6, <1>7, <1>8, <1>9

LEMMA Invariance == Spec => []IInv
<1>1. IInv /\ [Next]_vars => IInv'
  BY StepTypes, StepCounts, StepMembers DEF IInv, Counts, Membership
<1>2. QED
  BY InitIInv, <1>1, PTL DEF Spec

-------------------------------------------------------------------------------

\* Rows and local variables keep their types (TypeOK).
THEOREM TypeCorrect == Spec => []TypeOK
<1>1. IInv => TypeOK
  BY DEF IInv, Types
<1>2. QED
  BY Invariance, <1>1, PTL

\* useCount is the number of acceptances, never beyond maxUses, and who
\* accepted is a member.
THEOREM UsesAreCounted == Spec => []UsesAddUp
<1>1. IInv => UsesAddUp
  BY DEF IInv, UsesAddUp
<1>2. QED
  BY Invariance, <1>1, PTL

\* Every member was asked in.
THEOREM MembersHaveAReason == Spec => []MembersWereInvited
<1>1. IInv => MembersWereInvited
  BY DEF IInv
<1>2. QED
  BY Invariance, <1>1, PTL

\* A closed link stays closed: revocation holds against every call, expiry
\* against those that look at the clock afterwards.
THEOREM ClosedForGood == Spec => ClosedIsFinal
<1>1. Types /\ [Next]_vars =>
        [\A l \in made :
           /\ AcceptedBy(l)' # AcceptedBy(l) =>
                /\ l \notin revoked
                /\ \E r \in Requests :
                     pc[r] = "reserve" /\ link[r] = l /\ clock[r] < expires[l]
           /\ l \in revoked => l \in revoked'
           /\ expires[l] <= now => (expires[l] <= now)']_vars
  <2> SUFFICES ASSUME Types, [Next]_vars, NEW l \in made
               PROVE  /\ AcceptedBy(l)' # AcceptedBy(l) =>
                           /\ l \notin revoked
                           /\ \E r \in Requests :
                                pc[r] = "reserve" /\ link[r] = l /\ clock[r] < expires[l]
                      /\ l \in revoked => l \in revoked'
                      /\ expires[l] <= now => (expires[l] <= now)'
    OBVIOUS
  <2>1. revoked \subseteq revoked' /\ l \in Links
    <3>1. revoked' = revoked \/ \E r \in Requests : RevokeLink(r)
      BY DEF Next, Manage, Accept, Register, LinkCheck, MakeLink, Create, InviteCheck,
         InviteFindUser, InviteAdd, InviteMail, RevokeCheck, RoleCheck, SetRole, AcceptRead,
         AcceptRefused, AcceptLookup, Rejoin, Reserve, ReserveRefused, Fail, Tick, vars,
         table, links
    <3>2. QED
      BY <3>1 DEF RevokeLink, Types, TypeOK
  <2>2. expires'[l] = expires[l]
    <3>1. ASSUME NEW r \in Requests, NEW m \in Links, NEW t \in Term, Create(r, m, t)
          PROVE  expires'[l] = expires[l]
      BY <3>1 DEF Create, NewCode, Types, TypeOK
    <3>2. ASSUME NEW r \in Requests, NEW m \in Links, NEW t \in Terms, MakeLink(r, m, t)
          PROVE  expires'[l] = expires[l]
      BY <3>1, <3>2, InviteAssumption DEF MakeLink
    <3>3. ASSUME NEW r \in Requests, NEW m \in Links, InviteMail(r, m)
          PROVE  expires'[l] = expires[l]
      BY <3>1, <3>3, MailedTerm DEF InviteMail
    <3>4. ASSUME NEW r \in Requests, Reserve(r)
          PROVE  expires'[l] = expires[l]
      BY <3>4 DEF Reserve, links
    <3>5. QED
      BY <3>2, <3>3, <3>4, OtherSteps
  <2>3. now' \in Nat /\ now \in Nat /\ now' >= now /\ expires[l] \in Nat
    <3>1. now \in Nat /\ expires[l] \in Nat
      BY <2>1, InviteAssumption DEF Types, TypeOK
    <3>2. now' = now \/ now' = now + 1
      BY DEF Next, Manage, Accept, Register, LinkCheck, MakeLink, Create, InviteCheck,
         InviteFindUser, InviteAdd, InviteMail, RevokeCheck, RevokeLink, RoleCheck, SetRole,
         AcceptRead, AcceptRefused, AcceptLookup, Rejoin, Reserve, ReserveRefused, Fail, Tick,
         vars
    <3>3. QED
      BY <3>1, <3>2
  <2>4. ASSUME AcceptedBy(l)' # AcceptedBy(l)
        PROVE  /\ l \notin revoked
               /\ \E r \in Requests :
                    pc[r] = "reserve" /\ link[r] = l /\ clock[r] < expires[l]
    <3>1. PICK r \in Requests : Reserve(r)
      <4>1. accepted' # accepted
        BY <2>4 DEF AcceptedBy
      <4>2. QED
        BY <4>1, OtherSteps DEF MakeLink, InviteMail, Create
    <3>2. PICK u \in Users : u = user[r]
      BY <3>1, ReserveCall DEF Reserve
    <3>3. PICK m \in Links : m = link[r]
      BY <3>1, ReserveCall DEF Reserve
    <3>4. m = l
      BY <2>1, <2>4, <3>1, <3>2, <3>3, ReserveCounts
    <3>5. QED
      BY <3>1, <3>3, <3>4 DEF Reserve, InForceAt
  <2>5. QED
    BY <2>1, <2>2, <2>3, <2>4
<1>2. IInv => Types
  BY DEF IInv
<1>3. QED
  BY Invariance, <1>1, <1>2, PTL DEF Spec, ClosedIsFinal

\* Accepting a link changes no role that managers gave.
THEOREM ManagersGiveRoles == Spec => RolesComeFromManagers
<1>1. Types /\ [Next]_vars =>
        [\A u \in Users :
           member[u] # "none" /\ member'[u] # member[u] =>
             \E r \in Requests : user[r] = u /\ pc[r] \in {"addMember", "setRole"}]_vars
  <2> SUFFICES ASSUME Types, [Next]_vars, NEW u \in Users, member[u] # "none",
                      member'[u] # member[u]
               PROVE  \E r \in Requests : user[r] = u /\ pc[r] \in {"addMember", "setRole"}
    OBVIOUS
  <2>1. ASSUME NEW r \in Requests, Rejoin(r) \/ Reserve(r)
        PROVE  FALSE
    <3>1. pc[r] \in {"reserve", "rejoin"} /\ Join(user[r], link[r])
      BY <2>1 DEF Rejoin, Reserve
    <3>2. user[r] \in Users /\ link[r] \in Links
      BY <3>1, ReserveCall
    <3>3. QED
      BY <3>1, <3>2, JoinFacts
  <2>2. ASSUME NEW r \in Requests, InviteAdd(r) \/ SetRole(r)
        PROVE  user[r] = u /\ pc[r] \in {"addMember", "setRole"}
    BY <2>2 DEF InviteAdd, SetRole, Types, TypeOK
  <2>3. \E r \in Requests : InviteAdd(r) \/ SetRole(r) \/ Rejoin(r) \/ Reserve(r)
    BY DEF Next, Manage, Accept, Register, LinkCheck, MakeLink, InviteMail, Create, InviteCheck,
       InviteFindUser, RevokeCheck, RevokeLink, RoleCheck, AcceptRead, AcceptRefused,
       AcceptLookup, ReserveRefused, Fail, Tick, vars, table, links
  <2>4. QED
    BY <2>1, <2>2, <2>3
<1>2. IInv => Types
  BY DEF IInv
<1>3. QED
  BY Invariance, <1>1, <1>2, PTL DEF Spec, RolesComeFromManagers
===============================================================================
