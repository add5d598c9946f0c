---------------------------- MODULE ChannelsProofs ----------------------------
(* Proofs about Channels: who is in channels and the find-or-create of direct *)
(* channels, for any number of users, channels and calls.                     *)
EXTENDS Channels, TLAPS

-------------------------------------------------------------------------------
(* The inductive invariant *)

\* the name of a channel is unique in its workspace
NamesAreUnique ==
  \A c, d \in Existing : channels[c].name = channels[d].name => c = d

\* what createDirectChannel knows at each step
CallsKnow ==
  \A r \in Requests :
    /\ pc[r] = "new" => answer[r] = NoChannel
    /\ pc[r] \in {"create", "again"} => answer[r] = NoChannel
    /\ pc[r] = "again" => \E c \in Existing : channels[c].name = DirectName(from[r], to[r])
    /\ answer[r] # NoChannel =>
         answer[r] \in Directs /\ members[answer[r]] = DirectName(from[r], to[r])

Inv == TypeOK /\ MembersBelong /\ DirectsArePairs /\ NamesAreUnique /\ CallsKnow

\* The channel of two users is the one with their name.
LEMMA Found ==
  ASSUME Inv, NEW u, NEW v, NEW c \in Existing
  PROVE  /\ c \in DirectsOf(u, v) => c \in Directs /\ members[c] = DirectName(u, v)
         /\ c \in Directs /\ channels[c].name = DirectName(u, v) => c \in DirectsOf(u, v)
BY DEF Inv, DirectsArePairs, DirectsOf, DirectName

\* What an insertion adds, and what it leaves alone.
LEMMA InsertStep ==
  ASSUME Inv, NEW c \in ChannelIds \ Existing, NEW name \in Names, NEW type \in Types,
         NEW u \in people, NEW group \in SUBSET people,
         Insert(c, name, type, u, group)
  PROVE  /\ Existing' = Existing \cup {c}
         /\ channels' \in [Existing' -> ChannelRow]
         /\ members' \in [Existing' -> SUBSET Users]
         /\ \A d \in Existing : channels'[d] = channels[d] /\ members'[d] = members[d]
         /\ channels'[c].name = name /\ channels'[c].type = type
         /\ ~channels'[c].archived /\ members'[c] = group
         /\ Directs' = IF type = "DIRECT" THEN Directs \cup {c} ELSE Directs
<1> DEFINE row == [name |-> name, type |-> type, creator |-> u, archived |-> FALSE]
<1>1. /\ row \in ChannelRow
      /\ row.name = name /\ row.type = type /\ ~row.archived
  BY DEF ChannelRow, Inv, TypeOK
<1>2. channels' = WithRow(channels, c, row) /\ members' = WithRow(members, c, group)
  BY DEF Insert
<1> HIDE DEF row
<1>3. /\ Existing' = Existing \cup {c}
      /\ channels'[c] = row
      /\ \A d \in Existing : channels'[d] = channels[d]
      /\ channels' = [d \in Existing' |-> channels'[d]]
  BY <1>2 DEF WithRow, Existing
<1>4. channels \in [Existing -> ChannelRow] /\ members \in [Existing -> SUBSET Users]
  BY DEF Inv, TypeOK
<1>5. DOMAIN members = Existing
  BY <1>4
<1>6. /\ members'[c] = group
      /\ \A d \in Existing : members'[d] = members[d]
      /\ members' = [d \in Existing' |-> members'[d]]
  BY <1>2, <1>3, <1>5 DEF WithRow
<1>7. group \in SUBSET Users
  BY DEF Inv, TypeOK
<1>8. Directs' = IF type = "DIRECT" THEN Directs \cup {c} ELSE Directs
  BY <1>1, <1>3 DEF Directs
<1> QED
  BY <1>1, <1>3, <1>4, <1>6, <1>7, <1>8

\* The channels a call can answer with.
LEMMA AnswerStep ==
  ASSUME Inv, NEW r \in Requests, NEW c, AnswerDirect(r, c)
  PROVE  /\ pc' \in [Requests -> Steps]
         /\ pc'[r] \in {"ok", "failed"}
         /\ answer'[r] = c \/ answer'[r] = answer[r]
         /\ answer' \in [Requests -> Existing \cup {NoChannel, c}]
         /\ \A q \in Requests \ {r} : pc'[q] = pc[q] /\ answer'[q] = answer[q]
BY DEF AnswerDirect, Goto, Inv, TypeOK, Steps

\* Steps of createDirectChannel that write no row.
LEMMA LookStep ==
  ASSUME Inv, NEW r \in Requests,
         UNCHANGED <<channels, members, people>>,
         pc' \in [Requests -> Steps],
         from' \in [Requests -> people \cup {Nobody}],
         to' \in [Requests -> people \cup {Nobody}],
         answer' \in [Requests -> Existing \cup {NoChannel}],
         \A q \in Requests \ {r} :
           pc'[q] = pc[q] /\ from'[q] = from[q] /\ to'[q] = to[q] /\ answer'[q] = answer[q],
         pc'[r] # "new",
         pc'[r] \in {"create", "again"} =>
           {from'[r], to'[r]} \subseteq people /\ from'[r] # to'[r] /\ answer'[r] = NoChannel,
         pc'[r] = "again" => \E c \in Existing : channels[c].name = DirectName(from'[r], to'[r]),
         answer'[r] # NoChannel =>
           answer'[r] \in Directs /\ members[answer'[r]] = DirectName(from'[r], to'[r])
  PROVE  Inv'
<1>1. /\ channels' = channels /\ members' = members /\ people' = people
      /\ Existing' = Existing /\ Directs' = Directs
  BY DEF Existing, Directs
<1>2. TypeOK'
  BY <1>1 DEF Inv, TypeOK
<1>3. MembersBelong' /\ DirectsArePairs' /\ NamesAreUnique'
  BY <1>1 DEF Inv, MembersBelong, DirectsArePairs, NamesAreUnique
<1>4. ASSUME NEW q \in Requests
      PROVE  /\ pc'[q] = "new" => answer'[q] = NoChannel
             /\ pc'[q] \in {"create", "again"} => answer'[q] = NoChannel
             /\ pc'[q] = "again" => \E c \in Existing : channels[c].name = DirectName(from'[q], to'[q])
             /\ answer'[q] # NoChannel =>
                  answer'[q] \in Directs /\ members[answer'[q]] = DirectName(from'[q], to'[q])
  <2>1. CASE q = r
    BY <2>1
  <2>2. CASE q # r
    BY <2>2 DEF Inv, CallsKnow
  <2> QED
    BY <2>1, <2>2
<1>5. CallsKnow'
  BY <1>1, <1>4 DEF CallsKnow
<1> QED
  BY <1>2, <1>3, <1>5 DEF Inv

\* An insertion keeps the facts about channels, and what the calls know of
\* those that were there, when a direct channel gets its two users and name.
LEMMA InsertKeeps ==
  ASSUME Inv, NEW c \in ChannelIds \ Existing, NEW name \in Names, NEW type \in Types,
         NEW u \in people, NEW group \in SUBSET people,
         Insert(c, name, type, u, group), Free(name), UNCHANGED people,
         type = "DIRECT" => name \in Pairs /\ group = name
  PROVE  /\ /\ Existing' \subseteq ChannelIds /\ channels' \in [Existing' -> ChannelRow]
            /\ members' \in [Existing' -> SUBSET Users]
            /\ people' \subseteq Users
         /\ MembersBelong' /\ DirectsArePairs' /\ NamesAreUnique'
<1>1. /\ Existing' = Existing \cup {c}
      /\ channels' \in [Existing' -> ChannelRow]
      /\ members' \in [Existing' -> SUBSET Users]
      /\ \A d \in Existing : channels'[d] = channels[d] /\ members'[d] = members[d]
      /\ channels'[c].name = name /\ channels'[c].type = type
      /\ ~channels'[c].archived /\ members'[c] = group
      /\ Directs' = IF type = "DIRECT" THEN Directs \cup {c} ELSE Directs
  BY InsertStep
<1>2. Existing' \subseteq ChannelIds /\ people' \subseteq Users
  BY <1>1 DEF Inv, TypeOK
<1>3. MembersBelong'
  BY <1>1 DEF Inv, MembersBelong
<1>4. DirectsArePairs'
  <2>1. \A d \in Directs : d \in Existing
    BY DEF Directs
  <2>2. ASSUME NEW d \in Directs
        PROVE  members'[d] \in Pairs /\ members'[d] = channels'[d].name /\ ~channels'[d].archived
    BY <1>1, <2>1 DEF Inv, DirectsArePairs
  <2>3. type = "DIRECT" =>
          members'[c] \in Pairs /\ members'[c] = channels'[c].name /\ ~channels'[c].archived
    BY <1>1
  <2>4. Pairs' = Pairs
    BY DEF Pairs
  <2> QED
    BY <1>1, <2>2, <2>3 DEF DirectsArePairs
<1>5. NamesAreUnique'
  BY <1>1 DEF Inv, NamesAreUnique, Free
<1> QED
  BY <1>1, <1>2, <1>3, <1>4, <1>5

LEMMA CreateStep ==
  ASSUME Inv, NEW u \in Users, NEW c \in ChannelIds, NEW name \in Names,
         NEW private \in BOOLEAN, NEW others \in SUBSET Users,
         Create(u, c, name, private, others)
  PROVE  Inv'
<1> DEFINE type == IF others # {} \/ private THEN "PRIVATE" ELSE "PUBLIC"
           group == {u} \cup others
<1>1. /\ type \in Types /\ type # "DIRECT"
      /\ u \in people /\ group \in SUBSET people
      /\ c \in ChannelIds \ Existing
      /\ Insert(c, name, type, u, group) /\ Free(name)
      /\ UNCHANGED <<people, pc, from, to, answer>>
  BY DEF Create, InWorkspace, Types, calls
<1> HIDE DEF type, group
<1>2. /\ /\ Existing' \subseteq ChannelIds /\ channels' \in [Existing' -> ChannelRow]
         /\ members' \in [Existing' -> SUBSET Users]
         /\ people' \subseteq Users
      /\ MembersBelong' /\ DirectsArePairs' /\ NamesAreUnique'
  BY <1>1, InsertKeeps
<1>3. /\ Existing' = Existing \cup {c} /\ Directs' = Directs
      /\ \A d \in Existing : channels'[d] = channels[d] /\ members'[d] = members[d]
  BY <1>1, InsertStep
<1>4. TypeOK'
  BY <1>1, <1>2, <1>3 DEF Inv, TypeOK
<1>5. CallsKnow'
  BY <1>1, <1>3 DEF Inv, CallsKnow, Directs
<1> QED
  BY <1>2, <1>4, <1>5 DEF Inv

LEMMA DirectInsertStep ==
  ASSUME Inv, NEW r \in Requests, NEW c \in ChannelIds, DirectInsert(r, c)
  PROVE  Inv'
<1> DEFINE name == DirectName(from[r], to[r])
<1>1. /\ pc[r] = "create" /\ c \in ChannelIds \ Existing /\ Free(name)
      /\ Insert(c, name, "DIRECT", from[r], {from[r], to[r]})
      /\ AnswerDirect(r, c)
      /\ UNCHANGED <<people, from, to>>
  BY DEF DirectInsert
<1>2. {from[r], to[r]} \subseteq people /\ from[r] # to[r] /\ people \subseteq Users
  BY <1>1 DEF Inv, TypeOK
<1>3. name = {from[r], to[r]} /\ name \in Pairs /\ name \in Names
  BY <1>2 DEF DirectName, Pairs, Names
<1>4. PICK u \in people, pair \in SUBSET people :
        u = from[r] /\ pair = name
  BY <1>2, <1>3
<1>5. Insert(c, pair, "DIRECT", u, pair) /\ Free(pair) /\ pair \in Pairs /\ pair \in Names
  BY <1>1, <1>3, <1>4
<1> HIDE DEF name
<1>6. "DIRECT" \in Types
  BY DEF Types
<1>7. /\ /\ Existing' \subseteq ChannelIds /\ channels' \in [Existing' -> ChannelRow]
         /\ members' \in [Existing' -> SUBSET Users]
         /\ people' \subseteq Users
      /\ MembersBelong' /\ DirectsArePairs' /\ NamesAreUnique'
  BY <1>1, <1>5, <1>6, InsertKeeps
<1>8. /\ Existing' = Existing \cup {c} /\ Directs' = Directs \cup {c}
      /\ members'[c] = pair
      /\ \A d \in Existing : channels'[d] = channels[d] /\ members'[d] = members[d]
  BY <1>1, <1>5, <1>6, InsertStep
<1>9. /\ pc' \in [Requests -> Steps]
      /\ pc'[r] \in {"ok", "failed"}
      /\ answer'[r] = c \/ answer'[r] = answer[r]
      /\ answer' \in [Requests -> Existing \cup {NoChannel, c}]
      /\ \A q \in Requests \ {r} : pc'[q] = pc[q] /\ answer'[q] = answer[q]
  BY <1>1, AnswerStep
<1>10. TypeOK'
  <2>1. answer' \in [Requests -> Existing' \cup {NoChannel}]
    BY <1>8, <1>9
  <2>2. \A q \in Requests : pc'[q] \in {"create", "again"} => pc'[q] = pc[q]
    BY <1>9
  <2> QED
    BY <1>1, <1>7, <1>9, <2>1, <2>2 DEF Inv, TypeOK
<1>11. CallsKnow'
  <2>1. \A d \in Directs : d \in Existing
    BY DEF Directs
  <2>2. answer[r] = NoChannel
    BY <1>1 DEF Inv, CallsKnow
  <2>3. pair = DirectName(from[r], to[r])
    BY <1>4 DEF name
  <2>4. ASSUME NEW q \in Requests
        PROVE  /\ pc'[q] = "new" => answer'[q] = NoChannel
               /\ pc'[q] \in {"create", "again"} => answer'[q] = NoChannel
               /\ pc'[q] = "again" =>
                    \E d \in Existing' : channels'[d].name = DirectName(from[q], to[q])
               /\ answer'[q] # NoChannel =>
                    answer'[q] \in Directs' /\ members'[answer'[q]] = DirectName(from[q], to[q])
    <3>1. CASE q = r
      BY <1>8, <1>9, <2>2, <2>3, <3>1
    <3>2. CASE q # r
      BY <1>8, <1>9, <2>1, <3>2 DEF Inv, CallsKnow
    <3> QED
      BY <3>1, <3>2
  <2> QED
    BY <1>1, <2>4 DEF CallsKnow
<1> QED
  BY <1>7, <1>10, <1>11 DEF Inv

\* Joining, leaving and archiving change ordinary channels only, and nobody
\* leaves the workspace.
LEMMA OrdinaryStep ==
  ASSUME Inv, NEW u \in Users,
         Enter(u) \/ \E c \in ChannelIds : Join(u, c) \/ Leave(u, c) \/ Archive(u, c)
  PROVE  Inv'
<1> DEFINE Kept ==
    /\ Existing' = Existing /\ Directs' = Directs
    /\ channels' \in [Existing -> ChannelRow] /\ members' \in [Existing -> SUBSET people']
    /\ \A d \in Existing : channels'[d].name = channels[d].name
    /\ \A d \in Directs : channels'[d] = channels[d] /\ members'[d] = members[d]
    /\ people \subseteq people' /\ people' \subseteq Users
    /\ UNCHANGED calls
<1>1. Kept
  <2>1. /\ channels \in [Existing -> ChannelRow] /\ members \in [Existing -> SUBSET Users]
        /\ members \in [Existing -> SUBSET people] /\ people \subseteq Users
    BY DEF Inv, TypeOK, MembersBelong
  <2>2. CASE Enter(u)
    BY <2>1, <2>2 DEF Enter, Existing, Directs
  <2>3. ASSUME NEW c \in ChannelIds, Join(u, c) \/ Leave(u, c)
        PROVE  Kept
    <3>1. /\ channels' = channels /\ people' = people /\ UNCHANGED calls
          /\ Existing' = Existing /\ Directs' = Directs
      BY <2>3 DEF Join, Leave, Existing, Directs
    <3>2. /\ c \in Existing /\ c \notin Directs
          /\ \A d \in Existing : d # c => members'[d] = members[d]
          /\ members' \in [Existing -> SUBSET people]
      BY <2>1, <2>3 DEF Join, Leave, Directs
    <3> QED
      BY <2>1, <3>1, <3>2 DEF Directs
  <2>4. ASSUME NEW c \in ChannelIds, Archive(u, c)
        PROVE  Kept
    <3>1. /\ members' = members /\ people' = people /\ UNCHANGED calls
          /\ c \in Existing /\ c \notin Directs
          /\ channels' = [channels EXCEPT ![c].archived = TRUE]
      BY <2>4 DEF Archive
    <3>2. /\ Existing' = Existing
          /\ \A d \in Existing : d # c => channels'[d] = channels[d]
          /\ channels'[c] = [channels[c] EXCEPT !.archived = TRUE]
      BY <2>1, <3>1 DEF Existing
    <3>3. channels[c] \in ChannelRow
      BY <2>1, <3>1
    <3>4. /\ channels'[c] \in ChannelRow
          /\ channels'[c].name = channels[c].name /\ channels'[c].type = channels[c].type
      BY <3>2, <3>3 DEF ChannelRow
    <3>5. channels' \in [Existing -> ChannelRow]
      BY <2>1, <3>1, <3>2, <3>4
    <3>6. Directs' = Directs
      BY <3>2, <3>4 DEF Directs
    <3> QED
      BY <2>1, <3>1, <3>2, <3>4, <3>5, <3>6 DEF Directs
  <2> QED
    BY <2>2, <2>3, <2>4
<1>2. TypeOK'
  BY <1>1 DEF Inv, TypeOK, calls
<1>3. MembersBelong'
  BY <1>1 DEF MembersBelong
<1>4. DirectsArePairs'
  BY <1>1 DEF Inv, DirectsArePairs, Pairs
<1>5. NamesAreUnique'
  BY <1>1 DEF Inv, NamesAreUnique
<1>6. CallsKnow'
  BY <1>1 DEF Inv, CallsKnow, calls
<1> QED
  BY <1>2, <1>3, <1>4, <1>5, <1>6 DEF Inv

\* The round trips of createDirectChannel that write nothing.
LEMMA DirectStep ==
  ASSUME Inv, NEW r \in Requests,
         \/ \E u, v \in Users : DirectFound(r, u, v) \/ DirectMissing(r, u, v)
         \/ DirectConflict(r) \/ DirectFoundAgain(r) \/ DirectFail(r)
  PROVE  Inv'
<1> USE DEF DirectName
<1>1. /\ pc \in [Requests -> Steps]
      /\ from \in [Requests -> people \cup {Nobody}] /\ to \in [Requests -> people \cup {Nobody}]
      /\ answer \in [Requests -> Existing \cup {NoChannel}]
      /\ \A c \in Directs : c \in Existing
  BY DEF Inv, TypeOK, Directs
<1>2. ASSUME NEW u \in Users, NEW v \in Users, Ask(r, u, v)
      PROVE  /\ pc[r] = "new" /\ answer[r] = NoChannel
             /\ u # v /\ {u, v} \subseteq people
             /\ from'[r] = u /\ to'[r] = v
             /\ from' \in [Requests -> people \cup {Nobody}]
             /\ to' \in [Requests -> people \cup {Nobody}]
             /\ \A q \in Requests \ {r} : from'[q] = from[q] /\ to'[q] = to[q]
  BY <1>1, <1>2 DEF Ask, InWorkspace, Inv, CallsKnow
<1>3. ASSUME NEW u \in Users, NEW v \in Users, DirectFound(r, u, v) PROVE Inv'
  <2>1. PICK c \in DirectsOf(u, v) : AnswerDirect(r, c)
    BY <1>3 DEF DirectFound
  <2>2. c \in Directs /\ members[c] = DirectName(u, v)
    BY <1>1, Found DEF DirectsOf
  <2>3. Ask(r, u, v) /\ UNCHANGED <<channels, members, people>>
    BY <1>3 DEF DirectFound
  <2>4. answer' \in [Requests -> Existing \cup {NoChannel}]
    BY <1>1, <2>1, <2>2, AnswerStep
  <2>5. /\ pc' \in [Requests -> Steps]
        /\ pc'[r] \in {"ok", "failed"}
        /\ answer'[r] = c \/ answer'[r] = answer[r]
        /\ \A q \in Requests \ {r} : pc'[q] = pc[q] /\ answer'[q] = answer[q]
    BY <2>1, AnswerStep
  <2> QED
    BY <1>2, <2>2, <2>3, <2>4, <2>5, LookStep
<1>4. ASSUME NEW u \in Users, NEW v \in Users, DirectMissing(r, u, v) PROVE Inv'
  <2>1. Ask(r, u, v) /\ Goto(r, "create") /\ UNCHANGED <<channels, members, people, answer>>
    BY <1>4 DEF DirectMissing
  <2>2. /\ pc' \in [Requests -> Steps] /\ pc'[r] = "create"
        /\ \A q \in Requests \ {r} : pc'[q] = pc[q]
    BY <1>1, <2>1 DEF Goto, Steps
  <2> QED
    BY <1>1, <1>2, <2>1, <2>2, LookStep
<1>5. CASE DirectConflict(r)
  <2>1. /\ pc[r] = "create" /\ Goto(r, "again")
        /\ \E c \in Existing : channels[c].name = DirectName(from[r], to[r])
        /\ UNCHANGED <<channels, members, people, from, to, answer>>
    BY <1>5 DEF DirectConflict, Free
  <2>2. /\ pc' \in [Requests -> Steps] /\ pc'[r] = "again"
        /\ \A q \in Requests \ {r} : pc'[q] = pc[q]
    BY <1>1, <2>1 DEF Goto, Steps
  <2>3. answer[r] = NoChannel /\ {from[r], to[r]} \subseteq people /\ from[r] # to[r]
    BY <2>1 DEF Inv, TypeOK, CallsKnow
  <2> QED
    BY <1>1, <2>1, <2>2, <2>3, LookStep
<1>6. CASE DirectFoundAgain(r)
  <2>1. PICK c \in DirectsOf(from[r], to[r]) : AnswerDirect(r, c)
    BY <1>6 DEF DirectFoundAgain
  <2>2. c \in Directs /\ members[c] = DirectName(from[r], to[r])
    BY DEF DirectsOf
  <2>3. pc[r] = "again" /\ UNCHANGED <<channels, members, people, from, to>>
    BY <1>6 DEF DirectFoundAgain
  <2>4. answer[r] = NoChannel
    BY <2>3 DEF Inv, CallsKnow
  <2>5. answer' \in [Requests -> Existing \cup {NoChannel}]
    BY <1>1, <2>1, <2>2, AnswerStep
  <2>6. /\ pc' \in [Requests -> Steps]
        /\ pc'[r] \in {"ok", "failed"}
        /\ answer'[r] = c \/ answer'[r] = answer[r]
        /\ \A q \in Requests \ {r} : pc'[q] = pc[q] /\ answer'[q] = answer[q]
    BY <2>1, AnswerStep
  <2> QED
    BY <1>1, <2>2, <2>3, <2>4, <2>5, <2>6, LookStep
<1>7. CASE DirectFail(r)
  <2>1. /\ pc[r] \in {"create", "again"} /\ Goto(r, "failed")
        /\ UNCHANGED <<channels, members, people, from, to, answer>>
    BY <1>7 DEF DirectFail
  <2>2. /\ pc' \in [Requests -> Steps] /\ pc'[r] = "failed"
        /\ \A q \in Requests \ {r} : pc'[q] = pc[q]
    BY <1>1, <2>1 DEF Goto, Steps
  <2>3. answer[r] = NoChannel
    BY <2>1 DEF Inv, CallsKnow
  <2> QED
    BY <1>1, <2>1, <2>2, <2>3, LookStep
<1> QED
  BY <1>3, <1>4, <1>5, <1>6, <1>7

LEMMA InitInv == Init => Inv
<1> SUFFICES ASSUME Init PROVE Inv
  OBVIOUS
<1>1. Existing = {} /\ Directs = {}
  BY DEF Init, Existing, Directs
<1>2. TypeOK
  BY <1>1, ChannelsAssumption DEF Init, TypeOK, Steps
<1> QED
  BY <1>1, <1>2 DEF Init, Inv, MembersBelong, DirectsArePairs, NamesAreUnique, CallsKnow

LEMMA NextInv == Inv /\ [Next]_vars => Inv'
<1> SUFFICES ASSUME Inv, [Next]_vars PROVE Inv'
  OBVIOUS
<1>1. ASSUME NEW u \in Users, Manage(u) PROVE Inv'
  BY <1>1, OrdinaryStep, CreateStep DEF Manage
<1>2. ASSUME NEW r \in Requests, OpenDirect(r) PROVE Inv'
  BY <1>2, DirectStep, DirectInsertStep DEF OpenDirect
<1>3. CASE UNCHANGED vars
  <2>1. /\ channels' = channels /\ members' = members /\ people' = people
        /\ pc' = pc /\ from' = from /\ to' = to /\ answer' = answer
        /\ Existing' = Existing /\ Directs' = Directs
    BY <1>3 DEF vars, calls, Existing, Directs
  <2>2. TypeOK' /\ MembersBelong' /\ NamesAreUnique'
    BY <2>1 DEF Inv, TypeOK, MembersBelong, NamesAreUnique
  <2>3. DirectsArePairs' /\ CallsKnow'
    BY <2>1 DEF Inv, DirectsArePairs, CallsKnow, Pairs
  <2> QED
    BY <2>2, <2>3 DEF Inv
<1> QED
  BY <1>1, <1>2, <1>3 DEF Next

LEMMA Invariance == Spec => []Inv
BY InitInv, NextInv, PTL DEF Spec

-------------------------------------------------------------------------------
(* The theorems *)

\* Rows and local variables keep their types.
THEOREM TypeCorrect == Spec => []TypeOK
<1>1. Inv => TypeOK
  BY DEF Inv
<1> QED
  BY <1>1, Invariance, PTL

\* Only members of the workspace are in its channels, and a direct channel is
\* the channel of the pair it is named after, for good.
THEOREM MembershipHolds == Spec => []MembershipIsSound
<1>1. Inv => MembershipIsSound
  BY DEF Inv, MembershipIsSound
<1> QED
  BY <1>1, Invariance, PTL

\* All who open the direct channel of two users get the same one; when its name
\* is taken it is found at the second look, or no direct channel has the name.
THEOREM OneDirectChannel == Spec => []DirectsAreFound
<1>1. Inv => DirectAnswersAgree
  <2> SUFFICES ASSUME Inv, NEW r \in Requests, NEW q \in Requests, answer[r] # NoChannel
               PROVE  /\ members[answer[r]] = DirectName(from[r], to[r])
                      /\ /\ answer[q] # NoChannel
                         /\ DirectName(from[q], to[q]) = DirectName(from[r], to[r])
                         => answer[q] = answer[r]
    BY DEF DirectAnswersAgree, DirectName
  <2>1. answer[r] \in Directs /\ members[answer[r]] = DirectName(from[r], to[r])
    BY DEF Inv, CallsKnow
  <2>2. answer[q] # NoChannel =>
          answer[q] \in Directs /\ members[answer[q]] = DirectName(from[q], to[q])
    BY DEF Inv, CallsKnow
  <2>3. \A c, d \in Directs : members[c] = members[d] => c = d
    BY DEF Inv, DirectsArePairs, NamesAreUnique, Directs
  <2> QED
    BY <2>1, <2>2, <2>3
<1>2. Inv => ConflictIsResolved
  <2> SUFFICES ASSUME Inv, NEW r \in Requests, pc[r] = "again"
               PROVE  \/ DirectsOf(from[r], to[r]) # {}
                      \/ \E c \in Existing \ Directs : channels[c].name = DirectName(from[r], to[r])
    BY DEF ConflictIsResolved, DirectName
  <2>1. PICK c \in Existing : channels[c].name = DirectName(from[r], to[r])
    BY DEF Inv, CallsKnow
  <2>2. CASE c \in Directs
    <3>1. members[c] = {from[r], to[r]} /\ ~channels[c].archived
      BY <2>1, <2>2 DEF Inv, DirectsArePairs, DirectName
    <3> QED
      BY <2>2, <3>1 DEF DirectsOf
  <2> QED
    BY <2>1, <2>2
<1>3. Inv => DirectsAreFound
  BY <1>1, <1>2 DEF DirectsAreFound
<1> QED
  BY <1>3, Invariance, PTL

\* Private and direct channels take nobody in after they were made.
THEOREM ClosedCircles == Spec => CirclesStayClosed
<1>1. ASSUME Inv, [Next]_vars, NEW c \in Existing
      PROVE  /\ channels'[c].type = channels[c].type
             /\ channels[c].type # "PUBLIC" => members'[c] \subseteq members[c]
  <2>1. /\ channels \in [Existing -> ChannelRow] /\ members \in [Existing -> SUBSET Users]
        /\ channels[c] \in ChannelRow
    BY <1>1 DEF Inv, TypeOK
  <2>2. DOMAIN channels = Existing /\ DOMAIN members = Existing
    BY <2>1
  <2>3. ASSUME NEW d, NEW name, NEW type, NEW u, NEW group, d \notin Existing,
               Insert(d, name, type, u, group)
        PROVE  channels'[c] = channels[c] /\ members'[c] = members[c]
    BY <2>2, <2>3 DEF Insert, WithRow
  <2>4. ASSUME NEW u \in Users, Manage(u)
        PROVE  /\ channels'[c].type = channels[c].type
               /\ channels[c].type # "PUBLIC" => members'[c] \subseteq members[c]
    <3>1. CASE Enter(u)
      BY <3>1 DEF Enter
    <3>2. ASSUME NEW d \in ChannelIds, Join(u, d)
          PROVE  channels' = channels /\ (channels[c].type # "PUBLIC" => members'[c] = members[c])
      BY <2>1, <3>2 DEF Join
    <3>3. ASSUME NEW d \in ChannelIds, Leave(u, d)
          PROVE  channels' = channels /\ members'[c] \subseteq members[c]
      BY <2>1, <3>3 DEF Leave
    <3>4. ASSUME NEW d \in ChannelIds, Archive(u, d)
          PROVE  members' = members /\ channels'[c].type = channels[c].type
      <4>1. channels' = [channels EXCEPT ![d].archived = TRUE] /\ members' = members
        BY <3>4 DEF Archive
      <4>2. channels'[c] = IF c = d THEN [channels[c] EXCEPT !.archived = TRUE] ELSE channels[c]
        BY <2>2, <4>1
      <4> QED
        BY <2>1, <4>1, <4>2 DEF ChannelRow
    <3>5. ASSUME NEW d \in ChannelIds, NEW name \in Names, NEW private \in BOOLEAN,
                 NEW others \in SUBSET Users, Create(u, d, name, private, others)
          PROVE  channels'[c] = channels[c] /\ members'[c] = members[c]
      BY <2>3, <3>5 DEF Create
    <3> QED
      BY <2>4, <3>1, <3>2, <3>3, <3>4, <3>5 DEF Manage
  <2>5. ASSUME NEW r \in Requests, OpenDirect(r)
        PROVE  channels'[c] = channels[c] /\ members'[c] = members[c]
    <3>1. ASSUME NEW d \in ChannelIds, DirectInsert(r, d)
          PROVE  channels'[c] = channels[c] /\ members'[c] = members[c]
      BY <2>3, <3>1 DEF DirectInsert
    <3>2. ASSUME NEW u \in Users, NEW v \in Users, DirectFound(r, u, v) \/ DirectMissing(r, u, v)
          PROVE  channels' = channels /\ members' = members
      BY <3>2 DEF DirectFound, DirectMissing
    <3>3. CASE DirectConflict(r) \/ DirectFoundAgain(r) \/ DirectFail(r)
      BY <3>3 DEF DirectConflict, DirectFoundAgain, DirectFail
    <3> QED
      BY <2>5, <3>1, <3>2, <3>3 DEF OpenDirect
  <2>6. CASE UNCHANGED vars
    BY <2>6 DEF vars
  <2> QED
    BY <1>1, <2>4, <2>5, <2>6 DEF Next
<1>2. Inv /\ [Next]_vars =>
        [\A c \in Existing :
           /\ channels'[c].type = channels[c].type
           /\ channels[c].type # "PUBLIC" => members'[c] \subseteq members[c]]_vars
  BY <1>1
<1> QED
  BY <1>2, Invariance, PTL DEF Spec, CirclesStayClosed

===============================================================================
