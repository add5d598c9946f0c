---------------------------- MODULE PostingProofs ----------------------------
(***************************************************************************)
(* Proofs about Posting, for any number of channels, requests and attempts *)
(* of the two services.                                                    *)
(***************************************************************************)
EXTENDS Posting, TLAPS

-------------------------------------------------------------------------------
(* Rows whose sequence numbers have no hole are a sequence *)

\* On a sequence, the highest number in use is the length.
LEMMA LatestIsLen ==
  ASSUME NEW c \in Channels, timeline[c] \in Seq(Requests)
  PROVE  /\ Latest(c) = Len(timeline[c])
         /\ DOMAIN timeline[c] = 1..Len(timeline[c])
         /\ Len(timeline[c]) \in Nat
<1> DEFINE Top(n) == n \in DOMAIN timeline[c] \cup {0}
                       /\ \A m \in DOMAIN timeline[c] : m <= n
<1>1. DOMAIN timeline[c] = 1..Len(timeline[c]) /\ Len(timeline[c]) \in Nat
  OBVIOUS
<1>2. Top(Len(timeline[c]))
  BY <1>1
<1>3. ASSUME NEW n, Top(n) PROVE n = Len(timeline[c])
  <2>1. n \in 0..Len(timeline[c])
    BY <1>1, <1>3
  <2>2. Len(timeline[c]) > 0 => Len(timeline[c]) <= n
    BY <1>1, <1>3
  <2>3. QED
    BY <1>1, <2>1, <2>2
<1>4. Latest(c) = CHOOSE n : Top(n)
  BY DEF Latest
<1>5. QED
  BY <1>1, <1>2, <1>3, <1>4

\* Adding the row that comes after the last one is an append.
LEMMA WithRowIsAppend ==
  ASSUME NEW S, NEW f \in Seq(S), NEW v \in S
  PROVE  /\ WithRow(f, Len(f) + 1, v) = Append(f, v)
         /\ WithRow(f, Len(f) + 1, v) \in Seq(S)
<1>1. (1..Len(f)) \cup {Len(f) + 1} = 1..(Len(f) + 1)
  OBVIOUS
<1>2. WithRow(f, Len(f) + 1, v)
        = [m \in 1..(Len(f) + 1) |-> IF m = Len(f) + 1 THEN v ELSE f[m]]
  BY <1>1 DEF WithRow
<1>3. QED
  BY <1>2

-------------------------------------------------------------------------------
(* The inductive invariant *)

\* Every channel is a sequence of rows.
Dense == timeline \in [Channels -> Seq(Requests)]

\* A number read earlier is never beyond the next free one.
Reachable(r) == pc[r] = "insert" => next[r] \in 1..(Len(timeline[Chan(r)]) + 1)

\* Before its insertion, and if it is rejected, a request has no row.
NotYetPosted ==
  \A r \in Requests :
    pc[r] \in {"new", "check", "read", "insert", "rejected"} =>
      ~Posted(r) /\ effects[r] = {}

\* Each lost attempt read a channel that had grown by one row at least.
Grown(r) ==
  /\ pc[r] \in {"new", "check"} => conflicts[r] = 0
  /\ pc[r] \notin {"new", "check"} =>
       Len(timeline[Chan(r)]) >= base[r] + conflicts[r] \/ conflicts[r] = 0
  /\ pc[r] = "read" => Len(timeline[Chan(r)]) >= base[r] + conflicts[r]
  /\ pc[r] = "insert" => next[r] > base[r] + conflicts[r]

AllReachable == \A r \in Requests : Reachable(r)
AllGrown     == \A r \in Requests : Grown(r)

IInv ==
  /\ TypeOK
  /\ Dense
  /\ AllReachable
  /\ NotYetPosted
  /\ AllGrown
  /\ \A r \in Requests : effects[r] # {} => Posted(r)
  /\ \A r \in Requests : pc[r] \in {"after", "ok"} => Posted(r)

LEMMA PayloadFacts ==
  ASSUME TypeOK, NEW r \in Requests
  PROVE  Chan(r) \in Channels /\ AfterInsert(payload[r]) \in Seq(Effects)
<1>1. payload[r] \in Payload
  BY PostingAssumption DEF TypeOK
<1>2. Chan(r) \in Channels
  BY <1>1, Zenon DEF Payload, Chan
<1>3. AfterInsert(payload[r]) \in Seq(Effects)
  <2>1. /\ <<"files">> \in Seq(Effects) /\ <<"mentions">> \in Seq(Effects)
        /\ <<"replyNotice", "activityNotice">> \in Seq(Effects)
        /\ <<"botEvent">> \in Seq(Effects) /\ <<>> \in Seq(Effects)
    BY DEF Effects
  <2>2. \A a, b \in Seq(Effects) : a \o b \in Seq(Effects)
    OBVIOUS
  <2>3. QED
    BY <2>1, <2>2 DEF AfterInsert
<1>4. QED
  BY <1>2, <1>3

LEMMA InitIInv == Init => IInv
<1> SUFFICES ASSUME Init PROVE IInv
  OBVIOUS
<1>1. <<>> \in Seq(Requests) /\ <<>> \in Seq(Effects) /\ DOMAIN <<>> = {}
  OBVIOUS
<1>2. TypeOK
  BY <1>1 DEF Init, TypeOK, RowsOK, Steps
<1>3. Dense /\ AllReachable /\ AllGrown
  BY <1>1 DEF Init, Dense, AllReachable, AllGrown, Reachable, Grown
<1>4. \A r \in Requests : ~Posted(r)
  BY <1>1 DEF Init, Posted
<1>5. QED
  BY <1>2, <1>3, <1>4 DEF Init, IInv, NotYetPosted

\* Steps that leave the Message table alone.
LEMMA SameTimeline ==
  ASSUME IInv, UNCHANGED timeline
  PROVE  RowsOK' /\ Dense' /\ \A r \in Requests : Posted(r)' <=> Posted(r)
  BY DEF IInv, TypeOK, RowsOK, Dense, Posted

\* What an insertion does to the table: an append in the channel of r.
LEMMA InsertAppends ==
  ASSUME IInv, NEW r \in Requests, Insert(r)
  PROVE  /\ Chan(r) \in Channels
         /\ next[r] = Len(timeline[Chan(r)]) + 1
         /\ timeline' = [timeline EXCEPT ![Chan(r)] = Append(@, r)]
         /\ Dense' /\ RowsOK'
         /\ Posted(r)'
         /\ \A q \in Requests \ {r} : Posted(q)' <=> Posted(q)
         /\ \A c \in Channels : Len(timeline'[c]) \in Nat /\ Len(timeline'[c]) >= Len(timeline[c])
<1> DEFINE c == Chan(r)
           s == timeline[c]
<1>1. c \in Channels
  BY PayloadFacts DEF IInv
<1>2. s \in Seq(Requests) /\ Len(s) \in Nat /\ DOMAIN s = 1..Len(s)
  BY <1>1 DEF IInv, Dense
<1>3. next[r] = Len(s) + 1
  BY <1>2 DEF IInv, AllReachable, Reachable, Insert, Free
<1>4. timeline' = [timeline EXCEPT ![c] = Append(s, r)]
  BY <1>1, <1>2, <1>3, WithRowIsAppend DEF Insert
<1>5. Append(s, r) \in Seq(Requests) /\ Len(Append(s, r)) = Len(s) + 1
  BY <1>2
<1>6. Dense'
  BY <1>1, <1>4, <1>5 DEF IInv, Dense
<1>7. RowsOK'
  BY <1>6 DEF RowsOK, Dense
<1>8. Posted(r)'
  <2>1. Len(s) + 1 \in DOMAIN timeline'[c] /\ timeline'[c][Len(s) + 1] = r
    BY <1>1, <1>2, <1>4 DEF IInv, Dense
  <2>2. QED
    BY <1>1, <2>1 DEF Posted
<1>9. ASSUME NEW q \in Requests \ {r} PROVE Posted(q)' <=> Posted(q)
  <2>1. ASSUME NEW d \in Channels
        PROVE  (\E n \in DOMAIN timeline'[d] : timeline'[d][n] = q)
                 <=> (\E n \in DOMAIN timeline[d] : timeline[d][n] = q)
    <3>1. CASE d # c
      BY <1>1, <1>4, <3>1 DEF IInv, Dense
    <3>2. CASE d = c
      <4>1. timeline'[d] = Append(s, r)
        BY <1>1, <1>4, <3>2 DEF IInv, Dense
      <4>2. DOMAIN Append(s, r) = 1..(Len(s) + 1)
        BY <1>2
      <4>3. /\ \A n \in 1..Len(s) : Append(s, r)[n] = s[n]
            /\ Append(s, r)[Len(s) + 1] = r
        BY <1>2
      <4>4. QED
        BY <1>2, <1>9, <3>2, <4>1, <4>2, <4>3
    <3>3. QED
      BY <3>1, <3>2
  <2>2. QED
    BY <2>1 DEF Posted
<1>10. \A d \in Channels : Len(timeline'[d]) \in Nat /\ Len(timeline'[d]) >= Len(timeline[d])
  BY <1>1, <1>2, <1>4, <1>5 DEF IInv, Dense
<1>11. QED
  BY <1>1, <1>3, <1>4, <1>6, <1>7, <1>8, <1>9, <1>10

\* Facts about every request and channel that the steps below start from.
LEMMA Facts ==
  ASSUME IInv
  PROVE  /\ \A r \in Requests : Chan(r) \in Channels /\ AfterInsert(payload[r]) \in Seq(Effects)
         /\ \A c \in Channels : /\ Latest(c) = Len(timeline[c])
                                /\ Len(timeline[c]) \in Nat
                                /\ DOMAIN timeline[c] = 1..Len(timeline[c])
BY PayloadFacts, LatestIsLen DEF IInv, Dense

\* The types of everything but the Message table.
LocalTypes ==
  /\ archived \subseteq Channels
  /\ effects \in [Requests -> SUBSET Effects]
  /\ pc \in [Requests -> Steps]
  /\ payload \in [Requests -> Payloads]
  /\ conflicts \in [Requests -> Nat]
  /\ next \in [Requests -> Nat]
  /\ todo \in [Requests -> Seq(Effects)]
  /\ base \in [Requests -> Nat]

\* Every step preserves the types.
LEMMA StepTypes ==
  ASSUME IInv, [Next]_vars PROVE TypeOK' /\ Dense'
<1>1. RowsOK' /\ Dense'
  <2>1. CASE \E r \in Requests : Insert(r)
    BY <2>1, InsertAppends
  <2>2. CASE UNCHANGED timeline
    BY <2>2, SameTimeline
  <2>3. QED
    BY <2>1, <2>2 DEF Next, Serve, Handle, Submit, CheckPasses, CheckRejects, ReadLatest,
       Conflict, StoreEffect, Answer, Fail, Archive, store, request, vars
<1>2. LocalTypes
  BY DEF IInv, TypeOK, LocalTypes
<1>3. LocalTypes'
  <2> USE <1>2 DEF LocalTypes, Steps, Goto, store, request
  <2>1. ASSUME NEW r \in Requests, Submit(r) \/ CheckRejects(r) \/ Answer(r) \/ Fail(r)
        PROVE  LocalTypes'
    BY <2>1 DEF Submit, CheckRejects, Answer, Fail
  <2>2. ASSUME NEW r \in Requests, CheckPasses(r) PROVE LocalTypes'
    <3>1. Latest(Chan(r)) \in Nat
      BY Facts
    <3>2. QED
      BY <2>2, <3>1 DEF CheckPasses
  <2>3. ASSUME NEW r \in Requests, ReadLatest(r) PROVE LocalTypes'
    <3>1. Latest(Chan(r)) + 1 \in Nat
      BY Facts
    <3>2. QED
      BY <2>3, <3>1 DEF ReadLatest
  <2>4. ASSUME NEW r \in Requests, Insert(r) PROVE LocalTypes'
    <3>1. AfterInsert(payload[r]) \in Seq(Effects)
      BY Facts
    <3>2. QED
      BY <2>4, <3>1 DEF Insert
  <2>5. ASSUME NEW r \in Requests, Conflict(r) PROVE LocalTypes'
    BY <2>5 DEF Conflict
  <2>6. ASSUME NEW r \in Requests, StoreEffect(r) PROVE LocalTypes'
    <3>1. Head(todo[r]) \in Effects /\ Tail(todo[r]) \in Seq(Effects)
      BY <2>6 DEF StoreEffect
    <3>2. QED
      BY <2>6, <3>1 DEF StoreEffect
  <2>7. ASSUME NEW c \in Channels, Archive(c) PROVE LocalTypes'
    BY <2>7 DEF Archive
  <2>8. CASE UNCHANGED vars
    BY <2>8 DEF vars
  <2>9. QED
    BY <2>1, <2>2, <2>3, <2>4, <2>5, <2>6, <2>7, <2>8 DEF Next, Serve, Handle
<1>4. QED
  BY <1>1, <1>3 DEF TypeOK, LocalTypes

\* What a request stands at, as far as numbers are concerned.
Counters(r) == Reachable(r) /\ Grown(r)

\* A request that does not move keeps what it knows while its channel grows.
LEMMA CountersGrow ==
  ASSUME IInv, NEW q \in Requests,
         Chan(q)' = Chan(q), next'[q] = next[q], base'[q] = base[q],
         conflicts'[q] = conflicts[q], pc'[q] = pc[q],
         Len(timeline'[Chan(q)]) \in Nat,
         Len(timeline'[Chan(q)]) >= Len(timeline[Chan(q)])
  PROVE  Counters(q)'
<1>1. /\ next[q] \in Nat /\ base[q] \in Nat /\ conflicts[q] \in Nat
      /\ Len(timeline[Chan(q)]) \in Nat
      /\ Counters(q)
  BY Facts DEF IInv, TypeOK, AllReachable, AllGrown, Counters
<1> HIDE DEF Chan
<1>2. QED
  BY <1>1 DEF Counters, Reachable, Grown

\* Every step preserves what requests know about the numbers.
LEMMA StepCounters ==
  ASSUME IInv, [Next]_vars PROVE AllReachable' /\ AllGrown'
<1> SUFFICES ASSUME NEW q \in Requests PROVE Counters(q)'
  BY DEF Counters, AllReachable, AllGrown
<1>1. /\ next[q] \in Nat /\ base[q] \in Nat /\ conflicts[q] \in Nat
      /\ Chan(q) \in Channels /\ Latest(Chan(q)) = Len(timeline[Chan(q)])
      /\ Len(timeline[Chan(q)]) \in Nat
      /\ DOMAIN timeline[Chan(q)] = 1..Len(timeline[Chan(q)])
      /\ Counters(q)
  BY Facts DEF IInv, TypeOK, AllReachable, AllGrown, Counters
<1>2. pc \in [Requests -> Steps] /\ conflicts \in [Requests -> Nat]
        /\ next \in [Requests -> Nat] /\ base \in [Requests -> Nat]
  BY DEF IInv, TypeOK
<1>3. \A d \in Channels :
        Len(timeline'[d]) \in Nat /\ Len(timeline'[d]) >= Len(timeline[d])
  <2>1. CASE \E r \in Requests : Insert(r)
    BY <2>1, InsertAppends
  <2>2. CASE UNCHANGED timeline
    BY <2>2, Facts
  <2>3. QED
    BY <2>1, <2>2 DEF Next, Serve, Handle, Submit, CheckPasses, CheckRejects, ReadLatest,
       Conflict, StoreEffect, Answer, Fail, Archive, store, request, vars
<1>4. UNCHANGED payload
  BY DEF Next, Serve, Handle, Submit, CheckPasses, CheckRejects, ReadLatest, Insert,
     Conflict, StoreEffect, Answer, Fail, Archive, store, request, vars
<1>5. Chan(q)' = Chan(q)
  BY <1>4 DEF Chan
<1>6. CASE /\ UNCHANGED <<next, conflicts, base>>
           /\ pc'[q] = pc[q]
  BY <1>1, <1>3, <1>5, <1>6, CountersGrow
<1> HIDE DEF IInv, Chan
\* the steps of q itself
<1>7. CASE Submit(q) \/ CheckRejects(q) \/ Answer(q) \/ Fail(q)
  <2>1. /\ UNCHANGED <<timeline, next, conflicts, base>>
        /\ \/ pc[q] = "new" /\ pc'[q] = "check"
           \/ pc[q] \in {"check", "read", "insert", "after"}
                /\ pc'[q] \in {"rejected", "ok", "failed"}
    BY <1>2, <1>7 DEF Submit, CheckRejects, Answer, Fail, Goto, store
  <2>2. QED
    BY <1>1, <1>5, <2>1 DEF Counters, Reachable, Grown
<1>8. CASE CheckPasses(q)
  <2>1. /\ UNCHANGED <<timeline, next, conflicts>>
        /\ base'[q] = Latest(Chan(q))
        /\ pc[q] = "check" /\ pc'[q] = "read"
    BY <1>2, <1>8 DEF CheckPasses, Goto, store
  <2>2. QED
    BY <1>1, <1>5, <2>1 DEF Counters, Reachable, Grown
\* the number read is the next free one, now
<1>9. CASE ReadLatest(q)
  <2>1. /\ UNCHANGED <<timeline, base, conflicts>>
        /\ next'[q] = Latest(Chan(q)) + 1
        /\ pc[q] = "read" /\ pc'[q] = "insert"
    BY <1>2, <1>9 DEF ReadLatest, Goto, store
  <2>2. QED
    BY <1>1, <1>5, <2>1 DEF Counters, Reachable, Grown
<1>10. CASE Insert(q)
  <2>1. /\ UNCHANGED <<next, base, conflicts>>
        /\ pc[q] = "insert" /\ pc'[q] \in {"after", "failed"}
    BY <1>2, <1>10 DEF Insert, Goto
  <2>2. Len(timeline'[Chan(q)]) \in Nat /\ Len(timeline'[Chan(q)]) >= Len(timeline[Chan(q)])
    BY <1>1, <1>3
  <2>3. Len(timeline[Chan(q)]) >= base[q] + conflicts[q] \/ conflicts[q] = 0
    BY <1>1, <2>1 DEF Counters, Grown
  <2>4. Len(timeline'[Chan(q)]) >= base[q] + conflicts[q] \/ conflicts[q] = 0
    BY <1>1, <2>2, <2>3
  <2>5. QED
    BY <1>5, <2>1, <2>4 DEF Counters, Reachable, Grown
\* the number is taken, so the channel has reached it since it was read
<1>11. CASE Conflict(q)
  <2>1. /\ UNCHANGED <<timeline, next, base>>
        /\ conflicts'[q] = conflicts[q] + 1
        /\ pc[q] = "insert" /\ pc'[q] \in {"read", "rejected"}
        /\ next[q] \in DOMAIN timeline[Chan(q)]
    BY <1>2, <1>11 DEF Conflict, Free, Goto, store
  <2>2. next[q] > base[q] + conflicts[q] /\ next[q] <= Len(timeline[Chan(q)])
    BY <1>1, <2>1 DEF Counters, Grown
  <2>3. Len(timeline[Chan(q)]) >= base[q] + conflicts'[q]
    BY <1>1, <2>1, <2>2
  <2>4. QED
    BY <1>5, <2>1, <2>3 DEF Counters, Reachable, Grown
\* the steps of everybody else
<1>12. ASSUME NEW r \in Requests, r # q,
              \/ Submit(r) \/ CheckRejects(r) \/ Answer(r) \/ Fail(r)
              \/ CheckPasses(r) \/ ReadLatest(r) \/ Insert(r) \/ Conflict(r)
       PROVE  Counters(q)'
  <2>1. /\ next'[q] = next[q] /\ base'[q] = base[q] /\ conflicts'[q] = conflicts[q]
        /\ pc'[q] = pc[q]
    BY <1>2, <1>12 DEF Submit, CheckRejects, Answer, Fail, CheckPasses, ReadLatest, Insert,
       Conflict, Goto
  <2>2. QED
    BY <1>1, <1>3, <1>5, <2>1, CountersGrow
<1>13. CASE (\E r \in Requests : StoreEffect(r)) \/ (\E c \in Channels : Archive(c))
              \/ UNCHANGED vars
  BY <1>6, <1>13 DEF StoreEffect, Archive, request, vars
<1>14. QED
  BY <1>7, <1>8, <1>9, <1>10, <1>11, <1>12, <1>13 DEF Next, Serve, Handle

\* No effect without its message, no message of a request that did not insert.
PostedParts ==
  /\ NotYetPosted
  /\ \A r \in Requests : effects[r] # {} => Posted(r)
  /\ \A r \in Requests : pc[r] \in {"after", "ok"} => Posted(r)

LEMMA StepPosted ==
  ASSUME IInv, [Next]_vars PROVE PostedParts'
<1>1. /\ pc \in [Requests -> Steps] /\ effects \in [Requests -> SUBSET Effects]
      /\ PostedParts
  BY DEF IInv, TypeOK, PostedParts
<1>2. ASSUME NEW r \in Requests, Insert(r) PROVE PostedParts'
  <2>1. Posted(r)' /\ \A q \in Requests \ {r} : Posted(q)' <=> Posted(q)
    BY <1>2, InsertAppends
  <2>2. QED
    BY <1>1, <1>2, <2>1 DEF Insert, Goto, PostedParts, NotYetPosted
<1>3. ASSUME UNCHANGED timeline PROVE \A r \in Requests : Posted(r)' <=> Posted(r)
  BY <1>3, SameTimeline
<1> HIDE DEF IInv
<1>4. ASSUME NEW r \in Requests, Submit(r) \/ CheckPasses(r) \/ CheckRejects(r) \/ ReadLatest(r)
      PROVE  PostedParts'
  BY <1>1, <1>3, <1>4 DEF Submit, CheckPasses, CheckRejects, ReadLatest, Goto, store,
     PostedParts, NotYetPosted
<1>5. ASSUME NEW r \in Requests, Conflict(r) \/ StoreEffect(r) \/ Answer(r) \/ Fail(r)
      PROVE  PostedParts'
  BY <1>1, <1>3, <1>5 DEF Conflict, StoreEffect, Answer, Fail, Goto, store, PostedParts,
     NotYetPosted
<1>6. CASE (\E c \in Channels : Archive(c)) \/ UNCHANGED vars
  BY <1>1, <1>3, <1>6 DEF Archive, request, store, vars, PostedParts, NotYetPosted
<1>7. QED
  BY <1>2, <1>4, <1>5, <1>6 DEF Next, Serve, Handle

LEMMA StepIInv == IInv /\ [Next]_vars => IInv'
BY StepTypes, StepCounters, StepPosted DEF IInv, PostedParts

LEMMA Invariance == Spec => []IInv
<1>1. Init => IInv
  BY InitIInv
<1>2. IInv /\ [Next]_vars => IInv'
  BY StepIInv
<1>3. QED
  BY <1>1, <1>2, PTL DEF Spec

-------------------------------------------------------------------------------
(* The properties *)

\* Every state of the specification is well typed.
THEOREM TypeCorrect == Spec => []TypeOK
<1>1. IInv => TypeOK
  BY DEF IInv
<1>2. QED
  BY Invariance, <1>1, PTL

\* Sequence numbers have no hole, whatever fails and whoever gives up.
LEMMA NoHoles == IInv => GapFree
BY LatestIsLen DEF IInv, Dense, GapFree

\* The numbers of a channel have no hole, and a writer loses as many attempts
\* as others stored messages, at most.
THEOREM ContentionBound == Spec => []NumbersAreFair
<1>1. IInv => RefusedOnlyUnderContention
  <2> SUFFICES ASSUME IInv, NEW r \in Requests, conflicts[r] > 0
               PROVE  Latest(Chan(r)) >= base[r] + conflicts[r]
    BY DEF RefusedOnlyUnderContention
  <2>1. Latest(Chan(r)) = Len(timeline[Chan(r)])
    BY PayloadFacts, LatestIsLen DEF IInv, Dense
  <2>2. conflicts[r] \in Nat /\ Grown(r)
    BY DEF IInv, TypeOK, AllGrown
  <2>3. QED
    BY <2>1, <2>2 DEF Grown
<1>2. IInv => NumbersAreFair
  BY <1>1, NoHoles DEF NumbersAreFair
<1>3. QED
  BY Invariance, <1>2, PTL

-------------------------------------------------------------------------------
(* What a success means: an effect is stored, or it is still to do. *)

Wanted(p)  == {AfterInsert(p)[i] : i \in DOMAIN AfterInsert(p)}
Pending(r) == {todo[r][i] : i \in DOMAIN todo[r]}

NothingForgotten ==
  \A r \in Requests :
    /\ pc[r] = "after" => Wanted(payload[r]) \subseteq effects[r] \cup Pending(r)
    /\ pc[r] = "ok" => Wanted(payload[r]) \subseteq effects[r]

\* The elements of a sequence are its head and those of its tail.
LEMMA HeadAndTail ==
  ASSUME NEW S, NEW s \in Seq(S), s # <<>>, NEW i \in DOMAIN s
  PROVE  s[i] = Head(s) \/ \E j \in DOMAIN Tail(s) : Tail(s)[j] = s[i]
<1>1. CASE i = 1
  BY <1>1
<1>2. CASE i # 1
  <2>1. i - 1 \in DOMAIN Tail(s) /\ Tail(s)[i - 1] = s[i]
    BY <1>2
  <2>2. QED
    BY <2>1
<1>3. QED
  BY <1>1, <1>2

\* StoreEffect moves one effect from the list to the rows, Answer waits for
\* the list to be empty.
LEMMA StepNothingForgotten ==
  TypeOK /\ NothingForgotten /\ [Next]_vars => NothingForgotten'
<1> SUFFICES ASSUME TypeOK, NothingForgotten, [Next]_vars, NEW q \in Requests
             PROVE  /\ pc'[q] = "after" => Wanted(payload'[q]) \subseteq effects'[q] \cup Pending(q)'
                    /\ pc'[q] = "ok" => Wanted(payload'[q]) \subseteq effects'[q]
  BY DEF NothingForgotten
<1>1. /\ pc \in [Requests -> Steps] /\ effects \in [Requests -> SUBSET Effects]
      /\ todo \in [Requests -> Seq(Effects)]
  BY DEF TypeOK
<1>2. /\ pc[q] = "after" => Wanted(payload[q]) \subseteq effects[q] \cup Pending(q)
      /\ pc[q] = "ok" => Wanted(payload[q]) \subseteq effects[q]
  BY DEF NothingForgotten
<1>3. ASSUME NEW r \in Requests, Insert(r) PROVE
           /\ pc'[q] = "after" => Wanted(payload'[q]) \subseteq effects'[q] \cup Pending(q)'
           /\ pc'[q] = "ok" => Wanted(payload'[q]) \subseteq effects'[q]
  <2>1. payload' = payload /\ effects' = effects
    BY <1>3 DEF Insert
  <2>2. CASE q = r
    <3>1. pc'[q] = "after" => Pending(q)' = Wanted(payload[q])
      BY <1>1, <1>3, <2>2 DEF Insert, Goto, Wanted, Pending
    <3>2. pc'[q] # "ok"
      BY <1>1, <1>3, <2>2 DEF Insert, Goto
    <3>3. QED
      BY <2>1, <3>1, <3>2
  <2>3. CASE q # r
    <3>1. pc'[q] = pc[q] /\ Pending(q)' = Pending(q)
      BY <1>1, <1>3, <2>3 DEF Insert, Goto, Pending
    <3>2. QED
      BY <1>2, <2>1, <3>1
  <2>4. QED
    BY <2>2, <2>3
<1>4. ASSUME NEW r \in Requests, StoreEffect(r) PROVE
           /\ pc'[q] = "after" => Wanted(payload'[q]) \subseteq effects'[q] \cup Pending(q)'
           /\ pc'[q] = "ok" => Wanted(payload'[q]) \subseteq effects'[q]
  <2>1. payload' = payload /\ pc' = pc /\ effects[q] \subseteq effects'[q]
    BY <1>1, <1>4 DEF StoreEffect
  <2>2. Pending(q) \subseteq effects'[q] \cup Pending(q)'
    <3>1. CASE q = r
      <4>1. /\ effects'[q] = effects[q] \cup {Head(todo[q])} /\ todo'[q] = Tail(todo[q])
            /\ todo[q] \in Seq(Effects) /\ todo[q] # <<>>
        BY <1>1, <1>4, <3>1 DEF StoreEffect
      <4>2. QED
        BY <4>1, HeadAndTail DEF Pending
    <3>2. CASE q # r
      BY <1>1, <1>4, <3>2 DEF StoreEffect, Pending
    <3>3. QED
      BY <3>1, <3>2
  <2>3. QED
    BY <1>2, <2>1, <2>2
<1>5. ASSUME NEW r \in Requests, Answer(r) PROVE
           /\ pc'[q] = "after" => Wanted(payload'[q]) \subseteq effects'[q] \cup Pending(q)'
           /\ pc'[q] = "ok" => Wanted(payload'[q]) \subseteq effects'[q]
  <2>1. payload' = payload /\ effects' = effects /\ Pending(q)' = Pending(q)
    BY <1>5 DEF Answer, store, Pending
  <2>2. CASE q = r
    <3>1. pc[q] = "after" /\ pc'[q] = "ok" /\ Pending(q) = {}
      BY <1>1, <1>5, <2>2 DEF Answer, Goto, Pending
    <3>2. QED
      BY <1>2, <2>1, <3>1
  <2>3. CASE q # r
    <3>1. pc'[q] = pc[q]
      BY <1>1, <1>5, <2>3 DEF Answer, Goto
    <3>2. QED
      BY <1>2, <2>1, <3>1
  <2>4. QED
    BY <2>2, <2>3
<1>6. ASSUME NEW r \in Requests,
             Submit(r) \/ CheckPasses(r) \/ CheckRejects(r) \/ ReadLatest(r) \/ Conflict(r) \/ Fail(r)
      PROVE  /\ payload' = payload /\ effects' = effects /\ Pending(q)' = Pending(q)
             /\ pc'[q] = pc[q] \/ pc'[q] \notin {"after", "ok"}
  BY <1>1, <1>6 DEF Submit, CheckPasses, CheckRejects, ReadLatest, Conflict, Fail, Goto, store, Pending
<1>7. CASE (\E c \in Channels : Archive(c)) \/ UNCHANGED vars
  <2>1. payload' = payload /\ effects' = effects /\ Pending(q)' = Pending(q) /\ pc' = pc
    BY <1>7 DEF Archive, request, store, vars, Pending
  <2>2. QED
    BY <1>2, <2>1
<1>8. QED
  BY <1>2, <1>3, <1>4, <1>5, <1>6, <1>7 DEF Next, Serve, Handle

\* A refused request leaves nothing behind, a successful one everything.
THEOREM AnswersHold == Spec => []AnswersAreTrue
<1>1. Init => NothingForgotten
  BY DEF Init, NothingForgotten
<1>2. IInv /\ NothingForgotten => AnswersAreTrue
  <2> SUFFICES ASSUME IInv, NothingForgotten PROVE AnswersAreTrue
    OBVIOUS
  <2>1. NoTraceWithoutMessage
    BY DEF IInv, NotYetPosted, NoTraceWithoutMessage
  <2>2. OkMeansComplete
    BY DEF IInv, NothingForgotten, Wanted, OkMeansComplete
  <2>3. QED
    BY <2>1, <2>2 DEF AnswersAreTrue
<1>3. IInv /\ NothingForgotten /\ [Next]_vars => NothingForgotten'
  BY StepNothingForgotten DEF IInv
<1>4. QED
  BY Invariance, <1>1, <1>2, <1>3, PTL DEF Spec

\* The Message table is an append-only log with one entry per request.
THEOREM LogIsImplemented == Spec => ImplementsLog
<1>1. Init => Log!Init
  BY DEF Init, Log!Init
<1>2. IInv /\ [Next]_vars => [Log!Next]_timeline
  <2> SUFFICES ASSUME IInv, [Next]_vars PROVE [Log!Next]_timeline
    OBVIOUS
  <2>1. ASSUME NEW r \in Requests, Insert(r) PROVE Log!Next
    <3>1. ~Posted(r)
      BY <2>1 DEF IInv, NotYetPosted, Insert
    <3>2. PICK c \in Channels : c = Chan(r)
      BY <2>1, InsertAppends
    <3>3. timeline' = [timeline EXCEPT ![c] = Append(@, r)]
      BY <2>1, <3>2, InsertAppends
    <3>4. Log!Post(c, r)
      BY <3>1, <3>3 DEF Log!Post, Log!InLog, Posted
    <3>5. QED
      BY <3>4 DEF Log!Next
  <2>2. ASSUME NEW r \in Requests,
               \/ Submit(r) \/ CheckPasses(r) \/ CheckRejects(r) \/ ReadLatest(r)
               \/ Conflict(r) \/ StoreEffect(r) \/ Answer(r) \/ Fail(r)
        PROVE  UNCHANGED timeline
    BY <2>2 DEF Submit, CheckPasses, CheckRejects, ReadLatest, Conflict,
                StoreEffect, Answer, Fail, store
  <2>3. ASSUME UNCHANGED vars \/ \E c \in Channels : Archive(c)
        PROVE  UNCHANGED timeline
    BY <2>3 DEF Archive, vars, store
  <2>4. QED
    BY <2>1, <2>2, <2>3 DEF Next, Serve, Handle
<1>3. QED
  BY Invariance, <1>1, <1>2, PTL DEF Spec, ImplementsLog, Log!Spec
\* A request that finds its channel archived never posts in it.
THEOREM ArchivedChannelsAreSealed == Spec => ArchiveIsFinal
<1>1. IInv /\ [Next]_vars => [\A r \in Requests : LateFor(r) => LateFor(r)']_vars
  <2> SUFFICES ASSUME IInv, Next, NEW r \in Requests, LateFor(r)
               PROVE  LateFor(r)'
    OBVIOUS
  <2>1. /\ ~Posted(r) /\ Chan(r) \in archived
        /\ pc[r] \in {"new", "check", "rejected", "failed"}
        /\ pc \in [Requests -> Steps]
    BY DEF LateFor, IInv, TypeOK
  <2>2. ASSUME NEW q \in Requests, Insert(q) PROVE LateFor(r)'
    <3>1. q # r /\ archived' = archived /\ payload' = payload /\ pc'[r] = pc[r]
      BY <2>1, <2>2 DEF Insert, Goto
    <3>2. Posted(r)' <=> Posted(r)
      BY <2>2, <3>1, InsertAppends
    <3>3. QED
      BY <2>1, <3>1, <3>2 DEF LateFor, Chan
  <2>3. ASSUME NEW q \in Requests,
               \/ Submit(q) \/ CheckPasses(q) \/ CheckRejects(q) \/ ReadLatest(q)
               \/ Conflict(q) \/ StoreEffect(q) \/ Answer(q) \/ Fail(q)
        PROVE  LateFor(r)'
    <3>1. UNCHANGED <<timeline, archived, payload>>
      BY <2>3 DEF Submit, CheckPasses, CheckRejects, ReadLatest, Conflict, StoreEffect,
                  Answer, Fail, store
    <3>2. pc'[r] \in {"new", "check", "rejected", "failed"}
      BY <2>1, <2>3 DEF Submit, CheckPasses, CheckRejects, ReadLatest, Conflict, StoreEffect,
                        Answer, Fail, Goto, Chan
    <3>3. QED
      BY <2>1, <3>1, <3>2 DEF LateFor, Posted, Chan
  <2>4. ASSUME NEW c \in Channels, Archive(c) PROVE LateFor(r)'
    BY <2>1, <2>4 DEF LateFor, Posted, Chan, Archive, request
  <2>5. QED
    BY <2>2, <2>3, <2>4 DEF Next, Serve, Handle
<1>2. QED
  BY Invariance, <1>1, PTL DEF Spec, ArchiveIsFinal
===============================================================================
