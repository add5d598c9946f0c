------------------------------ MODULE LiveProofs ------------------------------
(* Proofs about Realtime, Timeline and the two side by side: the room of the  *)
(* open channel, what a page at rest shows and what its list keeps, for any   *)
(* number of gateways, pages, channels, calls, messages, faults and switches. *)
EXTENDS Live, SequenceTheorems, FiniteSetTheorems, TLAPS

-------------------------------------------------------------------------------
(* Commands on their way *)

\* The last command about c is a join.
WillJoin(s, c)  == \E i \in DOMAIN s : s[i] = Join(c) /\ \A j \in DOMAIN s : j > i => s[j] # Leave(c)
WillLeave(s, c) == \E i \in DOMAIN s : s[i] = Leave(c)

LEMMA Commands ==
  ASSUME NEW c, NEW d
  PROVE  /\ Join(c) # Leave(d)
         /\ Join(c) = Join(d) => c = d
         /\ Leave(c) = Leave(d) => c = d
         /\ c \in Channels => Join(c) \in Command /\ Leave(c) \in Command
BY DEF Join, Leave, Command

LEMMA CommandAdded ==
  ASSUME NEW s \in Seq(Command), NEW e \in Command, NEW c
  PROVE  /\ Append(s, e) \in Seq(Command)
         /\ WillJoin(Append(s, e), c) <=> e = Join(c) \/ (e # Leave(c) /\ WillJoin(s, c))
         /\ WillLeave(Append(s, e), c) <=> e = Leave(c) \/ WillLeave(s, c)
<1> DEFINE t == Append(s, e)
           n == Len(s)
<1>1. /\ t \in Seq(Command) /\ n \in Nat /\ DOMAIN s = 1..n /\ DOMAIN t = 1..(n + 1)
      /\ \A i \in 1..n : t[i] = s[i]
      /\ t[n + 1] = e
  BY AppendProperties
<1> HIDE DEF t
<1>2. \A i \in 1..(n + 1) : i \in 1..n \/ i = n + 1
  BY <1>1
<1>3. 1..n \subseteq 1..(n + 1) /\ n + 1 \in 1..(n + 1) /\ \A i \in 1..n : n + 1 > i /\ ~(i > n + 1)
  BY <1>1
<1>4. Join(c) # Leave(c)
  BY Commands
<1>5. ASSUME e = Join(c) PROVE WillJoin(t, c)
  <2>1. \A j \in DOMAIN t : ~(j > n + 1)
    BY <1>1
  <2> QED
    BY <1>1, <1>3, <1>5, <2>1 DEF WillJoin
<1>6. ASSUME e # Leave(c), WillJoin(s, c) PROVE WillJoin(t, c)
  <2>1. PICK i \in 1..n : s[i] = Join(c) /\ \A j \in 1..n : j > i => s[j] # Leave(c)
    BY <1>1, <1>6 DEF WillJoin
  <2>2. t[i] = Join(c) /\ \A j \in 1..(n + 1) : j > i => t[j] # Leave(c)
    BY <1>1, <1>2, <1>6, <2>1
  <2> QED
    BY <1>1, <1>3, <2>2 DEF WillJoin
<1>7. ASSUME WillJoin(t, c), e # Join(c) PROVE e # Leave(c) /\ WillJoin(s, c)
  <2>1. PICK i \in 1..(n + 1) : t[i] = Join(c) /\ \A j \in 1..(n + 1) : j > i => t[j] # Leave(c)
    BY <1>1, <1>7 DEF WillJoin
  <2>2. i \in 1..n
    BY <1>1, <1>2, <1>7, <2>1
  <2>3. e # Leave(c)
    BY <1>1, <1>3, <2>1, <2>2
  <2>4. s[i] = Join(c) /\ \A j \in 1..n : j > i => s[j] # Leave(c)
    BY <1>1, <1>3, <2>1, <2>2
  <2> QED
    BY <1>1, <2>2, <2>3, <2>4 DEF WillJoin
<1>8. WillLeave(t, c) <=> e = Leave(c) \/ WillLeave(s, c)
  BY <1>1, <1>2, <1>3 DEF WillLeave
<1> QED
  BY <1>1, <1>4, <1>5, <1>6, <1>7, <1>8 DEF t

LEMMA CommandServed ==
  ASSUME NEW s \in Seq(Command), s # <<>>, NEW c
  PROVE  /\ Tail(s) \in Seq(Command) /\ Head(s) \in Command
         /\ WillJoin(s, c) <=> \/ WillJoin(Tail(s), c)
                               \/ Head(s) = Join(c) /\ ~WillLeave(Tail(s), c)
         /\ WillLeave(s, c) <=> Head(s) = Leave(c) \/ WillLeave(Tail(s), c)
<1> DEFINE t == Tail(s)
           h == Head(s)
           n == Len(t)
<1>1. /\ t \in Seq(Command) /\ h \in Command /\ n \in Nat /\ DOMAIN t = 1..n
      /\ DOMAIN s = 1..(n + 1)
      /\ \A i \in 1..n : t[i] = s[i + 1]
      /\ s[1] = h
  BY HeadTailProperties
<1> HIDE DEF t, h
<1>2. \A i \in 1..(n + 1) : i = 1 \/ (i - 1 \in 1..n /\ s[i] = t[i - 1])
  BY <1>1
<1>3. \A i \in 1..n : i + 1 \in 1..(n + 1) /\ i + 1 > 1 /\ s[i + 1] = t[i]
  BY <1>1
<1>4. ASSUME WillJoin(t, c) PROVE WillJoin(s, c)
  <2>1. PICK i \in 1..n : t[i] = Join(c) /\ \A j \in 1..n : j > i => t[j] # Leave(c)
    BY <1>1, <1>4 DEF WillJoin
  <2>2. ASSUME NEW j \in 1..(n + 1), j > i + 1 PROVE s[j] # Leave(c)
    <3>1. j - 1 \in 1..n /\ j - 1 > i /\ s[j] = t[j - 1]
      BY <1>1, <1>2, <2>2
    <3> QED
      BY <2>1, <3>1
  <2> QED
    BY <1>1, <1>3, <2>1, <2>2 DEF WillJoin
<1>5. ASSUME h = Join(c), ~WillLeave(t, c) PROVE WillJoin(s, c)
  <2>1. \A i \in 1..n : t[i] # Leave(c)
    BY <1>1, <1>5 DEF WillLeave
  <2>2. ASSUME NEW j \in 1..(n + 1), j > 1 PROVE s[j] # Leave(c)
    <3>1. j - 1 \in 1..n /\ s[j] = t[j - 1]
      BY <1>1, <1>2, <2>2
    <3> QED
      BY <2>1, <3>1
  <2>3. 1 \in 1..(n + 1)
    BY <1>1
  <2> QED
    BY <1>1, <1>5, <2>2, <2>3 DEF WillJoin
<1>6. ASSUME WillJoin(s, c), ~WillJoin(t, c) PROVE h = Join(c) /\ ~WillLeave(t, c)
  <2>1. PICK i \in 1..(n + 1) : s[i] = Join(c) /\ \A j \in 1..(n + 1) : j > i => s[j] # Leave(c)
    BY <1>1, <1>6 DEF WillJoin
  <2>2. CASE i = 1
    BY <1>1, <1>3, <2>1, <2>2 DEF WillLeave
  <2>3. CASE i # 1
    <3>1. i - 1 \in 1..n /\ t[i - 1] = Join(c)
      BY <1>2, <2>1, <2>3
    <3>2. ASSUME NEW j \in 1..n, j > i - 1 PROVE t[j] # Leave(c)
      <4>1. j + 1 \in 1..(n + 1) /\ j + 1 > i /\ s[j + 1] = t[j]
        BY <1>1, <1>3, <3>2
      <4> QED
        BY <2>1, <4>1
    <3> QED
      BY <1>1, <1>6, <3>1, <3>2 DEF WillJoin
  <2> QED
    BY <2>2, <2>3
<1>7. WillLeave(s, c) <=> h = Leave(c) \/ WillLeave(t, c)
  <2>1. ASSUME WillLeave(s, c) PROVE h = Leave(c) \/ WillLeave(t, c)
    BY <1>1, <1>2, <2>1 DEF WillLeave
  <2>2. ASSUME WillLeave(t, c) PROVE WillLeave(s, c)
    BY <1>1, <1>3, <2>2 DEF WillLeave
  <2>3. ASSUME h = Leave(c) PROVE WillLeave(s, c)
    BY <1>1, <2>3 DEF WillLeave
  <2> QED
    BY <2>1, <2>2, <2>3
<1> QED
  BY <1>1, <1>4, <1>5, <1>6, <1>7 DEF t, h

\* A switch appends a leave of the old channel, if there is one, and a join.
LEMMA SwitchAdded ==
  ASSUME NEW s \in Seq(Command), NEW p \in Pages, NEW c \in Channels, NEW d \in Channels,
         selected[p] \in Channels \cup {NoChannel}, c # selected[p]
  PROVE  /\ s \o LeaveOld(p) \o <<Join(c)>> \in Seq(Command)
         /\ WillJoin(s \o LeaveOld(p) \o <<Join(c)>>, d)
              <=> d = c \/ (d # selected[p] /\ WillJoin(s, d))
         /\ WillLeave(s \o LeaveOld(p) \o <<Join(c)>>, d)
              <=> (d = selected[p] /\ selected[p] # NoChannel) \/ WillLeave(s, d)
<1>1. Join(c) \in Command
  BY Commands
<1>2. CASE selected[p] = NoChannel
  <2>1. s \o LeaveOld(p) \o <<Join(c)>> = Append(s, Join(c))
    <3>1. s \o LeaveOld(p) = s
      BY <1>2, ConcatEmptySeq DEF LeaveOld
    <3> QED
      BY <1>1, <3>1
  <2>2. d # selected[p]
    BY <1>2, RealtimeAssumption
  <2> DEFINE e == Join(c)
  <2>3. e # Leave(d) /\ (e = Join(d) <=> d = c) /\ e \in Command
    BY <1>1, Commands
  <2> HIDE DEF e
  <2>4. /\ Append(s, e) \in Seq(Command)
        /\ WillJoin(Append(s, e), d) <=> e = Join(d) \/ (e # Leave(d) /\ WillJoin(s, d))
        /\ WillLeave(Append(s, e), d) <=> e = Leave(d) \/ WillLeave(s, d)
    BY <2>3, CommandAdded
  <2>5. s \o LeaveOld(p) \o <<Join(c)>> = Append(s, e)
    BY <2>1 DEF e
  <2> QED
    BY <1>2, <2>2, <2>3, <2>4, <2>5
<1>3. CASE selected[p] # NoChannel
  <2>1. Leave(selected[p]) \in Command
    BY <1>3, Commands
  <2> DEFINE a == Append(s, Leave(selected[p]))
  <2>2. s \o LeaveOld(p) \o <<Join(c)>> = Append(a, Join(c))
    <3>1. s \o LeaveOld(p) = a
      BY <1>3, <2>1 DEF LeaveOld
    <3>2. a \in Seq(Command)
      BY <2>1
    <3> HIDE DEF a
    <3> QED
      BY <1>1, <3>1, <3>2
  <2>3. /\ a \in Seq(Command)
        /\ WillJoin(a, d) <=> d # selected[p] /\ WillJoin(s, d)
        /\ WillLeave(a, d) <=> d = selected[p] \/ WillLeave(s, d)
    BY <2>1, CommandAdded, Commands
  <2> HIDE DEF a
  <2>4. /\ WillJoin(Append(a, Join(c)), d) <=> d = c \/ WillJoin(a, d)
        /\ WillLeave(Append(a, Join(c)), d) <=> WillLeave(a, d)
        /\ Append(a, Join(c)) \in Seq(Command)
    BY <1>1, <2>3, CommandAdded, Commands
  <2> QED
    BY <1>3, <2>2, <2>3, <2>4
<1> QED
  BY <1>2, <1>3
-------------------------------------------------------------------------------
(* The inductive invariant *)

RoomsTypeOK ==
  /\ rooms \in [Pages -> SUBSET Channels] /\ checks \in [Pages -> [Channels -> Nat]]
  /\ outbox \in [Pages -> Seq(Command)]
  /\ selected \in [Pages -> Channels \cup {NoChannel}]
  /\ known \subseteq Pages /\ deaf \subseteq Pages
  /\ refused \in [Pages -> SUBSET Channels] /\ overtaken \in [Pages -> SUBSET Channels]

\* A page that has not rendered with its socket has asked for nothing.
Silent(p) == rooms[p] = {} /\ outbox[p] = <<>> /\ \A c \in Channels : checks[p][c] = 0

\* The open channel is asked for, or its join was the last command about it.
Wanted(p, c) ==
  \/ WillJoin(outbox[p], c)
  \/ ~WillLeave(outbox[p], c) /\ (checks[p][c] > 0 \/ c \in rooms[p] \cup refused[p])

\* Another channel is left for good, unless the leave has overtaken a join.
Unwanted(p, c) ==
  /\ ~WillJoin(outbox[p], c)
  /\ c \in rooms[p] \/ checks[p][c] > 0 => c \in overtaken[p] \/ WillLeave(outbox[p], c)

PageOK(p) ==
  /\ p \notin known => Silent(p)
  /\ p \in known \ deaf /\ selected[p] \in Channels => Wanted(p, selected[p])
  /\ \A c \in Channels \ {selected[p]} : Unwanted(p, c)

IInv == RoomsTypeOK /\ \A p \in Pages : PageOK(p)

-------------------------------------------------------------------------------
(* Steps *)

roomVars == <<rooms, checks, outbox, selected, known, deaf, refused, overtaken>>

\* What a page reads of the state is its own.
PageSame(p) ==
  /\ UNCHANGED <<rooms[p], checks[p], outbox[p], selected[p], refused[p], overtaken[p]>>
  /\ p \in known' <=> p \in known
  /\ p \in deaf' <=> p \in deaf

LEMMA OtherPages ==
  ASSUME NEW p \in Pages, PageOK(p), PageSame(p)
  PROVE  PageOK(p)'
BY DEF PageOK, PageSame, Silent, Wanted, Unwanted

LEMMA NothingIsWanted ==
  ASSUME NEW c
  PROVE  ~WillJoin(<<>>, c) /\ ~WillLeave(<<>>, c)
BY DEF WillJoin, WillLeave

\* Other handlers, events and the state of the connection.
LEMMA ElsewhereStep ==
  ASSUME IInv, UNCHANGED roomVars
  PROVE  IInv'
BY DEF IInv, RoomsTypeOK, PageOK, Silent, Wanted, Unwanted, roomVars

\* A page whose connection breaks is deaf, or had asked for nothing.
LEMMA ForgetStep ==
  ASSUME IInv, NEW S \in SUBSET Pages, Forget(S), UNCHANGED <<selected, known>>
  PROVE  IInv'
<1>1. RoomsTypeOK'
  <2>1. /\ rooms' \in [Pages -> SUBSET Channels] /\ overtaken' \in [Pages -> SUBSET Channels]
        /\ deaf' \subseteq Pages
    BY DEF IInv, RoomsTypeOK, Forget
  <2>2. checks' \in [Pages -> [Channels -> Nat]]
    <3>1. [c \in Channels |-> 0] \in [Channels -> Nat]
      OBVIOUS
    <3> QED
      BY <3>1 DEF IInv, RoomsTypeOK, Forget
  <2>3. outbox' \in [Pages -> Seq(Command)]
    BY DEF IInv, RoomsTypeOK, Forget
  <2> QED
    BY <2>1, <2>2, <2>3 DEF IInv, RoomsTypeOK, Forget
<1>2. ASSUME NEW p \in Pages PROVE PageOK(p)'
  <2>1. PageOK(p)
    BY DEF IInv
  <2>2. CASE p \in S
    <3>1. rooms'[p] = {} /\ outbox'[p] = <<>> /\ \A c \in Channels : checks'[p][c] = 0
      BY <2>2 DEF Forget
    <3>2. p \in known' \ deaf' => selected'[p] = NoChannel
      BY <2>2 DEF Forget
    <3>3. NoChannel \notin Channels
      BY RealtimeAssumption
    <3>4. \A c \in Channels : Unwanted(p, c)'
      BY <3>1, NothingIsWanted DEF Unwanted
    <3> QED
      BY <3>1, <3>2, <3>3, <3>4 DEF PageOK, Silent
  <2>3. CASE p \notin S
    <3>1. PageSame(p)
      BY <2>3 DEF Forget, PageSame
    <3> QED
      BY <2>1, <3>1, OtherPages
  <2> QED
    BY <2>2, <2>3
<1> QED
  BY <1>1, <1>2 DEF IInv

\* A leave or a join that reaches the gateway.
LEMMA CommandIs ==
  ASSUME NEW e \in Command
  PROVE  /\ e.channel \in Channels
         /\ e.do = "join"  => e = Join(e.channel)
         /\ e.do = "leave" => e = Leave(e.channel)
BY DEF Command, Join, Leave

LEMMA ServeJoinStep ==
  ASSUME IInv, NEW p \in Pages, ServeJoin(p)
  PROVE  IInv'
<1> DEFINE s == outbox[p]
           t == Tail(s)
           d == Head(s).channel
<1>1. /\ s \in Seq(Command) /\ s # <<>> /\ Head(s).do = "join"
      /\ PageOK(p) /\ checks[p] \in [Channels -> Nat] /\ outbox'[p] = t
  BY DEF IInv, RoomsTypeOK, ServeJoin
<1>2. t \in Seq(Command) /\ Head(s) \in Command
  BY <1>1, CommandServed
<1>3. d \in Channels /\ Head(s) = Join(d)
  BY <1>1, <1>2, CommandIs
<1>4. /\ checks'[p] = [checks[p] EXCEPT ![d] = @ + 1]
      /\ UNCHANGED <<rooms, selected, known, deaf, refused, overtaken>>
  BY DEF IInv, RoomsTypeOK, ServeJoin, page, socket
<1>5. RoomsTypeOK'
  <2>1. outbox' \in [Pages -> Seq(Command)]
    BY <1>2 DEF IInv, RoomsTypeOK, ServeJoin
  <2>2. checks' \in [Pages -> [Channels -> Nat]]
    BY <1>3 DEF IInv, RoomsTypeOK, ServeJoin
  <2> QED
    BY <1>4, <2>1, <2>2 DEF IInv, RoomsTypeOK
<1>6. \A c : /\ WillJoin(s, c) <=> WillJoin(t, c) \/ (d = c /\ ~WillLeave(t, c))
             /\ WillLeave(s, c) <=> WillLeave(t, c)
  BY <1>1, <1>3, CommandServed, Commands
<1> HIDE DEF s, t, d
<1>7. \A c \in Channels : checks'[p][c] = (IF c = d THEN checks[p][c] + 1 ELSE checks[p][c])
  BY <1>1, <1>3, <1>4
<1>8. PageOK(p)'
  <2>1. p \in known
    BY <1>1 DEF s, PageOK, Silent
  <2>2. ASSUME NEW c \in Channels, Wanted(p, c) PROVE Wanted(p, c)'
    <3>1. checks[p][c] \in Nat /\ (checks[p][c] > 0 => checks'[p][c] > 0)
          /\ (c = d => checks'[p][c] > 0)
      BY <1>1, <1>7
    <3> QED
      BY <1>1, <1>4, <1>6, <2>2, <3>1 DEF Wanted, s
  <2>3. ASSUME NEW c \in Channels, Unwanted(p, c) PROVE Unwanted(p, c)'
    <3>1. ~WillJoin(t, c) /\ (c = d => WillLeave(t, c))
      BY <1>6, <2>3 DEF Unwanted, s
    <3>2. c # d => checks'[p][c] = checks[p][c]
      BY <1>7
    <3> QED
      BY <1>1, <1>4, <1>6, <2>3, <3>1, <3>2 DEF Unwanted, s
  <2> QED
    BY <1>1, <1>4, <2>1, <2>2, <2>3 DEF PageOK
<1>9. ASSUME NEW q \in Pages, q # p PROVE PageOK(q)'
  <2>1. PageSame(q)
    BY <1>4, <1>9 DEF IInv, RoomsTypeOK, ServeJoin, PageSame
  <2> QED
    BY <2>1, OtherPages DEF IInv
<1> QED
  BY <1>5, <1>8, <1>9 DEF IInv

LEMMA ServeLeaveStep ==
  ASSUME IInv, NEW p \in Pages, ServeLeave(p)
  PROVE  IInv'
<1> DEFINE s == outbox[p]
           t == Tail(s)
           d == Head(s).channel
<1>1. /\ s \in Seq(Command) /\ s # <<>> /\ Head(s).do = "leave"
      /\ PageOK(p) /\ outbox'[p] = t
  BY DEF IInv, RoomsTypeOK, ServeLeave
<1>2. t \in Seq(Command) /\ Head(s) \in Command
  BY <1>1, CommandServed
<1>3. d \in Channels /\ Head(s) = Leave(d)
  BY <1>1, <1>2, CommandIs
<1>4. /\ rooms'[p] = rooms[p] \ {d}
      /\ overtaken'[p] = IF checks[p][d] > 0 THEN overtaken[p] \cup {d} ELSE overtaken[p] \ {d}
      /\ UNCHANGED <<checks, selected, known, deaf, refused>>
  BY DEF IInv, RoomsTypeOK, ServeLeave, page
<1>5. RoomsTypeOK'
  <2>1. outbox' \in [Pages -> Seq(Command)]
    BY <1>2 DEF IInv, RoomsTypeOK, ServeLeave
  <2>2. rooms' \in [Pages -> SUBSET Channels] /\ overtaken' \in [Pages -> SUBSET Channels]
    BY <1>3 DEF IInv, RoomsTypeOK, ServeLeave
  <2> QED
    BY <1>4, <2>1, <2>2 DEF IInv, RoomsTypeOK
<1>6. \A c : /\ WillJoin(s, c) <=> WillJoin(t, c)
             /\ WillLeave(s, c) <=> d = c \/ WillLeave(t, c)
  BY <1>1, <1>3, CommandServed, Commands
<1> HIDE DEF s, t, d
<1>7. PageOK(p)'
  <2>1. p \in known
    BY <1>1 DEF s, PageOK, Silent
  <2>2. ASSUME NEW c \in Channels, Wanted(p, c) PROVE Wanted(p, c)'
    BY <1>1, <1>4, <1>6, <2>2 DEF Wanted, s
  <2>3. ASSUME NEW c \in Channels, Unwanted(p, c) PROVE Unwanted(p, c)'
    <3>1. CASE c = d
      BY <1>1, <1>4, <1>6, <2>3, <3>1 DEF Unwanted, s
    <3>2. CASE c # d
      BY <1>1, <1>4, <1>6, <2>3, <3>2 DEF Unwanted, s
    <3> QED
      BY <3>1, <3>2
  <2> QED
    BY <1>1, <1>4, <2>1, <2>2, <2>3 DEF PageOK
<1>8. ASSUME NEW q \in Pages, q # p PROVE PageOK(q)'
  <2>1. PageSame(q)
    BY <1>4, <1>8 DEF IInv, RoomsTypeOK, ServeLeave, PageSame
  <2> QED
    BY <2>1, OtherPages DEF IInv
<1> QED
  BY <1>5, <1>7, <1>8 DEF IInv

\* A check that ends leaves its channel heard or refused.
LEMMA CheckStep ==
  ASSUME IInv, NEW p \in Pages, NEW c \in Channels, Grant(p, c) \/ Refuse(p, c)
  PROVE  IInv'
<1>1. /\ PageOK(p) /\ checks[p] \in [Channels -> Nat] /\ checks[p][c] > 0
      /\ checks'[p] = [checks[p] EXCEPT ![c] = @ - 1]
      /\ UNCHANGED <<outbox, selected, known, deaf, overtaken>>
  BY DEF IInv, RoomsTypeOK, Grant, Refuse, page
<1>2. /\ rooms[p] \subseteq rooms'[p] /\ refused[p] \subseteq refused'[p]
      /\ c \in rooms'[p] \cup refused'[p]
      /\ rooms'[p] \subseteq rooms[p] \cup {c}
  BY DEF IInv, RoomsTypeOK, Grant, Refuse
<1>3. RoomsTypeOK'
  <2>1. checks' = [checks EXCEPT ![p] = checks'[p]] /\ checks \in [Pages -> [Channels -> Nat]]
    BY DEF IInv, RoomsTypeOK, Grant, Refuse
  <2>2. checks'[p] \in [Channels -> Nat]
    BY <1>1
  <2>3. checks' \in [Pages -> [Channels -> Nat]]
    BY <2>1, <2>2
  <2>4. CASE Grant(p, c)
    BY <1>1, <2>3, <2>4 DEF IInv, RoomsTypeOK, Grant
  <2>5. CASE Refuse(p, c)
    BY <1>1, <2>3, <2>5 DEF IInv, RoomsTypeOK, Refuse
  <2> QED
    BY <2>4, <2>5
<1>4. \A d \in Channels \ {c} : checks'[p][d] = checks[p][d]
  BY <1>1
<1>5. PageOK(p)'
  <2>1. p \in known
    BY <1>1 DEF PageOK, Silent
  <2>2. ASSUME NEW d \in Channels, Wanted(p, d) PROVE Wanted(p, d)'
    <3>1. CASE d = c
      BY <1>1, <1>2, <2>2, <3>1 DEF Wanted
    <3>2. CASE d # c
      BY <1>1, <1>2, <1>4, <2>2, <3>2 DEF Wanted
    <3> QED
      BY <3>1, <3>2
  <2>3. ASSUME NEW d \in Channels, Unwanted(p, d) PROVE Unwanted(p, d)'
    <3>1. CASE d = c
      BY <1>1, <2>3, <3>1 DEF Unwanted
    <3>2. CASE d # c
      BY <1>1, <1>2, <1>4, <2>3, <3>2 DEF Unwanted
    <3> QED
      BY <3>1, <3>2
  <2> QED
    BY <1>1, <2>1, <2>2, <2>3 DEF PageOK
<1>6. ASSUME NEW q \in Pages, q # p PROVE PageOK(q)'
  <2>1. PageSame(q)
    BY <1>1, <1>6 DEF IInv, RoomsTypeOK, Grant, Refuse, PageSame
  <2> QED
    BY <2>1, OtherPages DEF IInv
<1> QED
  BY <1>3, <1>5, <1>6 DEF IInv

LEMMA SelectStep ==
  ASSUME IInv, NEW p \in Pages, NEW c \in Channels, Select(p, c)
  PROVE  IInv'
<1> DEFINE s == outbox[p]
           t == s \o LeaveOld(p) \o <<Join(c)>>
<1>1. /\ PageOK(p) /\ s \in Seq(Command) /\ selected[p] \in Channels \cup {NoChannel}
      /\ selected[p] # c /\ selected'[p] = c
      /\ UNCHANGED <<rooms, checks, known, overtaken>>
  BY DEF IInv, RoomsTypeOK, Select
<1>2. /\ p \in known => outbox' = [outbox EXCEPT ![p] = t]
      /\ p \notin known => outbox' = outbox
  BY DEF Select
<1>3. /\ t \in Seq(Command)
      /\ \A d \in Channels :
           /\ WillJoin(t, d) <=> d = c \/ (d # selected[p] /\ WillJoin(s, d))
           /\ WillLeave(t, d) <=> (d = selected[p] /\ selected[p] # NoChannel) \/ WillLeave(s, d)
  BY <1>1, SwitchAdded
<1> HIDE DEF s, t
<1>4. RoomsTypeOK'
  <2>1. outbox' \in [Pages -> Seq(Command)]
    BY <1>2, <1>3 DEF IInv, RoomsTypeOK
  <2>2. /\ selected' \in [Pages -> Channels \cup {NoChannel}] /\ deaf' \subseteq Pages
        /\ refused' \in [Pages -> SUBSET Channels]
    BY DEF IInv, RoomsTypeOK, Select
  <2> QED
    BY <1>1, <2>1, <2>2 DEF IInv, RoomsTypeOK
<1>5. PageOK(p)'
  <2>1. CASE p \in known
    <3>1. outbox'[p] = t
      BY <1>2, <2>1 DEF IInv, RoomsTypeOK
    <3>2. Wanted(p, c)'
      BY <1>3, <3>1 DEF Wanted
    <3>3. ASSUME NEW d \in Channels \ {c} PROVE Unwanted(p, d)'
      <4>1. CASE d = selected[p]
        <5>1. d # NoChannel
          BY RealtimeAssumption
        <5> QED
          BY <1>3, <3>1, <3>3, <4>1, <5>1 DEF Unwanted
      <4>2. CASE d # selected[p]
        <5>1. Unwanted(p, d)
          BY <1>1, <4>2 DEF PageOK
        <5> QED
          BY <1>1, <1>3, <3>1, <3>3, <4>2, <5>1 DEF Unwanted, s
      <4> QED
        BY <4>1, <4>2
    <3> QED
      BY <1>1, <2>1, <3>2, <3>3 DEF PageOK
  <2>2. CASE p \notin known
    <3>1. Silent(p)
      BY <1>1, <2>2 DEF PageOK
    <3>2. Silent(p)'
      BY <1>1, <1>2, <2>2, <3>1 DEF Silent
    <3>3. \A d \in Channels : Unwanted(p, d)'
      BY <3>2, NothingIsWanted DEF Silent, Unwanted
    <3> QED
      BY <1>1, <2>2, <3>2, <3>3 DEF PageOK
  <2> QED
    BY <2>1, <2>2
<1>6. ASSUME NEW q \in Pages, q # p PROVE PageOK(q)'
  <2>1. outbox'[q] = outbox[q]
    BY <1>2, <1>6 DEF IInv, RoomsTypeOK
  <2>2. PageSame(q)
    BY <1>1, <1>6, <2>1 DEF IInv, RoomsTypeOK, Select, PageSame
  <2> QED
    BY <2>2, OtherPages DEF IInv
<1> QED
  BY <1>4, <1>5, <1>6 DEF IInv

LEMMA RenderStep ==
  ASSUME IInv, NEW p \in Pages, Render(p)
  PROVE  IInv'
<1>1. /\ PageOK(p) /\ outbox \in [Pages -> Seq(Command)]
      /\ selected[p] \in Channels \cup {NoChannel}
      /\ UNCHANGED <<rooms, checks, selected, deaf, refused, overtaken>>
      /\ known' = known \cup {p}
  BY DEF IInv, RoomsTypeOK, Render, socket
<1>2. Silent(p)
  BY <1>1 DEF Render, PageOK
<1>3. CASE selected[p] = NoChannel
  <2>1. outbox' = outbox
    BY <1>3 DEF Render
  <2>2. RoomsTypeOK'
    BY <1>1, <2>1 DEF IInv, RoomsTypeOK
  <2>3. NoChannel \notin Channels
    BY RealtimeAssumption
  <2>4. \A d \in Channels : Unwanted(p, d)'
    BY <1>1, <1>2, <2>1, NothingIsWanted DEF Silent, Unwanted
  <2>5. PageOK(p)'
    BY <1>1, <1>3, <2>3, <2>4 DEF PageOK
  <2>6. ASSUME NEW q \in Pages, q # p PROVE PageOK(q)'
    <3>1. PageSame(q)
      BY <1>1, <2>1, <2>6 DEF PageSame
    <3> QED
      BY <3>1, OtherPages DEF IInv
  <2> QED
    BY <2>2, <2>5, <2>6 DEF IInv
<1>4. CASE selected[p] # NoChannel
  <2>1. /\ selected[p] \in Channels /\ Join(selected[p]) \in Command
        /\ outbox' = [outbox EXCEPT ![p] = Append(@, Join(selected[p]))]
    BY <1>1, <1>4, Commands DEF Render
  <2>2. outbox[p] = <<>> /\ outbox'[p] = Append(outbox[p], Join(selected[p]))
    BY <1>1, <1>2, <2>1 DEF Silent
  <2>3. /\ outbox'[p] \in Seq(Command)
        /\ WillJoin(outbox'[p], selected[p])
        /\ \A d \in Channels \ {selected[p]} : ~WillJoin(outbox'[p], d)
    <3> DEFINE s == outbox[p]
               e == Join(selected[p])
    <3>1. s \in Seq(Command) /\ e \in Command /\ s = <<>> /\ outbox'[p] = Append(s, e)
      BY <1>1, <2>1, <2>2
    <3>2. \A d : (e = Join(d) <=> d = selected[p]) /\ e # Leave(d)
      BY Commands
    <3> HIDE DEF s, e
    <3>3. \A d : /\ WillJoin(Append(s, e), d) <=> e = Join(d) \/ (e # Leave(d) /\ WillJoin(s, d))
                 /\ Append(s, e) \in Seq(Command)
      BY <3>1, CommandAdded
    <3>4. \A d : ~WillJoin(s, d)
      BY <3>1, NothingIsWanted
    <3> QED
      BY <3>1, <3>2, <3>3, <3>4
  <2>4. RoomsTypeOK'
    <3>1. outbox' \in [Pages -> Seq(Command)]
      BY <1>1, <2>1, <2>2, <2>3
    <3> QED
      BY <1>1, <3>1 DEF IInv, RoomsTypeOK
  <2>5. Wanted(p, selected[p])'
    BY <1>1, <2>3 DEF Wanted
  <2>6. ASSUME NEW d \in Channels \ {selected[p]} PROVE Unwanted(p, d)'
    BY <1>1, <1>2, <2>3, <2>6 DEF Silent, Unwanted
  <2>7. PageOK(p)'
    BY <1>1, <2>5, <2>6 DEF PageOK
  <2>8. ASSUME NEW q \in Pages, q # p PROVE PageOK(q)'
    <3>1. PageSame(q)
      BY <1>1, <2>1, <2>8 DEF PageSame
    <3> QED
      BY <3>1, OtherPages DEF IInv
  <2> QED
    BY <2>4, <2>7, <2>8 DEF IInv
<1> QED
  BY <1>3, <1>4

-------------------------------------------------------------------------------
LEMMA InitOK == Init => IInv
<1> SUFFICES ASSUME Init PROVE IInv
  OBVIOUS
<1>1. NoChannel \notin Channels
  BY RealtimeAssumption
<1>2. RoomsTypeOK
  BY DEF Init, RoomsTypeOK
<1>3. ASSUME NEW p \in Pages PROVE PageOK(p)
  <2>1. Silent(p) /\ p \notin known
    BY DEF Init, Silent
  <2>2. \A c \in Channels : Unwanted(p, c)
    BY <2>1, NothingIsWanted DEF Silent, Unwanted
  <2> QED
    BY <2>1, <2>2 DEF PageOK
<1> QED
  BY <1>2, <1>3 DEF IInv

LEMMA StepOK == IInv /\ [Next]_vars => IInv'
<1> SUFFICES ASSUME IInv, [Next]_vars PROVE IInv'
  OBVIOUS
<1>1. ASSUME NEW k \in Calls, NEW m \in Messages, Store(k, m) \/ HttpStore(k, m) PROVE IInv'
  BY <1>1, ElsewhereStep DEF Store, HttpStore, roomVars, socket, page
<1>2. ASSUME NEW k \in Calls, NEW c \in Channels, Signal(k, c) PROVE IInv'
  BY <1>2, ElsewhereStep DEF Signal, roomVars, socket, page
<1>3. ASSUME NEW k \in Calls, Reread(k) \/ Publish(k) \/ CallFails(k) PROVE IInv'
  BY <1>3, ElsewhereStep DEF Reread, Publish, CallFails, roomVars, socket, page
<1>4. ASSUME NEW g \in Gateways, Broadcast(g) \/ LoseRedis(g) PROVE IInv'
  BY <1>4, ElsewhereStep DEF Broadcast, LoseRedis, roomVars, socket, page
<1>5. ASSUME NEW g \in Gateways, Restart(g) PROVE IInv'
  BY <1>5, ForgetStep DEF Restart, page
<1>6. ASSUME NEW p \in Pages, NEW g \in Gateways, Connect(p, g) PROVE IInv'
  BY <1>6, ElsewhereStep DEF Connect, roomVars, page
<1>7. ASSUME NEW p \in Pages, GiveUp(p) PROVE IInv'
  BY <1>7, ElsewhereStep DEF GiveUp, roomVars, page
<1>8. ASSUME NEW p \in Pages, Handle(p) PROVE IInv'
  BY <1>8, ElsewhereStep DEF Handle, roomVars, socket
<1>9. ASSUME NEW p \in Pages, Drop(p) PROVE IInv'
  BY <1>9, ForgetStep DEF Drop, page
<1>10. ASSUME UNCHANGED vars PROVE IInv'
  BY <1>10, ElsewhereStep DEF vars, roomVars, socket, page
<1> QED
  BY <1>1, <1>2, <1>3, <1>4, <1>5, <1>6, <1>7, <1>8, <1>9, <1>10, ServeJoinStep,
     ServeLeaveStep, CheckStep, SelectStep, RenderStep DEF Next

LEMMA Invariance == Spec => []IInv
<1> QED
  BY InitOK, StepOK, PTL DEF Spec

LEMMA IInvIsEnough == IInv => RoomsFollowThePage
<1> SUFFICES ASSUME IInv PROVE RoomsFollowThePage
  OBVIOUS
<1>1. SelectedIsHeard
  <2> SUFFICES ASSUME NEW p \in Pages, Served(p, selected[p]), p \notin deaf
               PROVE  selected[p] \in rooms[p] \cup refused[p]
    BY DEF SelectedIsHeard
  <2>1. Wanted(p, selected[p])
    BY DEF IInv, PageOK, Served
  <2> QED
    BY <2>1, NothingIsWanted DEF Wanted, Served
<1>2. StraysWereOvertaken
  <2> SUFFICES ASSUME NEW p \in Pages, NEW c \in rooms[p] \ {selected[p]}
               PROVE  \/ c \in overtaken[p]
                      \/ \E i \in DOMAIN outbox[p] : outbox[p][i] = Leave(c)
    BY DEF StraysWereOvertaken
  <2>1. c \in Channels
    BY DEF IInv, RoomsTypeOK
  <2>2. Unwanted(p, c)
    BY <2>1 DEF IInv, PageOK
  <2> QED
    BY <2>2 DEF Unwanted, WillLeave
<1> QED
  BY <1>1, <1>2 DEF RoomsFollowThePage

\* The rooms of a page: once its commands are served and checked, a page that
\* stayed connected is in the room of the channel it shows unless it was
\* refused, and a room of another channel is left over only where a leave
\* overtook the check of a join. The effect of the page emits the leave and
\* the join in one order (page.tsx 242-249), the gateway serves the leave at
\* once and the join after a call of the messaging service (realtime.gateway.ts
\* 90-112).
THEOREM RoomsAreFollowed == Spec => []RoomsFollowThePage
<1> QED
  BY Invariance, IInvIsEnough, PTL
-------------------------------------------------------------------------------
(* Events: what a page that stays in a room shows *)

LinkStates == {"connecting", "up", "retrying", "dead"}

EventsTypeOK ==
  /\ rev \in [Messages -> Nat] /\ call \in [Calls -> Call]
  /\ log \in Seq(Envelope) /\ at \in [Gateways -> 0..Len(log)]
  /\ skipped \in [Gateways -> SUBSET Nat] /\ link \in [Pages -> LinkStates]
  /\ gate \in [Pages -> Gateways \cup {NoGateway}] /\ rooms \in [Pages -> SUBSET Channels]
  /\ checks \in [Pages -> [Channels -> Nat]]
  /\ inbox \in [Pages -> Seq(Nat)] /\ shown \in [Pages -> [Messages -> Nat]]
  /\ since \in [Pages -> [Channels -> Nat]]

\* Only a connected socket has rooms and checks.
Connected(p) ==
  /\ link[p] = "up" <=> gate[p] # NoGateway
  /\ gate[p] = NoGateway => rooms[p] = {} /\ \A c \in Channels : checks[p][c] = 0
SocketsOK == \A p \in Pages : Connected(p)

\* An envelope is about a change that was made, and goes to the message's room.
LogOK == \A i \in DOMAIN log  :
  log[i].message \in Messages =>
    log[i].room = ChannelOf[log[i].message] /\ log[i].rev <= rev[log[i].message]
CallOK(k) ==
  /\ call[k].pc = "idle" => call[k].message = NoMessage
  /\ call[k].pc = "stored" => call[k].message \in Messages /\ call[k].room = ChannelOf[call[k].message]
  /\ call[k].pc = "publish" =>
       /\ call[k].room \in Channels
       /\ call[k].message \in Messages => /\ call[k].room = ChannelOf[call[k].message]
                                          /\ call[k].rev <= rev[call[k].message]
CallsOK == \A k \in Calls : CallOK(k)

\* The last change of a message is published, or will be.
Told(m) ==
  \/ rev[m] = 0 \/ m \in unsaid
  \/ \E k \in Calls : /\ call[k].message = m
                      /\ \/ call[k].pc = "stored"
                         \/ call[k].pc = "publish" /\ call[k].rev = rev[m]
  \/ \E i \in About(m) : log[i].rev = rev[m]
HasLast(m) == About(m) # {} => \E i \in About(m) : \A j \in About(m) : j <= i
SaidOK == \A m \in Messages : Told(m) /\ HasLast(m)

\* Positions that have reached the gateway are behind it.
ReachedOK ==
  /\ \A g \in Gateways : \A i \in skipped[g] : i <= at[g]
  /\ \A p \in Pages : \A i \in DOMAIN inbox[p] : inbox[p][i] \in DOMAIN log
  /\ \A p \in Pages : \A c \in rooms[p] : since[p][c] <= at[gate[p]]

\* What a page was sent of a message since it entered the room.
Heard(p, m) == {i \in About(m) : /\ since[p][ChannelOf[m]] < i /\ i <= at[gate[p]]
                                 /\ i \notin skipped[gate[p]]}
LastHeard(p, m, i) == i \in Heard(p, m) /\ \A j \in Heard(p, m) : j <= i

\* The last of it is on its way, or was handled last.
Waits(p, m, i) == \E n \in DOMAIN inbox[p] :
  /\ inbox[p][n] = i
  /\ \A l \in DOMAIN inbox[p] : l > n => log[inbox[p][l]].message # m
Shows(p, m, i) ==
  /\ \A l \in DOMAIN inbox[p] : log[inbox[p][l]].message # m
  /\ shown[p][m] = log[i].rev
Follows(p, m) ==
  ChannelOf[m] \in rooms[p] =>
    \A i \in Heard(p, m) : LastHeard(p, m, i) => Waits(p, m, i) \/ Shows(p, m, i)
PagesFollow == \A p \in Pages, m \in Messages : Follows(p, m)

EventsInv ==
  EventsTypeOK /\ SocketsOK /\ LogOK /\ CallsOK /\ SaidOK /\ ReachedOK /\ PagesFollow


\* A page that gets nothing and stays, or leaves the room.
LEMMA FollowsSame ==
  ASSUME EventsInv, NEW p \in Pages, NEW m \in Messages,
         ChannelOf[m] \in rooms'[p] => ChannelOf[m] \in rooms[p] /\ Heard(p, m)' = Heard(p, m),
         inbox'[p] = inbox[p], shown'[p] = shown[p],
         \A i \in DOMAIN log : log'[i] = log[i]
  PROVE  Follows(p, m)'
<1> SUFFICES ASSUME ChannelOf[m] \in rooms'[p], NEW i \in Heard(p, m), LastHeard(p, m, i)'
             PROVE  Waits(p, m, i)' \/ Shows(p, m, i)'
  BY DEF Follows
<1>1. Waits(p, m, i) \/ Shows(p, m, i)
  BY DEF EventsInv, PagesFollow, Follows, LastHeard
<1>2. i \in DOMAIN log /\ \A l \in DOMAIN inbox[p] : inbox[p][l] \in DOMAIN log
  BY DEF Heard, About, EventsInv, ReachedOK
<1>3. CASE Waits(p, m, i)
  BY <1>2, <1>3 DEF Waits
<1>4. CASE Shows(p, m, i)
  BY <1>2, <1>4 DEF Shows
<1> QED
  BY <1>1, <1>3, <1>4

eventVars == <<rev, call, log, at, link, gate, rooms, checks, inbox, shown, since, unsaid, skipped>>
wireVars  == <<log, at, link, gate, rooms, checks, inbox, shown, since, skipped>>

\* Steps that leave the rows, the calls and the log alone, or the sockets.
LEMMA SaidSame ==
  ASSUME EventsInv, UNCHANGED <<rev, call, unsaid, log>>
  PROVE  LogOK' /\ CallsOK' /\ SaidOK'
<1>1. LogOK'
  BY DEF EventsInv, LogOK
<1>2. CallsOK'
  BY DEF EventsInv, CallsOK, CallOK
<1>3. SaidOK'
  BY DEF EventsInv, SaidOK, Told, HasLast, About
<1> QED
  BY <1>1, <1>2, <1>3

LEMMA SocketsSame ==
  ASSUME EventsInv, UNCHANGED <<link, gate, rooms, checks>>
  PROVE  SocketsOK'
BY DEF EventsInv, SocketsOK, Connected

LEMMA EventsElsewhere ==
  ASSUME EventsInv, UNCHANGED eventVars
  PROVE  EventsInv'
<1>1. EventsTypeOK' /\ SocketsOK'
  BY DEF EventsInv, eventVars, EventsTypeOK, SocketsOK, Connected
<1>2. LogOK' /\ CallsOK' /\ ReachedOK'
  BY DEF EventsInv, eventVars, LogOK, CallsOK, CallOK, ReachedOK
<1>3. SaidOK'
  BY DEF EventsInv, eventVars, SaidOK, Told, HasLast, About
<1>4. ASSUME NEW p \in Pages, NEW m \in Messages PROVE Follows(p, m)'
  <2>1. Heard(p, m)' = Heard(p, m)
    BY DEF eventVars, Heard, About
  <2> QED
    BY <2>1, FollowsSame DEF eventVars
<1> QED
  BY <1>1, <1>2, <1>3, <1>4 DEF EventsInv, PagesFollow

\* A step of a handler: rows change, and what is to be said of them.
LEMMA ServerStep ==
  ASSUME EventsInv, UNCHANGED wireVars,
         rev' \in [Messages -> Nat], \A m \in Messages : rev[m] <= rev'[m],
         call' \in [Calls -> Call], CallsOK', \A m \in Messages : Told(m)'
  PROVE  EventsInv'
<1>1. EventsTypeOK' /\ SocketsOK'
  BY DEF EventsInv, wireVars, EventsTypeOK, SocketsOK, Connected
<1>2. LogOK'
  <2> SUFFICES ASSUME NEW i \in DOMAIN log, log[i].message \in Messages
               PROVE  /\ log[i].room = ChannelOf[log[i].message]
                      /\ log[i].rev <= rev'[log[i].message]
    BY DEF LogOK, wireVars
  <2>1. log[i].room = ChannelOf[log[i].message] /\ log[i].rev <= rev[log[i].message]
    BY DEF EventsInv, LogOK
  <2>2. log[i] \in Envelope
    BY DEF EventsInv, EventsTypeOK
  <2>3. rev[log[i].message] \in Nat /\ rev'[log[i].message] \in Nat /\ log[i].rev \in Nat
    BY <2>2 DEF EventsInv, EventsTypeOK, Envelope
  <2>4. rev[log[i].message] <= rev'[log[i].message]
    OBVIOUS
  <2> QED
    BY <2>1, <2>3, <2>4
<1>3. ReachedOK'
  BY DEF EventsInv, wireVars, ReachedOK
<1>4. SaidOK'
  BY DEF EventsInv, wireVars, SaidOK, HasLast, About
<1>5. ASSUME NEW p \in Pages, NEW m \in Messages PROVE Follows(p, m)'
  <2>1. Heard(p, m)' = Heard(p, m)
    BY DEF wireVars, Heard, About
  <2> QED
    BY <2>1, FollowsSame DEF wireVars
<1> QED
  BY <1>1, <1>2, <1>3, <1>4, <1>5 DEF EventsInv, PagesFollow

\* What the steps of a handler do to its call.
LEMMA CallChanges ==
  ASSUME EventsInv, NEW k \in Calls
  PROVE  /\ \A m \in Messages : Store(k, m) =>
              /\ call'[k].pc = "stored" /\ call'[k].message = m /\ call'[k].room = ChannelOf[m]
              /\ call'[k] \in Call
         /\ \A m \in Messages : HttpStore(k, m) =>
              call'[k].pc = "done" /\ call'[k] \in Call
         /\ \A c \in Channels : Signal(k, c) =>
              /\ call'[k].pc = "publish" /\ call'[k].room = c
              /\ call'[k].message = call[k].message /\ call'[k] \in Call
         /\ Reread(k) =>
              /\ call'[k].pc = "publish" /\ call'[k].rev = rev[call[k].message]
              /\ call'[k].message = call[k].message /\ call'[k].room = call[k].room
              /\ call'[k] \in Call
         /\ Publish(k) => call'[k].pc = "done" /\ call'[k] \in Call
         /\ CallFails(k) => call'[k].pc = "failed" /\ call'[k] \in Call
<1>1. call \in [Calls -> Call] /\ call[k] \in Call
  BY DEF EventsInv, EventsTypeOK
<1>2. ASSUME NEW m \in Messages, Store(k, m)
      PROVE  /\ call'[k].pc = "stored" /\ call'[k].message = m /\ call'[k].room = ChannelOf[m]
             /\ call'[k] \in Call
  <2>1. ChannelOf[m] \in Channels
    BY RealtimeAssumption
  <2> QED
    BY <1>1, <1>2, <2>1 DEF Store, Call
<1>3. ASSUME NEW m \in Messages, HttpStore(k, m)
      PROVE  call'[k].pc = "done" /\ call'[k] \in Call
  BY <1>1, <1>3 DEF HttpStore, Call
<1>4. ASSUME NEW c \in Channels, Signal(k, c)
      PROVE  /\ call'[k].pc = "publish" /\ call'[k].room = c
  /\ call'[k].message = call[k].message /\ call'[k] \in Call
  BY <1>1, <1>4 DEF Signal, Call
<1>5. ASSUME Reread(k)
      PROVE  /\ call'[k].pc = "publish" /\ call'[k].rev = rev[call[k].message]
             /\ call'[k].message = call[k].message /\ call'[k].room = call[k].room
             /\ call'[k] \in Call
  <2>1. call[k].message \in Messages /\ rev[call[k].message] \in Nat
    BY <1>5 DEF Reread, EventsInv, CallsOK, CallOK, EventsTypeOK
  <2> QED
    BY <1>1, <1>5, <2>1 DEF Reread, Call
<1>6. ASSUME Publish(k)
      PROVE  call'[k].pc = "done" /\ call'[k] \in Call
  BY <1>1, <1>6 DEF Publish, Call
<1>7. ASSUME CallFails(k)
      PROVE  call'[k].pc = "failed" /\ call'[k] \in Call
  BY <1>1, <1>7 DEF CallFails, Call
<1> QED
  BY <1>2, <1>3, <1>4, <1>5, <1>6, <1>7

LEMMA OtherCalls ==
  ASSUME EventsInv, NEW k \in Calls, call'[k] \in Call,
         \/ \E m \in Messages : Store(k, m) \/ HttpStore(k, m)
         \/ \E c \in Channels : Signal(k, c)
         \/ Reread(k) \/ Publish(k) \/ CallFails(k)
  PROVE  call' \in [Calls -> Call] /\ \A j \in Calls \ {k} : call'[j] = call[j]
<1>1. call \in [Calls -> Call]
  BY DEF EventsInv, EventsTypeOK
<1>2. DOMAIN call' = Calls /\ call' = [j \in Calls |-> call'[j]]
  BY <1>1 DEF Store, HttpStore, Signal, Reread, Publish, CallFails
<1>3. \A j \in Calls \ {k} : call'[j] = call[j]
  BY <1>1 DEF Store, HttpStore, Signal, Reread, Publish, CallFails
<1>4. \A j \in Calls : call'[j] \in Call
  BY <1>1, <1>3
<1> QED
  BY <1>2, <1>3, <1>4


\* A call that is not touched keeps its promise; so does a message whose call is not.
LEMMA CallStays ==
  ASSUME EventsInv, NEW j \in Calls, call'[j] = call[j],
         rev' \in [Messages -> Nat], \A m \in Messages : rev[m] <= rev'[m]
  PROVE  CallOK(j)'
<1>1. CallOK(j) /\ call[j] \in Call /\ rev \in [Messages -> Nat]
  BY DEF EventsInv, CallsOK, EventsTypeOK
<1>2. ASSUME call[j].message \in Messages, call[j].rev <= rev[call[j].message]
      PROVE  call[j].rev <= rev'[call[j].message]
  <2>1. call[j].rev \in Nat /\ rev[call[j].message] \in Nat /\ rev'[call[j].message] \in Nat
    BY <1>1, <1>2 DEF Call
  <2>2. rev[call[j].message] <= rev'[call[j].message]
    BY <1>2
  <2> QED
    BY <1>2, <2>1, <2>2
<1> QED
  BY <1>1, <1>2 DEF CallOK

LEMMA ToldStays ==
  ASSUME EventsInv, NEW m \in Messages, NEW k \in Calls, \A j \in Calls \ {k} : call'[j] = call[j],
         rev'[m] = rev[m], unsaid \subseteq unsaid', log' = log,
         call[k].pc \notin {"stored", "publish"} \/ call[k].message # m
  PROVE  Told(m)'
<1>1. Told(m)
  BY DEF EventsInv, SaidOK
<1>2. CASE \E j \in Calls : /\ call[j].message = m
                            /\ call[j].pc = "stored" \/ (call[j].pc = "publish" /\ call[j].rev = rev[m])
  <2>1. PICK j \in Calls : /\ call[j].message = m
                           /\ call[j].pc = "stored" \/ (call[j].pc = "publish" /\ call[j].rev = rev[m])
    BY <1>2
  <2>2. j # k
    BY <2>1
  <2> QED
    BY <2>1, <2>2 DEF Told
<1>3. CASE rev[m] = 0 \/ m \in unsaid \/ \E i \in About(m) : log[i].rev = rev[m]
  BY <1>3 DEF Told, About
<1> QED
  BY <1>1, <1>2, <1>3 DEF Told

LEMMA StoreStep ==
  ASSUME EventsInv, NEW k \in Calls, NEW m \in Messages, Store(k, m) \/ HttpStore(k, m)
  PROVE  EventsInv'
<1>1. /\ rev \in [Messages -> Nat] /\ call[k].pc = "idle" /\ call[k].message = NoMessage
      /\ rev' = [rev EXCEPT ![m] = @ + 1] /\ unsaid \subseteq unsaid' /\ UNCHANGED wireVars
  BY DEF EventsInv, EventsTypeOK, CallsOK, CallOK, Store, HttpStore, wireVars, redis, socket, page
<1>2. rev' \in [Messages -> Nat] /\ \A n \in Messages : rev[n] <= rev'[n]
  BY <1>1
<1>3. call' \in [Calls -> Call] /\ \A j \in Calls \ {k} : call'[j] = call[j]
  BY CallChanges, OtherCalls
<1>4. CallOK(k)' /\ Told(m)'
  <2>1. CASE Store(k, m)
    <3>1. call'[k].pc = "stored" /\ call'[k].message = m /\ call'[k].room = ChannelOf[m]
      BY <2>1, CallChanges
    <3> QED
      BY <3>1 DEF CallOK, Told
  <2>2. CASE HttpStore(k, m)
    <3>1. call'[k].pc = "done" /\ m \in unsaid'
      BY <2>2, CallChanges DEF HttpStore
    <3> QED
      BY <3>1 DEF CallOK, Told
  <2> QED
    BY <2>1, <2>2
<1>5. \A j \in Calls \ {k} : CallOK(j)'
  BY <1>2, <1>3, CallStays
<1>6. ASSUME NEW n \in Messages \ {m} PROVE Told(n)'
  <2>1. log' = log /\ rev'[n] = rev[n]
    BY <1>1 DEF wireVars
  <2> QED
    BY <1>1, <1>3, <2>1, ToldStays
<1>7. CallsOK' /\ \A n \in Messages : Told(n)'
  BY <1>4, <1>5, <1>6 DEF CallsOK
<1> QED
  BY <1>1, <1>2, <1>3, <1>7, ServerStep

\* The other steps of a handler that publish nothing.
LEMMA AnswerStep ==
  ASSUME EventsInv, NEW k \in Calls, (\E c \in Channels : Signal(k, c)) \/ Reread(k) \/ CallFails(k)
  PROVE  EventsInv'
<1>1. /\ rev \in [Messages -> Nat] /\ CallOK(k) /\ call[k] \in Call
      /\ rev' = rev /\ unsaid \subseteq unsaid' /\ UNCHANGED wireVars
  BY DEF EventsInv, EventsTypeOK, CallsOK, Signal, Reread, CallFails, wireVars, redis, socket, page
<1>2. rev' \in [Messages -> Nat] /\ \A n \in Messages : rev[n] <= rev'[n]
  BY <1>1
<1>3. call' \in [Calls -> Call] /\ \A j \in Calls \ {k} : call'[j] = call[j]
  BY CallChanges, OtherCalls
<1>4. /\ CallOK(k)'
      /\ call[k].pc \in {"stored", "publish"} =>
           \A n \in Messages : call[k].message = n => Told(n)'
  <2>1. ASSUME NEW c \in Channels, Signal(k, c) PROVE CallOK(k)' /\ call[k].pc = "idle"
    <3>1. /\ call'[k].pc = "publish" /\ call'[k].message = call[k].message /\ call'[k].room = c
          /\ call[k].pc = "idle"
      BY <2>1, CallChanges DEF Signal
    <3>2. call[k].message \notin Messages
      BY <1>1, <3>1, RealtimeAssumption DEF CallOK
    <3> QED
      BY <3>1, <3>2 DEF CallOK
  <2>2. ASSUME Reread(k)
        PROVE  CallOK(k)' /\ \A n \in Messages : call[k].message = n => Told(n)'
    <3>1. PICK m : m = call[k].message
      OBVIOUS
    <3>2. /\ call'[k].pc = "publish" /\ call'[k].message = m /\ call'[k].room = call[k].room
          /\ call'[k].rev = rev[m] /\ call[k].pc = "stored"
      BY <2>2, <3>1, CallChanges DEF Reread
    <3>3. m \in Messages /\ call[k].room = ChannelOf[m]
      BY <1>1, <3>1, <3>2 DEF CallOK
    <3>4. ChannelOf[m] \in Channels /\ rev[m] \in Nat /\ rev'[m] = rev[m]
      BY <1>1, <3>3, RealtimeAssumption
    <3>5. CallOK(k)'
      BY <3>2, <3>3, <3>4 DEF CallOK
    <3>6. Told(m)'
      BY <3>2, <3>4 DEF Told
    <3> QED
      BY <3>1, <3>5, <3>6
  <2>3. ASSUME CallFails(k)
        PROVE  CallOK(k)' /\ \A n \in Messages : call[k].message = n => Told(n)'
    <3>1. call'[k].pc = "failed"
      BY <2>3, CallChanges
    <3>2. \A n \in Messages : call[k].message = n => n \in unsaid'
      BY <2>3, RealtimeAssumption DEF CallFails
    <3> QED
      BY <3>1, <3>2 DEF CallOK, Told
  <2> QED
    BY <2>1, <2>2, <2>3
<1>5. \A j \in Calls \ {k} : CallOK(j)'
  BY <1>2, <1>3, CallStays
<1>6. ASSUME NEW n \in Messages PROVE Told(n)'
  <2>1. CASE call[k].pc \notin {"stored", "publish"} \/ call[k].message # n
    <3>1. log' = log /\ rev'[n] = rev[n]
      BY <1>1 DEF wireVars
    <3> QED
      BY <1>1, <1>3, <2>1, <3>1, ToldStays
  <2>2. CASE call[k].pc \in {"stored", "publish"} /\ call[k].message = n
    BY <1>4, <2>2
  <2> QED
    BY <2>1, <2>2
<1>7. CallsOK' /\ \A n \in Messages : Told(n)'
  BY <1>4, <1>5, <1>6 DEF CallsOK
<1> QED
  BY <1>1, <1>2, <1>3, <1>7, ServerStep


\* A page in a room is connected to a gateway.
LEMMA InARoom ==
  ASSUME EventsInv, NEW p \in Pages, NEW c \in rooms[p]
  PROVE  /\ c \in Channels /\ gate[p] \in Gateways
         /\ at[gate[p]] \in Nat /\ at[gate[p]] <= Len(log) /\ Len(log) \in Nat
         /\ since[p][c] \in Nat /\ since[p][c] <= at[gate[p]]
<1>1. c \in Channels /\ gate[p] \in Gateways
  BY DEF EventsInv, EventsTypeOK, SocketsOK, Connected
<1> QED
  BY <1>1 DEF EventsInv, EventsTypeOK, ReachedOK

LEMMA PublishStep ==
  ASSUME EventsInv, NEW k \in Calls, Publish(k)
  PROVE  EventsInv'
<1> DEFINE e == [room |-> call[k].room, message |-> call[k].message, rev |-> call[k].rev]
           n == Len(log) + 1
<1>1. /\ call[k] \in Call /\ call[k].pc = "publish" /\ CallOK(k) /\ log \in Seq(Envelope)
      /\ log' = Append(log, e)
      /\ UNCHANGED <<rev, unsaid, at, skipped, link, gate, rooms, checks, since, inbox, shown>>
  BY DEF EventsInv, EventsTypeOK, CallsOK, Publish, socket, page
<1>2. call' \in [Calls -> Call] /\ call'[k].pc = "done" /\ \A j \in Calls \ {k} : call'[j] = call[j]
  BY CallChanges, OtherCalls
<1>3. e \in Envelope /\ e.message = call[k].message /\ e.rev = call[k].rev /\ e.room = call[k].room
  BY <1>1 DEF CallOK, Call, Envelope
<1> HIDE DEF e
<1>4. /\ log' \in Seq(Envelope) /\ Len(log) \in Nat /\ Len(log') = n
      /\ DOMAIN log = 1..Len(log) /\ DOMAIN log' = 1..n
      /\ \A i \in DOMAIN log : log'[i] = log[i]
      /\ log'[n] = e
  BY <1>1, <1>3, AppendProperties
<1>5. n \notin DOMAIN log /\ n \in DOMAIN log' /\ DOMAIN log' = DOMAIN log \cup {n}
  BY <1>4
<1> HIDE DEF n
<1>6. EventsTypeOK'
  <2>1. at' \in [Gateways -> 0..Len(log')]
    BY <1>1, <1>4 DEF EventsInv, EventsTypeOK, n
  <2> QED
    BY <1>1, <1>2, <1>4, <2>1 DEF EventsInv, EventsTypeOK
<1>7. SocketsOK'
  BY <1>1 DEF EventsInv, SocketsOK, Connected
<1>8. LogOK'
  BY <1>1, <1>3, <1>4, <1>5 DEF EventsInv, LogOK, CallOK
<1>9. CallsOK'
  <2>1. \A j \in Calls \ {k} : CallOK(j)'
    BY <1>1, <1>2 DEF EventsInv, CallsOK, CallOK
  <2> QED
    BY <1>2, <2>1 DEF CallsOK, CallOK
<1>10. ASSUME NEW m \in Messages PROVE Told(m)' /\ HasLast(m)'
  <2>1. About(m) \subseteq About(m)' /\ About(m)' \subseteq About(m) \cup {n}
        /\ (n \in About(m)' <=> call[k].message = m)
    BY <1>3, <1>4, <1>5 DEF About
  <2>2. \A i \in About(m) : i \in DOMAIN log /\ log'[i] = log[i] /\ i <= n
    BY <1>4 DEF About, n
  <2>3. Told(m) /\ HasLast(m)
    BY DEF EventsInv, SaidOK
  <2>4. HasLast(m)'
    <3>1. CASE call[k].message = m
      <4>1. n \in Nat /\ \A j \in About(m)' : j <= n
        BY <1>4, <2>1, <2>2 DEF n
      <4> QED
        BY <2>1, <3>1, <4>1 DEF HasLast
    <3>2. CASE call[k].message # m
      <4>1. About(m)' = About(m)
        BY <2>1, <3>2
      <4> QED
        BY <2>3, <4>1 DEF HasLast
    <3> QED
      BY <3>1, <3>2
  <2>5. Told(m)'
    <3>1. CASE \E j \in Calls : /\ call[j].message = m
                                /\ call[j].pc = "stored" \/ (call[j].pc = "publish" /\ call[j].rev = rev[m])
      <4>1. PICK j \in Calls : /\ call[j].message = m
                               /\ call[j].pc = "stored" \/ (call[j].pc = "publish" /\ call[j].rev = rev[m])
        BY <3>1
      <4>2. CASE j = k
        <5>1. n \in About(m)' /\ log'[n].rev = rev'[m]
          BY <1>1, <1>3, <1>4, <2>1, <4>1, <4>2
        <5> QED
          BY <5>1 DEF Told
      <4>3. CASE j # k
        BY <1>1, <1>2, <4>1, <4>3 DEF Told
      <4> QED
        BY <4>2, <4>3
    <3>2. CASE rev[m] = 0 \/ m \in unsaid
      BY <1>1, <3>2 DEF Told
    <3>3. CASE \E i \in About(m) : log[i].rev = rev[m]
      BY <1>1, <2>1, <2>2, <3>3 DEF Told
    <3> QED
      BY <2>3, <3>1, <3>2, <3>3 DEF Told
  <2> QED
    BY <2>4, <2>5
<1>11. ReachedOK'
  BY <1>1, <1>5 DEF EventsInv, ReachedOK
<1>12. ASSUME NEW p \in Pages, NEW m \in Messages PROVE Follows(p, m)'
  <2>1. ASSUME ChannelOf[m] \in rooms'[p] PROVE ChannelOf[m] \in rooms[p] /\ Heard(p, m)' = Heard(p, m)
    <3>1. ChannelOf[m] \in rooms[p]
      BY <1>1, <2>1
    <3>2. at[gate[p]] \in Nat /\ at[gate[p]] <= Len(log)
      BY <3>1, InARoom
    <3>3. ~(n <= at[gate[p]])
      BY <1>4, <3>2 DEF n
    <3>4. \A i \in DOMAIN log : i \in About(m)' <=> i \in About(m)
      BY <1>4, <1>5 DEF About
    <3>5. \A i : i \in About(m) => i \in DOMAIN log
      BY DEF About
    <3>6. \A i : i \in About(m)' => i \in DOMAIN log \/ i = n
      BY <1>5 DEF About
    <3> QED
      BY <1>1, <3>1, <3>3, <3>4, <3>5, <3>6 DEF Heard
  <2> QED
    BY <1>1, <1>4, <2>1, FollowsSame
<1> QED
  BY <1>6, <1>7, <1>8, <1>9, <1>10, <1>11, <1>12 DEF EventsInv, SaidOK, PagesFollow


\* What is added at the end of an inbox.
LEMMA InboxGrows ==
  ASSUME EventsInv, NEW p \in Pages, NEW n \in Nat, inbox'[p] = Append(inbox[p], n)
  PROVE  /\ inbox'[p] \in Seq(Nat)
         /\ \E l \in Nat : /\ DOMAIN inbox[p] = 1..l /\ DOMAIN inbox'[p] = 1..(l + 1)
                           /\ \A j \in 1..l : inbox'[p][j] = inbox[p][j]
                           /\ inbox'[p][l + 1] = n
<1> DEFINE s == inbox[p]
           t == inbox'[p]
<1>1. s \in Seq(Nat) /\ t = Append(s, n)
  BY DEF EventsInv, EventsTypeOK
<1> HIDE DEF s, t
<1>2. /\ t \in Seq(Nat) /\ Len(s) \in Nat /\ DOMAIN s = 1..Len(s) /\ DOMAIN t = 1..(Len(s) + 1)
      /\ \A j \in 1..Len(s) : t[j] = s[j]
      /\ t[Len(s) + 1] = n
  BY <1>1, AppendProperties
<1> QED
  BY <1>2 DEF s, t

LEMMA BroadcastStep ==
  ASSUME EventsInv, NEW g \in Gateways, Broadcast(g)
  PROVE  EventsInv'
<1>0. PICK n : n = at[g] + 1
  OBVIOUS
<1> DEFINE emitted(p) == gate[p] = g /\ log[n].room \in rooms[p]
<1>1. /\ at \in [Gateways -> 0..Len(log)] /\ log \in Seq(Envelope) /\ at[g] < Len(log)
      /\ at' = [at EXCEPT ![g] = n]
      /\ \A p \in Pages : inbox'[p] = IF emitted(p) THEN Append(inbox[p], n) ELSE inbox[p]
      /\ DOMAIN inbox' = Pages /\ inbox' = [p \in Pages |-> inbox'[p]]
      /\ UNCHANGED <<rev, call, unsaid, log, skipped, link, gate, rooms, checks, since, shown>>
  BY <1>0 DEF EventsInv, EventsTypeOK, Broadcast, InRoom, server, socket, page
<1>2. n \in Nat /\ n \in 1..Len(log) /\ DOMAIN log = 1..Len(log) /\ Len(log) \in Nat /\ at[g] < n
  BY <1>0, <1>1
<1>3. /\ at'[g] = n /\ \A h \in Gateways \ {g} : at'[h] = at[h]
      /\ \A h \in Gateways : at[h] \in Nat /\ at'[h] \in Nat /\ at[h] <= at'[h]
      /\ \A i \in Nat : i <= n => i <= at[g] \/ i = n
  BY <1>0, <1>1, <1>2
<1>4. EventsTypeOK'
  <2>1. at' \in [Gateways -> 0..Len(log')]
    BY <1>1, <1>2
  <2>2. ASSUME NEW p \in Pages PROVE inbox'[p] \in Seq(Nat)
    <3>1. CASE emitted(p)
      <4>1. inbox'[p] = Append(inbox[p], n)
        BY <1>1, <3>1
      <4> QED
        BY <1>2, <4>1, InboxGrows
    <3>2. CASE ~emitted(p)
      BY <1>1, <3>2 DEF EventsInv, EventsTypeOK
    <3> QED
      BY <3>1, <3>2
  <2> QED
    BY <1>1, <2>1, <2>2 DEF EventsInv, EventsTypeOK
<1>5. SocketsOK' /\ LogOK' /\ CallsOK' /\ SaidOK'
  BY <1>1, SocketsSame, SaidSame
<1>6. ReachedOK'
  <2>1. ASSUME NEW h \in Gateways, NEW i \in skipped[h] PROVE i <= at'[h]
    <3>1. i <= at[h] /\ i \in Nat
      BY DEF EventsInv, ReachedOK, EventsTypeOK
    <3> QED
      BY <1>3, <3>1
  <2>2. ASSUME NEW p \in Pages, NEW j \in DOMAIN inbox'[p] PROVE inbox'[p][j] \in DOMAIN log
    <3>1. \A l \in DOMAIN inbox[p] : inbox[p][l] \in DOMAIN log
      BY DEF EventsInv, ReachedOK
    <3>2. CASE emitted(p)
      <4>0. inbox'[p] = Append(inbox[p], n)
        BY <1>1, <3>2
      <4>1. PICK l \in Nat : /\ DOMAIN inbox[p] = 1..l /\ DOMAIN inbox'[p] = 1..(l + 1)
                             /\ \A i \in 1..l : inbox'[p][i] = inbox[p][i]
                             /\ inbox'[p][l + 1] = n
        BY <1>2, <4>0, InboxGrows
      <4>2. j \in 1..l \/ j = l + 1
        BY <4>1
      <4>3. CASE j \in 1..l
        BY <3>1, <4>1, <4>3
      <4>4. CASE j = l + 1
        BY <1>2, <4>1, <4>4
      <4> QED
        BY <4>2, <4>3, <4>4
    <3>3. CASE ~emitted(p)
      BY <1>1, <3>1, <3>3
    <3> QED
      BY <3>2, <3>3
  <2>3. ASSUME NEW p \in Pages, NEW c \in rooms[p] PROVE since[p][c] <= at'[gate[p]]
    BY <1>3, InARoom
  <2> QED
    BY <1>1, <2>1, <2>2, <2>3 DEF ReachedOK
<1>7. ASSUME NEW p \in Pages, NEW m \in Messages, ChannelOf[m] \in rooms[p] PROVE Follows(p, m)'
  <2>1. /\ gate[p] \in Gateways
        /\ since[p][ChannelOf[m]] \in Nat /\ since[p][ChannelOf[m]] <= at[gate[p]]
    BY <1>7, InARoom
  <2>2. About(m)' = About(m) /\ \A i \in About(m) : i \in Nat /\ i \in DOMAIN log
    BY <1>1, <1>2 DEF About
  <2>3. CASE gate[p] # g
    <3>1. Heard(p, m)' = Heard(p, m)
      BY <1>1, <1>3, <2>1, <2>2, <2>3 DEF Heard
    <3>2. inbox'[p] = inbox[p] /\ shown'[p] = shown[p] /\ \A i \in DOMAIN log : log'[i] = log[i]
      BY <1>1, <2>3
    <3> QED
      BY <1>7, <3>1, <3>2, FollowsSame
  <2>4. CASE gate[p] = g /\ log[n].message = m
    <3>1. emitted(p)
      BY <1>2, <1>7, <2>4 DEF EventsInv, LogOK
    <3>2. PICK l \in Nat : /\ DOMAIN inbox[p] = 1..l /\ DOMAIN inbox'[p] = 1..(l + 1)
                           /\ \A i \in 1..l : inbox'[p][i] = inbox[p][i]
                           /\ inbox'[p][l + 1] = n
      <4>1. inbox'[p] = Append(inbox[p], n)
        BY <1>1, <3>1
      <4> QED
        BY <1>2, <4>1, InboxGrows
    <3>3. Waits(p, m, n)'
      <4>1. l + 1 \in DOMAIN inbox'[p] /\ \A j \in DOMAIN inbox'[p] : ~(j > l + 1)
        BY <3>2
      <4> QED
        BY <3>2, <4>1 DEF Waits
    <3>4. n \in Heard(p, m)'
      <4>1. n \in About(m)
        BY <1>2, <2>4 DEF About
      <4>2. since[p][ChannelOf[m]] < n
        BY <1>2, <2>1, <2>4, <1>3
      <4>3. n \notin skipped[g]
        <5>1. \A i \in skipped[g] : i <= at[g]
          BY DEF EventsInv, ReachedOK
        <5> QED
          BY <1>2, <1>3, <5>1
      <4> QED
        BY <1>1, <1>2, <1>3, <2>2, <2>4, <4>1, <4>2, <4>3 DEF Heard
    <3>5. \A i \in Heard(p, m)' : LastHeard(p, m, i)' => i = n
      <4> SUFFICES ASSUME NEW i \in Heard(p, m)', LastHeard(p, m, i)' PROVE i = n
        OBVIOUS
      <4>1. n <= i
        BY <3>4 DEF LastHeard
      <4>2. i \in Nat /\ i <= n
        BY <1>1, <1>3, <2>2, <2>4 DEF Heard
      <4> QED
        BY <1>2, <4>1, <4>2
    <3> QED
      BY <3>3, <3>5 DEF Follows
  <2>5. CASE gate[p] = g /\ log[n].message # m
    <3>1. Heard(p, m)' = Heard(p, m)
      <4>1. n \notin About(m)
        BY <2>5 DEF About
      <4>2. \A i \in About(m) : i <= n <=> i <= at[g]
        BY <1>2, <1>3, <2>2, <4>1
      <4> QED
        BY <1>1, <1>3, <2>2, <2>5, <4>2 DEF Heard
    <3>2. CASE ~emitted(p)
      <4>1. inbox'[p] = inbox[p] /\ shown'[p] = shown[p] /\ \A i \in DOMAIN log : log'[i] = log[i]
        BY <1>1, <3>2
      <4> QED
        BY <1>7, <3>1, <4>1, FollowsSame
    <3>3. CASE emitted(p)
      <4>0. inbox'[p] = Append(inbox[p], n)
        BY <1>1, <3>3
      <4>1. PICK l \in Nat : /\ DOMAIN inbox[p] = 1..l /\ DOMAIN inbox'[p] = 1..(l + 1)
                             /\ \A i \in 1..l : inbox'[p][i] = inbox[p][i]
                             /\ inbox'[p][l + 1] = n
        BY <1>2, <4>0, InboxGrows
      <4> SUFFICES ASSUME NEW i \in Heard(p, m), LastHeard(p, m, i)
                   PROVE  Waits(p, m, i)' \/ Shows(p, m, i)'
        BY <3>1 DEF Follows, LastHeard
      <4>2. Waits(p, m, i) \/ Shows(p, m, i)
        BY <1>7 DEF EventsInv, PagesFollow, Follows
      <4>3. \A j \in DOMAIN inbox'[p] : j \in 1..l \/ j = l + 1
        BY <4>1
      <4>4. 1..l \subseteq DOMAIN inbox'[p]
        BY <4>1
      <4>5. CASE Waits(p, m, i)
        <5>1. PICK k \in 1..l : /\ inbox[p][k] = i
                                /\ \A j \in 1..l : j > k => log[inbox[p][j]].message # m
          BY <4>1, <4>5 DEF Waits
        <5>2. inbox'[p][k] = i /\ k \in DOMAIN inbox'[p]
          BY <4>1, <4>4, <5>1
        <5>3. \A j \in DOMAIN inbox'[p] : j > k => log[inbox'[p][j]].message # m
          BY <2>5, <4>1, <4>3, <5>1
        <5> QED
          BY <1>1, <5>2, <5>3 DEF Waits
      <4>6. CASE Shows(p, m, i)
        BY <1>1, <2>5, <4>1, <4>3, <4>6 DEF Shows
      <4> QED
        BY <4>2, <4>5, <4>6
    <3> QED
      BY <3>2, <3>3
  <2> QED
    BY <2>3, <2>4, <2>5
<1>8. ASSUME NEW p \in Pages, NEW m \in Messages, ChannelOf[m] \notin rooms[p] PROVE Follows(p, m)'
  BY <1>1, <1>8 DEF Follows
<1> QED
  BY <1>4, <1>5, <1>6, <1>7, <1>8 DEF EventsInv, PagesFollow

LEMMA HandleStep ==
  ASSUME EventsInv, NEW p \in Pages, Handle(p)
  PROVE  EventsInv'
<1> DEFINE s == inbox[p]
           t == Tail(s)
           e == log[Head(s)]
<1>1. /\ s \in Seq(Nat) /\ s # <<>> /\ inbox \in [Pages -> Seq(Nat)]
      /\ inbox' = [inbox EXCEPT ![p] = t]
      /\ shown \in [Pages -> [Messages -> Nat]] /\ log \in Seq(Envelope)
      /\ e.message = NoMessage => shown' = shown
      /\ e.message # NoMessage => shown' = [shown EXCEPT ![p][e.message] = e.rev]
      /\ UNCHANGED <<rev, call, unsaid, log, at, skipped, link, gate, rooms, checks, since>>
  BY DEF EventsInv, EventsTypeOK, Handle, server, redis, socket
<1>2. PICK l \in Nat : /\ t \in Seq(Nat) /\ DOMAIN t = 1..l /\ DOMAIN s = 1..(l + 1)
                       /\ \A j \in 1..l : t[j] = s[j + 1]
                       /\ s[1] = Head(s)
  <2>1. t \in Seq(Nat) /\ Len(t) = Len(s) - 1 /\ Len(s) \in Nat /\ Len(t) \in Nat
    BY <1>1, HeadTailProperties
  <2>2. DOMAIN t = 1..Len(t) /\ DOMAIN s = 1..(Len(t) + 1) /\ s[1] = Head(s)
    BY <1>1, <2>1
  <2>3. \A j \in 1..Len(t) : t[j] = s[j + 1]
    BY <1>1, <2>1, HeadTailProperties
  <2> QED
    BY <2>1, <2>2, <2>3
<1>3. Head(s) \in DOMAIN log
  BY <1>2 DEF EventsInv, ReachedOK
<1>4. e \in Envelope
  BY <1>1, <1>3
<1> HIDE DEF s, t, e
<1>5. inbox'[p] = t /\ \A q \in Pages \ {p} : inbox'[q] = inbox[q] /\ shown'[q] = shown[q]
  BY <1>1
<1>6. EventsTypeOK'
  <2>1. inbox' \in [Pages -> Seq(Nat)]
    BY <1>1, <1>2
  <2>2. shown' \in [Pages -> [Messages -> Nat]]
    <3>1. CASE e.message = NoMessage
      BY <1>1, <3>1
    <3>2. CASE e.message # NoMessage
      <4>1. e.message \in Messages /\ e.rev \in Nat
        BY <1>4, <3>2 DEF Envelope
      <4> DEFINE r == [shown[p] EXCEPT ![e.message] = e.rev]
      <4>2. shown' = [shown EXCEPT ![p] = r]
        BY <1>1, <3>2
      <4>3. r \in [Messages -> Nat]
        BY <1>1, <4>1
      <4> HIDE DEF r
      <4> QED
        BY <1>1, <4>2, <4>3
    <3> QED
      BY <3>1, <3>2
  <2> QED
    BY <1>1, <2>1, <2>2 DEF EventsInv, EventsTypeOK
<1>7. SocketsOK' /\ LogOK' /\ CallsOK' /\ SaidOK'
  BY <1>1, SocketsSame, SaidSame
<1>8. \A j \in 1..l : j + 1 \in 1..(l + 1) /\ t[j] = s[j + 1]
  BY <1>2
<1>9. ReachedOK'
  <2>1. \A j \in DOMAIN t : t[j] \in DOMAIN log
    BY <1>2, <1>8 DEF EventsInv, ReachedOK, s
  <2>2. \A q \in Pages : \A j \in DOMAIN inbox'[q] : inbox'[q][j] \in DOMAIN log
    BY <1>5, <2>1 DEF EventsInv, ReachedOK
  <2> QED
    BY <1>1, <2>2 DEF EventsInv, ReachedOK
<1>10. ASSUME NEW q \in Pages, NEW m \in Messages PROVE Heard(q, m)' = Heard(q, m)
  BY <1>1 DEF Heard, About
<1>11. ASSUME NEW q \in Pages \ {p}, NEW m \in Messages PROVE Follows(q, m)'
  BY <1>1, <1>5, <1>10, FollowsSame
<1>12. ASSUME NEW m \in Messages PROVE Follows(p, m)'
  <2> SUFFICES ASSUME ChannelOf[m] \in rooms[p], NEW i \in Heard(p, m), LastHeard(p, m, i)
               PROVE  Waits(p, m, i)' \/ Shows(p, m, i)'
    BY <1>1, <1>10 DEF Follows, LastHeard
  <2>1. Waits(p, m, i) \/ Shows(p, m, i)
    BY DEF EventsInv, PagesFollow, Follows
  <2>2. CASE Waits(p, m, i)
    <3>1. PICK n \in 1..(l + 1) : s[n] = i /\ \A j \in 1..(l + 1) : j > n => log[s[j]].message # m
      BY <1>2, <2>2 DEF Waits, s
    <3>2. CASE n = 1
      <4>1. \A j \in 1..l : log[t[j]].message # m
        BY <1>8, <3>1, <3>2
      <4>2. e.message = m /\ e = log[i] /\ m # NoMessage
        BY <1>2, <3>1, <3>2, RealtimeAssumption DEF Heard, About, e
      <4>3. shown'[p][m] = log[i].rev
        BY <1>1, <4>2
      <4> QED
        BY <1>1, <1>2, <1>5, <4>1, <4>3 DEF Shows
    <3>3. CASE n # 1
      <4>1. n - 1 \in 1..l /\ t[n - 1] = i
        BY <1>8, <3>1, <3>3
      <4>2. ASSUME NEW j \in 1..l, j > n - 1 PROVE log[t[j]].message # m
        <5>1. j + 1 \in 1..(l + 1) /\ j + 1 > n
          BY <4>2
        <5> QED
          BY <1>8, <3>1, <5>1
      <4>3. n - 1 \in DOMAIN inbox'[p] /\ inbox'[p][n - 1] = i
        BY <1>2, <1>5, <4>1
      <4>4. \A j \in DOMAIN inbox'[p] : j > n - 1 => log'[inbox'[p][j]].message # m
        BY <1>1, <1>2, <1>5, <4>2
      <4> QED
        BY <4>3, <4>4 DEF Waits
    <3> QED
      BY <3>2, <3>3
  <2>3. CASE Shows(p, m, i)
    <3>1. \A j \in 1..(l + 1) : log[s[j]].message # m
      BY <1>2, <2>3 DEF Shows, s
    <3>2. \A j \in 1..l : log[t[j]].message # m
      BY <1>8, <3>1
    <3>3. e.message # m
      <4>1. 1 \in 1..(l + 1)
        OBVIOUS
      <4> QED
        BY <1>2, <3>1, <4>1 DEF e
    <3>4. shown'[p][m] = shown[p][m]
      BY <1>1, <3>3
    <3> QED
      BY <1>1, <1>2, <1>5, <2>3, <3>2, <3>4 DEF Shows
  <2> QED
    BY <2>1, <2>2, <2>3
<1> QED
  BY <1>6, <1>7, <1>9, <1>11, <1>12 DEF EventsInv, PagesFollow


\* What a gateway has emitted stays what it was.
SameReach ==
  /\ at' \in [Gateways -> 0..Len(log)] /\ skipped' \in [Gateways -> SUBSET Nat]
  /\ \A g \in Gateways :
       /\ at[g] <= at'[g] /\ \A i \in skipped'[g] : i <= at'[g]
       /\ \A i \in DOMAIN log : (i <= at'[g] /\ i \notin skipped'[g]) <=> (i <= at[g] /\ i \notin skipped[g])

LEMMA NothingNew ==
  ASSUME EventsInv, UNCHANGED <<at, skipped>>
  PROVE  SameReach
BY DEF SameReach, EventsInv, EventsTypeOK, ReachedOK

LEMMA ResubscribeReach ==
  ASSUME EventsInv, NEW g \in Gateways, Resubscribe(g)
  PROVE  SameReach
<1>1. /\ log \in Seq(Envelope) /\ Len(log) \in Nat /\ DOMAIN log = 1..Len(log)
      /\ at \in [Gateways -> 0..Len(log)] /\ skipped \in [Gateways -> SUBSET Nat]
      /\ \A h \in Gateways : \A i \in skipped[h] : i <= at[h]
      /\ at' = [at EXCEPT ![g] = Len(log)]
      /\ skipped' = [skipped EXCEPT ![g] = @ \cup (at[g] + 1)..Len(log)]
  BY DEF EventsInv, EventsTypeOK, ReachedOK, Resubscribe
<1>2. at[g] \in 0..Len(log) /\ (at[g] + 1)..Len(log) \subseteq Nat
  BY <1>1
<1>3. at' \in [Gateways -> 0..Len(log)] /\ skipped' \in [Gateways -> SUBSET Nat]
  BY <1>1, <1>2
<1>4. ASSUME NEW h \in Gateways, h # g PROVE at'[h] = at[h] /\ skipped'[h] = skipped[h] /\ at[h] \in Nat
  BY <1>1, <1>4
<1>5. at'[g] = Len(log) /\ skipped'[g] = skipped[g] \cup (at[g] + 1)..Len(log)
  BY <1>1
<1>6. \A i \in skipped'[g] : i <= at'[g]
  <2> SUFFICES ASSUME NEW i \in skipped'[g] PROVE i <= Len(log)
    BY <1>5
  <2>1. CASE i \in skipped[g]
    <3>1. i \in Nat /\ i <= at[g]
      BY <1>1, <2>1
    <3> QED
      BY <1>1, <1>2, <3>1
  <2>2. CASE i \in (at[g] + 1)..Len(log)
    BY <1>1, <1>2, <2>2
  <2> QED
    BY <1>5, <2>1, <2>2
<1>7. \A i \in DOMAIN log : (i <= at'[g] /\ i \notin skipped'[g]) <=> (i <= at[g] /\ i \notin skipped[g])
  <2> SUFFICES ASSUME NEW i \in 1..Len(log)
               PROVE  (i <= at'[g] /\ i \notin skipped'[g]) <=> (i <= at[g] /\ i \notin skipped[g])
    BY <1>1
  <2>1. i \in (at[g] + 1)..Len(log) <=> ~(i <= at[g])
    BY <1>1, <1>2
  <2>2. i <= Len(log)
    BY <1>1
  <2> QED
    BY <1>5, <2>1, <2>2
<1> QED
  BY <1>1, <1>2, <1>3, <1>4, <1>5, <1>6, <1>7 DEF SameReach

\* A step in which no page enters a room: a page stays where it is with all that
\* is on its way, or is in no room.
LEMMA SocketStep ==
  ASSUME EventsInv, SameReach, UNCHANGED <<rev, call, unsaid, log, shown, since>>,
         link' \in [Pages -> LinkStates], gate' \in [Pages -> Gateways \cup {NoGateway}],
         rooms' \in [Pages -> SUBSET Channels],
         checks' \in [Pages -> [Channels -> Nat]], inbox' \in [Pages -> Seq(Nat)], SocketsOK',
         \A p \in Pages : /\ rooms'[p] \subseteq rooms[p]
                          /\ inbox'[p] = inbox[p] \/ inbox'[p] = <<>>
                          /\ rooms'[p] = {} \/ (gate'[p] = gate[p] /\ inbox'[p] = inbox[p])
  PROVE  EventsInv'
<1>1. EventsTypeOK'
  BY DEF EventsInv, EventsTypeOK, SameReach
<1>2. LogOK' /\ CallsOK' /\ SaidOK'
  BY SaidSame
<1>3. ReachedOK'
  <2>1. ASSUME NEW p \in Pages, NEW j \in DOMAIN inbox'[p] PROVE inbox'[p][j] \in DOMAIN log
    <3>1. inbox'[p] = inbox[p]
      BY <2>1
    <3> QED
      BY <2>1, <3>1 DEF EventsInv, ReachedOK
  <2>2. ASSUME NEW p \in Pages, NEW c \in rooms'[p] PROVE since[p][c] <= at'[gate'[p]]
    <3>1. c \in rooms[p] /\ gate'[p] = gate[p]
      BY <2>2
    <3>2. gate[p] \in Gateways /\ at[gate[p]] \in Nat /\ since[p][c] \in Nat /\ since[p][c] <= at[gate[p]]
      BY <3>1, InARoom
    <3>3. at'[gate[p]] \in Nat /\ at[gate[p]] <= at'[gate[p]]
      BY <3>2 DEF SameReach
    <3> QED
      BY <3>1, <3>2, <3>3
  <2> QED
    BY <2>1, <2>2 DEF ReachedOK, SameReach
<1>4. ASSUME NEW p \in Pages, NEW m \in Messages PROVE Follows(p, m)'
  <2>1. CASE ChannelOf[m] \in rooms'[p]
    <3>1. ChannelOf[m] \in rooms[p] /\ gate'[p] = gate[p] /\ inbox'[p] = inbox[p]
      BY <2>1
    <3>2. gate[p] \in Gateways
      BY <3>1, InARoom
    <3>3. \A i \in About(m) : (i <= at'[gate[p]] /\ i \notin skipped'[gate[p]])
                                <=> (i <= at[gate[p]] /\ i \notin skipped[gate[p]])
      BY <3>2 DEF SameReach, About
    <3>4. Heard(p, m)' = Heard(p, m)
      BY <3>1, <3>3 DEF Heard, About
    <3> QED
      BY <3>1, <3>4, FollowsSame
  <2>2. CASE ChannelOf[m] \notin rooms'[p]
    BY <2>2 DEF Follows
  <2> QED
    BY <2>1, <2>2
<1> QED
  BY <1>1, <1>2, <1>3, <1>4 DEF EventsInv, PagesFollow

LEMMA ForgetEvents ==
  ASSUME EventsInv, NEW S \in SUBSET Pages, Forget(S), SameReach,
         UNCHANGED <<rev, call, unsaid, log, shown>>
  PROVE  EventsInv'
<1>1. /\ gate' \in [Pages -> Gateways \cup {NoGateway}] /\ rooms' \in [Pages -> SUBSET Channels]
      /\ inbox' \in [Pages -> Seq(Nat)] /\ link' \in [Pages -> LinkStates]
  BY DEF EventsInv, EventsTypeOK, Forget, LinkStates
<1>2. checks' \in [Pages -> [Channels -> Nat]]
  <2>1. [c \in Channels |-> 0] \in [Channels -> Nat]
    OBVIOUS
  <2> QED
    BY <2>1 DEF EventsInv, EventsTypeOK, Forget
<1>3. SocketsOK'
  BY DEF EventsInv, SocketsOK, Connected, Forget
<1>4. \A p \in Pages : /\ rooms'[p] \subseteq rooms[p]
                       /\ inbox'[p] = inbox[p] \/ inbox'[p] = <<>>
                       /\ rooms'[p] = {} \/ (gate'[p] = gate[p] /\ inbox'[p] = inbox[p])
  BY DEF Forget
<1>5. since' = since
  BY DEF Forget
<1> QED
  BY <1>1, <1>2, <1>3, <1>4, <1>5, SocketStep

LEMMA FaultStep ==
  ASSUME EventsInv,
         \/ \E p \in Pages : Drop(p) \/ GiveUp(p) \/ \E g \in Gateways : Connect(p, g)
         \/ \E g \in Gateways : Restart(g) \/ LoseRedis(g)
  PROVE  EventsInv'
<1>1. ASSUME NEW p \in Pages, Drop(p) PROVE EventsInv'
  <2>1. SameReach
    BY <1>1, NothingNew DEF Drop, redis
  <2> QED
    BY <1>1, <2>1, ForgetEvents DEF Drop, server, redis, page
<1>2. ASSUME NEW g \in Gateways, Restart(g) PROVE EventsInv'
  <2>1. SameReach
    BY <1>2, ResubscribeReach DEF Restart
  <2> QED
    BY <1>2, <2>1, ForgetEvents DEF Restart, Resubscribe, server, page
<1>3. ASSUME NEW g \in Gateways, LoseRedis(g) PROVE EventsInv'
  <2>1. SameReach
    BY <1>3, ResubscribeReach DEF LoseRedis
  <2>2. UNCHANGED <<rev, call, unsaid, log, shown, since, gate, link, rooms, checks, inbox>>
    BY <1>3 DEF LoseRedis, Resubscribe, server, socket, page
  <2> QED
    BY <2>1, <2>2, SocketsSame, SocketStep DEF EventsInv, EventsTypeOK
<1>4. ASSUME NEW p \in Pages, NEW g \in Gateways, Connect(p, g) PROVE EventsInv'
  <2>1. SameReach
    BY <1>4, NothingNew DEF Connect, redis
  <2>2. /\ UNCHANGED <<rev, call, unsaid, log, shown, since, rooms, checks, inbox>>
        /\ gate \in [Pages -> Gateways \cup {NoGateway}] /\ gate' = [gate EXCEPT ![p] = g]
        /\ link[p] # "up" /\ link'[p] = "up" /\ \A q \in Pages \ {p} : link'[q] = link[q]
        /\ link' \in [Pages -> LinkStates]
    BY <1>4 DEF Connect, server, redis, page, EventsInv, EventsTypeOK, LinkStates
  <2>3. gate[p] = NoGateway /\ rooms[p] = {} /\ NoGateway \notin Gateways
    BY <2>2, RealtimeAssumption DEF EventsInv, SocketsOK, Connected
  <2>4. gate' \in [Pages -> Gateways \cup {NoGateway}] /\ gate'[p] = g
        /\ \A q \in Pages \ {p} : gate'[q] = gate[q]
    BY <2>2
  <2>5. SocketsOK'
    <3>1. ASSUME NEW q \in Pages, q # p PROVE Connected(q)'
      BY <2>2, <2>4, <3>1 DEF EventsInv, SocketsOK, Connected
    <3>2. Connected(p)'
      BY <2>2, <2>3, <2>4 DEF Connected
    <3> QED
      BY <3>1, <3>2 DEF SocketsOK
  <2> QED
    BY <2>1, <2>2, <2>3, <2>4, <2>5, SocketStep DEF EventsInv, EventsTypeOK
<1>5. ASSUME NEW p \in Pages, GiveUp(p) PROVE EventsInv'
  <2>1. SameReach
    BY <1>5, NothingNew DEF GiveUp, redis
  <2>2. /\ UNCHANGED <<rev, call, unsaid, log, shown, since, gate, rooms, checks, inbox>>
        /\ link[p] # "up" /\ link'[p] = "dead" /\ \A q \in Pages \ {p} : link'[q] = link[q]
        /\ link' \in [Pages -> LinkStates]
    BY <1>5 DEF GiveUp, server, redis, page, EventsInv, EventsTypeOK, LinkStates
  <2>3. SocketsOK'
    BY <2>2 DEF EventsInv, SocketsOK, Connected
  <2> QED
    BY <2>1, <2>2, <2>3, SocketStep DEF EventsInv, EventsTypeOK
<1> QED
  BY <1>1, <1>2, <1>3, <1>4, <1>5


\* Joins, leaves and refusals; outbox is read for the channel only.
LEMMA CheckEvents ==
  ASSUME EventsInv, NEW p \in Pages, NEW c,
         \/ ServeJoin(p) /\ c = Head(outbox[p]).channel
         \/ ServeLeave(p)
         \/ c \in Channels /\ Refuse(p, c)
  PROVE  EventsInv'
<1>1. /\ UNCHANGED <<rev, call, unsaid, log, at, skipped, shown, since, link, gate, inbox>>
      /\ link \in [Pages -> LinkStates] /\ gate \in [Pages -> Gateways \cup {NoGateway}]
      /\ inbox \in [Pages -> Seq(Nat)] /\ rooms \in [Pages -> SUBSET Channels]
      /\ checks \in [Pages -> [Channels -> Nat]]
      /\ \A q \in Pages : link[q] = "up" <=> gate[q] # NoGateway
      /\ \A q \in Pages : gate[q] = NoGateway => rooms[q] = {} /\ \A d \in Channels : checks[q][d] = 0
  BY DEF ServeJoin, ServeLeave, Refuse, server, redis, page, EventsInv, EventsTypeOK, SocketsOK,
         Connected
<1>2. SameReach
  BY <1>1, NothingNew
<1>3. CASE ServeJoin(p) /\ c = Head(outbox[p]).channel
  <2> DEFINE r == [checks[p] EXCEPT ![c] = @ + 1]
  <2>1. rooms' = rooms /\ link[p] = "up" /\ checks' = [checks EXCEPT ![p] = r]
    BY <1>1, <1>3 DEF ServeJoin
  <2>2. r \in [Channels -> Nat]
    <3>1. r = [d \in Channels |-> IF d = c THEN checks[p][d] + 1 ELSE checks[p][d]]
      BY <1>1
    <3> HIDE DEF r
    <3>2. \A d \in Channels : checks[p][d] \in Nat
      BY <1>1
    <3> QED
      BY <3>1, <3>2
  <2> HIDE DEF r
  <2>3. checks' \in [Pages -> [Channels -> Nat]] /\ \A q \in Pages \ {p} : checks'[q] = checks[q]
    BY <1>1, <2>1, <2>2
  <2>4. SocketsOK'
    BY <1>1, <2>1, <2>3 DEF SocketsOK, Connected
  <2> QED
    BY <1>1, <1>2, <2>1, <2>3, <2>4, SocketStep
<1>4. CASE ServeLeave(p)
  <2>1. /\ checks' = checks /\ rooms' \in [Pages -> SUBSET Channels]
        /\ \A q \in Pages : rooms'[q] \subseteq rooms[q]
    BY <1>1, <1>4 DEF ServeLeave
  <2>2. SocketsOK'
    BY <1>1, <2>1 DEF SocketsOK, Connected
  <2> QED
    BY <1>1, <1>2, <2>1, <2>2, SocketStep
<1>5. CASE c \in Channels /\ Refuse(p, c)
  <2> DEFINE r == [checks[p] EXCEPT ![c] = @ - 1]
  <2>1. rooms' = rooms /\ checks[p][c] > 0 /\ checks' = [checks EXCEPT ![p] = r]
    BY <1>1, <1>5 DEF Refuse
  <2>2. r \in [Channels -> Nat] /\ gate[p] # NoGateway
    <3>1. checks[p][c] \in Nat /\ checks[p][c] - 1 \in Nat
      BY <1>1, <1>5, <2>1
    <3> QED
      BY <1>1, <1>5, <2>1, <3>1
  <2> HIDE DEF r
  <2>3. checks' \in [Pages -> [Channels -> Nat]] /\ \A q \in Pages \ {p} : checks'[q] = checks[q]
    BY <1>1, <2>1, <2>2
  <2>4. SocketsOK'
    BY <1>1, <2>1, <2>2, <2>3 DEF SocketsOK, Connected
  <2> QED
    BY <1>1, <1>2, <2>1, <2>3, <2>4, SocketStep
<1> QED
  BY <1>3, <1>4, <1>5

\* A page that enters a room has heard of nothing there.
LEMMA GrantEvents ==
  ASSUME EventsInv, NEW p \in Pages, NEW c \in Channels, Grant(p, c)
  PROVE  EventsInv'
<1> DEFINE r == [checks[p] EXCEPT ![c] = @ - 1]
<1>1. /\ UNCHANGED <<rev, call, unsaid, log, at, skipped, shown, link, gate, inbox>>
      /\ checks \in [Pages -> [Channels -> Nat]] /\ checks[p][c] > 0
      /\ checks' = [checks EXCEPT ![p] = r]
      /\ rooms \in [Pages -> SUBSET Channels] /\ rooms' = [rooms EXCEPT ![p] = @ \cup {c}]
      /\ since \in [Pages -> [Channels -> Nat]] /\ at \in [Gateways -> 0..Len(log)]
      /\ Len(log) \in Nat
  BY DEF Grant, server, redis, page, EventsInv, EventsTypeOK
<1>2. r \in [Channels -> Nat]
  <2>1. checks[p][c] - 1 \in Nat
    BY <1>1
  <2> QED
    BY <1>1, <2>1
<1> HIDE DEF r
<1>3. gate[p] \in Gateways /\ at[gate[p]] \in Nat
  BY <1>1 DEF EventsInv, EventsTypeOK, SocketsOK, Connected
<1>4. /\ since' \in [Pages -> [Channels -> Nat]]
      /\ \A q \in Pages, d \in Channels :
           since'[q][d] = IF q = p /\ d = c /\ c \notin rooms[p] THEN at[gate[p]] ELSE since[q][d]
  <2>1. CASE c \in rooms[p]
    BY <1>1, <2>1 DEF Grant
  <2>2. CASE c \notin rooms[p]
    <3> DEFINE u == [since[p] EXCEPT ![c] = at[gate[p]]]
    <3>1. since' = [since EXCEPT ![p] = u]
      BY <1>1, <2>2 DEF Grant
    <3>2. u \in [Channels -> Nat] /\ u[c] = at[gate[p]] /\ \A d \in Channels \ {c} : u[d] = since[p][d]
      BY <1>1, <1>3
    <3> HIDE DEF u
    <3>3. since' \in [Pages -> [Channels -> Nat]] /\ since'[p] = u
          /\ \A q \in Pages \ {p} : since'[q] = since[q]
      BY <1>1, <3>1, <3>2
    <3> QED
      BY <2>2, <3>2, <3>3
  <2> QED
    BY <2>1, <2>2
<1>5. /\ rooms' \in [Pages -> SUBSET Channels] /\ checks' \in [Pages -> [Channels -> Nat]]
      /\ rooms'[p] = rooms[p] \cup {c}
      /\ \A q \in Pages \ {p} : rooms'[q] = rooms[q] /\ checks'[q] = checks[q]
  BY <1>1, <1>2
<1>6. EventsTypeOK'
  BY <1>1, <1>4, <1>5 DEF EventsInv, EventsTypeOK
<1>7. SocketsOK'
  <2>1. NoGateway \notin Gateways
    BY RealtimeAssumption
  <2> QED
    BY <1>1, <1>3, <1>5, <2>1 DEF EventsInv, SocketsOK, Connected
<1>8. LogOK' /\ CallsOK' /\ SaidOK'
  BY <1>1, SaidSame
<1>9. ReachedOK'
  <2>1. ASSUME NEW q \in Pages, NEW d \in rooms'[q] PROVE since'[q][d] <= at[gate[q]]
    <3>1. d \in Channels
      BY <1>5, <2>1
    <3>2. CASE q = p /\ d = c /\ c \notin rooms[p]
      BY <1>3, <1>4, <3>1, <3>2
    <3>3. CASE ~(q = p /\ d = c /\ c \notin rooms[p])
      <4>1. d \in rooms[q] /\ since'[q][d] = since[q][d]
        BY <1>4, <1>5, <3>1, <3>3
      <4> QED
        BY <4>1, InARoom
    <3> QED
      BY <3>2, <3>3
  <2> QED
    BY <1>1, <2>1 DEF EventsInv, ReachedOK
<1>10. ASSUME NEW q \in Pages, NEW m \in Messages PROVE Follows(q, m)'
  <2>1. ChannelOf[m] \in Channels
    BY RealtimeAssumption
  <2>2. CASE q = p /\ ChannelOf[m] = c /\ c \notin rooms[p]
    <3>1. Heard(q, m)' = {}
      <4>1. since'[q][ChannelOf[m]] = at'[gate'[q]] /\ at[gate[p]] \in Nat
        BY <1>1, <1>3, <1>4, <2>1, <2>2
      <4>2. \A i \in About(m)' : i \in Nat
        BY <1>1 DEF About, EventsInv, EventsTypeOK
      <4> QED
        BY <1>1, <2>2, <4>1, <4>2 DEF Heard
    <3> QED
      BY <3>1 DEF Follows
  <2>3. CASE ~(q = p /\ ChannelOf[m] = c /\ c \notin rooms[p])
    <3>1. since'[q][ChannelOf[m]] = since[q][ChannelOf[m]]
      BY <1>4, <2>1, <2>3
    <3>2. Heard(q, m)' = Heard(q, m)
      BY <1>1, <3>1 DEF Heard, About
    <3>3. ChannelOf[m] \in rooms'[q] => ChannelOf[m] \in rooms[q]
      BY <1>5, <2>3
    <3> QED
      BY <1>1, <3>2, <3>3, FollowsSame
  <2> QED
    BY <2>2, <2>3
<1> QED
  BY <1>6, <1>7, <1>8, <1>9, <1>10 DEF EventsInv, PagesFollow

-------------------------------------------------------------------------------
LEMMA EventsInit == Init => EventsInv
<1> SUFFICES ASSUME Init PROVE EventsInv
  OBVIOUS
<1>1. EventsTypeOK
  <2>1. /\ rev \in [Messages -> Nat] /\ log \in Seq(Envelope) /\ Len(log) = 0
        /\ at \in [Gateways -> 0..Len(log)] /\ skipped \in [Gateways -> SUBSET Nat]
        /\ link \in [Pages -> LinkStates] /\ gate \in [Pages -> Gateways \cup {NoGateway}]
        /\ rooms \in [Pages -> SUBSET Channels] /\ inbox \in [Pages -> Seq(Nat)]
    BY DEF Init, LinkStates
  <2>2. call \in [Calls -> Call]
    BY DEF Init, Call
  <2>3. /\ checks \in [Pages -> [Channels -> Nat]] /\ shown \in [Pages -> [Messages -> Nat]]
        /\ since \in [Pages -> [Channels -> Nat]]
    BY DEF Init
  <2> QED
    BY <2>1, <2>2, <2>3 DEF EventsTypeOK
<1>2. SocketsOK
  BY DEF Init, SocketsOK, Connected
<1>3. LogOK /\ SaidOK
  BY DEF Init, LogOK, SaidOK, Told, HasLast, About
<1>4. CallsOK
  BY DEF Init, CallsOK, CallOK
<1>5. ReachedOK
  BY DEF Init, ReachedOK
<1>6. PagesFollow
  BY DEF Init, PagesFollow, Follows
<1> QED
  BY <1>1, <1>2, <1>3, <1>4, <1>5, <1>6 DEF EventsInv

LEMMA EventsStep == EventsInv /\ [Next]_vars => EventsInv'
<1> SUFFICES ASSUME EventsInv, [Next]_vars PROVE EventsInv'
  OBVIOUS
<1>1. ASSUME NEW k \in Calls, NEW m \in Messages, Store(k, m) \/ HttpStore(k, m) PROVE EventsInv'
  BY <1>1, StoreStep
<1>2. ASSUME NEW k \in Calls,
             Reread(k) \/ Publish(k) \/ CallFails(k) \/ \E c \in Channels : Signal(k, c)
      PROVE  EventsInv'
  BY <1>2, AnswerStep, PublishStep
<1>3. ASSUME NEW g \in Gateways, Broadcast(g) \/ Restart(g) \/ LoseRedis(g) PROVE EventsInv'
  BY <1>3, BroadcastStep, FaultStep
<1>4. ASSUME NEW p \in Pages, GiveUp(p) \/ Drop(p) \/ \E g \in Gateways : Connect(p, g)
      PROVE  EventsInv'
  BY <1>4, FaultStep
<1>5. ASSUME NEW p \in Pages, Handle(p) PROVE EventsInv'
  BY <1>5, HandleStep
<1>6. ASSUME NEW p \in Pages, ServeJoin(p) \/ ServeLeave(p) PROVE EventsInv'
  <2>1. PICK c : c = Head(outbox[p]).channel
    OBVIOUS
  <2> QED
    BY <1>6, <2>1, CheckEvents
<1>7. ASSUME NEW p \in Pages, NEW c \in Channels, Grant(p, c) \/ Refuse(p, c) PROVE EventsInv'
  BY <1>7, GrantEvents, CheckEvents
<1>8. ASSUME NEW p \in Pages, Render(p) \/ \E c \in Channels : Select(p, c) PROVE EventsInv'
  BY <1>8, EventsElsewhere DEF Render, Select, eventVars, server, redis, socket
<1>9. ASSUME UNCHANGED vars PROVE EventsInv'
  BY <1>9, EventsElsewhere DEF vars, eventVars, server, redis, socket, page
<1> QED
  BY <1>1, <1>2, <1>3, <1>4, <1>5, <1>6, <1>7, <1>8, <1>9 DEF Next

LEMMA EventsAreFollowed == EventsInv => LatestIsShown
<1> SUFFICES ASSUME EventsInv, NEW p \in Pages, NEW m \in Messages,
                    Quiet(p), ChannelOf[m] \in rooms[p],
                    {i \in About(m) : i > since[p][ChannelOf[m]]} # {},
                    {i \in About(m) : i > since[p][ChannelOf[m]]} \cap skipped[gate[p]] = {},
                    m \notin unsaid, InOrder(m)
             PROVE  shown[p][m] = rev[m]
  BY DEF LatestIsShown
<1>1. PICK h \in About(m) : h > since[p][ChannelOf[m]]
  OBVIOUS
<1>2. PICK i \in About(m) : \A j \in About(m) : j <= i
  BY <1>1 DEF EventsInv, SaidOK, HasLast
<1>3. /\ gate[p] \in Gateways /\ at[gate[p]] = Len(log) /\ inbox[p] = <<>>
      /\ since[p][ChannelOf[m]] \in Nat /\ Len(log) \in Nat
      /\ DOMAIN log = 1..Len(log) /\ log \in Seq(Envelope)
  BY InARoom DEF Quiet, EventsInv, EventsTypeOK
<1>4. \A j \in About(m) : j \in Nat /\ j <= Len(log) /\ log[j] \in Envelope /\ log[j].message = m
  BY <1>3 DEF About
<1>5. LastHeard(p, m, i)
  <2>1. i > since[p][ChannelOf[m]]
    BY <1>1, <1>2, <1>3, <1>4
  <2>2. i \notin skipped[gate[p]]
    BY <2>1
  <2> QED
    BY <1>2, <1>3, <1>4, <2>1, <2>2 DEF LastHeard, Heard
<1>6. shown[p][m] = log[i].rev
  <2>1. Waits(p, m, i) \/ Shows(p, m, i)
    BY <1>5 DEF EventsInv, PagesFollow, Follows, LastHeard
  <2> QED
    BY <1>3, <2>1 DEF Waits, Shows
<1>7. log[i].rev = rev[m]
  <2>1. /\ log[i].rev \in Nat /\ rev[m] \in Nat /\ log[i].rev <= rev[m]
    BY <1>3, <1>4 DEF EventsInv, EventsTypeOK, LogOK, About, Envelope
  <2>2. CASE rev[m] = 0
    BY <2>1, <2>2
  <2>3. CASE \E j \in About(m) : log[j].rev = rev[m]
    <3>1. PICK j \in About(m) : log[j].rev = rev[m]
      BY <2>3
    <3>2. CASE j = i
      BY <3>1, <3>2
    <3>3. CASE j # i
      <4>1. j < i
        BY <1>2, <1>4, <3>3
      <4>2. log[j].rev <= log[i].rev
        BY <4>1 DEF InOrder
      <4> QED
        BY <2>1, <3>1, <4>2
    <3> QED
      BY <3>2, <3>3
  <2> QED
    BY <2>2, <2>3 DEF EventsInv, SaidOK, Told, Quiet
<1> QED
  BY <1>6, <1>7

\* A page at rest shows each message it heard of in its room as the row is,
\* unless a change was never published, its gateway missed an envelope or two
\* publications changed places: gateways publish after the answer of the service
\* (realtime.gateway.ts 121-153), Redis delivers in one order, and a page shows
\* what came last.
THEOREM LatestWins == Spec => []LatestIsShown
<1> QED
  BY EventsInit, EventsStep, EventsAreFollowed, PTL DEF Spec

-------------------------------------------------------------------------------
(* The list of the messages page *)

\* The messages of a channel are posted one after the other
RowsInOrder ==
  /\ IsFiniteSet({m \in Numbers : tRow[m] > 0})
  /\ \A m, n \in Numbers : tRow[m] > 0 /\ NumberIn[n] = NumberIn[m] /\ n < m => tRow[n] > 0

\* What was read of a channel
Read(c, rows) == \A m \in Numbers : rows[m] > 0 => NumberIn[m] = c /\ rows[m] <= tRow[m]

PagesAreRead ==
  \A c \in Channels : /\ cache[c] # NoPage => Read(c, cache[c])
                      /\ fetch[c] \notin {NotAsked, Asking} => Read(c, fetch[c])

NothingIsAhead ==
  /\ \A m \in Numbers : list[m] <= tRow[m]
  /\ \A e \in wire : e.row > 0 /\ e.row <= tRow[e.message]

CallsKnow ==
  \A k \in Calls :
    /\ tCall[k].do \in {"post", "reply"} =>
         /\ tCall[k].channel \in Channels
         /\ tCall[k].message # NoMessage =>
              NumberIn[tCall[k].message] = tCall[k].channel /\ tRow[tCall[k].message] > 0
    /\ tCall[k].do = "thread" => tCall[k].message \in Numbers

\* A page that is on its way, and the list, hold the posts that were answered
Fits == Cardinality(T!Posted(tSelected)) <= PageSize

PostsAreHeld ==
  \A m \in posted :
    /\ m \in T!Posted(tSelected)
    /\ Fits => list[m] > 0
    /\ Fits /\ fetch[tSelected] \notin {NotAsked, Asking} => fetch[tSelected][m] > 0

ListFollows ==
  cache[tSelected] # NoPage =>
    \A m \in T!In(tSelected) \ late : cache[tSelected][m] > 0 => cache[tSelected][m] <= list[m]

TimelineInv ==
  /\ T!TypeOK /\ RowsInOrder /\ PagesAreRead /\ NothingIsAhead /\ CallsKnow /\ PostsAreHeld
  /\ T!ForeignIsLate /\ ListFollows

LEMMA TimelineOperators == \A X : T!Cardinality(X) = Cardinality(X)
BY DEF T!Cardinality, Cardinality

LEMMA TimelineInit == T!Init => TimelineInv
<1> SUFFICES ASSUME T!Init PROVE TimelineInv
  OBVIOUS
<1> USE TimelineConstants DEF T!TimelineAssumption, T!Init
<1>1. \A m \in Numbers : tRow[m] = 0 /\ list[m] = 0
  BY DEF T!Empty
<1>2. T!TypeOK
  BY DEF T!TypeOK, T!Empty, T!Page, T!Call, T!NoCall
<1>3. RowsInOrder
  <2>1. \A m \in Numbers : ~(tRow[m] > 0)
    BY <1>1
  <2>3. {m \in Numbers : tRow[m] > 0} = {}
    BY <2>1
  <2>2. QED
    BY <2>1, <2>3, FS_EmptySet DEF RowsInOrder
<1>4. PagesAreRead
  BY DEF PagesAreRead
<1>5. NothingIsAhead
  BY <1>1 DEF NothingIsAhead
<1>6. CallsKnow
  BY DEF CallsKnow, T!NoCall
<1>7. PostsAreHeld
  BY DEF PostsAreHeld
<1>8. T!ForeignIsLate
  BY <1>1 DEF T!ForeignIsLate
<1>9. ListFollows
  BY DEF ListFollows
<1>10. QED
  BY <1>2, <1>3, <1>4, <1>5, <1>6, <1>7, <1>8, <1>9 DEF TimelineInv

-------------------------------------------------------------------------------
\* a row is written: the others stay, and it comes after those before it
RowWritten(m, r) ==
  /\ T!CanChange(m) /\ r > tRow[m] /\ tRow' = [tRow EXCEPT ![m] = r]

LEMMA RowsGrow ==
  ASSUME TimelineInv, NEW m \in Numbers, NEW r \in Nat, RowWritten(m, r)
  PROVE  /\ tRow' \in T!Page /\ RowsInOrder'
         /\ \A n \in Numbers : tRow[n] <= tRow'[n]
         /\ \A n \in Numbers : tRow'[n] > 0 /\ tRow[n] = 0 => n = m
         /\ \A c : T!Posted(c) \subseteq T!Posted(c)'
         /\ \A c : T!Posted(c)' \subseteq T!Posted(c) \cup {m}
         /\ Fits' /\ tSelected' = tSelected => Fits
<1>1. tRow \in [Numbers -> Nat] /\ Numbers \subseteq Nat /\ r > 0
  <2>1. tRow \in [Numbers -> Nat] /\ Numbers \subseteq Nat
    BY TimelineConstants DEF TimelineInv, T!TypeOK, T!Page, T!TimelineAssumption
  <2>2. tRow[m] \in Nat
    BY <2>1
  <2>3. QED
    BY <2>1, <2>2 DEF RowWritten
<1>2. \A n \in Numbers : tRow'[n] = IF n = m THEN r ELSE tRow[n]
  BY <1>1 DEF RowWritten
<1>3. tRow' \in T!Page
  BY <1>1 DEF RowWritten, T!Page
<1>4. \A n \in Numbers : tRow[n] <= tRow'[n] /\ (tRow'[n] > 0 /\ tRow[n] = 0 => n = m)
  BY <1>1, <1>2 DEF RowWritten
<1>5. /\ \A c : T!Posted(c) \subseteq T!Posted(c)'
      /\ \A c : T!Posted(c)' \subseteq T!Posted(c) \cup {m}
  BY <1>1, <1>2, <1>4 DEF T!Posted, T!In
<1>6. IsFiniteSet({n \in Numbers : tRow[n] > 0})
  BY DEF TimelineInv, RowsInOrder
<1>7. {n \in Numbers : tRow'[n] > 0} = {n \in Numbers : tRow[n] > 0} \cup {m}
  BY <1>1, <1>2
<1>8. IsFiniteSet({n \in Numbers : tRow'[n] > 0})
  BY <1>6, <1>7, FS_AddElement
<1>9. \A n, k \in Numbers : tRow'[n] > 0 /\ NumberIn[k] = NumberIn[n] /\ k < n => tRow'[k] > 0
  <2> SUFFICES ASSUME NEW n \in Numbers, NEW k \in Numbers, tRow'[n] > 0,
                      NumberIn[k] = NumberIn[n], k < n
               PROVE  tRow[k] > 0 \/ k = m
    BY <1>1, <1>2
  <2>1. CASE n = m
    BY <2>1 DEF RowWritten, T!CanChange, T!In
  <2>2. CASE n # m
    <3>1. tRow[n] > 0
      BY <1>2, <2>2
    <3>2. QED
      BY <3>1 DEF TimelineInv, RowsInOrder
  <2>3. QED
    BY <2>1, <2>2
<1>10. RowsInOrder'
  BY <1>8, <1>9 DEF RowsInOrder
<1>11. ASSUME Fits', tSelected' = tSelected PROVE Fits
  <2>1. T!Posted(tSelected) \subseteq T!Posted(tSelected)'
    BY <1>1, <1>2, <1>4, <1>11 DEF T!Posted, T!In
  <2>2. T!Posted(tSelected)' \subseteq {n \in Numbers : tRow'[n] > 0}
    BY <1>11 DEF T!Posted, T!In
  <2>3. IsFiniteSet(T!Posted(tSelected)')
    BY <1>8, <2>2, FS_Subset
  <2>4. /\ Cardinality(T!Posted(tSelected)) <= Cardinality(T!Posted(tSelected)')
        /\ Cardinality(T!Posted(tSelected)) \in Nat /\ Cardinality(T!Posted(tSelected)') \in Nat
    BY <2>1, <2>3, FS_Subset, FS_CardinalityType
  <2>5. PageSize \in Nat
    BY TimelineConstants DEF T!TimelineAssumption
  <2>6. Cardinality(T!Posted(tSelected)') <= PageSize
    BY <1>11 DEF Fits
  <2>7. QED
    BY <2>4, <2>5, <2>6 DEF Fits
<1>12. QED
  BY <1>3, <1>4, <1>5, <1>10, <1>11

\* what a written row leaves true of the rest
LEMMA WrittenStep ==
  ASSUME TimelineInv, NEW m \in Numbers, NEW r \in Nat, RowWritten(m, r),
         UNCHANGED <<tSelected, cache, stale, fetch, list, thread, tSelects, posted, late>>
  PROVE  /\ RowsInOrder' /\ PagesAreRead' /\ PostsAreHeld' /\ T!ForeignIsLate' /\ ListFollows'
         /\ \A n \in Numbers : list'[n] <= tRow'[n]
<1>1. /\ tRow' \in T!Page /\ RowsInOrder'
      /\ \A n \in Numbers : tRow[n] <= tRow'[n]
      /\ \A c : T!Posted(c) \subseteq T!Posted(c)'
      /\ Fits' => Fits
  BY RowsGrow
<1>2. /\ tRow \in [Numbers -> Nat] /\ tRow' \in [Numbers -> Nat] /\ list \in [Numbers -> Nat]
      /\ cache \in [Channels -> T!Page \cup {NoPage}]
      /\ fetch \in [Channels -> T!Page \cup {NotAsked, Asking}]
  BY <1>1 DEF TimelineInv, T!TypeOK, T!Page
<1>3. ASSUME NEW c, NEW rows \in T!Page, Read(c, rows)
      PROVE  \A n \in Numbers : rows[n] > 0 => NumberIn[n] = c /\ rows[n] <= tRow'[n]
  BY <1>1, <1>2, <1>3 DEF Read, T!Page
<1>4. PagesAreRead'
  <2>1. ASSUME NEW c \in Channels
        PROVE  /\ cache[c] # NoPage =>
                    \A n \in Numbers : cache[c][n] > 0 => NumberIn[n] = c /\ cache[c][n] <= tRow'[n]
               /\ fetch[c] \notin {NotAsked, Asking} =>
                    \A n \in Numbers : fetch[c][n] > 0 => NumberIn[n] = c /\ fetch[c][n] <= tRow'[n]
    <3>1. cache[c] # NoPage => cache[c] \in T!Page /\ Read(c, cache[c])
      BY <1>2, <2>1 DEF TimelineInv, PagesAreRead
    <3>2. fetch[c] \notin {NotAsked, Asking} => fetch[c] \in T!Page /\ Read(c, fetch[c])
      BY <1>2, <2>1 DEF TimelineInv, PagesAreRead
    <3>3. QED
      BY <1>3, <3>1, <3>2
  <2>2. QED
    BY <2>1 DEF PagesAreRead, Read
<1>5. PostsAreHeld'
  BY <1>1 DEF TimelineInv, PostsAreHeld
<1>6. T!ForeignIsLate' /\ ListFollows'
  BY DEF TimelineInv, T!ForeignIsLate, ListFollows, T!In
<1>7. \A n \in Numbers : list'[n] <= tRow'[n]
  BY <1>1, <1>2 DEF TimelineInv, NothingIsAhead
<1>8. QED
  BY <1>1, <1>4, <1>5, <1>6, <1>7

LEMMA ChangedStep ==
  ASSUME TimelineInv, NEW m \in Numbers, T!ChangeTold(m) \/ T!ChangeUntold(m)
  PROVE  TimelineInv'
<1>1. T!Change(m) /\ (wire' = wire \/ wire' = wire \cup {[message |-> m, row |-> tRow[m] + 1]})
  BY DEF T!ChangeTold, T!ChangeUntold
<1>2. tRow \in [Numbers -> Nat] /\ tRow[m] + 1 \in Nat /\ wire \subseteq T!Event
  BY DEF TimelineInv, T!TypeOK, T!Page
<1>3. RowWritten(m, tRow[m] + 1)
  BY <1>1, <1>2 DEF T!Change, RowWritten
<1>4. UNCHANGED <<cache, stale, fetch, tSelected, list, thread, tCall, tSelects, posted, late>>
  BY <1>1 DEF T!Change, T!query
<1>5. /\ RowsInOrder' /\ PagesAreRead' /\ PostsAreHeld' /\ T!ForeignIsLate' /\ ListFollows'
      /\ \A n \in Numbers : list'[n] <= tRow'[n]
  BY <1>2, <1>3, <1>4, WrittenStep
<1>6. tRow' \in T!Page /\ \A n \in Numbers : tRow[n] <= tRow'[n]
  BY <1>2, <1>3, RowsGrow
<1>7. tRow'[m] = tRow[m] + 1
  BY <1>2, <1>3 DEF RowWritten
<1>8. \A e \in wire' : e.row > 0 /\ e.row <= tRow'[e.message] /\ e \in T!Event
  <2>1. \A e \in wire : e.row > 0 /\ e.row <= tRow'[e.message] /\ e \in T!Event
    <3> TAKE e \in wire
    <3>1. e \in T!Event /\ e.message \in Numbers /\ e.row \in Nat
      BY <1>2 DEF T!Event
    <3>2. e.row > 0 /\ e.row <= tRow[e.message]
      BY DEF TimelineInv, NothingIsAhead
    <3>3. tRow[e.message] <= tRow'[e.message] /\ tRow[e.message] \in Nat /\ tRow'[e.message] \in Nat
      BY <1>2, <1>6, <3>1 DEF T!Page
    <3>4. QED
      BY <3>1, <3>2, <3>3
  <2>2. [message |-> m, row |-> tRow[m] + 1] \in T!Event
    BY <1>2 DEF T!Event
  <2>3. QED
    BY <1>1, <1>2, <1>7, <2>1, <2>2
<1>9. CallsKnow'
  <2>1. \A k \in Calls : tCall[k] \in T!Call
    BY DEF TimelineInv, T!TypeOK
  <2>2. \A k \in Calls : tCall[k].message # NoMessage => tCall[k].message \in Numbers
    BY <2>1 DEF T!Call
  <2>3. tRow' \in [Numbers -> Nat]
    BY <1>6 DEF T!Page
  <2>4. \A n \in Numbers : tRow[n] > 0 => tRow'[n] > 0
    BY <1>2, <1>6, <2>3
  <2>5. QED
    BY <1>4, <2>2, <2>4 DEF TimelineInv, CallsKnow
<1>10. changes' \in 0..MaxChanges
  BY <1>1, TimelineConstants DEF T!Change, TimelineInv, T!TypeOK, T!TimelineAssumption
<1>11. T!TypeOK'
  BY <1>4, <1>6, <1>8, <1>10 DEF TimelineInv, T!TypeOK
<1>12. QED
  BY <1>5, <1>8, <1>9, <1>11 DEF TimelineInv, NothingIsAhead

LEMMA StoredStep ==
  ASSUME TimelineInv, NEW k \in Calls, NEW m \in Numbers, T!Stored(k, m)
  PROVE  TimelineInv'
<1>1. /\ tCall[k].do \in {"post", "reply"} /\ m \in T!In(tCall[k].channel) /\ tRow[m] = 0
      /\ tCall' = [tCall EXCEPT ![k].message = m]
      /\ UNCHANGED <<changes, cache, stale, fetch, tSelected, list, thread, wire, tSelects,
                     posted, late>>
  BY DEF T!Stored, T!query
<1>2. /\ tRow \in [Numbers -> Nat] /\ wire \subseteq T!Event /\ tCall \in [Calls -> T!Call]
  BY DEF TimelineInv, T!TypeOK, T!Page
<1>3. RowWritten(m, 1)
  BY <1>1, <1>2 DEF T!Stored, RowWritten
<1>4. /\ RowsInOrder' /\ PagesAreRead' /\ PostsAreHeld' /\ T!ForeignIsLate' /\ ListFollows'
      /\ \A n \in Numbers : list'[n] <= tRow'[n]
  BY <1>1, <1>3, WrittenStep
<1>5. tRow' \in [Numbers -> Nat] /\ \A n \in Numbers : tRow[n] <= tRow'[n]
  BY <1>3, RowsGrow DEF T!Page
<1>6. NothingIsAhead'
  <2>1. \A e \in wire : e.row > 0 /\ e.row <= tRow'[e.message]
    <3> TAKE e \in wire
    <3>1. e.message \in Numbers /\ e.row \in Nat
      BY <1>2 DEF T!Event
    <3>2. e.row > 0 /\ e.row <= tRow[e.message]
      BY DEF TimelineInv, NothingIsAhead
    <3>3. tRow[e.message] <= tRow'[e.message] /\ tRow[e.message] \in Nat /\ tRow'[e.message] \in Nat
      BY <1>2, <1>5, <3>1
    <3>4. QED
      BY <3>1, <3>2, <3>3
  <2>2. QED
    BY <1>1, <1>4, <2>1 DEF NothingIsAhead
<1>7. tRow'[m] = 1
  BY <1>2, <1>3 DEF RowWritten
<1>8. /\ tCall'[k] = [do |-> tCall[k].do, channel |-> tCall[k].channel, message |-> m]
      /\ \A j \in Calls : j # k => tCall'[j] = tCall[j]
  <2>1. tCall[k] \in T!Call
    BY <1>2
  <2>2. tCall'[k] = [tCall[k] EXCEPT !.message = m]
    BY <1>1, <1>2
  <2>3. QED
    BY <1>1, <1>2, <2>1, <2>2 DEF T!Call
<1>9. CallsKnow'
  <2> SUFFICES ASSUME NEW j \in Calls
               PROVE  /\ tCall'[j].do \in {"post", "reply"} =>
                           /\ tCall'[j].channel \in Channels
                           /\ tCall'[j].message # NoMessage =>
                                NumberIn[tCall'[j].message] = tCall'[j].channel
                                /\ tRow'[tCall'[j].message] > 0
                      /\ tCall'[j].do = "thread" => tCall'[j].message \in Numbers
    BY DEF CallsKnow
  <2>1. CASE j = k
    BY <1>1, <1>7, <1>8, <2>1 DEF TimelineInv, CallsKnow, T!In
  <2>2. CASE j # k
    <3>1. tCall[j] \in T!Call /\ tCall'[j] = tCall[j]
      BY <1>2, <1>8, <2>2
    <3>2. tCall[j].message # NoMessage => tCall[j].message \in Numbers
      BY <3>1 DEF T!Call
    <3>3. \A n \in Numbers : tRow[n] > 0 => tRow'[n] > 0
      BY <1>2, <1>5
    <3>4. QED
      BY <3>1, <3>2, <3>3 DEF TimelineInv, CallsKnow
  <2>3. QED
    BY <2>1, <2>2
<1>10. tCall' \in [Calls -> T!Call]
  <2>1. tCall'[k] \in T!Call
    BY <1>2, <1>8 DEF T!Call
  <2>2. \A j \in Calls : tCall'[j] \in T!Call
    BY <1>2, <1>8, <2>1
  <2>3. QED
    BY <1>1, <1>2, <2>2
<1>11. T!TypeOK'
  BY <1>1, <1>5, <1>10 DEF TimelineInv, T!TypeOK, T!Page
<1>12. QED
  BY <1>4, <1>6, <1>9, <1>11 DEF TimelineInv

-------------------------------------------------------------------------------
\* a row is put into the list
LEMMA UpsertStep ==
  ASSUME TimelineInv, NEW m \in Numbers, NEW r \in Nat, r > 0, r <= tRow[m], T!Upsert(m, r),
         UNCHANGED <<tRow, tSelected, cache, thread>>
  PROVE  /\ list' \in T!Page /\ late' \subseteq Numbers
         /\ \A n \in Numbers : list'[n] <= tRow'[n] /\ (list[n] > 0 => list'[n] > 0)
         /\ list'[m] > 0 /\ T!ForeignIsLate' /\ ListFollows'
<1>1. /\ tRow \in [Numbers -> Nat] /\ list \in [Numbers -> Nat] /\ late \subseteq Numbers
      /\ cache \in [Channels -> T!Page \cup {NoPage}] /\ tSelected \in Channels
  BY DEF TimelineInv, T!TypeOK, T!Page
<1>2. /\ \A n \in Numbers : list'[n] = IF n = m THEN r ELSE list[n]
      /\ list' \in T!Page
      /\ late' = IF r < list[m] \/ NumberIn[m] # tSelected THEN late \cup {m} ELSE late
  BY <1>1 DEF T!Upsert, T!Show, T!Page
<1>3. \A n \in Numbers : list'[n] <= tRow'[n] /\ (list[n] > 0 => list'[n] > 0)
  BY <1>1, <1>2 DEF TimelineInv, NothingIsAhead
<1>4. T!ForeignIsLate'
  BY <1>2 DEF TimelineInv, T!ForeignIsLate
<1>5. ListFollows'
  <2> SUFFICES ASSUME cache[tSelected] # NoPage, NEW n \in T!In(tSelected), n \notin late',
                      cache[tSelected][n] > 0
               PROVE  cache[tSelected][n] <= list'[n]
    BY DEF ListFollows, T!In
  <2>1. n \in Numbers /\ n \notin late /\ cache[tSelected] \in [Numbers -> Nat]
    BY <1>1, <1>2 DEF T!In, T!Page
  <2>2. cache[tSelected][n] <= list[n]
    BY <2>1 DEF TimelineInv, ListFollows
  <2>3. n = m => list[n] <= list'[n]
    BY <1>1, <1>2, <2>1
  <2>4. cache[tSelected][n] \in Nat /\ list[n] \in Nat /\ list'[n] \in Nat
    BY <1>1, <1>2, <2>1 DEF T!Page
  <2>5. QED
    BY <1>2, <2>1, <2>2, <2>3, <2>4
<1>6. QED
  BY <1>1, <1>2, <1>3, <1>4, <1>5

LEMMA PageHandleStep ==
  ASSUME TimelineInv, NEW e \in wire, T!HandleCreated(e) \/ T!HandleChanged(e)
  PROVE  TimelineInv'
<1>1. /\ wire' = wire \ {e}
      /\ UNCHANGED <<tRow, changes, cache, stale, fetch, tSelected, thread, tCall, tSelects, posted>>
      /\ T!Upsert(e.message, e.row) \/ UNCHANGED <<list, late>>
  BY DEF T!HandleCreated, T!HandleChanged, T!Upsert, T!remote, T!query
<1>2. e.message \in Numbers /\ e.row \in Nat /\ e.row > 0 /\ e.row <= tRow[e.message]
  BY DEF TimelineInv, T!TypeOK, T!Event, NothingIsAhead
<1>3. /\ list' \in T!Page /\ late' \subseteq Numbers
      /\ \A n \in Numbers : list'[n] <= tRow'[n] /\ (list[n] > 0 => list'[n] > 0)
      /\ T!ForeignIsLate' /\ ListFollows'
  <2>1. CASE T!Upsert(e.message, e.row)
    BY <1>1, <1>2, <2>1, UpsertStep
  <2>2. CASE UNCHANGED <<list, late>>
    BY <1>1, <2>2 DEF TimelineInv, T!TypeOK, NothingIsAhead, T!ForeignIsLate, ListFollows, T!In
  <2>3. QED
    BY <1>1, <2>1, <2>2
<1>4. PostsAreHeld'
  BY <1>1, <1>3 DEF TimelineInv, PostsAreHeld, Fits, T!Posted, T!In
<1>5. RowsInOrder' /\ PagesAreRead' /\ CallsKnow'
  BY <1>1 DEF TimelineInv, RowsInOrder, PagesAreRead, Read, CallsKnow
<1>6. NothingIsAhead'
  BY <1>1, <1>3 DEF TimelineInv, NothingIsAhead
<1>7. T!TypeOK'
  BY <1>1, <1>3 DEF TimelineInv, T!TypeOK
<1>8. QED
  BY <1>3, <1>4, <1>5, <1>6, <1>7 DEF TimelineInv

\* a call is answered, or fails
LEMMA CallEnds ==
  ASSUME TimelineInv, NEW k \in Calls, tCall' = [tCall EXCEPT ![k] = T!NoCall], UNCHANGED tRow
  PROVE  tCall' \in [Calls -> T!Call] /\ CallsKnow'
<1>1. tCall \in [Calls -> T!Call] /\ T!NoCall \in T!Call
  BY DEF TimelineInv, T!TypeOK, T!Call, T!NoCall
<1>2. \A j \in Calls : tCall'[j] = IF j = k THEN T!NoCall ELSE tCall[j]
  BY <1>1
<1>3. CallsKnow'
  BY <1>2 DEF TimelineInv, CallsKnow, T!NoCall
<1>4. QED
  BY <1>1, <1>3

\* what a call knows of the row it has stored
LEMMA StoredCall ==
  ASSUME TimelineInv, NEW k \in Calls, tCall[k].do \in {"post", "reply"},
         tCall[k].message # NoMessage
  PROVE  /\ tCall[k].message \in Numbers /\ tCall[k].channel \in Channels
         /\ NumberIn[tCall[k].message] = tCall[k].channel
         /\ 1 <= tRow[tCall[k].message] /\ tRow[tCall[k].message] > 0
<1>1. tCall[k] \in T!Call
  BY DEF TimelineInv, T!TypeOK
<1>2. tCall[k].message \in Numbers
  BY <1>1 DEF T!Call
<1>3. tRow[tCall[k].message] \in Nat /\ tRow[tCall[k].message] > 0
  BY <1>2 DEF TimelineInv, T!TypeOK, T!Page, CallsKnow
<1>4. QED
  BY <1>2, <1>3 DEF TimelineInv, CallsKnow

LEMMA PostAnsweredStep ==
  ASSUME TimelineInv, NEW k \in Calls, T!PostAnswered(k)
  PROVE  TimelineInv'
<1>1. PICK m, c : m = tCall[k].message /\ c = tCall[k].channel
  OBVIOUS
<1>2. /\ m \in Numbers /\ c \in Channels /\ NumberIn[m] = c /\ 1 <= tRow[m] /\ tRow[m] > 0
  BY <1>1, StoredCall DEF T!PostAnswered
<1>3. /\ T!Upsert(m, 1) /\ stale' = stale \cup {c}
      /\ fetch' = (IF c = tSelected /\ ~T!FirstFetch(c) THEN [fetch EXCEPT ![c] = Asking] ELSE fetch)
      /\ posted' = (IF c = tSelected /\ ~T!Outrun(c, m) THEN posted \cup {m} ELSE posted)
      /\ tCall' = [tCall EXCEPT ![k] = T!NoCall]
      /\ UNCHANGED <<tRow, changes, cache, tSelected, thread, wire, tSelects>>
  BY <1>1 DEF T!PostAnswered, T!Asked, T!remote
<1>4. /\ list' \in T!Page /\ late' \subseteq Numbers
      /\ \A n \in Numbers : list'[n] <= tRow'[n] /\ (list[n] > 0 => list'[n] > 0)
      /\ list'[m] > 0 /\ T!ForeignIsLate' /\ ListFollows'
  BY <1>2, <1>3, UpsertStep
<1>5. tCall' \in [Calls -> T!Call] /\ CallsKnow'
  BY <1>3, CallEnds
<1>6. fetch \in [Channels -> T!Page \cup {NotAsked, Asking}] /\ tSelected \in Channels
      /\ posted \subseteq Numbers
  BY DEF TimelineInv, T!TypeOK
<1>7. PostsAreHeld'
  <2>1. CASE c = tSelected
    <3>1. \A n \in Numbers :
            fetch'[tSelected] \notin {NotAsked, Asking} /\ n \in posted' =>
              fetch'[tSelected] = fetch[tSelected] /\ (n \in posted \/ fetch[tSelected][n] > 0)
      <4>1. CASE ~T!FirstFetch(c)
        BY <1>3, <1>6, <2>1, <4>1
      <4>2. CASE T!FirstFetch(c)
        <5>1. fetch' = fetch
          BY <1>3, <4>2
        <5>2. SUFFICES ASSUME fetch[c] \notin {NotAsked, Asking}, m \in posted', m \notin posted
                       PROVE  fetch[c][m] > 0
          BY <1>3, <2>1, <5>1
        <5>3. ~T!Outrun(c, m)
          BY <1>3, <5>2
        <5>4. fetch[c] \in T!Page /\ fetch[c][m] # 0
          BY <1>6, <2>1, <4>2, <5>2, <5>3 DEF T!Outrun
        <5>5. QED
          BY <1>2, <5>4 DEF T!Page
      <4>3. QED
        BY <4>1, <4>2
    <3>2. m \in T!Posted(tSelected)
      BY <1>2, <2>1 DEF T!Posted, T!In
    <3>3. posted' \subseteq posted \cup {m}
      BY <1>3
    <3>4. QED
      BY <1>3, <1>4, <1>6, <2>1, <3>1, <3>2, <3>3 DEF TimelineInv, PostsAreHeld, Fits, T!Posted, T!In
  <2>2. CASE c # tSelected
    BY <1>3, <1>4, <1>6, <2>2 DEF TimelineInv, PostsAreHeld, Fits, T!Posted, T!In
  <2>3. QED
    BY <2>1, <2>2
<1>8. PagesAreRead'
  <2>1. \A d \in Channels : fetch'[d] = fetch[d] \/ fetch'[d] = Asking
    BY <1>3, <1>6
  <2>2. QED
    BY <1>3, <2>1 DEF TimelineInv, PagesAreRead, Read
<1>9. RowsInOrder'
  BY <1>3 DEF TimelineInv, RowsInOrder
<1>10. NothingIsAhead'
  BY <1>3, <1>4 DEF TimelineInv, NothingIsAhead
<1>11. fetch' \in [Channels -> T!Page \cup {NotAsked, Asking}]
  BY <1>3, <1>6
<1>12. T!TypeOK'
  BY <1>2, <1>3, <1>4, <1>5, <1>6, <1>11 DEF TimelineInv, T!TypeOK
<1>13. QED
  BY <1>4, <1>5, <1>7, <1>8, <1>9, <1>10, <1>12 DEF TimelineInv

LEMMA ReplyAnsweredStep ==
  ASSUME TimelineInv, NEW k \in Calls, T!ReplyAnswered(k)
  PROVE  TimelineInv'
<1>1. PICK m : m = tCall[k].message
  OBVIOUS
<1>2. m \in Numbers /\ 1 <= tRow[m]
  BY <1>1, StoredCall DEF T!ReplyAnswered
<1>3. /\ T!Upsert(m, 1) /\ tCall' = [tCall EXCEPT ![k] = T!NoCall]
      /\ UNCHANGED <<tRow, changes, cache, stale, fetch, tSelected, thread, wire, tSelects, posted>>
  BY <1>1 DEF T!ReplyAnswered, T!remote, T!query
<1>4. /\ list' \in T!Page /\ late' \subseteq Numbers
      /\ \A n \in Numbers : list'[n] <= tRow'[n] /\ (list[n] > 0 => list'[n] > 0)
      /\ T!ForeignIsLate' /\ ListFollows'
  BY <1>2, <1>3, UpsertStep
<1>5. tCall' \in [Calls -> T!Call] /\ CallsKnow'
  BY <1>3, CallEnds
<1>6. posted \subseteq Numbers
  BY DEF TimelineInv, T!TypeOK
<1>7. PostsAreHeld'
  BY <1>3, <1>4, <1>6 DEF TimelineInv, PostsAreHeld, Fits, T!Posted, T!In
<1>8. RowsInOrder' /\ PagesAreRead'
  BY <1>3 DEF TimelineInv, RowsInOrder, PagesAreRead, Read
<1>9. NothingIsAhead'
  BY <1>3, <1>4 DEF TimelineInv, NothingIsAhead
<1>10. T!TypeOK'
  BY <1>3, <1>4, <1>5 DEF TimelineInv, T!TypeOK
<1>11. QED
  BY <1>4, <1>5, <1>7, <1>8, <1>9, <1>10 DEF TimelineInv

-------------------------------------------------------------------------------
\* the oldest page of a channel, as it is stored
LEMMA FirstPageFacts ==
  ASSUME TimelineInv, NEW c \in Channels
  PROVE  /\ T!FirstPage(c) \in T!Page /\ T!FirstPage(c) # NoPage
         /\ \A m \in Numbers : T!FirstPage(c)[m] > 0 => NumberIn[m] = c /\ T!FirstPage(c)[m] = tRow[m]
         /\ Cardinality(T!Posted(c)) <= PageSize =>
              \A m \in T!Posted(c) : T!FirstPage(c)[m] > 0
<1>1. tRow \in [Numbers -> Nat] /\ Numbers \subseteq Nat /\ PageSize \in Nat /\ NoPage \notin T!Page
  BY TimelineConstants DEF TimelineInv, T!TypeOK, T!Page, T!TimelineAssumption
<1>2. T!FirstPage(c) \in T!Page
  BY <1>1 DEF T!FirstPage, T!Page
<1>3. \A m \in Numbers : T!FirstPage(c)[m] > 0 => NumberIn[m] = c /\ T!FirstPage(c)[m] = tRow[m]
  BY DEF T!FirstPage, T!Posted, T!In
<1>4. ASSUME Cardinality(T!Posted(c)) <= PageSize, NEW m \in T!Posted(c)
      PROVE  T!FirstPage(c)[m] > 0
  <2> DEFINE before == {n \in T!In(c) : n <= m}
  <2>1. m \in Numbers /\ NumberIn[m] = c /\ tRow[m] > 0
    BY <1>4 DEF T!Posted, T!In
  <2>2. before \subseteq T!Posted(c)
    <3> SUFFICES ASSUME NEW n \in Numbers, NumberIn[n] = c, n <= m PROVE tRow[n] > 0
      BY DEF T!Posted, T!In
    <3>1. n < m \/ n = m
      BY <1>1, <2>1
    <3>2. QED
      BY <2>1, <3>1 DEF TimelineInv, RowsInOrder
  <2>3. T!Posted(c) \subseteq {n \in Numbers : tRow[n] > 0}
    BY DEF T!Posted, T!In
  <2>4. IsFiniteSet(T!Posted(c))
    BY <2>3, FS_Subset DEF TimelineInv, RowsInOrder
  <2>5. /\ Cardinality(before) <= Cardinality(T!Posted(c))
        /\ Cardinality(before) \in Nat /\ Cardinality(T!Posted(c)) \in Nat
    BY <2>2, <2>4, FS_Subset, FS_CardinalityType
  <2>6. Cardinality(before) <= PageSize
    BY <1>1, <1>4, <2>5
  <2>7. T!Cardinality({n \in T!In(c) : n <= m}) <= PageSize
    BY <2>6, TimelineOperators
  <2>8. T!FirstPage(c)[m] = tRow[m]
    BY <1>4, <2>1, <2>7 DEF T!FirstPage
  <2>9. QED
    BY <2>1, <2>8
<1>5. QED
  BY <1>1, <1>2, <1>3, <1>4

LEMMA ServeFetchStep ==
  ASSUME TimelineInv, NEW c \in Channels, T!ServeFetch(c)
  PROVE  TimelineInv'
<1>1. /\ fetch' = [fetch EXCEPT ![c] = T!FirstPage(c)]
      /\ UNCHANGED <<tRow, changes, cache, stale, tSelected, list, thread, wire, tCall, tSelects,
                     posted, late>>
  BY DEF T!ServeFetch, T!remote
<1>2. /\ fetch \in [Channels -> T!Page \cup {NotAsked, Asking}] /\ tRow \in [Numbers -> Nat]
  BY DEF TimelineInv, T!TypeOK, T!Page
<1>3. \A d \in Channels : fetch'[d] = IF d = c THEN T!FirstPage(c) ELSE fetch[d]
  BY <1>1, <1>2
<1>4. /\ T!FirstPage(c) \in T!Page
      /\ \A m \in Numbers : T!FirstPage(c)[m] > 0 => NumberIn[m] = c /\ T!FirstPage(c)[m] = tRow[m]
      /\ Cardinality(T!Posted(c)) <= PageSize => \A m \in T!Posted(c) : T!FirstPage(c)[m] > 0
  BY FirstPageFacts
<1>5. PagesAreRead'
  <2>1. \A m \in Numbers : T!FirstPage(c)[m] > 0 => NumberIn[m] = c /\ T!FirstPage(c)[m] <= tRow[m]
    BY <1>2, <1>4
  <2>2. QED
    BY <1>1, <1>3, <2>1 DEF TimelineInv, PagesAreRead, Read
<1>6. PostsAreHeld'
  <2>1. \A m \in posted : /\ m \in T!Posted(tSelected) /\ (Fits => list[m] > 0)
                          /\ Fits /\ fetch[tSelected] \notin {NotAsked, Asking} => fetch[tSelected][m] > 0
    BY DEF TimelineInv, PostsAreHeld
  <2>2. c = tSelected /\ Fits => \A m \in posted : T!FirstPage(c)[m] > 0
    BY <1>4, <2>1 DEF Fits
  <2>3. tSelected \in Channels
    BY DEF TimelineInv, T!TypeOK
  <2>4. Fits' = Fits /\ T!Posted(tSelected)' = T!Posted(tSelected)
    BY <1>1 DEF Fits, T!Posted, T!In
  <2>5. \A m \in posted : Fits /\ fetch'[tSelected] \notin {NotAsked, Asking} => fetch'[tSelected][m] > 0
    BY <1>3, <2>1, <2>2, <2>3
  <2>6. QED
    BY <1>1, <2>1, <2>4, <2>5 DEF PostsAreHeld
<1>7. RowsInOrder' /\ NothingIsAhead' /\ CallsKnow' /\ T!ForeignIsLate' /\ ListFollows'
  BY <1>1 DEF TimelineInv, RowsInOrder, NothingIsAhead, CallsKnow, T!ForeignIsLate, ListFollows, T!In
<1>8. fetch' \in [Channels -> T!Page \cup {NotAsked, Asking}]
  BY <1>1, <1>2, <1>4
<1>9. T!TypeOK'
  BY <1>1, <1>8 DEF TimelineInv, T!TypeOK
<1>10. QED
  BY <1>5, <1>6, <1>7, <1>9 DEF TimelineInv

LEMMA FetchAnsweredStep ==
  ASSUME TimelineInv, NEW c \in Channels, T!FetchAnswered(c)
  PROVE  TimelineInv'
<1>1. /\ fetch[c] \notin {NotAsked, Asking}
      /\ cache' = [cache EXCEPT ![c] = fetch[c]] /\ stale' = stale \ {c}
      /\ fetch' = [fetch EXCEPT ![c] = NotAsked]
      /\ UNCHANGED <<tRow, changes, tSelected, thread, wire, tCall, tSelects, posted>>
      /\ \/ c = tSelected /\ list' = T!Rows(fetch[c]) /\ late' = late \cap {thread}
         \/ (c # tSelected \/ cache[c] = fetch[c]) /\ UNCHANGED <<list, late>>
  BY DEF T!FetchAnswered, T!remote
<1>2. /\ fetch \in [Channels -> T!Page \cup {NotAsked, Asking}]
      /\ cache \in [Channels -> T!Page \cup {NoPage}] /\ NoPage \notin T!Page
      /\ tSelected \in Channels /\ list \in T!Page
      /\ posted \subseteq Numbers
  BY TimelineConstants DEF TimelineInv, T!TypeOK, T!TimelineAssumption
<1>3. /\ fetch[c] \in T!Page /\ fetch[c] # NoPage /\ Read(c, fetch[c])
  BY <1>1, <1>2 DEF TimelineInv, PagesAreRead
<1>4. /\ \A d \in Channels : cache'[d] = IF d = c THEN fetch[c] ELSE cache[d]
      /\ \A d \in Channels : fetch'[d] = IF d = c THEN NotAsked ELSE fetch[d]
  BY <1>1, <1>2
<1>5. PagesAreRead'
  BY <1>1, <1>3, <1>4 DEF TimelineInv, PagesAreRead, Read
<1>6. RowsInOrder' /\ CallsKnow'
  BY <1>1 DEF TimelineInv, RowsInOrder, CallsKnow
<1>7. T!TypeOK'
  <2>1. list' \in T!Page /\ late' \subseteq Numbers
    BY <1>1, <1>2, <1>3 DEF TimelineInv, T!TypeOK, T!Rows
  <2>2. /\ cache' \in [Channels -> T!Page \cup {NoPage}]
        /\ fetch' \in [Channels -> T!Page \cup {NotAsked, Asking}]
    BY <1>1, <1>2, <1>3
  <2>3. QED
    BY <1>1, <2>1, <2>2 DEF TimelineInv, T!TypeOK
<1>8. CASE c = tSelected /\ list' = T!Rows(fetch[c]) /\ late' = late \cap {thread}
  <2>1. list' = fetch[c]
    BY <1>3, <1>8 DEF T!Rows
  <2>2. tRow \in [Numbers -> Nat] /\ fetch[c] \in [Numbers -> Nat]
    BY <1>3 DEF TimelineInv, T!TypeOK, T!Page
  <2>3. NothingIsAhead'
    <3>1. \A m \in Numbers : list'[m] <= tRow[m]
      BY <1>3, <2>1, <2>2 DEF Read
    <3>2. QED
      BY <1>1, <3>1 DEF TimelineInv, NothingIsAhead
  <2>4. PostsAreHeld'
    <3>1. \A m \in posted : m \in T!Posted(tSelected) /\ (Fits => fetch[c][m] > 0)
      BY <1>1, <1>8 DEF TimelineInv, PostsAreHeld
    <3>2. fetch'[tSelected] = NotAsked
      BY <1>4, <1>8
    <3>3. QED
      BY <1>1, <2>1, <3>1, <3>2 DEF PostsAreHeld, Fits, T!Posted, T!In
  <2>5. T!ForeignIsLate'
    BY <1>1, <1>3, <1>8, <2>1 DEF TimelineInv, T!ForeignIsLate, Read
  <2>6. ListFollows'
    <3>1. \A m \in Numbers : cache'[tSelected][m] <= list'[m]
      BY <1>4, <1>8, <2>1, <2>2
    <3>2. QED
      BY <1>1, <3>1 DEF ListFollows, T!In
  <2>7. QED
    BY <1>5, <1>6, <1>7, <2>3, <2>4, <2>5, <2>6 DEF TimelineInv
<1>9. CASE (c # tSelected \/ cache[c] = fetch[c]) /\ UNCHANGED <<list, late>>
  <2>1. cache'[tSelected] = cache[tSelected]
    BY <1>2, <1>4, <1>9
  <2>2. fetch'[tSelected] = fetch[tSelected] \/ fetch'[tSelected] = NotAsked
    BY <1>2, <1>4
  <2>3. NothingIsAhead' /\ T!ForeignIsLate'
    BY <1>1, <1>9 DEF TimelineInv, NothingIsAhead, T!ForeignIsLate
  <2>4. PostsAreHeld'
    BY <1>1, <1>9, <2>2 DEF TimelineInv, PostsAreHeld, Fits, T!Posted, T!In
  <2>5. ListFollows'
    BY <1>1, <1>9, <2>1 DEF TimelineInv, ListFollows, T!In
  <2>6. QED
    BY <1>5, <1>6, <1>7, <2>3, <2>4, <2>5 DEF TimelineInv
<1>10. QED
  BY <1>1, <1>8, <1>9

LEMMA FetchFailsStep ==
  ASSUME TimelineInv, NEW c \in Channels, T!FetchFails(c)
  PROVE  TimelineInv'
<1>1. /\ fetch' = [fetch EXCEPT ![c] = NotAsked]
      /\ UNCHANGED <<tRow, changes, cache, stale, tSelected, list, thread, wire, tCall, tSelects,
                     posted, late>>
  BY DEF T!FetchFails, T!remote
<1>2. fetch \in [Channels -> T!Page \cup {NotAsked, Asking}] /\ tSelected \in Channels
  BY DEF TimelineInv, T!TypeOK
<1>3. \A d \in Channels : fetch'[d] = IF d = c THEN NotAsked ELSE fetch[d]
  BY <1>1, <1>2
<1>4. PagesAreRead'
  BY <1>1, <1>3 DEF TimelineInv, PagesAreRead, Read
<1>5. PostsAreHeld'
  BY <1>1, <1>2, <1>3 DEF TimelineInv, PostsAreHeld, Fits, T!Posted, T!In
<1>6. RowsInOrder' /\ NothingIsAhead' /\ CallsKnow' /\ T!ForeignIsLate' /\ ListFollows'
  BY <1>1 DEF TimelineInv, RowsInOrder, NothingIsAhead, CallsKnow, T!ForeignIsLate, ListFollows, T!In
<1>7. T!TypeOK'
  BY <1>1, <1>2 DEF TimelineInv, T!TypeOK
<1>8. QED
  BY <1>4, <1>5, <1>6, <1>7 DEF TimelineInv

LEMMA SelectChannelStep ==
  ASSUME TimelineInv, NEW c \in Channels, NEW old \in BOOLEAN, T!Select(c, old)
  PROVE  TimelineInv'
<1>1. /\ tSelected' = c /\ thread' = NoMessage /\ posted' = {}
      /\ fetch' = fetch \/ fetch' = [fetch EXCEPT ![c] = Asking]
      /\ UNCHANGED <<tRow, changes, cache, stale, wire, tCall>>
      /\ \/ /\ cache[c] = NoPage /\ list' = list
            /\ late' = late \cup {m \in Numbers : list[m] > 0}
         \/ list' = T!Rows(cache[c]) /\ late' = {}
  BY DEF T!Select, T!Asked, T!remote
<1>2. /\ fetch \in [Channels -> T!Page \cup {NotAsked, Asking}]
      /\ cache \in [Channels -> T!Page \cup {NoPage}] /\ list \in T!Page
      /\ tRow \in [Numbers -> Nat] /\ NoMessage \notin Numbers /\ late \subseteq Numbers
  BY TimelineConstants DEF TimelineInv, T!TypeOK, T!Page, T!TimelineAssumption
<1>3. \A d \in Channels : fetch'[d] = fetch[d] \/ fetch'[d] = Asking
  BY <1>1, <1>2
<1>4. PagesAreRead'
  BY <1>1, <1>3 DEF TimelineInv, PagesAreRead, Read
<1>5. RowsInOrder' /\ CallsKnow' /\ PostsAreHeld'
  BY <1>1 DEF TimelineInv, RowsInOrder, CallsKnow, PostsAreHeld
<1>6. tSelects' \in 0..MaxSelects
  BY TimelineConstants DEF T!Select, TimelineInv, T!TypeOK, T!TimelineAssumption
<1>7. fetch' \in [Channels -> T!Page \cup {NotAsked, Asking}]
  BY <1>1, <1>2
<1>8. CASE cache[c] = NoPage /\ list' = list /\ late' = late \cup {m \in Numbers : list[m] > 0}
  <2>1. NothingIsAhead'
    BY <1>1, <1>8 DEF TimelineInv, NothingIsAhead
  <2>2. T!ForeignIsLate'
    BY <1>1, <1>2, <1>8 DEF T!ForeignIsLate
  <2>3. ListFollows'
    BY <1>1, <1>8 DEF ListFollows
  <2>4. T!TypeOK'
    BY <1>1, <1>2, <1>6, <1>7, <1>8 DEF TimelineInv, T!TypeOK
  <2>5. QED
    BY <1>4, <1>5, <2>1, <2>2, <2>3, <2>4 DEF TimelineInv
<1>9. CASE list' = T!Rows(cache[c]) /\ late' = {}
  <2>1. \/ cache[c] = NoPage /\ list' = [m \in Numbers |-> 0]
        \/ cache[c] # NoPage /\ list' = cache[c] /\ cache[c] \in [Numbers -> Nat] /\ Read(c, cache[c])
    BY <1>2, <1>9 DEF T!Rows, T!Empty, T!Page, TimelineInv, PagesAreRead
  <2>2. list' \in [Numbers -> Nat]
    BY <2>1
  <2>3. \A m \in Numbers : list'[m] <= tRow[m] /\ (list'[m] > 0 => NumberIn[m] = c)
    <3> TAKE m \in Numbers
    <3>1. CASE list' = [n \in Numbers |-> 0]
      BY <1>2, <3>1
    <3>2. CASE list' = cache[c] /\ cache[c] \in [Numbers -> Nat] /\ Read(c, cache[c])
      BY <1>2, <3>2 DEF Read
    <3>3. QED
      BY <2>1, <3>1, <3>2
  <2>4. NothingIsAhead'
    BY <1>1, <2>3 DEF TimelineInv, NothingIsAhead
  <2>5. T!ForeignIsLate'
    BY <1>1, <1>2, <2>3 DEF T!ForeignIsLate
  <2>6. ListFollows'
    BY <1>1, <2>1, <2>2 DEF ListFollows, T!In
  <2>7. T!TypeOK'
    BY <1>1, <1>2, <1>6, <1>7, <1>9, <2>2 DEF TimelineInv, T!TypeOK, T!Page
  <2>8. QED
    BY <1>4, <1>5, <2>4, <2>5, <2>6, <2>7 DEF TimelineInv
<1>10. QED
  BY <1>1, <1>8, <1>9

-------------------------------------------------------------------------------
\* a call of the user begins
LEMMA BeginStep ==
  ASSUME TimelineInv, NEW k \in Calls,
         NEW do \in {"post", "reply", "thread"}, NEW c \in Channels, NEW m \in Numbers \cup {NoMessage},
         T!Begin(k, do, c, m),
         do = "thread" => m \in Numbers, do # "thread" => m = NoMessage
  PROVE  TimelineInv'
<1>1. /\ tCall' = [tCall EXCEPT ![k] = [do |-> do, channel |-> c, message |-> m]]
      /\ UNCHANGED <<tRow, changes, cache, stale, fetch, tSelected, list, thread, wire, tSelects,
                     posted, late>>
  BY DEF T!Begin, T!remote, T!query
<1>2. tCall \in [Calls -> T!Call]
  BY DEF TimelineInv, T!TypeOK
<1>3. \A j \in Calls : tCall'[j] = IF j = k THEN [do |-> do, channel |-> c, message |-> m]
                                   ELSE tCall[j]
  BY <1>1, <1>2
<1>4. [do |-> do, channel |-> c, message |-> m] \in T!Call
  BY DEF T!Call
<1>5. CallsKnow'
  BY <1>1, <1>3 DEF TimelineInv, CallsKnow
<1>6. T!TypeOK'
  BY <1>1, <1>2, <1>4 DEF TimelineInv, T!TypeOK
<1>7. /\ RowsInOrder' /\ PagesAreRead' /\ NothingIsAhead' /\ PostsAreHeld'
      /\ T!ForeignIsLate' /\ ListFollows'
  BY <1>1 DEF TimelineInv, RowsInOrder, PagesAreRead, Read, NothingIsAhead, PostsAreHeld, Fits,
              T!Posted, T!In, T!ForeignIsLate, ListFollows
<1>8. QED
  BY <1>5, <1>6, <1>7 DEF TimelineInv

LEMMA UserStep ==
  ASSUME TimelineInv, NEW k \in Calls,
         T!Send(k) \/ T!Reply(k) \/ T!CallFails(k) \/ T!ThreadAnswered(k)
           \/ (\E m \in Numbers : T!OpenThread(k, m))
  PROVE  TimelineInv'
<1>1. CASE T!Send(k)
  <2>1. tSelected \in Channels
    BY DEF TimelineInv, T!TypeOK
  <2>2. QED
    BY <1>1, <2>1, BeginStep DEF T!Send
<1>2. CASE T!Reply(k)
  <2>1. thread \in Numbers /\ NumberIn[thread] \in Channels
    BY <1>2, TimelineConstants DEF T!Reply, TimelineInv, T!TypeOK, T!TimelineAssumption
  <2>2. T!Begin(k, "reply", NumberIn[thread], NoMessage)
    BY <1>2 DEF T!Reply
  <2>3. QED
    BY <2>1, <2>2, BeginStep
<1>3. ASSUME NEW m \in Numbers, T!OpenThread(k, m)
      PROVE  TimelineInv'
  <2>1. tSelected \in Channels /\ T!Begin(k, "thread", tSelected, m)
    BY <1>3 DEF T!OpenThread, TimelineInv, T!TypeOK
  <2>2. QED
    BY <1>3, <2>1, BeginStep
<1>4. CASE T!CallFails(k)
  <2>1. /\ tCall' = [tCall EXCEPT ![k] = T!NoCall]
        /\ UNCHANGED <<tRow, changes, cache, stale, fetch, tSelected, list, thread, wire, tSelects,
                       posted, late>>
    BY <1>4 DEF T!CallFails, T!remote, T!query
  <2>2. tCall' \in [Calls -> T!Call] /\ CallsKnow'
    BY <2>1, CallEnds
  <2>3. T!TypeOK'
    BY <2>1, <2>2 DEF TimelineInv, T!TypeOK
  <2>4. /\ RowsInOrder' /\ PagesAreRead' /\ NothingIsAhead' /\ PostsAreHeld'
        /\ T!ForeignIsLate' /\ ListFollows'
    BY <2>1 DEF TimelineInv, RowsInOrder, PagesAreRead, Read, NothingIsAhead, PostsAreHeld, Fits,
                T!Posted, T!In, T!ForeignIsLate, ListFollows
  <2>5. QED
    BY <2>2, <2>3, <2>4 DEF TimelineInv
<1>5. CASE T!ThreadAnswered(k)
  <2>1. /\ thread' = tCall[k].message /\ tCall' = [tCall EXCEPT ![k] = T!NoCall]
        /\ late' = IF NumberIn[tCall[k].message] # tSelected
                   THEN late \cup {tCall[k].message} ELSE late
        /\ UNCHANGED <<tRow, changes, cache, stale, fetch, tSelected, list, wire, tSelects, posted>>
        /\ tCall[k].message \in Numbers
    BY <1>5 DEF T!ThreadAnswered, T!remote, T!query, TimelineInv, CallsKnow
  <2>2. tCall' \in [Calls -> T!Call] /\ CallsKnow'
    BY <2>1, CallEnds
  <2>3. T!TypeOK'
    BY <2>1, <2>2 DEF TimelineInv, T!TypeOK
  <2>4. RowsInOrder' /\ PagesAreRead' /\ NothingIsAhead' /\ PostsAreHeld'
    BY <2>1 DEF TimelineInv, RowsInOrder, PagesAreRead, Read, NothingIsAhead, PostsAreHeld, Fits,
                T!Posted, T!In
  <2>5. T!ForeignIsLate'
    BY <2>1 DEF TimelineInv, T!ForeignIsLate
  <2>6. ListFollows'
    BY <2>1 DEF TimelineInv, ListFollows, T!In
  <2>7. QED
    BY <2>2, <2>3, <2>4, <2>5, <2>6 DEF TimelineInv
<1>6. QED
  BY <1>1, <1>2, <1>3, <1>4, <1>5

LEMMA TimelineStep == TimelineInv /\ [T!Next]_(T!vars) => TimelineInv'
<1> SUFFICES ASSUME TimelineInv, [T!Next]_(T!vars) PROVE TimelineInv'
  OBVIOUS
<1>1. CASE UNCHANGED T!vars
  BY <1>1 DEF T!vars, T!remote, T!query, TimelineInv, T!TypeOK, RowsInOrder, PagesAreRead, Read,
              NothingIsAhead, CallsKnow, PostsAreHeld, Fits, T!Posted, T!In, T!ForeignIsLate,
              ListFollows
<1>2. CASE T!Next
  BY <1>2, ChangedStep, StoredStep, PageHandleStep, PostAnsweredStep, ReplyAnsweredStep,
     ServeFetchStep, FetchAnsweredStep, FetchFailsStep, SelectChannelStep, UserStep DEF T!Next
<1>3. QED
  BY <1>1, <1>2

LEMMA TimelineMeaning == TimelineInv => T!TypeOK /\ T!TimelineIsTrue
<1> SUFFICES ASSUME TimelineInv PROVE T!OwnMessageStays /\ T!CurrentPageIsShown
  BY DEF TimelineInv, T!TimelineIsTrue
<1>1. T!OwnMessageStays
  BY TimelineOperators DEF TimelineInv, PostsAreHeld, Fits, T!OwnMessageStays
<1>2. T!CurrentPageIsShown
  <2> SUFFICES ASSUME cache[tSelected] = T!FirstPage(tSelected), NEW m \in T!In(tSelected) \ late,
                      cache[tSelected][m] > 0
               PROVE  list[m] = tRow[m]
    BY DEF T!CurrentPageIsShown
  <2>1. tSelected \in Channels /\ m \in Numbers
    BY DEF TimelineInv, T!TypeOK, T!In
  <2>2. cache[tSelected] # NoPage /\ cache[tSelected][m] = tRow[m]
    BY <2>1, FirstPageFacts
  <2>3. tRow[m] <= list[m] /\ list[m] <= tRow[m]
    BY <2>1, <2>2 DEF TimelineInv, ListFollows, NothingIsAhead
  <2>4. tRow[m] \in Nat /\ list[m] \in Nat
    BY <2>1 DEF TimelineInv, T!TypeOK, T!Page
  <2>5. QED
    BY <2>3, <2>4
<1>3. QED
  BY <1>1, <1>2

\* The timeline keeps a post of the user's that was answered, unless the first
\* page of its channel had been read without it and was still on its way; it
\* shows nothing of another channel but what changes and answers that came too
\* late have put there, and a page that is as the rows are (page.tsx 110-115,
\* 210-262, 303-323).
THEOREM TimelineStaysTrue == T!Spec => []T!TimelineIsTrue
BY TimelineInit, TimelineStep, TimelineMeaning, PTL DEF T!Spec

-------------------------------------------------------------------------------
(* Types of the two parts: a call changes a row at most once, and publishes at *)
(* most one envelope.                                                          *)

Started == {k \in Calls : call[k].pc # "idle"}
Ended   == {k \in Calls : call[k].pc = "done"}
Counted ==
  /\ \A m \in Messages : rev[m] <= Cardinality(Started)
  /\ Len(log) <= Cardinality(Ended)

CountedInv == EventsTypeOK /\ Counted

LEMMA OneMore ==
  ASSUME NEW X \in SUBSET Calls, NEW k \in Calls, k \notin X
  PROVE  Cardinality(X \cup {k}) = Cardinality(X) + 1 /\ Cardinality(X) \in Nat
<1>1. IsFiniteSet(X)
  BY FiniteCalls, FS_Subset
<1>2. QED
  BY <1>1, FS_AddElement, FS_CardinalityType

\* a call that begins, with at most one change of a row
LEMMA CallStarts ==
  ASSUME EventsTypeOK, EventsTypeOK', Counted, NEW k \in Calls, call[k].pc = "idle",
         call'[k].pc # "idle", \A j \in Calls \ {k} : call'[j].pc = call[j].pc,
         \A m \in Messages : rev'[m] \in {rev[m], rev[m] + 1}
  PROVE  \A m \in Messages : rev'[m] <= Cardinality(Started')
<1>1. Started' = Started \cup {k} /\ Started \in SUBSET Calls /\ k \notin Started
  BY DEF Started
<1>2. Cardinality(Started') = Cardinality(Started) + 1 /\ Cardinality(Started) \in Nat
  BY <1>1, OneMore
<1>3. QED
  <2> SUFFICES ASSUME NEW m \in Messages PROVE rev'[m] <= Cardinality(Started')
    OBVIOUS
  <2>1. rev[m] \in Nat /\ rev[m] <= Cardinality(Started)
    BY DEF EventsTypeOK, Counted
  <2>2. QED
    BY <1>2, <2>1

LEMMA CallEndsWell ==
  ASSUME EventsTypeOK, EventsTypeOK', Counted, NEW k \in Calls, call[k].pc # "done",
         call'[k].pc = "done", \A j \in Calls \ {k} : call'[j].pc = call[j].pc,
         Len(log') \in {Len(log), Len(log) + 1}
  PROVE  Len(log') <= Cardinality(Ended')
<1>1. Ended' = Ended \cup {k} /\ Ended \in SUBSET Calls /\ k \notin Ended
  BY DEF Ended
<1>2. Cardinality(Ended') = Cardinality(Ended) + 1 /\ Cardinality(Ended) \in Nat
  BY <1>1, OneMore
<1>3. Len(log) \in Nat /\ Len(log) <= Cardinality(Ended)
  BY DEF EventsTypeOK, Counted
<1>4. QED
  BY <1>2, <1>3

LEMMA SameStarted ==
  ASSUME Counted, UNCHANGED rev, \A j \in Calls : (call'[j].pc = "idle") <=> (call[j].pc = "idle")
  PROVE  \A m \in Messages : rev'[m] <= Cardinality(Started')
<1>1. Started' = Started
  BY DEF Started
<1>2. QED
  BY <1>1 DEF Counted

LEMMA SameEnded ==
  ASSUME Counted, UNCHANGED log, \A j \in Calls : (call'[j].pc = "done") <=> (call[j].pc = "done")
  PROVE  Len(log') <= Cardinality(Ended')
<1>1. Ended' = Ended
  BY DEF Ended
<1>2. QED
  BY <1>1 DEF Counted

LEMMA CountedInit == Init => Counted
<1> SUFFICES ASSUME Init PROVE Counted
  OBVIOUS
<1>1. Started = {} /\ Ended = {} /\ Cardinality({}) = 0
  BY FS_EmptySet DEF Init, Started, Ended
<1>2. \A m \in Messages : rev[m] = 0
  BY DEF Init
<1>3. Len(log) = 0
  BY DEF Init
<1>4. QED
  BY <1>1, <1>2, <1>3 DEF Counted

\* what one call of the server does to the counts
LEMMA CountedCalls ==
  ASSUME EventsTypeOK, EventsTypeOK', Counted, NEW k \in Calls,
         \/ \E m \in Messages : Store(k, m) \/ HttpStore(k, m)
         \/ \E c \in Channels : Signal(k, c)
         \/ Reread(k) \/ Publish(k) \/ CallFails(k)
  PROVE  Counted'
<1>0. call \in [Calls -> Call] /\ call' \in [Calls -> Call]
  BY DEF EventsTypeOK
<1>1. ASSUME NEW m \in Messages, Store(k, m) PROVE Counted'
  <2>1. call[k].pc = "idle" /\ call'[k].pc = "stored" /\ UNCHANGED log
    BY <1>0, <1>1 DEF Store, redis, Call
  <2>2. \A j \in Calls \ {k} : call'[j].pc = call[j].pc
    BY <1>0, <1>1 DEF Store
  <2>3. \A n \in Messages : rev'[n] \in {rev[n], rev[n] + 1}
    BY <1>1 DEF Store, EventsTypeOK
  <2>4. \A j \in Calls : (call'[j].pc = "done") <=> (call[j].pc = "done")
    BY <2>1, <2>2
  <2>5. \A n \in Messages : rev'[n] <= Cardinality(Started')
    BY <2>1, <2>2, <2>3, CallStarts
  <2>6. Len(log') <= Cardinality(Ended')
    BY <2>1, <2>4, SameEnded
  <2>7. QED
    BY <2>5, <2>6 DEF Counted
<1>2. ASSUME NEW m \in Messages, HttpStore(k, m) PROVE Counted'
  <2>1. call[k].pc = "idle" /\ call'[k].pc = "done" /\ UNCHANGED log
    BY <1>0, <1>2 DEF HttpStore, redis, Call
  <2>2. \A j \in Calls \ {k} : call'[j].pc = call[j].pc
    BY <1>0, <1>2 DEF HttpStore
  <2>3. \A n \in Messages : rev'[n] \in {rev[n], rev[n] + 1}
    BY <1>2 DEF HttpStore, EventsTypeOK
  <2>5. \A n \in Messages : rev'[n] <= Cardinality(Started')
    BY <2>1, <2>2, <2>3, CallStarts
  <2>6. Len(log') <= Cardinality(Ended')
    BY <2>1, <2>2, CallEndsWell
  <2>7. QED
    BY <2>5, <2>6 DEF Counted
<1>3. ASSUME NEW c \in Channels, Signal(k, c) PROVE Counted'
  <2>1. call[k].pc = "idle" /\ call'[k].pc = "publish" /\ UNCHANGED <<log, rev>>
    BY <1>0, <1>3 DEF Signal, redis, Call
  <2>2. \A j \in Calls \ {k} : call'[j].pc = call[j].pc
    BY <1>0, <1>3 DEF Signal
  <2>4. \A j \in Calls : (call'[j].pc = "done") <=> (call[j].pc = "done")
    BY <2>1, <2>2
  <2>5. \A n \in Messages : rev'[n] <= Cardinality(Started')
    BY <2>1, <2>2, CallStarts
  <2>6. Len(log') <= Cardinality(Ended')
    BY <2>1, <2>4, SameEnded
  <2>7. QED
    BY <2>5, <2>6 DEF Counted
<1>4. CASE Reread(k) \/ CallFails(k)
  <2>1. /\ call[k].pc \in {"stored", "publish"} /\ call'[k].pc \in {"publish", "failed"}
        /\ UNCHANGED <<log, rev>>
    BY <1>0, <1>4 DEF Reread, CallFails, redis, Call
  <2>2. \A j \in Calls \ {k} : call'[j].pc = call[j].pc
    BY <1>0, <1>4 DEF Reread, CallFails
  <2>3. \A j \in Calls : /\ (call'[j].pc = "done") <=> (call[j].pc = "done")
                         /\ (call'[j].pc = "idle") <=> (call[j].pc = "idle")
    BY <2>1, <2>2
  <2>4. QED
    BY <2>1, <2>3, SameStarted, SameEnded DEF Counted
<1>5. CASE Publish(k)
  <2>1. call[k].pc = "publish" /\ call'[k].pc = "done" /\ UNCHANGED rev
    BY <1>0, <1>5 DEF Publish, Call
  <2>2. \A j \in Calls \ {k} : call'[j].pc = call[j].pc
    BY <1>0, <1>5 DEF Publish
  <2>3. Len(log') = Len(log) + 1
    <3> DEFINE e == [room |-> call[k].room, message |-> call[k].message, rev |-> call[k].rev]
    <3>1. log' = Append(log, e) /\ log \in Seq(Envelope)
      BY <1>5 DEF Publish, EventsTypeOK
    <3> HIDE DEF e
    <3>2. QED
      BY <3>1
  <2>4. \A j \in Calls : (call'[j].pc = "idle") <=> (call[j].pc = "idle")
    BY <2>1, <2>2
  <2>5. \A n \in Messages : rev'[n] <= Cardinality(Started')
    BY <2>1, <2>4, SameStarted
  <2>6. Len(log') <= Cardinality(Ended')
    BY <2>1, <2>2, <2>3, CallEndsWell
  <2>7. QED
    BY <2>5, <2>6 DEF Counted
<1>6. QED
  BY <1>1, <1>2, <1>3, <1>4, <1>5

LEMMA CountedStep == EventsTypeOK /\ EventsTypeOK' /\ Counted /\ [Next]_vars => Counted'
<1> SUFFICES ASSUME EventsTypeOK, EventsTypeOK', Counted, [Next]_vars PROVE Counted'
  OBVIOUS
<1>1. CASE UNCHANGED <<rev, call, log>>
  <2>1. Started' = Started /\ Ended' = Ended
    BY <1>1 DEF Started, Ended
  <2>2. QED
    BY <1>1, <2>1 DEF Counted
<1>2. CASE \E k \in Calls : \/ \E m \in Messages : Store(k, m) \/ HttpStore(k, m)
                            \/ \E c \in Channels : Signal(k, c)
                            \/ Reread(k) \/ Publish(k) \/ CallFails(k)
  BY <1>2, CountedCalls
<1>3. \/ UNCHANGED <<rev, call, log>>
      \/ \E k \in Calls : \/ \E m \in Messages : Store(k, m) \/ HttpStore(k, m)
                          \/ \E c \in Channels : Signal(k, c)
                          \/ Reread(k) \/ Publish(k) \/ CallFails(k)
  <2>1. CASE UNCHANGED vars
    BY <2>1 DEF vars, server, redis
  <2>2. ASSUME NEW g \in Gateways, Broadcast(g) \/ Restart(g) \/ LoseRedis(g)
        PROVE  UNCHANGED <<rev, call, log>>
    BY <2>2 DEF Broadcast, Restart, LoseRedis, Resubscribe, server
  <2>3. ASSUME NEW p \in Pages, NEW g \in Gateways, Connect(p, g)
        PROVE  UNCHANGED <<rev, call, log>>
    BY <2>3 DEF Connect, server, redis
  <2>4. ASSUME NEW p \in Pages, GiveUp(p) \/ Drop(p) \/ Render(p) \/ Handle(p)
                                \/ ServeJoin(p) \/ ServeLeave(p)
        PROVE  UNCHANGED <<rev, call, log>>
    BY <2>4 DEF GiveUp, Drop, Render, Handle, ServeJoin, ServeLeave, server, redis
  <2>5. ASSUME NEW p \in Pages, NEW c \in Channels, Grant(p, c) \/ Refuse(p, c) \/ Select(p, c)
        PROVE  UNCHANGED <<rev, call, log>>
    BY <2>5 DEF Grant, Refuse, Select, server, redis
  <2>6. QED
    BY <2>1, <2>2, <2>3, <2>4, <2>5 DEF Next
<1>4. QED
  BY <1>1, <1>2, <1>3

LEMMA TypesHold == IInv /\ EventsInv /\ Counted => TypeOK
<1> SUFFICES ASSUME IInv, EventsInv, Counted PROVE TypeOK
  OBVIOUS
<1>1. EventsTypeOK /\ RoomsTypeOK
  BY DEF IInv, EventsInv
<1>2. Started \in SUBSET Calls /\ Ended \in SUBSET Calls
  BY DEF Started, Ended
<1>3. /\ Cardinality(Started) \in Nat /\ Cardinality(Started) <= Cardinality(Calls)
      /\ Cardinality(Ended) \in Nat /\ Cardinality(Ended) <= Cardinality(Calls)
      /\ Cardinality(Calls) \in Nat
  BY <1>2, FiniteCalls, FS_Subset, FS_CardinalityType
<1>4. rev \in [Messages -> 0..Cardinality(Calls)]
  <2>1. \A m \in Messages : rev[m] \in 0..Cardinality(Calls)
    <3> SUFFICES ASSUME NEW m \in Messages PROVE rev[m] \in 0..Cardinality(Calls)
      OBVIOUS
    <3>1. rev[m] \in Nat /\ rev[m] <= Cardinality(Started)
      BY <1>1 DEF EventsTypeOK, Counted
    <3>2. QED
      BY <1>3, <3>1
  <2>2. QED
    BY <1>1, <2>1 DEF EventsTypeOK
<1>5. log \in Seq(Envelope) /\ Len(log) \in Nat /\ Len(log) <= Cardinality(Calls)
  <2>1. log \in Seq(Envelope) /\ Len(log) \in Nat
    BY <1>1 DEF EventsTypeOK
  <2>2. Len(log) <= Cardinality(Ended)
    BY DEF Counted
  <2>3. QED
    BY <1>3, <2>1, <2>2
<1>6. inbox \in [Pages -> Seq(1..Len(log))]
  <2>1. inbox \in [Pages -> Seq(Nat)] /\ DOMAIN log = 1..Len(log)
    BY <1>1, <1>5 DEF EventsTypeOK
  <2>2. ASSUME NEW p \in Pages PROVE inbox[p] \in Seq(1..Len(log))
    <3>1. inbox[p] \in Seq(Nat) /\ \A i \in DOMAIN inbox[p] : inbox[p][i] \in 1..Len(log)
      BY <2>1 DEF EventsInv, ReachedOK
    <3>2. DOMAIN inbox[p] = 1..Len(inbox[p]) /\ Len(inbox[p]) \in Nat
      BY <3>1
    <3>3. inbox[p] = [i \in 1..Len(inbox[p]) |-> inbox[p][i]]
      BY <3>1, <3>2
    <3>4. inbox[p] \in [1..Len(inbox[p]) -> 1..Len(log)]
      BY <3>1, <3>2, <3>3
    <3>5. QED
      <4> DEFINE n == Len(inbox[p])  s == inbox[p]  set == 1..Len(log)
      <4>1. n \in Nat /\ s \in [1..n -> set]
        BY <3>2, <3>4
      <4> HIDE DEF n, s, set
      <4>2. s \in Seq(set)
        BY <4>1, SeqDef
      <4>3. QED
        BY <4>2 DEF s, set
  <2>3. QED
    BY <2>1, <2>2
<1>7. \A p \in Pages : link[p] = "up" <=> gate[p] # NoGateway
  BY DEF EventsInv, SocketsOK, Connected
<1>8. QED
  BY <1>1, <1>4, <1>5, <1>6, <1>7 DEF TypeOK, EventsTypeOK, RoomsTypeOK, LinkStates

\* What the handlers of the gateways, Redis, the sockets and the pages keep has
\* its type; every call changes at most one row and publishes at most one
\* envelope, and a page is sent only what was published (realtime.gateway.ts).
THEOREM RealtimeTypeCorrect == Spec => []TypeOK
<1>1. EventsInv => EventsTypeOK
  BY DEF EventsInv
<1> QED
  BY <1>1, InitOK, StepOK, EventsInit, EventsStep, CountedInit, CountedStep, TypesHold, PTL DEF Spec

-------------------------------------------------------------------------------
(* Side by side *)

LEMMA LiveInitIs == LiveInit => Init /\ T!Init
BY DEF LiveInit

LEMMA LiveStepIs ==
  [LiveNext]_<<part, vars, tvars>> => [Next]_vars /\ [T!Next]_(T!vars)
<1> SUFFICES ASSUME [LiveNext]_<<part, vars, tvars>> PROVE [Next]_vars /\ [T!Next]_(T!vars)
  OBVIOUS
<1>1. CASE UNCHANGED tvars /\ [Next]_vars
  BY <1>1 DEF tvars, T!vars, T!remote, T!query
<1>2. CASE UNCHANGED vars /\ [T!Next]_(T!vars)
  BY <1>2
<1>3. (UNCHANGED tvars /\ [Next]_vars) \/ (UNCHANGED vars /\ [T!Next]_(T!vars))
  BY DEF LiveNext
<1>4. QED
  BY <1>1, <1>2, <1>3

\* The socket and the list of a page share no state: what is proved of each holds
\* when they run side by side.
THEOREM LiveIsItsParts == LiveSpec => Spec /\ T!Spec
BY LiveInitIs, LiveStepIs, PTL DEF LiveSpec, Spec, T!Spec

\* The run's types, of the events and of the list.
THEOREM LiveTypeCorrect == LiveSpec => []LiveTypeOK
<1>1. T!Spec => []T!TypeOK
  BY TimelineInit, TimelineStep, TimelineMeaning, PTL DEF T!Spec
<1>2. TypeOK /\ T!TypeOK => LiveTypeOK
  BY DEF LiveTypeOK
<1>3. QED
  BY <1>1, <1>2, RealtimeTypeCorrect, LiveIsItsParts, PTL

\* The list of the messages page beside its events: posts stay, but for those that
\* a first page was read without, and a current page is shown as the rows are,
\* but for what came too late (page.tsx 110-115, 210-323).
THEOREM PageStaysTrue == LiveSpec => []TimelineIsTrue
<1>1. T!TimelineIsTrue => TimelineIsTrue
  BY DEF TimelineIsTrue
<1>2. QED
  BY <1>1, TimelineStaysTrue, LiveIsItsParts, PTL

===============================================================================
