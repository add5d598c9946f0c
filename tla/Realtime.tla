------------------------------ MODULE Realtime ------------------------------
(***************************************************************************)
(* Realtime events: the handlers of the WebSocket gateway of apps/api,     *)
(* the fan-out of their envelopes to all gateways through one Redis        *)
(* channel, the rooms of the sockets, and the hook and effect by which a   *)
(* page of the web client keeps a socket and asks for the room of its      *)
(* channel. A gateway forgets a socket when the connection breaks, and an  *)
(* envelope is emitted once, to whoever is in the room at that moment.     *)
(***************************************************************************)
EXTENDS Integers, Sequences, FiniteSets

CONSTANTS
  Gateways, Pages, Channels, Messages,
  ChannelOf,   \* the channel of a message
  Calls,       \* message:send, edit, delete, thread:reply and typing:start ...
  MaxFaults,   \* broken connections, restarts, lost Redis subscriptions
  MaxSelects,  \* channels a page opens
  NoGateway, NoChannel, NoMessage

ASSUME RealtimeAssumption ==
  /\ ChannelOf \in [Messages -> Channels]
  /\ MaxFaults \in Nat /\ MaxSelects \in Nat
  /\ NoGateway \notin Gateways /\ NoChannel \notin Channels /\ NoMessage \notin Messages

\* for the bounds of TypeOK only
ASSUME FiniteCalls == IsFiniteSet(Calls)

VARIABLES
  rev,       \* message -> changes of its row, 0 if it has not been sent
  call,      \* call -> what its handler is about to do, and the answer it holds
  log,       \* envelopes in the order Redis published them
  at,        \* gateway -> how much of log has reached it
  link,      \* page -> state of its socket
  gate,      \* page -> the gateway it is connected to
  rooms,     \* page -> rooms of its socket on that gateway
  checks,    \* page -> channel -> joins that wait for the access check
  outbox,    \* page -> commands emitted and not served; buffered while it is down
  inbox,     \* page -> positions in log on their way to it
  selected,  \* page -> the open channel
  known,     \* pages that have rendered with their socket
  shown,     \* page -> message -> the change its last event brought
  faults, selects,
  \* history
  deaf,      \* pages whose connection broke after they asked for the open channel
  refused,   \* page -> channels it was refused
  overtaken, \* page -> channels left while a join was being checked
  since,     \* page -> channel -> position in log when the room was entered
  unsaid,    \* messages with a change that nobody published
  skipped    \* gateway -> positions that did not reach it

server  == <<rev, call, unsaid>>
redis   == <<log, at, skipped>>
socket  == <<link, gate, rooms, checks, refused, overtaken, since>>
page    == <<selected, known, shown, selects>>
vars    == <<server, redis, socket, page, outbox, inbox, faults, deaf>>

Call == [pc : {"idle", "stored", "publish", "done", "failed"},
         message : Messages \cup {NoMessage}, rev : Nat, room : Channels \cup {NoChannel}]

Envelope == [room : Channels, message : Messages \cup {NoMessage}, rev : Nat]
Command  == [do : {"join", "leave"}, channel : Channels]

Join(c)  == [do |-> "join", channel |-> c]
Leave(c) == [do |-> "leave", channel |-> c]

Init ==
  /\ rev = [m \in Messages |-> 0]
  /\ call = [k \in Calls |-> [pc |-> "idle", message |-> NoMessage, rev |-> 0, room |-> NoChannel]]
  /\ log = <<>> /\ at = [g \in Gateways |-> 0] /\ skipped = [g \in Gateways |-> {}]
  /\ link = [p \in Pages |-> "connecting"] /\ gate = [p \in Pages |-> NoGateway]
  /\ rooms = [p \in Pages |-> {}] /\ checks = [p \in Pages |-> [c \in Channels |-> 0]]
  /\ outbox = [p \in Pages |-> <<>>] /\ inbox = [p \in Pages |-> <<>>]
  /\ selected = [p \in Pages |-> NoChannel] /\ known = {}
  /\ shown = [p \in Pages |-> [m \in Messages |-> 0]]
  /\ faults = 0 /\ selects = [p \in Pages |-> 0]
  /\ deaf = {} /\ refused = [p \in Pages |-> {}] /\ overtaken = [p \in Pages |-> {}]
  /\ since = [p \in Pages |-> [c \in Channels |-> 0]] /\ unsaid = {}

-------------------------------------------------------------------------------
(* Plausible mistakes: not part of the system. *)

SelectWithoutLeave(p, c) ==
  /\ selects[p] < MaxSelects /\ selects' = [selects EXCEPT ![p] = @ + 1]
  /\ selected[p] # c
  /\ selected' = [selected EXCEPT ![p] = c]
  /\ outbox' = IF p \in known THEN [outbox EXCEPT ![p] = @ \o <<Join(c)>>] ELSE outbox
  /\ deaf' = deaf \ {p}
  /\ UNCHANGED <<server, redis, socket, known, shown, inbox, faults>>

RenderWithoutJoin(p) ==
  /\ p \notin known /\ known' = known \cup {p}
  /\ UNCHANGED <<server, redis, socket, selected, shown, selects, outbox, inbox, faults, deaf>>

\* the answer is built from the row read before the write
StoreAnswersOldRow(k, m) ==
  /\ call[k].pc = "idle"
  /\ rev' = [rev EXCEPT ![m] = @ + 1]
  /\ call' = [call EXCEPT ![k] = [pc |-> "publish", message |-> m, rev |-> rev[m],
                                  room |-> ChannelOf[m]]]
  /\ UNCHANGED <<unsaid, redis, socket, page, outbox, inbox, faults, deaf>>

\* handleDisconnect that is never called: the gateway still emits to the socket
ForgetNothing(S) ==
  /\ link' = [p \in Pages |-> IF p \in S THEN "retrying" ELSE link[p]]
  /\ faults < MaxFaults /\ faults' = faults + 1
  /\ UNCHANGED <<gate, rooms, checks, outbox, inbox, overtaken, deaf, refused, since>>

-------------------------------------------------------------------------------
(* Handlers of the gateway: a call of the messaging service, then publish *)

\* messaging-service stores a new message, an edit, a deletion or a reply
Store(k, m) ==
  /\ call[k].pc = "idle"
  /\ rev' = [rev EXCEPT ![m] = @ + 1]
  /\ call' = [call EXCEPT ![k].pc = "stored", ![k].message = m, ![k].room = ChannelOf[m]]
  /\ UNCHANGED <<unsaid, redis, socket, page, outbox, inbox, faults, deaf>>

\* its answer is the row as a later round trip reads it
Reread(k) ==
  /\ call[k].pc = "stored"
  /\ call' = [call EXCEPT ![k].pc = "publish", ![k].rev = rev[call[k].message]]
  /\ UNCHANGED <<rev, unsaid, redis, socket, page, outbox, inbox, faults, deaf>>

\* typing:start, message:react and thread:create: the page shows none of them
Signal(k, c) ==
  /\ call[k].pc = "idle"
  /\ call' = [call EXCEPT ![k].pc = "publish", ![k].room = c]
  /\ UNCHANGED <<rev, unsaid, redis, socket, page, outbox, inbox, faults, deaf>>

Publish(k) ==
  /\ call[k].pc = "publish"
  /\ log' = Append(log, [room |-> call[k].room, message |-> call[k].message, rev |-> call[k].rev])
  /\ call' = [call EXCEPT ![k].pc = "done"]
  /\ UNCHANGED <<rev, unsaid, at, skipped, socket, page, outbox, inbox, faults, deaf>>

\* the call of the service or of Redis throws, or the gateway dies
CallFails(k) ==
  /\ call[k].pc \in {"stored", "publish"}
  /\ call' = [call EXCEPT ![k].pc = "failed"]
  /\ unsaid' = unsaid \cup ({call[k].message} \ {NoMessage})
  /\ UNCHANGED <<rev, redis, socket, page, outbox, inbox, faults, deaf>>

\* a client writes with POST /messages: no gateway handler, no envelope
HttpStore(k, m) ==
  /\ call[k].pc = "idle"
  /\ rev' = [rev EXCEPT ![m] = @ + 1]
  /\ call' = [call EXCEPT ![k].pc = "done"]
  /\ unsaid' = unsaid \cup {m}
  /\ UNCHANGED <<redis, socket, page, outbox, inbox, faults, deaf>>

-------------------------------------------------------------------------------
(* Fan-out *)

InRoom(p, g, c) == gate[p] = g /\ c \in rooms[p]

\* the subscriber of gateway g emits the next envelope to the room
Broadcast(g) ==
  /\ at[g] < Len(log)
  /\ at' = [at EXCEPT ![g] = @ + 1]
  /\ inbox' = [p \in Pages |->
       IF InRoom(p, g, log[at[g] + 1].room) THEN Append(inbox[p], at[g] + 1) ELSE inbox[p]]
  /\ UNCHANGED <<server, log, skipped, socket, page, outbox, faults, deaf>>

\* the event handlers of the hook and of the page
Handle(p) ==
  /\ inbox[p] # <<>>
  /\ inbox' = [inbox EXCEPT ![p] = Tail(@)]
  /\ LET e == log[Head(inbox[p])] IN
       shown' = IF e.message = NoMessage THEN shown ELSE [shown EXCEPT ![p][e.message] = e.rev]
  /\ UNCHANGED <<server, redis, socket, selected, known, selects, outbox, faults, deaf>>

-------------------------------------------------------------------------------
(* Rooms *)

\* handleConnection on the gateway that the load balancer picks
Connect(p, g) ==
  /\ link[p] \in {"connecting", "retrying"}
  /\ link' = [link EXCEPT ![p] = "up"]
  /\ gate' = [gate EXCEPT ![p] = g]
  /\ UNCHANGED <<server, redis, rooms, checks, refused, overtaken, since, page, outbox, inbox,
                 faults, deaf>>

\* the token is missing or expired: the gateway disconnects the client, which
\* does not try again; nor does it after the last of its 8 attempts
GiveUp(p) ==
  /\ link[p] \in {"connecting", "retrying"}
  /\ faults < MaxFaults /\ faults' = faults + 1
  /\ link' = [link EXCEPT ![p] = "dead"]
  /\ UNCHANGED <<server, redis, gate, rooms, checks, refused, overtaken, since, page, outbox,
                 inbox, deaf>>

\* what the gateway and the network forget when the connections of S break
Forget(S) ==
  /\ link' = [p \in Pages |-> IF p \in S THEN "retrying" ELSE link[p]]
  /\ gate' = [p \in Pages |-> IF p \in S THEN NoGateway ELSE gate[p]]
  /\ rooms' = [p \in Pages |-> IF p \in S THEN {} ELSE rooms[p]]
  /\ checks' = [p \in Pages |-> IF p \in S THEN [c \in Channels |-> 0] ELSE checks[p]]
  /\ outbox' = [p \in Pages |-> IF p \in S THEN <<>> ELSE outbox[p]]
  /\ inbox' = [p \in Pages |-> IF p \in S THEN <<>> ELSE inbox[p]]
  /\ overtaken' = [p \in Pages |-> IF p \in S THEN {} ELSE overtaken[p]]
  /\ deaf' = deaf \cup {p \in S \cap known : selected[p] # NoChannel}
  /\ faults < MaxFaults /\ faults' = faults + 1
  /\ UNCHANGED <<refused, since>>

Drop(p) ==
  /\ link[p] = "up"
  /\ Forget({p})
  /\ UNCHANGED <<server, redis, page>>

\* gateway g restarts, or subscribes anew: Redis does not repeat what it missed
Resubscribe(g) ==
  /\ at' = [at EXCEPT ![g] = Len(log)]
  /\ skipped' = [skipped EXCEPT ![g] = @ \cup (at[g] + 1)..Len(log)]
  /\ UNCHANGED log

Restart(g) ==
  /\ Forget({p \in Pages : gate[p] = g})
  /\ Resubscribe(g)
  /\ UNCHANGED <<server, page>>

LoseRedis(g) ==
  /\ at[g] < Len(log)
  /\ Resubscribe(g)
  /\ faults < MaxFaults /\ faults' = faults + 1
  /\ UNCHANGED <<server, socket, page, outbox, inbox, deaf>>

\* channel:join begins with a call of the messaging service; channel:leave is
\* served at once
ServeJoin(p) ==
  /\ link[p] = "up" /\ outbox[p] # <<>> /\ Head(outbox[p]).do = "join"
  /\ outbox' = [outbox EXCEPT ![p] = Tail(@)]
  /\ checks' = [checks EXCEPT ![p][Head(outbox[p]).channel] = @ + 1]
  /\ UNCHANGED <<server, redis, link, gate, rooms, refused, overtaken, since, page,
                 inbox, faults, deaf>>

ServeLeave(p) ==
  /\ link[p] = "up" /\ outbox[p] # <<>> /\ Head(outbox[p]).do = "leave"
  /\ LET c == Head(outbox[p]).channel IN
       /\ rooms' = [rooms EXCEPT ![p] = @ \ {c}]
       /\ overtaken' = [overtaken EXCEPT ![p] = IF checks[p][c] > 0 THEN @ \cup {c} ELSE @ \ {c}]
  /\ outbox' = [outbox EXCEPT ![p] = Tail(@)]
  /\ UNCHANGED <<server, redis, link, gate, checks, refused, since, page, inbox,
                 faults, deaf>>

\* client.join after the access check
Grant(p, c) ==
  /\ checks[p][c] > 0
  /\ checks' = [checks EXCEPT ![p][c] = @ - 1]
  /\ rooms' = [rooms EXCEPT ![p] = @ \cup {c}]
  /\ since' = IF c \in rooms[p] THEN since ELSE [since EXCEPT ![p][c] = at[gate[p]]]
  /\ UNCHANGED <<server, redis, link, gate, refused, overtaken, page, outbox, inbox,
                 faults, deaf>>

\* no access, an archived channel, or the check failed
Refuse(p, c) ==
  /\ checks[p][c] > 0
  /\ checks' = [checks EXCEPT ![p][c] = @ - 1]
  /\ refused' = [refused EXCEPT ![p] = @ \cup {c}]
  /\ UNCHANGED <<server, redis, link, gate, rooms, overtaken, since, page, outbox,
                 inbox, faults, deaf>>

-------------------------------------------------------------------------------
(* The page: its effect leaves the old channel and joins the new one *)

LeaveOld(p) == IF selected[p] = NoChannel THEN <<>> ELSE <<Leave(selected[p])>>

Select(p, c) ==
  /\ selects[p] < MaxSelects /\ selects' = [selects EXCEPT ![p] = @ + 1]
  /\ selected[p] # c
  /\ selected' = [selected EXCEPT ![p] = c]
  /\ outbox' = IF p \in known
               THEN [outbox EXCEPT ![p] = @ \o LeaveOld(p) \o <<Join(c)>>]
               ELSE outbox
  /\ deaf' = deaf \ {p}
  /\ refused' = [refused EXCEPT ![p] = @ \ {c}]
  /\ UNCHANGED <<server, redis, link, gate, rooms, checks, overtaken, since, known, shown, inbox,
                 faults>>

\* the first render after the hook has made the socket
Render(p) ==
  /\ p \notin known
  /\ known' = known \cup {p}
  /\ outbox' = IF selected[p] = NoChannel
               THEN outbox ELSE [outbox EXCEPT ![p] = Append(@, Join(selected[p]))]
  /\ UNCHANGED <<server, redis, socket, selected, shown, selects, inbox, faults, deaf>>
-------------------------------------------------------------------------------
Next ==
  \/ \E k \in Calls, m \in Messages : Store(k, m) \/ HttpStore(k, m)
  \/ \E k \in Calls, c \in Channels : Signal(k, c)
  \/ \E k \in Calls : Reread(k) \/ Publish(k) \/ CallFails(k)
  \/ \E g \in Gateways : Broadcast(g) \/ Restart(g) \/ LoseRedis(g)
  \/ \E p \in Pages, g \in Gateways : Connect(p, g)
  \/ \E p \in Pages : \/ GiveUp(p) \/ Drop(p) \/ Render(p) \/ Handle(p)
                       \/ ServeJoin(p) \/ ServeLeave(p)
  \/ \E p \in Pages, c \in Channels : Grant(p, c) \/ Refuse(p, c) \/ Select(p, c)

Spec == Init /\ [][Next]_vars

-------------------------------------------------------------------------------
TypeOK ==
  /\ rev \in [Messages -> 0..Cardinality(Calls)]
  /\ call \in [Calls -> Call]
  /\ log \in Seq(Envelope) /\ Len(log) <= Cardinality(Calls)
  /\ at \in [Gateways -> 0..Len(log)]
  /\ link \in [Pages -> {"connecting", "up", "retrying", "dead"}]
  /\ gate \in [Pages -> Gateways \cup {NoGateway}]
  /\ \A p \in Pages : link[p] = "up" <=> gate[p] # NoGateway
  /\ rooms \in [Pages -> SUBSET Channels] /\ checks \in [Pages -> [Channels -> Nat]]
  /\ outbox \in [Pages -> Seq(Command)] /\ inbox \in [Pages -> Seq(1..Len(log))]
  /\ selected \in [Pages -> Channels \cup {NoChannel}] /\ known \subseteq Pages
  /\ shown \in [Pages -> [Messages -> Nat]]

\* The room of the open channel: when its commands are served and checked, a
\* connected page is in the room of the channel it shows, unless it was
\* refused. The effect joins when the channel or the socket object changes and
\* not when the same socket reconnects, so a page whose connection broke
\* while it showed the channel is out (WEB 242-249, use-realtime 30-131)
Served(p, c) ==
  /\ link[p] = "up" /\ p \in known /\ c \in Channels
  /\ outbox[p] = <<>> /\ checks[p][c] = 0

SelectedIsHeard ==
  \A p \in Pages :
    Served(p, selected[p]) /\ p \notin deaf => selected[p] \in rooms[p] \cup refused[p]

\* A socket that stays in the room of a channel the page has left owes it to a
\* leave that was served while a join of that channel awaited its check
StraysWereOvertaken ==
  \A p \in Pages : \A c \in rooms[p] \ {selected[p]} :
    \/ c \in overtaken[p]
    \/ \E i \in DOMAIN outbox[p] : outbox[p][i] = Leave(c)

RoomsFollowThePage == SelectedIsHeard /\ StraysWereOvertaken

\* When all is quiet, a page in the room of a message that heard of it there
\* shows the row as it is, unless a change of the row was never published, its
\* gateway missed an envelope, or two envelopes were published in the order
\* opposite to that of the changes: publish follows the answer of the service
\* outside of any transaction (GW 121-153)
Quiet(p) ==
  /\ \A k \in Calls : call[k].pc \notin {"stored", "publish"}
  /\ link[p] = "up" /\ inbox[p] = <<>> /\ at[gate[p]] = Len(log)

About(m) == {i \in DOMAIN log : log[i].message = m}
InOrder(m) == \A i, j \in About(m) : i < j => log[i].rev <= log[j].rev

LatestIsShown ==
  \A p \in Pages, m \in Messages :
    LET c == ChannelOf[m]
        heard == {i \in About(m) : i > since[p][c]} IN
      /\ Quiet(p) /\ c \in rooms[p]
      /\ heard # {} /\ heard \cap skipped[gate[p]] = {}
      /\ m \notin unsaid /\ InOrder(m)
      => shown[p][m] = rev[m]

===============================================================================
