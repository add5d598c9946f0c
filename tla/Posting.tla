------------------------------- MODULE Posting -------------------------------
(***************************************************************************)
(* Posting a message in a channel: sendMessage and replyInThread of        *)
(* messaging-service, and the messages and slash commands of bots in       *)
(* workspace-service. The two services write the same Message table, with  *)
(* no lock and no transaction: a sequence number is the highest one read   *)
(* plus one, and the unique index on (channelId, sequence) turns a lost    *)
(* race into an error that the writer retries a bounded number of times.   *)
(***************************************************************************)
EXTENDS Integers, Sequences, FiniteSets

CONSTANTS
  Channels,
  Requests,      \* calls of the four handlers
  Payloads,      \* what a call may carry, see Payload
  UserAttempts,  \* createMessageWithSequence tries 6 times
  BotAttempts    \* createBotMessageWithRetry tries 5 times

UserSources == {"send", "reply"}
BotSources  == {"botSend", "command"}
Sources     == UserSources \cup BotSources

(***************************************************************************)
(* valid: the token, the membership, the thread and the text pass the      *)
(* checks that do not depend on the state below. files, mentions and       *)
(* notifies: the call attaches files of its author, mentions members,      *)
(* answers in a thread whose root is somebody else's.                      *)
(***************************************************************************)
Payload == [source : Sources, channel : Channels, valid : BOOLEAN,
            files : BOOLEAN, mentions : BOOLEAN, notifies : BOOLEAN]

ASSUME PostingAssumption ==
  /\ Payloads \subseteq Payload
  /\ Payloads # {}
  /\ UserAttempts \in Nat \ {0}
  /\ BotAttempts \in Nat \ {0}

VARIABLES
  timeline,  \* Message rows: channel -> sequence number -> the posting request
  archived,  \* channels with isArchived
  effects,   \* what a request stored besides its message
  pc,        \* the next round trip of a request
  payload,   \* what a request carries
  conflicts, \* attempts of a request that met the unique index
  next,      \* the sequence number a request is about to insert
  todo,      \* the round trips left once the message is stored
  base       \* history: highest sequence number when the loop started

store   == <<timeline, archived, effects>>
request == <<pc, payload, conflicts, next, todo, base>>
vars    == <<store, request>>

Effects == {"files", "mentions", "replyNotice", "activityNotice", "botEvent"}
Steps   == {"new", "check", "read", "insert", "after", "ok", "rejected", "failed"}

Answered == {"ok", "rejected", "failed"}

Source(r) == payload[r].source
Chan(r)   == payload[r].channel

MaxAttempts(r) == IF Source(r) \in UserSources THEN UserAttempts ELSE BotAttempts

\* the round trips that follow the insertion, in the order of the handler
AfterInsert(p) ==
  IF p.source \in UserSources
  THEN (IF p.files THEN <<"files">> ELSE <<>>)
         \o (IF p.mentions THEN <<"mentions">> ELSE <<>>)
         \o (IF p.notifies THEN <<"replyNotice", "activityNotice">> ELSE <<>>)
  ELSE IF p.source = "command" THEN <<"botEvent">> ELSE <<>>

\* findFirst by sequence, descending: 0 in an empty channel
Latest(c) ==
  CHOOSE n \in DOMAIN timeline[c] \cup {0} : \A m \in DOMAIN timeline[c] : m <= n

Posted(r) == \E c \in Channels : \E n \in DOMAIN timeline[c] : timeline[c][n] = r

Init ==
  /\ timeline = [c \in Channels |-> <<>>]
  /\ archived = {}
  /\ effects = [r \in Requests |-> {}]
  /\ pc = [r \in Requests |-> "new"]
  /\ payload \in [Requests -> Payloads]
  /\ conflicts = [r \in Requests |-> 0]
  /\ next = [r \in Requests |-> 0]
  /\ todo = [r \in Requests |-> <<>>]
  /\ base = [r \in Requests |-> 0]

-------------------------------------------------------------------------------

Goto(r, step) == pc' = [pc EXCEPT ![r] = step]

\* wrong: the table has no unique index
FreeAlways(r) == TRUE

\* the unique index on (channelId, sequence)
Free(r) == next[r] \notin DOMAIN timeline[Chan(r)]

\* f with the pair n :> v
WithRow(f, n, v) == [m \in DOMAIN f \cup {n} |-> IF m = n THEN v ELSE f[m]]

-------------------------------------------------------------------------------
(* Plausible mistakes. None of them is part of Next: each variant is what a  *)
(* property of this module is there to tell apart from the action it alters. *)

\* wrong: a bot may post in any channel of its workspace, archived or not
CheckPassesBotsAnywhere(r) ==
  /\ pc[r] = "check"
  /\ payload[r].valid
  /\ Chan(r) \notin archived \/ Source(r) \in BotSources
  /\ Goto(r, "read")
  /\ base' = [base EXCEPT ![r] = Latest(Chan(r))]
  /\ UNCHANGED <<store, payload, conflicts, next, todo>>

\* wrong: every retry moves one number further
ReadLatestSkipping(r) ==
  /\ pc[r] = "read"
  /\ next' = [next EXCEPT ![r] = Latest(Chan(r)) + 1 + conflicts[r]]
  /\ Goto(r, "insert")
  /\ UNCHANGED <<store, payload, conflicts, todo, base>>

\* wrong: the number of the latest message is not incremented
ReadLatestNoIncrement(r) ==
  /\ pc[r] = "read"
  /\ next' = [next EXCEPT ![r] = Latest(Chan(r))]
  /\ Goto(r, "insert")
  /\ UNCHANGED <<store, payload, conflicts, todo, base>>

\* wrong: a conflict is taken for a message that is stored already
ConflictTakenForSuccess(r) ==
  /\ pc[r] = "insert"
  /\ ~Free(r)
  /\ todo' = [todo EXCEPT ![r] = AfterInsert(payload[r])]
  /\ Goto(r, "after")
  /\ UNCHANGED <<store, payload, conflicts, next, base>>

\* wrong: the retry does not read the latest number again
ConflictWithoutReread(r) ==
  /\ pc[r] = "insert"
  /\ ~Free(r)
  /\ conflicts' = [conflicts EXCEPT ![r] = @ + 1]
  /\ Goto(r, IF conflicts[r] + 1 < MaxAttempts(r) THEN "insert" ELSE "rejected")
  /\ UNCHANGED <<store, payload, next, todo, base>>

\* wrong: the loop neither counts nor reads
ConflictForever(r) ==
  /\ pc[r] = "insert"
  /\ ~Free(r)
  /\ UNCHANGED vars

\* wrong: the caller is answered before the rest is stored
AnswerWithoutWaiting(r) ==
  /\ pc[r] = "after"
  /\ Goto(r, "ok")
  /\ UNCHANGED <<store, payload, conflicts, next, todo, base>>

-------------------------------------------------------------------------------
(* The handlers *)

Submit(r) ==
  /\ pc[r] = "new"
  /\ Goto(r, "check")
  /\ UNCHANGED <<store, payload, conflicts, next, todo, base>>

\* ensureChannelAccess and ensureThreadInChannel, or authenticateBot and
\* ensureChannelInWorkspace
CheckPasses(r) ==
  /\ pc[r] = "check"
  /\ payload[r].valid
  /\ Chan(r) \notin archived
  /\ Goto(r, "read")
  /\ base' = [base EXCEPT ![r] = Latest(Chan(r))]
  /\ UNCHANGED <<store, payload, conflicts, next, todo>>

CheckRejects(r) ==
  /\ pc[r] = "check"
  /\ ~payload[r].valid \/ Chan(r) \in archived
  /\ Goto(r, "rejected")
  /\ UNCHANGED <<store, payload, conflicts, next, todo, base>>

\* the highest sequence number so far, plus one
ReadLatest(r) ==
  /\ pc[r] = "read"
  /\ next' = [next EXCEPT ![r] = Latest(Chan(r)) + 1]
  /\ Goto(r, "insert")
  /\ UNCHANGED <<store, payload, conflicts, todo, base>>

\* message.create succeeds; or the row is stored and the answer is lost, and
\* an error that is no conflict is not retried
Insert(r) ==
  /\ pc[r] = "insert"
  /\ Free(r)
  /\ timeline' = [timeline EXCEPT ![Chan(r)] = WithRow(@, next[r], r)]
  /\ \/ todo' = [todo EXCEPT ![r] = AfterInsert(payload[r])] /\ Goto(r, "after")
     \/ Goto(r, "failed") /\ UNCHANGED todo
  /\ UNCHANGED <<archived, effects, payload, conflicts, next, base>>

\* message.create throws P2002: another attempt, unless this was the last one
Conflict(r) ==
  /\ pc[r] = "insert"
  /\ ~Free(r)
  /\ conflicts' = [conflicts EXCEPT ![r] = @ + 1]
  /\ Goto(r, IF conflicts[r] + 1 < MaxAttempts(r) THEN "read" ELSE "rejected")
  /\ UNCHANGED <<store, payload, next, todo, base>>

\* the next of attachFilesToMessage, emitMentionNotifications,
\* emitThreadReplyNotification (two rows), botEvent.create
StoreEffect(r) ==
  /\ pc[r] = "after"
  /\ todo[r] # <<>>
  /\ effects' = [effects EXCEPT ![r] = @ \cup {Head(todo[r])}]
  /\ todo' = [todo EXCEPT ![r] = Tail(@)]
  /\ UNCHANGED <<timeline, archived, pc, payload, conflicts, next, base>>

Answer(r) ==
  /\ pc[r] = "after"
  /\ todo[r] = <<>>
  /\ Goto(r, "ok")
  /\ UNCHANGED <<store, payload, conflicts, next, todo, base>>

\* any round trip throws, or the process dies: what is stored stays stored
Fail(r) ==
  /\ pc[r] \in {"check", "read", "insert", "after"}
  /\ Goto(r, "failed")
  /\ UNCHANGED <<store, payload, conflicts, next, todo, base>>

\* ChannelsService.archive; there is no way back
Archive(c) ==
  /\ c \notin archived
  /\ archived' = archived \cup {c}
  /\ UNCHANGED <<timeline, effects, request>>

-------------------------------------------------------------------------------

Serve(r) ==
  \/ CheckPasses(r) \/ CheckRejects(r) \/ ReadLatest(r) \/ Insert(r)
  \/ Conflict(r) \/ StoreEffect(r) \/ Answer(r)

Handle(r) == Serve(r) \/ Fail(r)

Next ==
  \/ \E r \in Requests : Submit(r) \/ Handle(r)
  \/ \E c \in Channels : Archive(c)

Spec == Init /\ [][Next]_vars

\* the database answers every round trip of a request that was submitted; a
\* failure is never owed
FairSpec == Spec /\ \A r \in Requests : WF_vars(Serve(r))

-------------------------------------------------------------------------------
(* Properties *)

\* the rows of a channel are a function: that is what the unique index means
RowsOK ==
  /\ timeline = [c \in Channels |-> timeline[c]]
  /\ \A c \in Channels :
       /\ DOMAIN timeline[c] \subseteq Nat \ {0}
       /\ timeline[c] \in [DOMAIN timeline[c] -> Requests]

\* Types of the tables and of the local variables of the four handlers.
TypeOK ==
  /\ RowsOK
  /\ archived \subseteq Channels
  /\ effects \in [Requests -> SUBSET Effects]
  /\ pc \in [Requests -> Steps]
  /\ payload \in [Requests -> Payloads]
  /\ conflicts \in [Requests -> Nat]
  /\ next \in [Requests -> Nat]
  /\ todo \in [Requests -> Seq(Effects)]
  /\ base \in [Requests -> Nat]

\* The sequence numbers of a channel are 1, 2, ... with no hole: no failed or
\* lost attempt burns a number, so "latest + 1" is also the number of messages.
GapFree ==
  \A c \in Channels : DOMAIN timeline[c] = 1..Latest(c)

\* The Message table implements the ordering guarantee of ChannelLog: every
\* insertion, by either service, is an append, rows never move or disappear,
\* and the retries of one request never store it twice.
Log == INSTANCE ChannelLog WITH log <- timeline
ImplementsLog == Log!Spec

\* A request gives up on its sequence number only if others got through: k
\* lost attempts mean k messages of others since its first read, so a writer
\* is never starved by an idle channel or by its own retries.
RefusedOnlyUnderContention ==
  \A r \in Requests :
    conflicts[r] > 0 => Latest(Chan(r)) >= base[r] + conflicts[r]

\* A rejected request leaves no trace at all, and nothing is stored on behalf
\* of a message that is not in the channel.
NoTraceWithoutMessage ==
  \A r \in Requests :
    /\ pc[r] = "rejected" => ~Posted(r)
    /\ effects[r] # {} => Posted(r)

\* A caller that is answered with success finds the message and everything the
\* handler stores after it.
OkMeansComplete ==
  \A r \in Requests : pc[r] = "ok" =>
    /\ Posted(r)
    /\ \A i \in DOMAIN AfterInsert(payload[r]) : AfterInsert(payload[r])[i] \in effects[r]

\* What a caller is told is true: a refusal left nothing behind, a success left
\* everything.
AnswersAreTrue == NoTraceWithoutMessage /\ OkMeansComplete

\* The numbers of a channel have no hole, and whoever ran out of attempts lost
\* every one of them to a message of somebody else.
NumbersAreFair == GapFree /\ RefusedOnlyUnderContention

\* the channel was archived before the request passed its check
LateFor(r) ==
  /\ Chan(r) \in archived
  /\ pc[r] \in {"new", "check", "rejected", "failed"}
  /\ ~Posted(r)

\* A request that comes to an archived channel is never let in and never posts,
\* whoever sends it.
ArchiveIsFinal == [][\A r \in Requests : LateFor(r) => LateFor(r)']_vars

\* Every submitted request is answered, in spite of conflicts.
EveryRequestAnswered ==
  \A r \in Requests : pc[r] = "check" ~> pc[r] \in Answered
===============================================================================
