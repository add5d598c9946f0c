-------------------------- MODULE ScheduledMessages --------------------------
(***************************************************************************)
(* Scheduled messages of messaging-service: the rows of ScheduledMessage,  *)
(* the poller that every replica of the service runs, the users who        *)
(* schedule and cancel, and the failures of a delivery.                    *)
(*                                                                         *)
(* One action is one database round trip of the code: the replicas share   *)
(* only the database, no handler below opens a transaction, so any two     *)
(* round trips of two handlers may be interleaved.                         *)
(***************************************************************************)
EXTENDS Integers, FiniteSets

CONSTANTS
  Schedules,       \* identities of ScheduledMessage rows
  Replicas,        \* running copies of messaging-service, each with its timer
  CancelRequests,  \* concurrent calls of cancelScheduledMessage
  BatchSize,       \* rows taken by one poll ("take: 20")
  MinLead,         \* least distance of sendAt from now ("5_000" ms)
  MaxTime,         \* bound: the clock stops here
  MaxCrashes,      \* bound: replicas killed in a behaviour
  NoRow            \* "no schedule", for a replica or a call that holds none

ASSUME ConstantsAssumption ==
  /\ BatchSize \in Nat \ {0}
  /\ MinLead \in Nat
  /\ MaxTime \in Nat
  /\ MaxCrashes \in Nat
  /\ NoRow \notin Schedules

VARIABLES
  \* ScheduledMessage rows
  status,      \* status column, "NONE" before the row exists
  sendAt,      \* sendAt column
  linked,      \* sentMessageId is set
  canceledAt,  \* canceledAt is set
  \* the rest of the database
  posted,      \* number of Message rows created for a schedule
  archived,    \* schedules whose channel has isArchived
  \* the processes
  pc,          \* where a replica is in processDueScheduledMessages
  batch,       \* dueMessages not handled yet by a replica
  current,     \* the row a replica has claimed
  canceling,   \* the row a cancel call has read and is about to update
  now,         \* clock
  crashes      \* replicas killed so far

rows    == <<status, sendAt, linked, canceledAt>>
workers == <<pc, batch, current>>
env     == <<archived, now, crashes>>
vars    == <<rows, posted, workers, canceling, env>>

Statuses == {"NONE", "PENDING", "PROCESSING", "SENT", "CANCELED", "FAILED"}

\* "idle" is schedulerTickInFlight = false; the others are the next round trip
Steps == {"idle", "claim", "check", "create", "notify", "markSent", "markFailed"}

\* a claim is held, and the message is not in the channel yet
Undelivered == {"check", "create"}
Delivering  == Undelivered \cup {"notify", "markSent", "markFailed"}

Init ==
  /\ status = [s \in Schedules |-> "NONE"]
  /\ sendAt = [s \in Schedules |-> 0]
  /\ linked = [s \in Schedules |-> FALSE]
  /\ canceledAt = [s \in Schedules |-> FALSE]
  /\ posted = [s \in Schedules |-> 0]
  /\ archived = {}
  /\ pc = [w \in Replicas |-> "idle"]
  /\ batch = [w \in Replicas |-> {}]
  /\ current = [w \in Replicas |-> NoRow]
  /\ canceling = [c \in CancelRequests |-> NoRow]
  /\ now = 0
  /\ crashes = 0

-------------------------------------------------------------------------------
Goto(w, step) == pc' = [pc EXCEPT ![w] = step]

\* the rows the loop may turn to next: sendAt order, ties in any order
NextDue(w) == {s \in batch[w] : \A t \in batch[w] : sendAt[s] <= sendAt[t]}

\* the body of a claim, whatever its guard
TakeRow(w, s) ==
  /\ status' = [status EXCEPT ![s] = "PROCESSING"]
  /\ batch' = [batch EXCEPT ![w] = @ \ {s}]
  /\ current' = [current EXCEPT ![w] = s]
  /\ pc' = [pc EXCEPT ![w] = "check"]
  /\ UNCHANGED <<sendAt, linked, canceledAt, posted, canceling, env>>

-------------------------------------------------------------------------------
(* Plausible mistakes. None of them is part of Next: each variant is what a  *)
(* property of this module is there to tell apart from the action it alters. *)

\* wrong: the time is not looked at
DueAnyTime == {s \in Schedules : status[s] = "PENDING"}

\* wrong: rows a dead replica left behind are fetched with the others
DueOrOrphaned == {s \in Schedules : status[s] \in {"PENDING", "PROCESSING"} /\ sendAt[s] <= now}

\* wrong: the row is claimed by id alone
ClaimById(w, s) == pc[w] = "claim" /\ s \in NextDue(w) /\ TakeRow(w, s)

\* wrong: a failed row is given another chance
ClaimFailedToo(w, s) ==
  /\ pc[w] = "claim"
  /\ s \in NextDue(w)
  /\ status[s] \in {"PENDING", "FAILED"}
  /\ TakeRow(w, s)

\* wrong: schedulerTickInFlight stays set
EndTickStillInFlight(w) ==
  /\ pc[w] = "claim"
  /\ batch[w] = {}
  /\ UNCHANGED vars

\* wrong: access is checked when the message is scheduled, and never again
CheckNothing(w) ==
  /\ pc[w] = "check"
  /\ Goto(w, "create")
  /\ UNCHANGED <<rows, posted, batch, current, canceling, env>>

\* wrong: a refusal is swallowed inside the try block
CheckSwallowed(w) ==
  /\ pc[w] = "check"
  /\ Goto(w, IF current[w] \in archived THEN "markSent" ELSE "create")
  /\ UNCHANGED <<rows, posted, batch, current, canceling, env>>

\* wrong: no catch block, the loop just goes on
StepFailsUncaught(w) ==
  /\ pc[w] \in {"check", "create", "notify", "markSent"}
  /\ current' = [current EXCEPT ![w] = NoRow]
  /\ Goto(w, "claim")
  /\ UNCHANGED <<rows, posted, batch, canceling, env>>

\* wrong: the failed row is queued again
MarkPendingAgain(w) ==
  /\ pc[w] = "markFailed"
  /\ status' = [status EXCEPT ![current[w]] = "PENDING"]
  /\ current' = [current EXCEPT ![w] = NoRow]
  /\ Goto(w, "claim")
  /\ UNCHANGED <<sendAt, linked, canceledAt, posted, batch, canceling, env>>

\* wrong: the loop variable outlives its row
MarkFailedKeepsRow(w) ==
  /\ pc[w] = "markFailed"
  /\ status' = [status EXCEPT ![current[w]] = "FAILED"]
  /\ Goto(w, "claim")
  /\ UNCHANGED <<sendAt, linked, canceledAt, posted, batch, current, canceling, env>>

-------------------------------------------------------------------------------
(* Users *)

\* scheduleMessage: access is checked and sendAt is far enough ahead
Schedule(s, t) ==
  /\ status[s] = "NONE"
  /\ s \notin archived
  /\ t >= now + MinLead
  /\ status' = [status EXCEPT ![s] = "PENDING"]
  /\ sendAt' = [sendAt EXCEPT ![s] = t]
  /\ UNCHANGED <<linked, canceledAt, posted, workers, canceling, env>>

\* cancelScheduledMessage, its findUnique: a row that is already settled is
\* answered at once
CancelRead(c, s) ==
  /\ canceling[c] = NoRow
  /\ status[s] \notin {"NONE", "CANCELED", "SENT"}
  /\ canceling' = [canceling EXCEPT ![c] = s]
  /\ UNCHANGED <<rows, posted, workers, env>>

\* cancelScheduledMessage, its update: by id alone, whatever happened since
CancelWrite(c) ==
  /\ canceling[c] # NoRow
  /\ status' = [status EXCEPT ![canceling[c]] = "CANCELED"]
  /\ canceledAt' = [canceledAt EXCEPT ![canceling[c]] = TRUE]
  /\ canceling' = [canceling EXCEPT ![c] = NoRow]
  /\ UNCHANGED <<sendAt, linked, posted, workers, env>>

\* ChannelsService.archive, for the schedules of one channel; a channel is
\* never unarchived. An author who left is refused like any other failure of
\* the check, in StepFails: joining again would lift that refusal.
Archive(S) ==
  /\ S # {}
  /\ S \cap archived = {}
  /\ archived' = archived \cup S
  /\ UNCHANGED <<rows, posted, workers, canceling, now, crashes>>

-------------------------------------------------------------------------------
(* The poller of a replica *)

Due == {s \in Schedules : status[s] = "PENDING" /\ sendAt[s] <= now}

\* the answers the findMany may give: the earliest rows that are due
DueBatches ==
  {b \in SUBSET Due :
     /\ \/ b = Due /\ Cardinality(b) <= BatchSize
        \/ Cardinality(b) = BatchSize
     /\ \A s \in b, t \in Due \ b : sendAt[s] <= sendAt[t]}

\* the timer fires: nothing happens while a tick is in flight
Poll(w) ==
  /\ pc[w] = "idle"
  /\ Due # {}
  /\ \E b \in DueBatches : batch' = [batch EXCEPT ![w] = b]
  /\ pc' = [pc EXCEPT ![w] = "claim"]
  /\ UNCHANGED <<rows, posted, current, canceling, env>>

\* updateMany guarded by the status: count = 1
Claim(w, s) ==
  /\ pc[w] = "claim"
  /\ s \in NextDue(w)
  /\ status[s] = "PENDING"
  /\ TakeRow(w, s)

\* updateMany guarded by the status: count = 0, continue
SkipTaken(w, s) ==
  /\ pc[w] = "claim"
  /\ s \in NextDue(w)
  /\ status[s] # "PENDING"
  /\ batch' = [batch EXCEPT ![w] = @ \ {s}]
  /\ UNCHANGED <<rows, posted, pc, current, canceling, env>>

\* the loop is over; finally resets the flag
EndTick(w) ==
  /\ pc[w] = "claim"
  /\ batch[w] = {}
  /\ pc' = [pc EXCEPT ![w] = "idle"]
  /\ UNCHANGED <<rows, posted, batch, current, canceling, env>>

\* deliverScheduledMessage reads the row and checks access again
CheckAccess(w) ==
  /\ pc[w] = "check"
  /\ Goto(w, IF current[w] \in archived THEN "markFailed" ELSE "create")
  /\ UNCHANGED <<rows, posted, batch, current, canceling, env>>

\* createMessageWithSequence; the row may be stored and its answer lost
CreateMessage(w) ==
  /\ pc[w] = "create"
  /\ posted' = [posted EXCEPT ![current[w]] = @ + 1]
  /\ \E step \in {"notify", "markFailed"} : Goto(w, step)
  /\ UNCHANGED <<rows, batch, current, canceling, env>>

\* the mention and thread notifications are out
Notify(w) ==
  /\ pc[w] = "notify"
  /\ Goto(w, "markSent")
  /\ UNCHANGED <<rows, posted, batch, current, canceling, env>>

\* a round trip of the try block throws: the catch block is next
StepFails(w) ==
  /\ pc[w] \in {"check", "create", "notify", "markSent"}
  /\ Goto(w, "markFailed")
  /\ UNCHANGED <<rows, posted, batch, current, canceling, env>>

\* update by id: status, sentMessageId, sentAt
MarkSent(w) ==
  /\ pc[w] = "markSent"
  /\ status' = [status EXCEPT ![current[w]] = "SENT"]
  /\ linked' = [linked EXCEPT ![current[w]] = TRUE]
  /\ current' = [current EXCEPT ![w] = NoRow]
  /\ Goto(w, "claim")
  /\ UNCHANGED <<sendAt, canceledAt, posted, batch, canceling, env>>

\* update by id in the catch block
MarkFailed(w) ==
  /\ pc[w] = "markFailed"
  /\ status' = [status EXCEPT ![current[w]] = "FAILED"]
  /\ current' = [current EXCEPT ![w] = NoRow]
  /\ Goto(w, "claim")
  /\ UNCHANGED <<sendAt, linked, canceledAt, posted, batch, canceling, env>>

\* the process is killed, or the catch block itself throws and the rejected
\* promise ends it; the restarted replica polls afresh and recovers nothing
Crash(w) ==
  /\ crashes < MaxCrashes
  /\ pc[w] # "idle"
  /\ Goto(w, "idle")
  /\ batch' = [batch EXCEPT ![w] = {}]
  /\ current' = [current EXCEPT ![w] = NoRow]
  /\ crashes' = crashes + 1
  /\ UNCHANGED <<rows, posted, canceling, archived, now>>

Clock ==
  /\ now < MaxTime
  /\ now' = now + 1
  /\ UNCHANGED <<rows, posted, workers, canceling, archived, crashes>>

-------------------------------------------------------------------------------

Work(w) ==
  \/ CheckAccess(w) \/ CreateMessage(w) \/ Notify(w) \/ MarkSent(w) \/ MarkFailed(w)

Deliver(w) == Work(w) \/ StepFails(w)

Loop(w) ==
  \/ EndTick(w)
  \/ \E s \in Schedules : Claim(w, s) \/ SkipTaken(w, s)

Next ==
  \/ \E s \in Schedules, t \in 0..MaxTime : Schedule(s, t)
  \/ \E c \in CancelRequests, s \in Schedules : CancelRead(c, s)
  \/ \E c \in CancelRequests : CancelWrite(c)
  \/ \E S \in SUBSET Schedules : Archive(S)
  \/ \E w \in Replicas : Poll(w) \/ Loop(w) \/ Deliver(w) \/ Crash(w)
  \/ Clock

Spec == Init /\ [][Next]_vars

\* setInterval keeps firing in a live replica, the database answers every
\* round trip, and time passes; users and failures owe nothing
Fairness ==
  /\ WF_vars(Clock)
  /\ \A w \in Replicas : WF_vars(Poll(w)) /\ WF_vars(Loop(w)) /\ WF_vars(Work(w))

FairSpec == Spec /\ Fairness
-------------------------------------------------------------------------------
(* Properties *)

\* replica w has claimed s and not settled it yet
Holds(w, s) == pc[w] \in Delivering /\ current[w] = s
Held(s) == \E w \in Replicas : Holds(w, s)

\* Types, and the loop variable: a replica has a current row exactly between
\* its claim and the update that settles the row.
TypeOK ==
  /\ status \in [Schedules -> Statuses]
  /\ sendAt \in [Schedules -> 0..MaxTime]
  /\ linked \in [Schedules -> BOOLEAN]
  /\ canceledAt \in [Schedules -> BOOLEAN]
  /\ posted \in [Schedules -> Nat]
  /\ archived \subseteq Schedules
  /\ pc \in [Replicas -> Steps]
  /\ batch \in [Replicas -> SUBSET Schedules]
  /\ current \in [Replicas -> Schedules \cup {NoRow}]
  /\ canceling \in [CancelRequests -> Schedules \cup {NoRow}]
  /\ now \in 0..MaxTime
  /\ crashes \in 0..MaxCrashes
  /\ \A w \in Replicas : current[w] \in Schedules <=> pc[w] \in Delivering

\* However many replicas poll the same rows, fail, restart or race with a
\* cancellation, a schedule puts at most one message in its channel (the
\* claim of lines 803-815 is what every delivery goes through).
AtMostOneMessage == \A s \in Schedules : posted[s] <= 1

\* A row that says SENT, or that links a message, has exactly one message in
\* the channel: no failure path of the try block reaches the update of lines
\* 819-827.
SentIsDelivered ==
  \A s \in Schedules : status[s] = "SENT" \/ linked[s] => posted[s] = 1

\* No message appears before the time its author asked for.
NothingEarly == \A s \in Schedules : posted[s] > 0 => sendAt[s] <= now

\* A row is stuck in PROCESSING with no replica working on it only if a
\* replica died: every other failure settles the row (catch, lines 828-836).
OrphansComeFromCrashes ==
  \A s \in Schedules : status[s] = "PROCESSING" /\ ~Held(s) => crashes > 0

\* What a row says is true: what it calls sent is in the channel, nothing came
\* early, and a row that hangs in PROCESSING was left there by a crash.
RowsAreTrue == SentIsDelivered /\ NothingEarly /\ OrphansComeFromCrashes

\* the row says it is over, and no replica is still delivering it
Settled(s) == status[s] \in {"SENT", "CANCELED", "FAILED"} /\ ~Held(s)

\* Once a row is settled no later poll, stale batch or cancellation makes it
\* deliver again: in particular a row canceled before its claim stays silent.
SettledIsFinal ==
  [][\A s \in Schedules :
       Settled(s) => Settled(s)' /\ posted'[s] = posted[s]]_vars

\* the channel is archived and no replica has already passed the check
Barred(s) ==
  /\ s \in archived
  /\ \A w \in Replicas : ~(pc[w] = "create" /\ current[w] = s)

\* Access is checked again at delivery (line 861): once the channel is archived
\* nothing is posted, except by a replica that had already passed that check.
ArchivedStaysSilent ==
  [][\A s \in Schedules :
       Barred(s) => Barred(s)' /\ posted'[s] = posted[s]]_vars

\* The rows implement the promise of ScheduleContract: armed until the message
\* is in the channel, or until no replica will ever put it there.
Contract == INSTANCE ScheduleContract WITH
  armed <- {s \in Schedules :
              status[s] = "PENDING"
                \/ \E w \in Replicas : pc[w] \in Undelivered /\ current[w] = s},
  delivered <- {s \in Schedules : posted[s] > 0},
  dropped <- {s \in Schedules :
                /\ status[s] \notin {"NONE", "PENDING"}
                /\ posted[s] = 0
                /\ \A w \in Replicas : ~(pc[w] \in Undelivered /\ current[w] = s)}

\* Every step of the poller, of the users and of the failures is a step of the
\* contract or changes nothing it speaks of.
ImplementsContract == Contract!Spec

IsDue(s) == status[s] = "PENDING" /\ sendAt[s] <= now

\* claimed by a replica that died: nobody will ever look at the row again
Abandoned(s) == status[s] = "PROCESSING" /\ ~Held(s)

\* A due row is picked up and settled, in spite of replicas that die, of short
\* batches and of stale ones, unless a replica dies while it holds that very
\* row: the flag of a tick is always released, and neither the rows nor the
\* batches a dead replica leaves behind keep the others from the rest.
DueRowsAreSettled == \A s \in Schedules : IsDue(s) ~> Settled(s) \/ Abandoned(s)
===============================================================================
