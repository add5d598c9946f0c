----------------------- MODULE ScheduledMessagesProofs -----------------------
(***************************************************************************)
(* Proofs about ScheduledMessages, for any number of rows, replicas,       *)
(* cancel calls, crashes and any batch size.                               *)
(***************************************************************************)
EXTENDS ScheduledMessages, TLAPS

-------------------------------------------------------------------------------
(* The inductive invariant *)

\* The guarded update gives a row to one replica at a time, and takes it out
\* of PENDING for good.
ClaimIsExclusive ==
  /\ \A v, w \in Replicas, s \in Schedules : Holds(v, s) /\ Holds(w, s) => v = w
  /\ \A w \in Replicas, s \in Schedules :
       Holds(w, s) => status[s] \in {"PROCESSING", "CANCELED"}

\* How many messages a row has put in its channel, from where its holder is.
PostedByProgress ==
  /\ \A s \in Schedules : posted[s] \in {0, 1}
  /\ \A s \in Schedules : status[s] \in {"NONE", "PENDING"} => posted[s] = 0
  /\ \A w \in Replicas, s \in Schedules :
       /\ Holds(w, s) /\ pc[w] \in Undelivered => posted[s] = 0
       /\ Holds(w, s) /\ pc[w] \in {"notify", "markSent"} => posted[s] = 1

\* Only rows that exist and are due are in a batch or claimed, and only rows
\* that exist are being canceled.
OnlyDueRows ==
  /\ \A w \in Replicas, s \in Schedules :
       s \in batch[w] \/ Holds(w, s) => status[s] # "NONE" /\ sendAt[s] <= now
  /\ \A c \in CancelRequests : canceling[c] \in Schedules => status[canceling[c]] # "NONE"

IInv ==
  /\ TypeOK
  /\ ClaimIsExclusive
  /\ PostedByProgress
  /\ OnlyDueRows
  /\ SentIsDelivered
  /\ NothingEarly
  /\ OrphansComeFromCrashes

LEMMA InitIInv == Init => IInv
  BY ConstantsAssumption
  DEF Init, IInv, TypeOK, ClaimIsExclusive, PostedByProgress, OnlyDueRows,
      SentIsDelivered, NothingEarly, OrphansComeFromCrashes,
      Holds, Held, Statuses, Steps, Delivering, Undelivered

\* One step per action; the comments say which part the action could break.
LEMMA StepIInv == IInv /\ [Next]_vars => IInv'
<1> SUFFICES ASSUME IInv, [Next]_vars PROVE IInv'
  OBVIOUS
<1> USE ConstantsAssumption
    DEF IInv, TypeOK, ClaimIsExclusive, PostedByProgress, OnlyDueRows,
        SentIsDelivered, NothingEarly, OrphansComeFromCrashes,
        Holds, Held, Statuses, Steps, Delivering, Undelivered, rows, workers, env
<1>1. ASSUME NEW s \in Schedules, NEW t \in 0..MaxTime, Schedule(s, t)
      PROVE  IInv'
  BY <1>1 DEF Schedule
<1>2. ASSUME NEW c \in CancelRequests, NEW s \in Schedules, CancelRead(c, s)
      PROVE  IInv'
  BY <1>2 DEF CancelRead
\* the update is not guarded, but OnlyDueRows says the row left "NONE"
<1>3. ASSUME NEW c \in CancelRequests, CancelWrite(c) PROVE IInv'
  BY <1>3 DEF CancelWrite
<1>4. ASSUME NEW S \in SUBSET Schedules, Archive(S) PROVE IInv'
  BY <1>4 DEF Archive
<1>5. ASSUME NEW w \in Replicas, Poll(w) PROVE IInv'
  BY <1>5 DEF Poll, Due, DueBatches
<1>6. ASSUME NEW w \in Replicas, EndTick(w) PROVE IInv'
  BY <1>6 DEF EndTick
\* a PENDING row is held by nobody and has posted nothing, so the claim makes
\* w its only holder, with its message still to come
<1>7. ASSUME NEW w \in Replicas, NEW s \in Schedules, Claim(w, s) PROVE IInv'
  <2>1. ~Held(s) /\ posted[s] = 0
    BY <1>7 DEF Claim, TakeRow
  <2>2. TypeOK' /\ OnlyDueRows' /\ SentIsDelivered' /\ NothingEarly'
    BY <1>7 DEF Claim, TakeRow, NextDue
  <2>3. ClaimIsExclusive' /\ PostedByProgress' /\ OrphansComeFromCrashes'
    BY <1>7, <2>1 DEF Claim, TakeRow
  <2>4. QED
    BY <2>2, <2>3
<1>8. ASSUME NEW w \in Replicas, NEW s \in Schedules, SkipTaken(w, s) PROVE IInv'
  BY <1>8 DEF SkipTaken, NextDue
<1>9. ASSUME NEW w \in Replicas, CheckAccess(w) PROVE IInv'
  BY <1>9 DEF CheckAccess, Goto
\* the holder has posted nothing so far, and no other replica holds the row
<1>10. ASSUME NEW w \in Replicas, CreateMessage(w) PROVE IInv'
  <2>1. current[w] \in Schedules /\ posted[current[w]] = 0
    BY <1>10 DEF CreateMessage
  <2>2. ~(status[current[w]] \in {"NONE", "PENDING"}) /\ sendAt[current[w]] <= now
    BY <1>10, <2>1 DEF CreateMessage
  <2>3. QED
    BY <1>10, <2>1, <2>2 DEF CreateMessage, Goto
<1>11. ASSUME NEW w \in Replicas, Notify(w) PROVE IInv'
  BY <1>11 DEF Notify, Goto
<1>12. ASSUME NEW w \in Replicas, StepFails(w) PROVE IInv'
  BY <1>12 DEF StepFails, Goto
<1>13. ASSUME NEW w \in Replicas, MarkSent(w) PROVE IInv'
  BY <1>13 DEF MarkSent, Goto
<1>14. ASSUME NEW w \in Replicas, MarkFailed(w) PROVE IInv'
  BY <1>14 DEF MarkFailed, Goto
\* the row may be orphaned here, and here only
<1>15. ASSUME NEW w \in Replicas, Crash(w) PROVE IInv'
  BY <1>15 DEF Crash, Goto
<1>16. CASE Clock
  BY <1>16 DEF Clock
<1>17. CASE UNCHANGED vars
  BY <1>17 DEF vars
<1>18. QED
  BY <1>1, <1>2, <1>3, <1>4, <1>5, <1>6, <1>7, <1>8, <1>9, <1>10, <1>11,
     <1>12, <1>13, <1>14, <1>15, <1>16, <1>17 DEF Next, Loop, Deliver, Work

LEMMA Invariance == Spec => []IInv
<1>1. Init => IInv
  BY InitIInv
<1>2. IInv /\ [Next]_vars => IInv'
  BY StepIInv
<1>3. QED
  BY <1>1, <1>2, PTL DEF Spec

-------------------------------------------------------------------------------
(* State properties *)

\* Every state of the specification is well typed.
THEOREM TypeCorrect == Spec => []TypeOK
<1>1. IInv => TypeOK
  BY DEF IInv
<1>2. QED
  BY Invariance, <1>1, PTL

\* No schedule ever puts two messages in its channel.
THEOREM DeliveredAtMostOnce == Spec => []AtMostOneMessage
<1>1. IInv => AtMostOneMessage
  BY DEF IInv, PostedByProgress, AtMostOneMessage
<1>2. QED
  BY Invariance, <1>1, PTL

\* The columns of a row never claim a delivery that did not happen, no message
\* is early, and only a dead replica leaves a row in PROCESSING.
THEOREM RowsTellTheTruth == Spec => []RowsAreTrue
<1>1. IInv => RowsAreTrue
  BY DEF IInv, RowsAreTrue
<1>2. QED
  BY Invariance, <1>1, PTL

-------------------------------------------------------------------------------
(* Step properties *)

\* A settled row is never delivered again.
THEOREM SettledRowsStaySettled == Spec => SettledIsFinal
<1>1. IInv /\ [Next]_vars =>
        [\A s \in Schedules : Settled(s) => Settled(s)' /\ posted'[s] = posted[s]]_vars
  <2> SUFFICES ASSUME IInv, Next, NEW s \in Schedules, Settled(s)
               PROVE  Settled(s)' /\ posted'[s] = posted[s]
    OBVIOUS
  <2> USE DEF IInv, TypeOK, ClaimIsExclusive, Settled, Holds, Held, Delivering,
              Undelivered, rows, workers, env
  <2>1. ASSUME NEW r \in Schedules, NEW t \in 0..MaxTime, Schedule(r, t)
        PROVE  Settled(s)' /\ posted'[s] = posted[s]
    BY <2>1 DEF Schedule
  <2>2. ASSUME NEW c \in CancelRequests,
               CancelWrite(c) \/ \E r \in Schedules : CancelRead(c, r)
        PROVE  Settled(s)' /\ posted'[s] = posted[s]
    BY <2>2 DEF CancelRead, CancelWrite
  <2>3. ASSUME NEW w \in Replicas, Poll(w) \/ Loop(w)
        PROVE  Settled(s)' /\ posted'[s] = posted[s]
    BY <2>3 DEF Poll, Loop, EndTick, Claim, SkipTaken, TakeRow
  <2>4. ASSUME NEW w \in Replicas, Deliver(w)
        PROVE  Settled(s)' /\ posted'[s] = posted[s]
    <3>1. pc[w] \in Delivering /\ current[w] # s
      BY <2>4 DEF Deliver, Work, CheckAccess, CreateMessage, Notify, StepFails, MarkSent, MarkFailed
    <3>2. QED
      BY <2>4, <3>1 DEF Deliver, Work, CheckAccess, CreateMessage, Notify, StepFails,
                        MarkSent, MarkFailed, Goto
  <2>5. ASSUME NEW w \in Replicas, Crash(w)
        PROVE  Settled(s)' /\ posted'[s] = posted[s]
    BY <2>5 DEF Crash, Goto
  <2>6. CASE Clock \/ \E S \in SUBSET Schedules : Archive(S)
    BY <2>6 DEF Clock, Archive
  <2>7. QED
    BY <2>1, <2>2, <2>3, <2>4, <2>5, <2>6 DEF Next
<1>2. QED
  BY Invariance, <1>1, PTL DEF Spec, SettledIsFinal

\* Once the channel is archived and no replica stands between its check and its create,
\* nothing more is posted for the row.
THEOREM NothingOnceArchived == Spec => ArchivedStaysSilent
<1>1. TypeOK /\ [Next]_vars =>
        [\A s \in Schedules : Barred(s) => Barred(s)' /\ posted'[s] = posted[s]]_vars
  <2> SUFFICES ASSUME TypeOK, Next, NEW s \in Schedules, Barred(s)
               PROVE  Barred(s)' /\ posted'[s] = posted[s]
    OBVIOUS
  <2> USE DEF TypeOK, Barred, rows, workers, env
  <2>1. ASSUME NEW w \in Replicas, Deliver(w)
        PROVE  Barred(s)' /\ posted'[s] = posted[s]
    BY <2>1 DEF Deliver, Work, CheckAccess, CreateMessage, Notify, StepFails, MarkSent,
                MarkFailed, Goto
  <2>2. ASSUME NEW w \in Replicas, Poll(w) \/ Loop(w) \/ Crash(w)
        PROVE  Barred(s)' /\ posted'[s] = posted[s]
    BY <2>2 DEF Poll, Loop, EndTick, Claim, SkipTaken, TakeRow, Crash, Goto
  <2>3. ASSUME NEW r \in Schedules,
               \/ \E t \in 0..MaxTime : Schedule(r, t)
               \/ \E c \in CancelRequests : CancelRead(c, r)
        PROVE  Barred(s)' /\ posted'[s] = posted[s]
    BY <2>3 DEF Schedule, CancelRead
  <2>4. CASE \/ Clock
             \/ \E S \in SUBSET Schedules : Archive(S)
             \/ \E c \in CancelRequests : CancelWrite(c)
    BY <2>4 DEF Clock, Archive, CancelWrite
  <2>5. QED
    BY <2>1, <2>2, <2>3, <2>4 DEF Next
<1>2. QED
  BY TypeCorrect, <1>1, PTL DEF Spec, ArchivedStaysSilent

-------------------------------------------------------------------------------
(* Refinement *)

\* The rows, the pollers and the cancellations implement ScheduleContract.
THEOREM ContractIsImplemented == Spec => ImplementsContract
<1>1. Init => Contract!Init
  BY ConstantsAssumption DEF Init, Contract!Init, Undelivered
<1>2. IInv /\ [Next]_vars => [Contract!Next]_(Contract!vars)
  <2> SUFFICES ASSUME IInv, [Next]_vars
               PROVE  [Contract!Next]_(Contract!vars)
    OBVIOUS
  <2> USE DEF IInv, TypeOK, ClaimIsExclusive, PostedByProgress, Holds, Delivering,
              Undelivered, Statuses, rows, workers, env, Contract!vars
  <2>1. ASSUME NEW s \in Schedules, NEW t \in 0..MaxTime, Schedule(s, t)
        PROVE  Contract!Arm(s)
    BY <2>1, SMTT(60) DEF Schedule, Contract!Arm
  <2>2. ASSUME NEW c \in CancelRequests, CancelWrite(c),
               NEW s \in Schedules, canceling[c] = s
        PROVE  Contract!Drop(s) \/ UNCHANGED Contract!vars
    <3>1. status[s] # "NONE"
      BY <2>2 DEF OnlyDueRows
    <3>2. /\ status' = [status EXCEPT ![s] = "CANCELED"]
          /\ UNCHANGED <<pc, current, posted>>
      BY <2>2 DEF CancelWrite
    <3>3. CASE status[s] = "PENDING"
      BY <3>1, <3>2, <3>3, SMTT(60) DEF Contract!Drop
    <3>4. CASE status[s] # "PENDING"
      BY <3>1, <3>2, <3>4, SMTT(60)
    <3>5. QED
      BY <3>3, <3>4
  <2>3. ASSUME NEW w \in Replicas, CreateMessage(w),
               NEW s \in Schedules, current[w] = s
        PROVE  Contract!Fire(s)
    BY <2>3, SMTT(60) DEF CreateMessage, Goto, Contract!Fire
  <2>4. ASSUME NEW w \in Replicas, CheckAccess(w) \/ StepFails(w) \/ Crash(w),
               NEW s \in Schedules, current[w] = s
        PROVE  Contract!Drop(s) \/ UNCHANGED Contract!vars
    BY <2>4, SMTT(60) DEF CheckAccess, StepFails, Crash, Goto, Contract!Drop
  <2>5. ASSUME NEW w \in Replicas, MarkSent(w) \/ MarkFailed(w)
        PROVE  UNCHANGED Contract!vars
    BY <2>5, SMTT(60) DEF MarkSent, MarkFailed, Goto
  <2>6. ASSUME NEW w \in Replicas, NEW s \in Schedules, Claim(w, s)
        PROVE  UNCHANGED Contract!vars
    BY <2>6, SMTT(60) DEF Claim, TakeRow
  <2>7. ASSUME NEW w \in Replicas, Poll(w) \/ EndTick(w) \/ Notify(w)
        PROVE  UNCHANGED Contract!vars
    BY <2>7, SMTT(60) DEF Poll, EndTick, Notify, Goto
  <2>8. ASSUME NEW w \in Replicas, NEW s \in Schedules, SkipTaken(w, s)
        PROVE  UNCHANGED Contract!vars
    BY <2>8 DEF SkipTaken
  <2>9. ASSUME NEW s \in Schedules, NEW c \in CancelRequests, CancelRead(c, s)
        PROVE  UNCHANGED Contract!vars
    BY <2>9 DEF CancelRead
  <2>10. CASE Clock \/ (\E S \in SUBSET Schedules : Archive(S)) \/ UNCHANGED vars
    BY <2>10 DEF Clock, Archive, vars
  <2>11. ASSUME NEW w \in Replicas, Crash(w), current[w] = NoRow
         PROVE  UNCHANGED Contract!vars
    BY <2>11, ConstantsAssumption, SMTT(60) DEF Crash, Goto
  <2> HIDE DEF Contract!vars
  <2>12. ASSUME NEW w \in Replicas, Deliver(w) \/ Crash(w)
         PROVE  [Contract!Next]_(Contract!vars)
    <3>1. CASE current[w] = NoRow
      BY <2>11, <2>12, <3>1, ConstantsAssumption
      DEF Deliver, Work, CheckAccess, CreateMessage, Notify, StepFails, MarkSent, MarkFailed
    <3>2. CASE current[w] # NoRow
      <4>1. PICK s \in Schedules : current[w] = s
        BY <3>2
      <4>2. CASE CreateMessage(w)
        BY <2>3, <4>1, <4>2 DEF Contract!Next
      <4>3. CASE CheckAccess(w) \/ StepFails(w) \/ Crash(w)
        BY <2>4, <4>1, <4>3 DEF Contract!Next
      <4>4. CASE Notify(w) \/ MarkSent(w) \/ MarkFailed(w)
        BY <2>5, <2>7, <4>4
      <4>5. QED
        BY <2>12, <4>2, <4>3, <4>4 DEF Deliver, Work
    <3>3. QED
      BY <3>1, <3>2
  <2>13. ASSUME NEW w \in Replicas, Poll(w) \/ Loop(w)
         PROVE  UNCHANGED Contract!vars
    BY <2>6, <2>7, <2>8, <2>13 DEF Loop
  <2>14. ASSUME NEW s \in Schedules, NEW t \in 0..MaxTime, Schedule(s, t)
         PROVE  Contract!Next
    BY <2>1, <2>14 DEF Contract!Next
  <2>15. ASSUME NEW c \in CancelRequests, CancelWrite(c)
         PROVE  [Contract!Next]_(Contract!vars)
    <3>1. PICK s \in Schedules : canceling[c] = s
      BY <2>15 DEF CancelWrite
    <3>2. QED
      BY <2>2, <2>15, <3>1 DEF Contract!Next
  <2>16. CASE Next
    BY <2>9, <2>10, <2>12, <2>13, <2>14, <2>15, <2>16 DEF Next
  <2>17. QED
    BY <2>10, <2>16
<1>3. QED
  BY Invariance, <1>1, <1>2, PTL DEF Spec, ImplementsContract, Contract!Spec
===============================================================================
