---------------------------- MODULE MessagesProofs ----------------------------
(* Proofs about Messages: its types, the shape of threads, the agreement of   *)
(* the callers of createThread and the finality of deletions, for any number  *)
(* of messages, threads, users and calls.                                     *)
EXTENDS Messages, TLAPS

\* Whatever its answer, a call that has written is over.
LEMMA FinishStep ==
  ASSUME NEW r \in Requests, pc \in [Requests -> Steps], Finish(r)
  PROVE  /\ pc' \in [Requests -> Steps]
         /\ pc'[r] \in {"ok", "failed"}
         /\ \A q \in Requests \ {r} : pc'[q] = pc[q]
BY DEF Finish, Goto, Steps

\* What an update of a row by id leaves alone.
LEMMA RewriteStep ==
  ASSUME NEW m \in Posted, NEW words \in Contents, NEW gone \in BOOLEAN,
         Posted \subseteq MessageIds, messages \in [Posted -> MessageRow],
         Rewrite(m, words, gone)
  PROVE  /\ Posted' = Posted
         /\ messages' \in [Posted' -> MessageRow]
         /\ messages'[m].content = words /\ messages'[m].deleted = gone
         /\ \A k \in Posted : k # m => messages'[k] = messages[k]
         /\ \A k \in Posted :
              /\ messages'[k].channel = messages[k].channel
              /\ messages'[k].author = messages[k].author
              /\ messages'[k].sequence = messages[k].sequence
              /\ messages'[k].thread = messages[k].thread
              /\ messages'[k].parent = messages[k].parent
<1>1. messages' = [messages EXCEPT ![m].content = words, ![m].deleted = gone]
  BY DEF Rewrite
<1>2. Posted' = Posted
  BY <1>1 DEF Posted
<1>3. messages[m] \in MessageRow
  OBVIOUS
<1>4. messages'[m] = [messages[m] EXCEPT !.content = words, !.deleted = gone]
  BY <1>1 DEF Posted
<1>5. \A k \in Posted : k # m => messages'[k] = messages[k]
  BY <1>1 DEF Posted
<1>6. messages'[m] \in MessageRow
  BY <1>3, <1>4 DEF MessageRow
<1>7. messages' \in [Posted' -> MessageRow]
  BY <1>1, <1>2, <1>5, <1>6
<1>8. /\ messages'[m].content = words /\ messages'[m].deleted = gone
      /\ messages'[m].channel = messages[m].channel
      /\ messages'[m].author = messages[m].author
      /\ messages'[m].sequence = messages[m].sequence
      /\ messages'[m].thread = messages[m].thread
      /\ messages'[m].parent = messages[m].parent
  BY <1>3, <1>4 DEF MessageRow
<1> QED
  BY <1>2, <1>5, <1>7, <1>8

-------------------------------------------------------------------------------
(* The inductive invariant *)

\* no message is newer than the highest sequence number of its channel
LatestIsLast == \A m \in Posted : messages[m].sequence <= latest[messages[m].channel]

\* rootMessageId is unique
OneThreadPerRoot ==
  \A s, t \in Started : threads[s].root = threads[t].root => s = t

\* createThread is on its way to the root of its message, or has answered with
\* the thread of that root
RootsAreKnown ==
  \A r \in Requests :
    /\ pc[r] = "upsert" => source[r] \in Posted /\ target[r] = RootOf(source[r])
    /\ answer[r] # NoThread =>
         source[r] \in Posted /\ threads[answer[r]].root = RootOf(source[r])
    /\ answer[r] # NoThread => pc[r] = "ok"

Inv == TypeOK /\ ThreadsAreFlat /\ LatestIsLast /\ OneThreadPerRoot /\ RootsAreKnown

\* A thread never hangs from a reply: the root of a message is in its channel.
LEMMA RootFacts ==
  ASSUME TypeOK, ThreadsAreFlat, NEW m \in Posted
  PROVE  /\ RootOf(m) \in Posted
         /\ messages[RootOf(m)].thread = NoThread
         /\ messages[RootOf(m)].channel = messages[m].channel
         /\ messages[m].thread \notin Started => RootOf(m) = m
         /\ messages[m].thread \in Started => RootOf(m) = threads[messages[m].thread].root
<1>1. CASE messages[m].thread = NoThread
  <2>1. RootOf(m) = m
    BY <1>1 DEF ThreadsAreFlat, RootOf
  <2> QED
    BY <1>1, <2>1, MessagesAssumption DEF TypeOK
<1>2. CASE messages[m].thread # NoThread
  <2>1. /\ messages[m].thread \in Started
        /\ messages[m].parent = threads[messages[m].thread].root
        /\ messages[m].channel = threads[messages[m].thread].channel
    BY <1>2 DEF ThreadsAreFlat
  <2>2. /\ threads[messages[m].thread].root \in Posted
        /\ messages[threads[messages[m].thread].root].thread = NoThread
        /\ messages[threads[messages[m].thread].root].channel
             = threads[messages[m].thread].channel
    BY <2>1 DEF ThreadsAreFlat
  <2>3. RootOf(m) = messages[m].parent
    BY <2>1, <2>2, MessagesAssumption DEF RootOf, TypeOK
  <2> QED
    BY <2>1, <2>2, <2>3
<1> QED
  BY <1>1, <1>2

\* Nothing moves a message to another place of the conversation.
LEMMA RootStays ==
  ASSUME \A k \in Posted : messages'[k].parent = messages[k].parent
  PROVE  \A k \in Posted : RootOf(k)' = RootOf(k)
BY DEF RootOf

\* A message is added that is no reply, or a reply in its place.
LEMMA PostStep ==
  ASSUME Inv, NEW m \in MessageIds \ Posted, NEW row \in MessageRow,
         messages' = WithRow(messages, m, row),
         row.sequence = latest[row.channel] + 1,
         latest' = [latest EXCEPT ![row.channel] = @ + 1],
         UNCHANGED <<threads, call, source, answer>>,
         \/ row.thread = NoThread /\ row.parent = NoMessage
         \/ /\ row.thread \in Started
            /\ row.parent = threads[row.thread].root
            /\ row.channel = threads[row.thread].channel
  PROVE  Inv'
<1>1. /\ Posted' = Posted \cup {m}
      /\ messages'[m] = row
      /\ \A k \in Posted : messages'[k] = messages[k]
      /\ messages' = [k \in Posted' |-> messages'[k]]
  <2>1. /\ DOMAIN messages' = DOMAIN messages \cup {m}
        /\ messages'[m] = row
        /\ \A k \in DOMAIN messages : k # m => messages'[k] = messages[k]
        /\ messages' = [k \in DOMAIN messages' |-> messages'[k]]
    BY DEF WithRow
  <2> QED
    BY <2>1 DEF Posted
<1>2. Started' = Started /\ threads' = threads
  BY DEF Started
<1>3. row.channel \in Channels /\ row.sequence \in Nat
  BY DEF MessageRow
<1>4. latest' \in [Channels -> Nat]
  BY <1>3 DEF Inv, TypeOK
<1>5. TypeOK'
  <2>1. Posted' \subseteq MessageIds /\ messages' \in [Posted' -> MessageRow]
    BY <1>1 DEF Inv, TypeOK
  <2> QED
    BY <1>1, <1>2, <1>4, <2>1 DEF Inv, TypeOK, call
<1>6. ThreadsAreFlat'
  <2>1. ASSUME NEW t \in Started'
        PROVE  /\ threads'[t].root \in Posted'
               /\ messages'[threads'[t].root].thread = NoThread
               /\ messages'[threads'[t].root].channel = threads'[t].channel
    BY <1>1, <1>2 DEF Inv, ThreadsAreFlat
  <2>2. row.thread \in Started =>
          /\ row.parent \in Posted
          /\ messages[row.parent].sequence <= latest[row.channel]
    BY MessagesAssumption DEF Inv, TypeOK, ThreadsAreFlat, LatestIsLast
  <2>3. row.thread \in Started => messages[row.parent].sequence < row.sequence
    <3>1. latest[row.channel] \in Nat
      BY <1>3 DEF Inv, TypeOK
    <3>2. row.thread \in Started => messages[row.parent].sequence \in Nat
      BY <2>2 DEF Inv, TypeOK, MessageRow
    <3> QED
      BY <2>2, <3>1, <3>2
  <2>4. ASSUME NEW k \in Posted
        PROVE  IF messages'[k].thread = NoThread
               THEN messages'[k].parent = NoMessage
               ELSE /\ messages'[k].thread \in Started'
                    /\ messages'[k].parent = threads'[messages'[k].thread].root
                    /\ messages'[k].channel = threads'[messages'[k].thread].channel
                    /\ messages'[messages'[k].parent].sequence < messages'[k].sequence
    BY <1>1, <1>2 DEF Inv, ThreadsAreFlat
  <2>5. IF messages'[m].thread = NoThread
        THEN messages'[m].parent = NoMessage
        ELSE /\ messages'[m].thread \in Started'
             /\ messages'[m].parent = threads'[messages'[m].thread].root
             /\ messages'[m].channel = threads'[messages'[m].thread].channel
             /\ messages'[messages'[m].parent].sequence < messages'[m].sequence
    <3>1. Started \subseteq ThreadIds
      BY DEF Inv, TypeOK
    <3> QED
      BY <1>1, <1>2, <2>2, <2>3, <3>1, MessagesAssumption
  <2> QED
    BY <1>1, <2>1, <2>4, <2>5 DEF ThreadsAreFlat
<1>7. LatestIsLast'
  <2>1. messages'[m].sequence <= latest'[messages'[m].channel]
    BY <1>1, <1>3 DEF Inv, TypeOK
  <2>2. ASSUME NEW k \in Posted
        PROVE  messages'[k].sequence <= latest'[messages'[k].channel]
    <3>1. /\ messages[k].sequence \in Nat /\ messages[k].channel \in Channels
          /\ messages[k].sequence <= latest[messages[k].channel]
      BY DEF Inv, TypeOK, MessageRow, LatestIsLast
    <3>2. latest[messages[k].channel] \in Nat /\ latest[row.channel] \in Nat
      BY <1>3, <3>1 DEF Inv, TypeOK
    <3>3. latest'[messages[k].channel] >= latest[messages[k].channel]
      BY <1>3, <3>1, <3>2 DEF Inv, TypeOK
    <3>4. latest'[messages[k].channel] \in Nat
      BY <1>4, <3>1
    <3> QED
      BY <1>1, <3>1, <3>2, <3>3, <3>4
  <2> QED
    BY <1>1, <2>1, <2>2 DEF LatestIsLast
<1>8. OneThreadPerRoot'
  BY <1>2 DEF Inv, OneThreadPerRoot
<1>9. RootsAreKnown'
  <2>1. \A k \in Posted : RootOf(k)' = RootOf(k)
    BY <1>1, RootStays
  <2> QED
    BY <1>1, <1>2, <2>1 DEF Inv, RootsAreKnown, call
<1> QED
  BY <1>5, <1>6, <1>7, <1>8, <1>9 DEF Inv

\* An edit or a deletion changes no message's place in the conversation.
LEMMA RewriteKeeps ==
  ASSUME Inv, NEW r \in Requests, pc[r] \in {"edit", "delete"},
         NEW words \in Contents, NEW gone \in BOOLEAN,
         Rewrite(target[r], words, gone), Finish(r),
         UNCHANGED <<threads, latest, target, text, source, answer>>
  PROVE  Inv'
<1>1. /\ Posted' = Posted
      /\ messages' \in [Posted' -> MessageRow]
      /\ \A k \in Posted :
           /\ messages'[k].channel = messages[k].channel
           /\ messages'[k].sequence = messages[k].sequence
           /\ messages'[k].thread = messages[k].thread
           /\ messages'[k].parent = messages[k].parent
  <2>1. PICK m \in Posted : m = target[r]
    BY DEF Inv, TypeOK
  <2>2. Rewrite(m, words, gone)
    BY <2>1
  <2>3. Posted \subseteq MessageIds /\ messages \in [Posted -> MessageRow]
    BY DEF Inv, TypeOK
  <2> QED
    BY <2>2, <2>3, RewriteStep
<1>2. Started' = Started /\ threads' = threads
  BY DEF Started
<1>3. /\ pc' \in [Requests -> Steps]
      /\ pc'[r] \in {"ok", "failed"}
      /\ \A q \in Requests \ {r} : pc'[q] = pc[q]
  BY FinishStep DEF Inv, TypeOK
<1>4. TypeOK'
  <2>1. \A q \in Requests : pc'[q] \in {"edit", "delete", "upsert"} => target'[q] \in Posted'
    BY <1>1, <1>3 DEF Inv, TypeOK
  <2> QED
    BY <1>1, <1>2, <1>3, <2>1 DEF Inv, TypeOK
<1>5. ThreadsAreFlat'
  <2>1. ASSUME NEW t \in Started
        PROVE  /\ threads[t].root \in Posted
               /\ messages'[threads[t].root].thread = NoThread
               /\ messages'[threads[t].root].channel = threads[t].channel
    BY <1>1 DEF Inv, ThreadsAreFlat
  <2>2. ASSUME NEW k \in Posted
        PROVE  IF messages'[k].thread = NoThread
               THEN messages'[k].parent = NoMessage
               ELSE /\ messages'[k].thread \in Started
                    /\ messages'[k].parent = threads[messages'[k].thread].root
                    /\ messages'[k].channel = threads[messages'[k].thread].channel
                    /\ messages'[messages'[k].parent].sequence < messages'[k].sequence
    BY <1>1, <2>1 DEF Inv, ThreadsAreFlat
  <2> QED
    BY <1>1, <1>2, <2>1, <2>2 DEF ThreadsAreFlat
<1>6. LatestIsLast'
  BY <1>1 DEF Inv, LatestIsLast
<1>7. OneThreadPerRoot'
  BY <1>2 DEF Inv, OneThreadPerRoot
<1>8. RootsAreKnown'
  <2>1. \A k \in Posted : RootOf(k)' = RootOf(k)
    BY <1>1, RootStays
  <2>2. \A q \in Requests : /\ pc'[q] = "upsert" => pc[q] = "upsert"
                            /\ pc[q] = "ok" => pc'[q] = "ok"
    BY <1>3
  <2> QED
    BY <1>1, <1>2, <2>1, <2>2 DEF Inv, RootsAreKnown
<1> QED
  BY <1>4, <1>5, <1>6, <1>7, <1>8 DEF Inv

\* A new thread hangs from the root its creator found, which had none.
LEMMA ThreadStep ==
  ASSUME Inv, NEW r \in Requests, NEW t \in ThreadIds, ThreadCreate(r, t)
  PROVE  Inv'
<1> DEFINE root == target[r]
<1>1. /\ pc[r] = "upsert"
      /\ t \notin Started
      /\ \A s \in Started : threads[s].root # root
      /\ threads' = WithRow(threads, t, [root |-> root, channel |-> messages[root].channel])
      /\ AnswerThread(r, t)
      /\ UNCHANGED <<messages, latest, target, text, source>>
  BY DEF ThreadCreate
<1>2. root \in Posted /\ source[r] \in Posted /\ root = RootOf(source[r])
  BY <1>1 DEF Inv, TypeOK, RootsAreKnown
<1>3. messages[root].thread = NoThread /\ messages[root].channel \in Channels
  BY <1>2, RootFacts DEF Inv, TypeOK, MessageRow
<1>4. /\ Started' = Started \cup {t}
      /\ threads'[t].root = root
      /\ threads'[t].channel = messages[root].channel
      /\ threads'[t] \in ThreadRow
      /\ \A s \in Started : threads'[s] = threads[s]
      /\ threads' \in [Started' -> ThreadRow]
  <2> DEFINE row == [root |-> root, channel |-> messages[root].channel]
  <2>1. row \in ThreadRow /\ row.root = root /\ row.channel = messages[root].channel
    BY <1>2, <1>3 DEF ThreadRow, Inv, TypeOK
  <2>2. threads' = WithRow(threads, t, row)
    BY <1>1
  <2> HIDE DEF row
  <2>3. /\ DOMAIN threads' = DOMAIN threads \cup {t}
        /\ threads'[t] = row
        /\ \A s \in DOMAIN threads : s # t => threads'[s] = threads[s]
        /\ threads' = [s \in DOMAIN threads' |-> threads'[s]]
    BY <2>2 DEF WithRow
  <2>4. threads \in [Started -> ThreadRow]
    BY DEF Inv, TypeOK
  <2> QED
    BY <1>1, <2>1, <2>3, <2>4 DEF Started
<1>5. /\ \/ answer' = [answer EXCEPT ![r] = t] /\ Goto(r, "ok")
         \/ answer' = answer /\ Goto(r, "failed")
      /\ pc' \in [Requests -> Steps]
      /\ \A q \in Requests : pc'[q] \in {"edit", "delete", "upsert"} => pc'[q] = pc[q]
  <2>1. pc \in [Requests -> Steps]
    BY DEF Inv, TypeOK
  <2> QED
    BY <1>1, <2>1 DEF AnswerThread, Goto, Steps
<1>6. Posted' = Posted /\ (\A k \in Posted : RootOf(k)' = RootOf(k))
  BY <1>1 DEF Posted, RootOf
<1>7. TypeOK'
  <2>1. Started' \subseteq ThreadIds
    BY <1>4 DEF Inv, TypeOK
  <2>2. answer' \in [Requests -> Started' \cup {NoThread}]
    BY <1>4, <1>5 DEF Inv, TypeOK
  <2>3. \A q \in Requests : pc'[q] \in {"edit", "delete", "upsert"} => target'[q] \in Posted'
    BY <1>1, <1>5, <1>6 DEF Inv, TypeOK
  <2> QED
    BY <1>1, <1>4, <1>5, <1>6, <2>1, <2>2, <2>3 DEF Inv, TypeOK
<1>8. ThreadsAreFlat'
  <2>1. ASSUME NEW s \in Started'
        PROVE  /\ threads'[s].root \in Posted
               /\ messages[threads'[s].root].thread = NoThread
               /\ messages[threads'[s].root].channel = threads'[s].channel
    <3>1. CASE s \in Started
      BY <1>4, <3>1 DEF Inv, ThreadsAreFlat
    <3>2. CASE s = t
      BY <1>2, <1>3, <1>4, <3>2
    <3> QED
      BY <1>4, <3>1, <3>2
  <2>2. ASSUME NEW k \in Posted
        PROVE  IF messages[k].thread = NoThread
               THEN messages[k].parent = NoMessage
               ELSE /\ messages[k].thread \in Started'
                    /\ messages[k].parent = threads'[messages[k].thread].root
                    /\ messages[k].channel = threads'[messages[k].thread].channel
                    /\ messages[messages[k].parent].sequence < messages[k].sequence
    BY <1>4 DEF Inv, ThreadsAreFlat
  <2> QED
    BY <1>1, <1>6, <2>1, <2>2 DEF ThreadsAreFlat
<1>9. LatestIsLast'
  BY <1>1, <1>6 DEF Inv, LatestIsLast
<1>10. OneThreadPerRoot'
  BY <1>1, <1>4 DEF Inv, OneThreadPerRoot
<1>11. RootsAreKnown'
  <2>1. ASSUME NEW q \in Requests, pc'[q] = "upsert"
        PROVE  source[q] \in Posted /\ target[q] = RootOf(source[q])
    BY <1>5, <2>1 DEF Inv, RootsAreKnown
  <2>2. ASSUME NEW q \in Requests, answer'[q] # NoThread
        PROVE  source[q] \in Posted /\ threads'[answer'[q]].root = RootOf(source[q])
    <3>1. CASE q = r /\ answer'[r] = t
      BY <1>2, <1>4, <3>1
    <3>2. CASE answer'[q] = answer[q]
      <4>1. answer[q] \in Started
        BY <2>2, <3>2 DEF Inv, TypeOK
      <4>2. source[q] \in Posted /\ threads[answer[q]].root = RootOf(source[q])
        BY <2>2, <3>2 DEF Inv, RootsAreKnown
      <4> QED
        BY <1>4, <3>2, <4>1, <4>2
    <3>3. (q = r /\ answer'[r] = t) \/ answer'[q] = answer[q]
      BY <1>5 DEF Inv, TypeOK
    <3> QED
      BY <3>1, <3>2, <3>3
  <2>3. \A q \in Requests : RootOf(source[q])' = RootOf(source[q])
    BY <1>1 DEF RootOf
  <2>4. \A q \in Requests : answer'[q] # NoThread => pc'[q] = "ok"
    BY <1>1, <1>5 DEF Inv, TypeOK, RootsAreKnown, Goto
  <2> QED
    BY <1>1, <1>6, <2>1, <2>2, <2>3, <2>4 DEF RootsAreKnown
<1> QED
  BY <1>7, <1>8, <1>9, <1>10, <1>11 DEF Inv

\* A step that writes no row keeps the invariant when the local variables of
\* the call that takes it say what they should.
LEMMA QuietStep ==
  ASSUME Inv, NEW r \in Requests, pc[r] \in {"new", "edit", "delete", "upsert"},
         UNCHANGED store,
         pc' \in [Requests -> Steps],
         target' \in [Requests -> MessageIds \cup {NoMessage}],
         text' \in [Requests -> Contents],
         source' \in [Requests -> Posted \cup {NoMessage}],
         answer' \in [Requests -> Started \cup {NoThread}],
         \A q \in Requests \ {r} :
           /\ pc'[q] = pc[q] /\ target'[q] = target[q]
           /\ source'[q] = source[q] /\ answer'[q] = answer[q],
         pc'[r] \in {"edit", "delete", "upsert"} => target'[r] \in Posted,
         pc'[r] = "upsert" => source'[r] \in Posted /\ target'[r] = RootOf(source'[r]),
         answer'[r] # NoThread =>
           /\ pc'[r] = "ok"
           /\ source'[r] \in Posted
           /\ threads[answer'[r]].root = RootOf(source'[r])
  PROVE  Inv'
<1>1. /\ messages' = messages /\ threads' = threads /\ latest' = latest
      /\ Posted' = Posted /\ Started' = Started
  BY DEF store, Posted, Started
<1>2. TypeOK'
  BY <1>1 DEF Inv, TypeOK
<1>3. ThreadsAreFlat' /\ LatestIsLast' /\ OneThreadPerRoot'
  BY <1>1 DEF Inv, ThreadsAreFlat, LatestIsLast, OneThreadPerRoot
<1>4. RootsAreKnown'
  <2>1. ASSUME NEW q \in Requests
        PROVE  /\ pc'[q] = "upsert" =>
                    source'[q] \in Posted /\ target'[q] = RootOf(source'[q])
               /\ answer'[q] # NoThread =>
                    source'[q] \in Posted /\ threads[answer'[q]].root = RootOf(source'[q])
               /\ answer'[q] # NoThread => pc'[q] = "ok"
    <3>1. CASE q = r
      BY <3>1
    <3>2. CASE q # r
      BY <3>2 DEF Inv, RootsAreKnown
    <3> QED
      BY <3>1, <3>2
  <2>2. \A q \in Requests : RootOf(source[q])' = RootOf(source'[q])
    BY <1>1 DEF RootOf
  <2> QED
    BY <1>1, <2>1, <2>2 DEF RootsAreKnown
<1> QED
  BY <1>2, <1>3, <1>4 DEF Inv

\* The first round trips of edits and deletions.
LEMMA ReadStep ==
  ASSUME Inv, NEW r \in Requests, NEW m \in Posted, NEW step \in {"edit", "delete"},
         pc[r] = "new", Goto(r, step),
         target' = [target EXCEPT ![r] = m],
         text' \in [Requests -> Contents],
         UNCHANGED <<store, source, answer>>
  PROVE  Inv'
<1>1. /\ pc' \in [Requests -> Steps]
      /\ pc'[r] = step
      /\ \A q \in Requests \ {r} : pc'[q] = pc[q]
  BY DEF Inv, TypeOK, Goto, Steps
<1>2. /\ target' \in [Requests -> MessageIds \cup {NoMessage}]
      /\ target'[r] = m
      /\ \A q \in Requests \ {r} : target'[q] = target[q]
  BY DEF Inv, TypeOK
<1>3. answer[r] = NoThread
  BY DEF Inv, RootsAreKnown
<1>4. /\ source \in [Requests -> Posted \cup {NoMessage}]
      /\ answer \in [Requests -> Started \cup {NoThread}]
  BY DEF Inv, TypeOK
<1> QED
  BY <1>1, <1>2, <1>3, <1>4, QuietStep

\* An answer to createThread is recorded, or lost.
LEMMA AnswerStep ==
  ASSUME Inv, NEW r \in Requests, NEW t \in Started, AnswerThread(r, t)
  PROVE  /\ pc' \in [Requests -> Steps]
         /\ answer' \in [Requests -> Started \cup {NoThread}]
         /\ \A q \in Requests \ {r} : pc'[q] = pc[q] /\ answer'[q] = answer[q]
         /\ \/ pc'[r] = "ok" /\ answer'[r] = t
            \/ pc'[r] = "failed" /\ answer'[r] = answer[r]
BY DEF AnswerThread, Goto, Inv, TypeOK, Steps

\* createThread, as long as it creates no thread.
LEMMA OpenStep ==
  ASSUME Inv, NEW r \in Requests,
         \/ \E m \in MessageIds : ThreadOfReply(r, m) \/ ThreadRead(r, m)
         \/ \E t \in ThreadIds : ThreadFound(r, t)
  PROVE  Inv'
<1>1. ASSUME NEW m \in MessageIds, ThreadOfReply(r, m)
      PROVE  Inv'
  <2>1. /\ pc[r] = "new" /\ m \in Posted /\ messages[m].thread \in Started
        /\ source' = [source EXCEPT ![r] = m]
        /\ AnswerThread(r, messages[m].thread)
        /\ UNCHANGED <<store, target, text>>
    BY <1>1 DEF ThreadOfReply
  <2>2. answer[r] = NoThread
    BY <2>1 DEF Inv, RootsAreKnown
  <2>3. PICK t \in Started : t = messages[m].thread
    BY <2>1
  <2>4. AnswerThread(r, t)
    BY <2>1, <2>3
  <2>5. /\ pc' \in [Requests -> Steps]
        /\ answer' \in [Requests -> Started \cup {NoThread}]
        /\ \A q \in Requests \ {r} : pc'[q] = pc[q] /\ answer'[q] = answer[q]
        /\ \/ pc'[r] = "ok" /\ answer'[r] = t
           \/ pc'[r] = "failed" /\ answer'[r] = answer[r]
    BY <2>4, AnswerStep
  <2>6. threads[t].root = RootOf(m)
    BY <2>1, <2>3, RootFacts DEF Inv
  <2>7. /\ source' \in [Requests -> Posted \cup {NoMessage}]
        /\ source'[r] = m
        /\ \A q \in Requests \ {r} : source'[q] = source[q]
    BY <2>1 DEF Inv, TypeOK
  <2>8. /\ target \in [Requests -> MessageIds \cup {NoMessage}]
        /\ text \in [Requests -> Contents]
    BY DEF Inv, TypeOK
  <2> QED
    BY <2>1, <2>2, <2>5, <2>6, <2>7, <2>8, QuietStep
<1>2. ASSUME NEW m \in MessageIds, ThreadRead(r, m)
      PROVE  Inv'
  <2>1. /\ pc[r] = "new" /\ m \in Posted
        /\ source' = [source EXCEPT ![r] = m]
        /\ target' = [target EXCEPT ![r] = RootOf(m)]
        /\ Goto(r, "upsert")
        /\ UNCHANGED <<store, text, answer>>
    BY <1>2 DEF ThreadRead
  <2>2. answer[r] = NoThread
    BY <2>1 DEF Inv, RootsAreKnown
  <2>3. RootOf(m) \in Posted
    BY <2>1, RootFacts DEF Inv
  <2>4. /\ source' \in [Requests -> Posted \cup {NoMessage}]
        /\ source'[r] = m
        /\ target' \in [Requests -> MessageIds \cup {NoMessage}]
        /\ target'[r] = RootOf(m)
        /\ \A q \in Requests \ {r} : source'[q] = source[q] /\ target'[q] = target[q]
    BY <2>1, <2>3 DEF Inv, TypeOK
  <2>5. /\ pc' \in [Requests -> Steps]
        /\ pc'[r] = "upsert"
        /\ \A q \in Requests \ {r} : pc'[q] = pc[q]
    BY <2>1 DEF Inv, TypeOK, Goto, Steps
  <2>6. /\ answer \in [Requests -> Started \cup {NoThread}]
        /\ text \in [Requests -> Contents]
    BY DEF Inv, TypeOK
  <2> QED
    BY <2>1, <2>2, <2>3, <2>4, <2>5, <2>6, QuietStep
<1>3. ASSUME NEW t \in ThreadIds, ThreadFound(r, t)
      PROVE  Inv'
  <2>1. /\ pc[r] = "upsert" /\ t \in Started /\ threads[t].root = target[r]
        /\ AnswerThread(r, t)
        /\ UNCHANGED <<store, target, text, source>>
    BY <1>3 DEF ThreadFound
  <2>2. source[r] \in Posted /\ target[r] = RootOf(source[r]) /\ answer[r] = NoThread
    BY <2>1 DEF Inv, RootsAreKnown
  <2>3. /\ pc' \in [Requests -> Steps]
        /\ answer' \in [Requests -> Started \cup {NoThread}]
        /\ \A q \in Requests \ {r} : pc'[q] = pc[q] /\ answer'[q] = answer[q]
        /\ \/ pc'[r] = "ok" /\ answer'[r] = t
           \/ pc'[r] = "failed" /\ answer'[r] = answer[r]
    BY <2>1, AnswerStep
  <2>4. /\ target \in [Requests -> MessageIds \cup {NoMessage}]
        /\ text \in [Requests -> Contents]
        /\ source \in [Requests -> Posted \cup {NoMessage}]
    BY DEF Inv, TypeOK
  <2> QED
    BY <2>1, <2>2, <2>3, <2>4, QuietStep
<1> QED
  BY <1>1, <1>2, <1>3

LEMMA InitInv == Init => Inv
BY MessagesAssumption DEF Init, Inv, TypeOK, ThreadsAreFlat, LatestIsLast,
     OneThreadPerRoot, RootsAreKnown, Posted, Started, MessageRow, ThreadRow, Steps, Contents

LEMMA NextInv == Inv /\ [Next]_vars => Inv'
<1> SUFFICES ASSUME Inv, [Next]_vars PROVE Inv'
  OBVIOUS
<1>1. CASE Write
  <2>1. PICK u \in Users, m \in MessageIds, words \in Texts :
          \/ \E c \in Channels : Send(u, m, c, words)
          \/ \E t \in ThreadIds : Reply(u, m, t, words)
    BY <1>1 DEF Write
  <2>2. ASSUME NEW c \in Channels, Send(u, m, c, words) PROVE Inv'
    <3> DEFINE row == [channel |-> c, author |-> u, sequence |-> latest[c] + 1,
                       thread |-> NoThread, parent |-> NoMessage,
                       content |-> words, deleted |-> FALSE]
    <3>1. latest[c] \in Nat
      BY DEF Inv, TypeOK
    <3>2. /\ row \in MessageRow /\ row.sequence = latest[row.channel] + 1
          /\ row.thread = NoThread /\ row.parent = NoMessage /\ row.channel = c
      BY <3>1 DEF MessageRow, Contents
    <3>3. /\ m \notin Posted
          /\ messages' = WithRow(messages, m, row)
          /\ latest' = [latest EXCEPT ![c] = @ + 1]
          /\ UNCHANGED <<threads, call, source, answer>>
      BY <2>2 DEF Send
    <3> HIDE DEF row
    <3> QED
      BY <3>2, <3>3, PostStep
  <2>3. ASSUME NEW t \in ThreadIds, Reply(u, m, t, words) PROVE Inv'
    <3> DEFINE c == threads[t].channel
               row == [channel |-> c, author |-> u, sequence |-> latest[c] + 1,
                       thread |-> t, parent |-> threads[t].root,
                       content |-> words, deleted |-> FALSE]
    <3>1. t \in Started
      BY <2>3 DEF Reply
    <3>2. c \in Channels /\ threads[t].root \in MessageIds
      BY <3>1 DEF Inv, TypeOK, ThreadRow
    <3>3. latest[c] \in Nat
      BY <3>2 DEF Inv, TypeOK
    <3>4. /\ row \in MessageRow /\ row.sequence = latest[row.channel] + 1
          /\ row.thread = t /\ row.parent = threads[t].root /\ row.channel = c
      BY <3>2, <3>3 DEF MessageRow, Contents
    <3>5. /\ m \notin Posted
          /\ messages' = WithRow(messages, m, row)
          /\ latest' = [latest EXCEPT ![c] = @ + 1]
          /\ UNCHANGED <<threads, call, source, answer>>
      BY <2>3 DEF Reply
    <3> HIDE DEF row
    <3> QED
      BY <3>1, <3>4, <3>5, PostStep
  <2> QED
    BY <2>1, <2>2, <2>3
<1>2. ASSUME NEW r \in Requests, Change(r) PROVE Inv'
  <2>1. ASSUME NEW u \in Users, NEW m \in MessageIds, DeleteRead(r, u, m) PROVE Inv'
    <3>1. text \in [Requests -> Contents]
      BY DEF Inv, TypeOK
    <3> QED
      BY <2>1, <3>1, ReadStep DEF DeleteRead
  <2>2. ASSUME NEW u \in Users, NEW m \in MessageIds, NEW words \in Texts,
               EditRead(r, u, m, words)
        PROVE  Inv'
    <3>1. text' \in [Requests -> Contents]
      BY <2>2 DEF EditRead, Inv, TypeOK, Contents
    <3> QED
      BY <2>2, <3>1, ReadStep DEF EditRead
  <2>3. CASE EditWrite(r)
    <3>1. pc[r] = "edit" /\ target[r] \in Posted /\ text[r] \in Contents
      BY <2>3 DEF EditWrite, Inv, TypeOK
    <3>2. messages[target[r]].deleted \in BOOLEAN
      BY <3>1 DEF Inv, TypeOK, MessageRow
    <3> QED
      BY <2>3, <3>1, <3>2, RewriteKeeps DEF EditWrite
  <2>4. CASE DeleteWrite(r)
    <3>1. Tombstone \in Contents
      BY DEF Contents
    <3> QED
      BY <2>4, <3>1, RewriteKeeps DEF DeleteWrite
  <2> QED
    BY <1>2, <2>1, <2>2, <2>3, <2>4 DEF Change
<1>3. ASSUME NEW r \in Requests, StartThread(r) PROVE Inv'
  BY <1>3, OpenStep, ThreadStep DEF StartThread
<1>4. ASSUME NEW r \in Requests, Fail(r) PROVE Inv'
  <2>1. /\ pc[r] \in {"edit", "delete", "upsert"}
        /\ UNCHANGED <<store, target, text, source, answer>>
    BY <1>4 DEF Fail
  <2>2. /\ pc' \in [Requests -> Steps]
        /\ pc'[r] = "failed"
        /\ \A q \in Requests \ {r} : pc'[q] = pc[q]
    BY <1>4 DEF Fail, Goto, Inv, TypeOK, Steps
  <2>3. answer[r] = NoThread
    BY <2>1 DEF Inv, RootsAreKnown
  <2>4. /\ target \in [Requests -> MessageIds \cup {NoMessage}]
        /\ text \in [Requests -> Contents]
        /\ source \in [Requests -> Posted \cup {NoMessage}]
        /\ answer \in [Requests -> Started \cup {NoThread}]
    BY DEF Inv, TypeOK
  <2> QED
    BY <2>1, <2>2, <2>3, <2>4, QuietStep
<1>5. CASE UNCHANGED vars
  <2>1. /\ messages' = messages /\ threads' = threads /\ latest' = latest
        /\ pc' = pc /\ target' = target /\ text' = text
        /\ source' = source /\ answer' = answer
    BY <1>5 DEF vars, store, call
  <2>2. Posted' = Posted /\ Started' = Started
    BY <2>1 DEF Posted, Started
  <2>3. TypeOK' /\ ThreadsAreFlat' /\ LatestIsLast' /\ OneThreadPerRoot'
    BY <2>1, <2>2 DEF Inv, TypeOK, ThreadsAreFlat, LatestIsLast, OneThreadPerRoot
  <2>4. RootsAreKnown'
    BY <2>1, <2>2 DEF Inv, RootsAreKnown, RootOf
  <2> QED
    BY <2>3, <2>4 DEF Inv
<1> QED
  BY <1>1, <1>2, <1>3, <1>4, <1>5 DEF Next

LEMMA Invariance == Spec => []Inv
BY InitInv, NextInv, PTL DEF Spec

\* A deleted message that no edit is about stays so and says nothing new.
LEMMA SealedStep ==
  ASSUME Inv, [Next]_vars, NEW m \in Posted, Sealed(m)
  PROVE  Sealed(m)' /\ messages'[m].content \in {messages[m].content, Tombstone}
<1>1. messages[m].deleted /\ \A r \in Requests : ~(pc[r] = "edit" /\ target[r] = m)
  BY DEF Sealed
<1>2. pc \in [Requests -> Steps] /\ target \in [Requests -> MessageIds \cup {NoMessage}]
  BY DEF Inv, TypeOK
<1>3. SUFFICES /\ messages'[m].deleted
               /\ messages'[m].content \in {messages[m].content, Tombstone}
               /\ \A q \in Requests : ~(pc'[q] = "edit" /\ target'[q] = m)
  BY DEF Sealed
<1>4. ASSUME UNCHANGED <<pc, target>>
      PROVE  \A q \in Requests : ~(pc'[q] = "edit" /\ target'[q] = m)
  BY <1>1, <1>4
<1>5. ASSUME NEW r \in Requests, NEW step \in Steps \ {"edit"}, Goto(r, step),
             \A q \in Requests \ {r} : target'[q] = target[q]
      PROVE  \A q \in Requests : ~(pc'[q] = "edit" /\ target'[q] = m)
  <2>1. /\ pc'[r] = step
        /\ \A q \in Requests \ {r} : pc'[q] = pc[q]
    BY <1>2, <1>5 DEF Goto
  <2> QED
    BY <1>1, <1>5, <2>1
<1>6. CASE Write
  <2>1. messages'[m] = messages[m] /\ UNCHANGED <<pc, target>>
    BY <1>6 DEF Write, Send, Reply, WithRow, Posted, call
  <2> QED
    BY <1>1, <1>4, <2>1
<1>7. ASSUME NEW r \in Requests, Change(r)
      PROVE  /\ messages'[m].deleted
             /\ messages'[m].content \in {messages[m].content, Tombstone}
             /\ \A q \in Requests : ~(pc'[q] = "edit" /\ target'[q] = m)
  <2>1. ASSUME NEW u \in Users, NEW k \in MessageIds, DeleteRead(r, u, k)
        PROVE  /\ messages' = messages
               /\ \A q \in Requests : ~(pc'[q] = "edit" /\ target'[q] = m)
    <3>1. /\ messages' = messages /\ Goto(r, "delete")
          /\ \A q \in Requests \ {r} : target'[q] = target[q]
      BY <1>2, <2>1 DEF DeleteRead, store
    <3>2. "delete" \in Steps \ {"edit"}
      BY DEF Steps
    <3> QED
      BY <1>5, <3>1, <3>2
  <2>2. ASSUME NEW u \in Users, NEW k \in MessageIds, NEW words \in Texts,
               EditRead(r, u, k, words)
        PROVE  /\ messages' = messages
               /\ \A q \in Requests : ~(pc'[q] = "edit" /\ target'[q] = m)
    <3>1. /\ messages' = messages /\ k # m
          /\ pc' = [pc EXCEPT ![r] = "edit"]
          /\ target' = [target EXCEPT ![r] = k]
      BY <1>1, <2>2 DEF EditRead, store, Goto
    <3> QED
      BY <1>1, <1>2, <3>1
  <2>3. ASSUME NEW k \in Posted, NEW words \in Contents, NEW gone \in BOOLEAN,
               Rewrite(k, words, gone), k # m \/ (gone /\ words = Tombstone)
        PROVE  /\ messages'[m].deleted
               /\ messages'[m].content \in {messages[m].content, Tombstone}
    <3>1. Posted \subseteq MessageIds /\ messages \in [Posted -> MessageRow]
      BY DEF Inv, TypeOK
    <3>2. /\ messages'[k].content = words /\ messages'[k].deleted = gone
          /\ \A x \in Posted : x # k => messages'[x] = messages[x]
      BY <2>3, <3>1, RewriteStep
    <3> QED
      BY <1>1, <2>3, <3>2
  <2>4. ASSUME Finish(r), UNCHANGED target
        PROVE  \A q \in Requests : ~(pc'[q] = "edit" /\ target'[q] = m)
    <3>1. /\ pc'[r] \in {"ok", "failed"}
          /\ \A q \in Requests \ {r} : pc'[q] = pc[q]
      BY <1>2, <2>4, FinishStep
    <3> QED
      BY <1>1, <2>4, <3>1
  <2>5. CASE EditWrite(r)
    <3>1. PICK k \in Posted : k = target[r]
      BY <2>5 DEF EditWrite, Inv, TypeOK
    <3>2. PICK words \in Contents : words = text[r]
      BY DEF Inv, TypeOK
    <3>3. PICK gone \in BOOLEAN : gone = messages[k].deleted
      BY DEF Inv, TypeOK, MessageRow
    <3>4. k # m /\ Rewrite(k, words, gone) /\ Finish(r) /\ UNCHANGED target
      BY <1>1, <2>5, <3>1, <3>2, <3>3 DEF EditWrite
    <3> QED
      BY <2>3, <2>4, <3>4
  <2>6. CASE DeleteWrite(r)
    <3>1. PICK k \in Posted : k = target[r]
      BY <2>6 DEF DeleteWrite, Inv, TypeOK
    <3>2. Rewrite(k, Tombstone, TRUE) /\ Finish(r) /\ UNCHANGED target
      BY <2>6, <3>1 DEF DeleteWrite
    <3>3. Tombstone \in Contents
      BY DEF Contents
    <3> QED
      BY <2>3, <2>4, <3>2, <3>3
  <2> QED
    BY <1>1, <1>7, <2>1, <2>2, <2>5, <2>6 DEF Change
<1>8. ASSUME NEW r \in Requests, StartThread(r) \/ Fail(r)
      PROVE  /\ messages' = messages
             /\ \A q \in Requests : ~(pc'[q] = "edit" /\ target'[q] = m)
  <2>1. PICK step \in Steps \ {"edit"} : Goto(r, step)
    BY <1>8 DEF StartThread, Fail, ThreadOfReply, ThreadRead, ThreadFound, ThreadCreate,
       AnswerThread, Steps
  <2>2. /\ messages' = messages
        /\ \A q \in Requests \ {r} : target'[q] = target[q]
    BY <1>2, <1>8 DEF StartThread, Fail, ThreadOfReply, ThreadRead, ThreadFound,
       ThreadCreate, store
  <2> QED
    BY <1>5, <2>1, <2>2
<1>9. CASE UNCHANGED vars
  <2>1. messages' = messages /\ UNCHANGED <<pc, target>>
    BY <1>9 DEF vars, store, call
  <2> QED
    BY <1>1, <1>4, <2>1
<1> QED
  BY <1>1, <1>6, <1>7, <1>8, <1>9 DEF Next

-------------------------------------------------------------------------------
(* The theorems *)

\* Rows and local variables keep their types, and calls are about messages
\* that exist.
THEOREM TypeCorrect == Spec => []TypeOK
<1>1. Inv => TypeOK
  BY DEF Inv
<1> QED
  BY <1>1, Invariance, PTL

\* Threads do not nest, and replies stand in the channel of their thread, under
\* its root and after it.
THEOREM FlatThreads == Spec => []ThreadsAreFlat
<1>1. Inv => ThreadsAreFlat
  BY DEF Inv
<1> QED
  BY <1>1, Invariance, PTL

\* Calls of createThread about one conversation are answered with one thread.
THEOREM OneConversation == Spec => []AnswersAgree
<1>1. Inv => AnswersAgree
  <2> SUFFICES ASSUME Inv, NEW r \in Requests, NEW q \in Requests,
                      answer[r] # NoThread, answer[q] # NoThread,
                      RootOf(source[r]) = RootOf(source[q])
               PROVE  answer[r] = answer[q]
    BY DEF AnswersAgree
  <2>1. answer[r] \in Started /\ answer[q] \in Started
    BY DEF Inv, TypeOK
  <2>2. threads[answer[r]].root = threads[answer[q]].root
    BY DEF Inv, RootsAreKnown
  <2> QED
    BY <2>1, <2>2 DEF Inv, OneThreadPerRoot
<1> QED
  BY <1>1, Invariance, PTL

\* Once the edits that saw a message before its deletion are through, it stays
\* deleted and says nothing new.
THEOREM DeletedForGood == Spec => SealedIsFinal
<1>1. Inv /\ [Next]_vars =>
        [\A m \in Posted :
           Sealed(m) => /\ Sealed(m)'
                        /\ messages'[m].content \in {messages[m].content, Tombstone}]_vars
  BY SealedStep
<1> QED
  BY <1>1, Invariance, PTL DEF Spec, SealedIsFinal

===============================================================================
