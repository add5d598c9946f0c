------------------------------- MODULE Messages -------------------------------
(***************************************************************************)
(* The life of messages after they are posted, in messaging-service: edits *)
(* and deletions by their authors, and the threads that hang from them.    *)
(* A handler checks the message in one round trip and writes in a later    *)
(* one. How a message gets its sequence number is the subject of Posting:  *)
(* here it is taken in the step that stores the message. A call that is    *)
(* refused at its first reads, by the access check or for an empty text,   *)
(* changes nothing and is no action; no row is ever removed.               *)
(***************************************************************************)
EXTENDS Integers

CONSTANTS
  MessageIds,
  ThreadIds,
  Channels,
  Users,
  Texts,      \* what messages say
  Tombstone,  \* the content of a deleted message, '[deleted]'
  Requests,   \* calls of editMessage, deleteMessage and createThread
  NoThread, NoMessage

ASSUME MessagesAssumption ==
  /\ NoThread \notin ThreadIds
  /\ NoMessage \notin MessageIds

VARIABLES
  messages,  \* Message rows
  threads,   \* Thread rows
  latest,    \* highest sequence number of a channel
  pc,        \* the next round trip of a call
  target,    \* the message a call is about; of createThread, later the root
  text,      \* the content an edit brings
  source,    \* history: the message createThread was called with
  answer     \* the thread createThread answered with

store == <<messages, threads, latest>>
call  == <<pc, target, text>>
vars  == <<store, call, source, answer>>

Contents == Texts \cup {Tombstone}

MessageRow ==
  [channel : Channels, author : Users, sequence : Nat, thread : ThreadIds \cup {NoThread},
   parent : MessageIds \cup {NoMessage}, content : Contents, deleted : BOOLEAN]
ThreadRow == [root : MessageIds, channel : Channels]

Posted  == DOMAIN messages
Started == DOMAIN threads

Steps == {"new", "edit", "delete", "upsert", "ok", "failed"}

Init ==
  /\ messages = [m \in {} |-> <<>>]
  /\ threads = [t \in {} |-> <<>>]
  /\ latest = [c \in Channels |-> 0]
  /\ pc = [r \in Requests |-> "new"]
  /\ target = [r \in Requests |-> NoMessage]
  /\ text = [r \in Requests |-> Tombstone]
  /\ source = [r \in Requests |-> NoMessage]
  /\ answer = [r \in Requests |-> NoThread]

Goto(r, step) == pc' = [pc EXCEPT ![r] = step]

\* the message is read once more for the answer: its effect stays if that fails
Finish(r) == \E outcome \in {"ok", "failed"} : Goto(r, outcome)

\* f with the pair k :> v
WithRow(f, k, v) == [x \in DOMAIN f \cup {k} |-> IF x = k THEN v ELSE f[x]]

\* the message a thread about m hangs from ("parentMessageId ?? id")
RootOf(m) == IF messages[m].parent = NoMessage THEN m ELSE messages[m].parent

\* update by id
Rewrite(m, words, gone) ==
  messages' = [messages EXCEPT ![m].content = words, ![m].deleted = gone]

\* createThread answers with thread t
AnswerThread(r, t) ==
  \/ Goto(r, "ok") /\ answer' = [answer EXCEPT ![r] = t]
  \/ Goto(r, "failed") /\ UNCHANGED answer

-------------------------------------------------------------------------------
(* Plausible mistakes. None of them is part of Next: each variant is what a  *)
(* property of this module is there to tell apart from the action it alters. *)

\* wrong: only authors are checked
EditReadDeletedToo(r, u, m, words) ==
  /\ pc[r] = "new"
  /\ m \in Posted
  /\ messages[m].author = u
  /\ target' = [target EXCEPT ![r] = m]
  /\ text' = [text EXCEPT ![r] = words]
  /\ Goto(r, "edit")
  /\ UNCHANGED <<store, source, answer>>

\* wrong: a thread about a reply hangs from the reply
ThreadReadAnyRoot(r, m) ==
  /\ pc[r] = "new"
  /\ m \in Posted
  /\ source' = [source EXCEPT ![r] = m]
  /\ target' = [target EXCEPT ![r] = m]
  /\ Goto(r, "upsert")
  /\ UNCHANGED <<store, text, answer>>

\* wrong: the thread is created without looking for one
ThreadCreateAnyway(r, t) ==
  /\ pc[r] = "upsert"
  /\ t \notin Started
  /\ threads' =
       WithRow(threads, t, [root |-> target[r], channel |-> messages[target[r]].channel])
  /\ AnswerThread(r, t)
  /\ UNCHANGED <<messages, latest, target, text, source>>

\* wrong: a reply is filed under no thread
ReplyUnfiled(u, m, t, words) ==
  /\ m \notin Posted
  /\ t \in Started
  /\ messages' = WithRow(messages, m,
       [channel |-> threads[t].channel, author |-> u,
        sequence |-> latest[threads[t].channel] + 1, thread |-> t, parent |-> NoMessage,
        content |-> words, deleted |-> FALSE])
  /\ latest' = [latest EXCEPT ![threads[t].channel] = @ + 1]
  /\ UNCHANGED <<threads, call, source, answer>>

\* wrong: the message is deleted by its id, without a look at it
DeleteReadUnchecked(r, u, m) ==
  /\ pc[r] = "new"
  /\ target' = [target EXCEPT ![r] = m]
  /\ Goto(r, "delete")
  /\ UNCHANGED <<store, text, source, answer>>

-------------------------------------------------------------------------------
(* Messages *)

\* sendMessage outside of threads
Send(u, m, c, words) ==
  /\ m \notin Posted
  /\ messages' = WithRow(messages, m,
       [channel |-> c, author |-> u, sequence |-> latest[c] + 1, thread |-> NoThread,
        parent |-> NoMessage, content |-> words, deleted |-> FALSE])
  /\ latest' = [latest EXCEPT ![c] = @ + 1]
  /\ UNCHANGED <<threads, call, source, answer>>

\* replyInThread, and sendMessage with a threadId: thread rows never change, so
\* it does not matter that the thread is read in an earlier round trip
Reply(u, m, t, words) ==
  /\ m \notin Posted
  /\ t \in Started
  /\ messages' = WithRow(messages, m,
       [channel |-> threads[t].channel, author |-> u,
        sequence |-> latest[threads[t].channel] + 1, thread |-> t,
        parent |-> threads[t].root, content |-> words, deleted |-> FALSE])
  /\ latest' = [latest EXCEPT ![threads[t].channel] = @ + 1]
  /\ UNCHANGED <<threads, call, source, answer>>

\* editMessage: only the author, and not when the message is deleted
EditRead(r, u, m, words) ==
  /\ pc[r] = "new"
  /\ m \in Posted
  /\ messages[m].author = u
  /\ ~messages[m].deleted
  /\ target' = [target EXCEPT ![r] = m]
  /\ text' = [text EXCEPT ![r] = words]
  /\ Goto(r, "edit")
  /\ UNCHANGED <<store, source, answer>>

EditWrite(r) ==
  /\ pc[r] = "edit"
  /\ Rewrite(target[r], text[r], messages[target[r]].deleted)
  /\ Finish(r)
  /\ UNCHANGED <<threads, latest, target, text, source, answer>>

\* deleteMessage: only the author, as often as he likes
DeleteRead(r, u, m) ==
  /\ pc[r] = "new"
  /\ m \in Posted
  /\ messages[m].author = u
  /\ target' = [target EXCEPT ![r] = m]
  /\ Goto(r, "delete")
  /\ UNCHANGED <<store, text, source, answer>>

DeleteWrite(r) ==
  /\ pc[r] = "delete"
  /\ Rewrite(target[r], Tombstone, TRUE)
  /\ Finish(r)
  /\ UNCHANGED <<threads, latest, target, text, source, answer>>

-------------------------------------------------------------------------------
(* createThread *)

\* the message is a reply: its thread is the answer
ThreadOfReply(r, m) ==
  /\ pc[r] = "new"
  /\ m \in Posted
  /\ messages[m].thread \in Started
  /\ source' = [source EXCEPT ![r] = m]
  /\ AnswerThread(r, messages[m].thread)
  /\ UNCHANGED <<store, target, text>>

\* the message is no reply: the root is found next
ThreadRead(r, m) ==
  /\ pc[r] = "new"
  /\ m \in Posted
  /\ messages[m].thread \notin Started
  /\ source' = [source EXCEPT ![r] = m]
  /\ target' = [target EXCEPT ![r] = RootOf(m)]
  /\ Goto(r, "upsert")
  /\ UNCHANGED <<store, text, answer>>

\* the upsert finds the thread that another call has created meanwhile
ThreadFound(r, t) ==
  /\ pc[r] = "upsert"
  /\ t \in Started
  /\ threads[t].root = target[r]
  /\ AnswerThread(r, t)
  /\ UNCHANGED <<store, target, text, source>>

\* or creates it: one INSERT ... ON CONFLICT on the unique rootMessageId
ThreadCreate(r, t) ==
  /\ pc[r] = "upsert"
  /\ t \notin Started
  /\ \A s \in Started : threads[s].root # target[r]
  /\ threads' =
       WithRow(threads, t, [root |-> target[r], channel |-> messages[target[r]].channel])
  /\ AnswerThread(r, t)
  /\ UNCHANGED <<messages, latest, target, text, source>>

-------------------------------------------------------------------------------

\* a round trip throws or the process dies between two of them
Fail(r) ==
  /\ pc[r] \in {"edit", "delete", "upsert"}
  /\ Goto(r, "failed")
  /\ UNCHANGED <<store, target, text, source, answer>>

Write ==
  \E u \in Users, m \in MessageIds, words \in Texts :
    \/ \E c \in Channels : Send(u, m, c, words)
    \/ \E t \in ThreadIds : Reply(u, m, t, words)

Change(r) ==
  \/ \E u \in Users, m \in MessageIds :
       DeleteRead(r, u, m) \/ \E words \in Texts : EditRead(r, u, m, words)
  \/ EditWrite(r) \/ DeleteWrite(r)

StartThread(r) ==
  \/ \E m \in MessageIds : ThreadOfReply(r, m) \/ ThreadRead(r, m)
  \/ \E t \in ThreadIds : ThreadFound(r, t) \/ ThreadCreate(r, t)

Next == Write \/ \E r \in Requests : Change(r) \/ StartThread(r) \/ Fail(r)

Spec == Init /\ [][Next]_vars

-------------------------------------------------------------------------------
(* Properties *)

\* Types, and the local variables: a call that goes on is about a message that
\* was posted, for no message is ever removed.
TypeOK ==
  /\ Posted \subseteq MessageIds /\ messages \in [Posted -> MessageRow]
  /\ Started \subseteq ThreadIds /\ threads \in [Started -> ThreadRow]
  /\ latest \in [Channels -> Nat]
  /\ pc \in [Requests -> Steps]
  /\ target \in [Requests -> MessageIds \cup {NoMessage}]
  /\ text \in [Requests -> Contents]
  /\ source \in [Requests -> Posted \cup {NoMessage}]
  /\ answer \in [Requests -> Started \cup {NoThread}]
  /\ \A r \in Requests : pc[r] \in {"edit", "delete", "upsert"} => target[r] \in Posted

\* Threads do not nest: a thread hangs from a message that is no reply, and a
\* reply is in the channel of its thread, under its root and after it, from
\* whatever message of the conversation the thread was opened.
ThreadsAreFlat ==
  /\ \A t \in Started :
       /\ threads[t].root \in Posted
       /\ messages[threads[t].root].thread = NoThread
       /\ messages[threads[t].root].channel = threads[t].channel
  /\ \A m \in Posted :
       IF messages[m].thread = NoThread
       THEN messages[m].parent = NoMessage
       ELSE /\ messages[m].thread \in Started
            /\ messages[m].parent = threads[messages[m].thread].root
            /\ messages[m].channel = threads[messages[m].thread].channel
            /\ messages[messages[m].parent].sequence < messages[m].sequence

\* All who open a thread on a message or on one of its replies get the same
\* thread, however their calls interleave.
AnswersAgree ==
  \A r, q \in Requests :
    /\ answer[r] # NoThread /\ answer[q] # NoThread
    /\ RootOf(source[r]) = RootOf(source[q])
    => answer[r] = answer[q]

\* m is deleted and no edit that saw it before is still under way
Sealed(m) ==
  /\ messages[m].deleted
  /\ \A r \in Requests : ~(pc[r] = "edit" /\ target[r] = m)

\* Once the edits that were under way are through, a deleted message never
\* says anything new: none can start, and nothing undoes the deletion.
SealedIsFinal ==
  [][\A m \in Posted :
       Sealed(m) => /\ Sealed(m)'
                    /\ messages'[m].content \in {messages[m].content, Tombstone}]_vars

\* messaging.service.ts:147: "Cannot edit deleted message". The words of a
\* deleted message are gone.
DeletedSaysNothing == \A m \in Posted : messages[m].deleted => messages[m].content = Tombstone
===============================================================================
