----------------------------- MODULE Attachments -----------------------------
(***************************************************************************)
(* The files of a workspace. file-service registers and removes them, and  *)
(* messaging-service writes the same rows when a message is sent with      *)
(* files. Every call reads in one round trip and writes in a later one.    *)
(* All users are members of the workspace and of its channels; a call that *)
(* is refused at its first reads changes nothing and is no action.         *)
(***************************************************************************)
EXTENDS Integers, FiniteSets

CONSTANTS
  Files, Users, Admins,
  Channels,
  Requests,      \* calls of upload, remove and sendMessage
  NoChannel, NoMessage, NoUser

AttachmentsAssumption ==
  /\ Admins \subseteq Users /\ NoUser \notin Users
  /\ NoChannel \notin Channels /\ NoMessage \notin Requests

VARIABLES
  files,     \* File rows
  messages,  \* Message rows, by the sendMessage that stored them
  pc,        \* the next round trip of a call
  user,      \* its caller
  place,     \* the channel and the message it names
  wanted,    \* the files it names, later those it may write
  \* history
  removed    \* files whose removal was answered

vars == <<files, messages, pc, user, place, wanted, removed>>

File    == [uploader : Users, channel : Channels \cup {NoChannel},
            message : Requests \cup {NoMessage}, deleted : BOOLEAN]
Message == [author : Users, channel : Channels]
Place   == [channel : Channels \cup {NoChannel}, message : Requests \cup {NoMessage}]
Nowhere == [channel |-> NoChannel, message |-> NoMessage]

Stored == DOMAIN files
Sent   == DOMAIN messages

Init ==
  /\ files = [f \in {} |-> Nowhere] /\ messages = [m \in {} |-> Nowhere]
  /\ pc = [r \in Requests |-> "new"] /\ user = [r \in Requests |-> NoUser]
  /\ place = [r \in Requests |-> Nowhere] /\ wanted = [r \in Requests |-> {}]
  /\ removed = {}

Begin(r, step, u, p, fs) ==
  /\ pc[r] = "new" /\ pc' = [pc EXCEPT ![r] = step]
  /\ user' = [user EXCEPT ![r] = u]
  /\ place' = [place EXCEPT ![r] = p]
  /\ wanted' = [wanted EXCEPT ![r] = fs]

\* an answer may be lost: what was written stays
Finish(r) == \E outcome \in {"ok", "failed"} : pc' = [pc EXCEPT ![r] = outcome]

-------------------------------------------------------------------------------
(* Plausible mistakes: not part of the system. *)

\* the channel of the message is not compared with the one that is named
MessageIsIn(m, c) == m \in Sent

\* the rows of whoever sends the message, and all the others it names
AllowedToAll(r) == wanted[r] \cap Stored

\* the channel stays the one of the upload
MovedInPlace(f, m) == [files[f] EXCEPT !.message = m]

\* a row that is written is taken to be there
Revived(f, m) == [files[f] EXCEPT !.message = m, !.channel = messages[m].channel,
                                  !.deleted = FALSE]

-------------------------------------------------------------------------------
(* file-service *)

\* ensureMessage
MessageFits(m, c) == m \in Sent /\ (c = NoChannel \/ messages[m].channel = c)

UploadCheck(r, u, c, m) ==
  /\ m = NoMessage \/ MessageFits(m, c)
  /\ Begin(r, "create", u, [channel |-> c, message |-> m], {})
  /\ UNCHANGED <<files, messages, removed>>

UploadCreate(r, f) ==
  /\ pc[r] = "create" /\ f \notin Stored
  /\ files' = [g \in Stored \cup {f} |->
       IF g = f THEN [uploader |-> user[r], channel |-> place[r].channel,
                      message |-> place[r].message, deleted |-> FALSE]
       ELSE files[g]]
  /\ Finish(r)
  /\ UNCHANGED <<messages, user, place, wanted, removed>>

\* canDeleteFile
MayDelete(u, f) == u = files[f].uploader \/ u \in Admins

RemoveCheck(r, u, f) ==
  /\ f \in Stored /\ ~files[f].deleted /\ MayDelete(u, f)
  /\ Begin(r, "remove", u, Nowhere, {f})
  /\ UNCHANGED <<files, messages, removed>>

RemoveApply(r, f) ==
  /\ pc[r] = "remove" /\ f \in wanted[r]
  /\ files' = [files EXCEPT ![f].deleted = TRUE]
  /\ removed' = removed \cup {f}
  /\ Finish(r)
  /\ UNCHANGED <<messages, user, place, wanted>>

-------------------------------------------------------------------------------
(* sendMessage with files *)

Send(r, u, c, fs) ==
  /\ Begin(r, "find", u, [channel |-> c, message |-> r], fs)
  /\ messages' = [m \in Sent \cup {r} |->
       IF m = r THEN [author |-> u, channel |-> c] ELSE messages[m]]
  /\ UNCHANGED <<files, removed>>

\* attachFilesToMessage: the sender's own, the removed ones too
Allowed(r) == {f \in wanted[r] \cap Stored : files[f].uploader = user[r]}

Find(r) ==
  /\ pc[r] = "find" /\ pc' = [pc EXCEPT ![r] = "attach"]
  /\ wanted' = [wanted EXCEPT ![r] = Allowed(r)]
  /\ UNCHANGED <<files, messages, user, place, removed>>

Moved(f, m) == [files[f] EXCEPT !.message = m, !.channel = messages[m].channel]

\* updateMany, whatever was done to the rows meanwhile
Attach(r) ==
  /\ pc[r] = "attach"
  /\ files' = [f \in Stored |-> IF f \in wanted[r] THEN Moved(f, r) ELSE files[f]]
  /\ Finish(r)
  /\ UNCHANGED <<messages, user, place, wanted, removed>>

\* the message stays, without its files; a retry sends another one
SendFails(r) ==
  /\ pc[r] \in {"find", "attach"} /\ pc' = [pc EXCEPT ![r] = "failed"]
  /\ UNCHANGED <<files, messages, user, place, wanted, removed>>

-------------------------------------------------------------------------------
Next ==
  \E r \in Requests :
    \/ \E u \in Users, c \in Channels : \/ \E fs \in SUBSET Files : Send(r, u, c, fs)
                                        \/ \E m \in Sent \cup {NoMessage} : UploadCheck(r, u, c, m)
    \/ \E u \in Users, m \in Sent \cup {NoMessage} : UploadCheck(r, u, NoChannel, m)
    \/ \E f \in Files : \/ UploadCreate(r, f) \/ RemoveApply(r, f)
                        \/ \E u \in Users : RemoveCheck(r, u, f)
    \/ Find(r) \/ Attach(r) \/ SendFails(r)

Spec == Init /\ [][Next]_vars

-------------------------------------------------------------------------------
TypeOK ==
  /\ Stored \subseteq Files /\ \A f \in Stored : files[f] \in File
  /\ Sent \subseteq Requests /\ \A m \in Sent : messages[m] \in Message
  /\ pc \in [Requests -> {"new", "create", "remove", "find", "attach", "ok", "failed"}]
  /\ user \in [Requests -> Users \cup {NoUser}] /\ place \in [Requests -> Place]
  /\ wanted \in [Requests -> SUBSET Files] /\ removed \subseteq Files

\* A file that has a message and a channel has the channel of that message,
\* although two services write the two columns (FS 19-36, MS 994-1002)
FileFollowsMessage ==
  \A f \in Stored : files[f].message # NoMessage /\ files[f].channel # NoChannel
    => messages[files[f].message].channel = files[f].channel

\* A removed file is not brought back by a send that had read it before
RemovedStaysRemoved == \A f \in removed : files[f].deleted

\* A message that was answered has the files of its sender it was sent with. A
\* file that is not there any more is at the message of another send that named
\* it and has written: attachFilesToMessage asks only whose the file is, so the
\* same user's next send takes it along (MS 78-86, 964-1003)
SentWithItsFiles ==
  \A r \in Sent : pc[r] = "ok" => \A f \in wanted[r] :
    LET m == files[f].message IN
      /\ files[f].uploader = messages[r].author
      /\ m # r => /\ m \in Sent /\ pc[m] \in {"ok", "failed"} /\ f \in wanted[m]
                  /\ messages[m].author = messages[r].author

FilesAreTrue == FileFollowsMessage /\ RemovedStaysRemoved /\ SentWithItsFiles
=============================================================================
