------------------------------- MODULE Channels -------------------------------
(***************************************************************************)
(* The channels of one workspace, as channel-service keeps them: who is in  *)
(* them, and the find-or-create of direct channels. join, leave, archive    *)
(* and create read only what never changes (type, creator) or never ends    *)
(* (membership of the workspace) before their one write, so each is one     *)
(* step. createDirectChannel is the exception: it looks, inserts, and looks *)
(* again when the unique name is taken. Roles are the subject of            *)
(* WorkspaceInvites: here those who manage the workspace are a constant.    *)
(***************************************************************************)
CONSTANTS
  Users,
  Founders,    \* members of the workspace from the start
  Managers,    \* owners and admins, where they are members
  ChannelIds,
  PlainNames,  \* names of channels, other than 'dm:...'
  Requests,    \* calls of createDirectChannel
  NoChannel, Nobody

ASSUME ChannelsAssumption ==
  /\ Founders \subseteq Users
  /\ NoChannel \notin ChannelIds
  /\ Nobody \notin Users

VARIABLES
  channels,  \* Channel rows, without their members
  members,   \* ChannelMember rows: the users in a channel
  people,    \* the members of the workspace
  pc,        \* the next round trip of a call of createDirectChannel
  from, to,  \* who calls it, and whom he wants to talk to
  answer     \* the channel it answers with

calls == <<pc, from, to, answer>>
vars  == <<channels, members, people, calls>>

\* directChannelName sorts the two ids: the name is the pair, in no order
DirectName(u, v) == {u, v}
Pairs == UNION {{DirectName(u, v) : v \in Users \ {u}} : u \in Users}
Names == PlainNames \cup Pairs

Types == {"PUBLIC", "PRIVATE", "DIRECT"}
ChannelRow == [name : Names, type : Types, creator : Users, archived : BOOLEAN]

Existing == DOMAIN channels
Directs  == {c \in Existing : channels[c].type = "DIRECT"}
Free(name) == \A c \in Existing : channels[c].name # name

Steps == {"new", "create", "again", "ok", "failed"}

Init ==
  /\ channels = [c \in {} |-> <<>>]
  /\ members = [c \in {} |-> {}]
  /\ people = Founders
  /\ pc = [r \in Requests |-> "new"]
  /\ from = [r \in Requests |-> Nobody]
  /\ to = [r \in Requests |-> Nobody]
  /\ answer = [r \in Requests |-> NoChannel]

\* f with the pair k :> v
WithRow(f, k, v) == [x \in DOMAIN f \cup {k} |-> IF x = k THEN v ELSE f[x]]

\* a channel is inserted together with its members
Insert(c, name, type, creator, group) ==
  /\ channels' = WithRow(channels, c,
       [name |-> name, type |-> type, creator |-> creator, archived |-> FALSE])
  /\ members' = WithRow(members, c, group)

\* ensureWorkspaceUsers
InWorkspace(group) == group \subseteq people

\* wrong, and no part of Next: only channels that the caller has made are found
DirectsMadeBy(u, v) == {c \in Directs : channels[c].creator = u /\ members[c] = {u, v}}

\* findDirectChannel: both users are in it and nobody else is
DirectsOf(u, v) ==
  {c \in Directs : ~channels[c].archived /\ {u, v} \subseteq members[c]
                     /\ members[c] \subseteq {u, v}}

Goto(r, step) == pc' = [pc EXCEPT ![r] = step]

\* createDirectChannel answers with channel c, or the answer is lost
AnswerDirect(r, c) ==
  \/ Goto(r, "ok") /\ answer' = [answer EXCEPT ![r] = c]
  \/ Goto(r, "failed") /\ UNCHANGED answer

-------------------------------------------------------------------------------
(* Plausible mistakes. None of them is part of Next: each variant is what a  *)
(* property of this module is there to tell apart from the action it alters. *)

\* wrong: the users invited to a new channel are not looked up
CreateUnchecked(u, c, name, private, others) ==
  /\ u \in people
  /\ c \notin Existing /\ Free(name)
  /\ Insert(c, name, IF others # {} \/ private THEN "PRIVATE" ELSE "PUBLIC",
            u, {u} \cup others)
  /\ UNCHANGED <<people, calls>>

\* wrong: any channel can be joined but direct ones
JoinPrivateToo(u, c) ==
  /\ c \in Existing \ Directs
  /\ u \in people
  /\ members' = [members EXCEPT ![c] = @ \cup {u}]
  /\ UNCHANGED <<channels, people, calls>>

\* wrong: direct channels can be left like others
LeaveDirectToo(u, c) ==
  /\ c \in Existing
  /\ members' = [members EXCEPT ![c] = @ \ {u}]
  /\ UNCHANGED <<channels, people, calls>>

\* wrong: direct channels can be opened with anybody
AskAnybody(r, u, v) ==
  /\ pc[r] = "new"
  /\ u # v /\ u \in people
  /\ from' = [from EXCEPT ![r] = u]
  /\ to' = [to EXCEPT ![r] = v]

\* wrong: names of direct channels are not unique
DirectInsertAnyway(r, c) ==
  /\ pc[r] = "create"
  /\ c \notin Existing
  /\ Insert(c, DirectName(from[r], to[r]), "DIRECT", from[r], {from[r], to[r]})
  /\ AnswerDirect(r, c)
  /\ UNCHANGED <<people, from, to>>

-------------------------------------------------------------------------------
(* Ordinary channels *)

\* invite or acceptInviteLink: see WorkspaceInvites
Enter(u) ==
  /\ people' = people \cup {u}
  /\ UNCHANGED <<channels, members, calls>>

\* create, with a name of any form that is not taken
Create(u, c, name, private, others) ==
  /\ u \in people
  /\ u \notin others /\ InWorkspace(others)
  /\ c \notin Existing /\ Free(name)
  /\ Insert(c, name, IF others # {} \/ private THEN "PRIVATE" ELSE "PUBLIC",
            u, {u} \cup others)
  /\ UNCHANGED <<people, calls>>

Join(u, c) ==
  /\ c \in Existing
  /\ channels[c].type = "PUBLIC"
  /\ u \in people
  /\ members' = [members EXCEPT ![c] = @ \cup {u}]
  /\ UNCHANGED <<channels, people, calls>>

Leave(u, c) ==
  /\ c \in Existing \ Directs
  /\ members' = [members EXCEPT ![c] = @ \ {u}]
  /\ UNCHANGED <<channels, people, calls>>

Archive(u, c) ==
  /\ c \in Existing \ Directs
  /\ u \in people
  /\ u \in Managers \/ channels[c].creator = u
  /\ channels' = [channels EXCEPT ![c].archived = TRUE]
  /\ UNCHANGED <<members, people, calls>>

-------------------------------------------------------------------------------
(* createDirectChannel *)

Ask(r, u, v) ==
  /\ pc[r] = "new"
  /\ u # v /\ InWorkspace({u, v})
  /\ from' = [from EXCEPT ![r] = u]
  /\ to' = [to EXCEPT ![r] = v]

\* the channel is there
DirectFound(r, u, v) ==
  /\ Ask(r, u, v)
  /\ \E c \in DirectsOf(u, v) : AnswerDirect(r, c)
  /\ UNCHANGED <<channels, members, people>>

DirectMissing(r, u, v) ==
  /\ Ask(r, u, v)
  /\ DirectsOf(u, v) = {}
  /\ Goto(r, "create")
  /\ UNCHANGED <<channels, members, people, answer>>

DirectInsert(r, c) ==
  /\ pc[r] = "create"
  /\ c \notin Existing
  /\ Free(DirectName(from[r], to[r]))
  /\ Insert(c, DirectName(from[r], to[r]), "DIRECT", from[r], {from[r], to[r]})
  /\ AnswerDirect(r, c)
  /\ UNCHANGED <<people, from, to>>

\* P2002: the name is taken
DirectConflict(r) ==
  /\ pc[r] = "create"
  /\ ~Free(DirectName(from[r], to[r]))
  /\ Goto(r, "again")
  /\ UNCHANGED <<channels, members, people, from, to, answer>>

DirectFoundAgain(r) ==
  /\ pc[r] = "again"
  /\ \E c \in DirectsOf(from[r], to[r]) : AnswerDirect(r, c)
  /\ UNCHANGED <<channels, members, people, from, to>>

\* the error is thrown when there is still no channel, and when a round trip fails
DirectFail(r) ==
  /\ pc[r] \in {"create", "again"}
  /\ Goto(r, "failed")
  /\ UNCHANGED <<channels, members, people, from, to, answer>>

-------------------------------------------------------------------------------

Manage(u) ==
  \/ Enter(u)
  \/ \E c \in ChannelIds :
       \/ Join(u, c) \/ Leave(u, c) \/ Archive(u, c)
       \/ \E name \in Names, private \in BOOLEAN, others \in SUBSET Users :
            Create(u, c, name, private, others)

OpenDirect(r) ==
  \/ \E u, v \in Users : DirectFound(r, u, v) \/ DirectMissing(r, u, v)
  \/ \E c \in ChannelIds : DirectInsert(r, c)
  \/ DirectConflict(r) \/ DirectFoundAgain(r) \/ DirectFail(r)

Next == (\E u \in Users : Manage(u)) \/ (\E r \in Requests : OpenDirect(r))

Spec == Init /\ [][Next]_vars

-------------------------------------------------------------------------------
(* Properties *)

\* Types, and the local variables: a call that goes on is made by one member of
\* the workspace about another one.
TypeOK ==
  /\ Existing \subseteq ChannelIds /\ channels \in [Existing -> ChannelRow]
  /\ members \in [Existing -> SUBSET Users]
  /\ people \subseteq Users
  /\ pc \in [Requests -> Steps]
  /\ from \in [Requests -> people \cup {Nobody}]
  /\ to \in [Requests -> people \cup {Nobody}]
  /\ answer \in [Requests -> Existing \cup {NoChannel}]
  /\ \A r \in Requests :
       pc[r] \in {"create", "again"} => {from[r], to[r]} \subseteq people /\ from[r] # to[r]

\* Only members of the workspace are in its channels.
MembersBelong == \A c \in Existing : members[c] \subseteq people

\* A direct channel is and remains the channel of the two users it is named
\* after, whatever is called on it: otherwise it could not be found again.
DirectsArePairs ==
  \A c \in Directs :
    members[c] \in Pairs /\ members[c] = channels[c].name /\ ~channels[c].archived

\* Who is in a channel is in the workspace, and a direct channel is its pair.
MembershipIsSound == MembersBelong /\ DirectsArePairs

\* Two users talk in one direct channel: all calls about them are answered with
\* it, whoever of the two calls, and however the calls interleave.
DirectAnswersAgree ==
  \A r, q \in Requests :
    answer[r] # NoChannel =>
      /\ members[answer[r]] = {from[r], to[r]}
      /\ answer[q] # NoChannel /\ {from[q], to[q]} = {from[r], to[r]} => answer[q] = answer[r]

\* The second look of createDirectChannel cannot fail to find the channel whose
\* name was in its way, unless that is an ordinary channel with such a name.
ConflictIsResolved ==
  \A r \in Requests :
    pc[r] = "again" =>
      \/ DirectsOf(from[r], to[r]) # {}
      \/ \E c \in Existing \ Directs : channels[c].name = {from[r], to[r]}

\* createDirectChannel finds the one channel of its pair, at first or second look.
DirectsAreFound == DirectAnswersAgree /\ ConflictIsResolved

\* Nobody enters a private or direct channel after it was made, not even those
\* who left it, and no channel becomes private or public later.
CirclesStayClosed ==
  [][\A c \in Existing :
       /\ channels'[c].type = channels[c].type
       /\ channels[c].type # "PUBLIC" => members'[c] \subseteq members[c]]_vars
===============================================================================
