------------------------------ MODULE Timeline ------------------------------
(***************************************************************************)
(* The timeline of the messages page: what the user sees of a channel is a *)
(* React state that four sources write: the cached first page of           *)
(* GET /messages (an effect copies it whenever its value changes), the     *)
(* realtime events, the answers to the user's own posts, and the switch to *)
(* another channel. Answers and events arrive in any order, some after the *)
(* page has moved on.                                                      *)
(***************************************************************************)
EXTENDS Integers, FiniteSets

CONSTANTS
  Channels,
  Calls,       \* calls in flight at a time
  Messages,    \* by their sequence numbers in their channels
  ChannelOf,
  PageSize,    \* rows of a GET /messages: the oldest 50
  MaxChanges,  \* changes of rows by other people
  MaxSelects,  \* switches of the user
  NoPage, NoMessage, NotAsked, Asking

Page == [Messages -> Nat]

TimelineAssumption ==
  /\ Messages \subseteq Nat \ {0} /\ ChannelOf \in [Messages -> Channels]
  /\ PageSize \in Nat \ {0} /\ MaxChanges \in Nat /\ MaxSelects \in Nat
  /\ NoMessage \notin Messages /\ NoPage \notin Page

VARIABLES
  row,       \* message -> changes of its row in the database, 0: not posted
  selected,  \* the open channel
  cache,     \* channel -> the page the query client holds
  stale,     \* channels whose page is invalidated
  fetch,     \* channel -> NotAsked, Asking, or the page that is on its way
  list,      \* the React state: message -> the change it shows, 0: no row
  wire,      \* realtime events on their way
  call,      \* the user's calls in flight
  thread,    \* the message whose thread is open
  changes, selects,
  \* history
  posted,    \* messages whose post was answered since the channel was opened, unless Outrun
  late       \* rows from an event or answer overtaken by a newer one, or, but for new
             \* messages, by a switch

remote == <<row, changes>>
query  == <<cache, stale, fetch>>
vars   == <<remote, query, selected, list, thread, wire, call, selects, posted, late>>

Empty  == [m \in Messages |-> 0]
Event  == [message : Messages, row : Nat]
NoCall == [do |-> "nothing", channel |-> NoMessage, message |-> NoMessage]
Call   == [do : {"nothing", "post", "reply", "thread"}, channel : Channels \cup {NoMessage},
           message : Messages \cup {NoMessage}]

In(c)        == {m \in Messages : ChannelOf[m] = c}
Posted(c)    == {m \in In(c) : row[m] > 0}
FirstPage(c) == [m \in Messages |->
  IF m \in Posted(c) /\ Cardinality({n \in In(c) : n <= m}) <= PageSize THEN row[m] ELSE 0]

Init ==
  /\ row = Empty /\ changes = 0
  /\ selected \in Channels /\ selects = 0
  /\ cache = [c \in Channels |-> NoPage] /\ stale = {}
  /\ fetch = [c \in Channels |-> IF c = selected THEN Asking ELSE NotAsked]
  /\ list = Empty /\ wire = {} /\ thread = NoMessage /\ call = [k \in Calls |-> NoCall]
  /\ posted = {} /\ late = {}

-------------------------------------------------------------------------------
(* Plausible mistakes: not part of the system. *)

\* the list is updated and the query is left alone
PostAnsweredOnly(k) ==
  /\ call[k].do = "post" /\ call[k].message # NoMessage
  /\ list' = [list EXCEPT ![call[k].message] = 1]
  /\ posted' = IF call[k].channel = selected THEN posted \cup {call[k].message} ELSE posted
  /\ late' = IF call[k].channel = selected THEN late ELSE late \cup {call[k].message}
  /\ call' = [call EXCEPT ![k] = NoCall]
  /\ UNCHANGED <<remote, query, selected, thread, wire, selects>>

\* a new message is shown whatever its channel
HandleCreatedAnywhere(e) ==
  /\ e \in wire /\ e.row = 1 /\ wire' = wire \ {e}
  /\ list' = [list EXCEPT ![e.message] = e.row]
  /\ late' = IF e.row < list[e.message] THEN late \cup {e.message} ELSE late
  /\ UNCHANGED <<remote, query, selected, thread, call, selects, posted>>

\* the thread stays open when the channel changes
SelectKeepsThread(c, expired) ==
  /\ c # selected /\ selects < MaxSelects /\ selects' = selects + 1
  /\ selected' = c
  /\ fetch' = IF fetch[c] = NotAsked /\ (cache[c] = NoPage \/ c \in stale \/ expired)
              THEN [fetch EXCEPT ![c] = Asking] ELSE fetch
  /\ list' = (IF cache[c] = NoPage THEN Empty ELSE cache[c])
  /\ late' = {} /\ posted' = {}
  /\ UNCHANGED <<remote, cache, stale, thread, wire, call>>

\* the effect depends on the channel alone: an answer does not reach the list
FetchAnsweredUnseen(c) ==
  /\ fetch[c] \notin {NotAsked, Asking}
  /\ cache' = [cache EXCEPT ![c] = fetch[c]]
  /\ stale' = stale \ {c}
  /\ fetch' = [fetch EXCEPT ![c] = NotAsked]
  /\ UNCHANGED <<remote, selected, list, thread, wire, call, selects, posted, late>>

-------------------------------------------------------------------------------
(* Other people *)

\* the next message of its channel, or an edit or deletion of one
CanChange(m) == \A n \in In(ChannelOf[m]) : n < m => row[n] > 0

Change(m) ==
  /\ changes < MaxChanges /\ changes' = changes + 1
  /\ CanChange(m)
  /\ row' = [row EXCEPT ![m] = @ + 1]
  /\ UNCHANGED <<query, selected, list, thread, call, selects, posted, late>>

\* over the socket: the room hears of it, in any order and perhaps never
ChangeTold(m) == Change(m) /\ wire' = wire \cup {[message |-> m, row |-> row[m] + 1]}

\* over REST: nobody is told
ChangeUntold(m) == Change(m) /\ wire' = wire

-------------------------------------------------------------------------------
(* Writers of the list *)

\* upsertMessage, whatever the row that is shown
Show(m, r) == list' = [list EXCEPT ![m] = r]

\* and whatever the channel
Upsert(m, r) ==
  /\ Show(m, r)
  /\ late' = IF r < list[m] \/ ChannelOf[m] # selected THEN late \cup {m} ELSE late

\* onMessageCreated and onThreadReply
HandleCreated(e) ==
  /\ e \in wire /\ e.row = 1 /\ wire' = wire \ {e}
  /\ IF ChannelOf[e.message] = selected
     THEN /\ Show(e.message, e.row)
          /\ late' = IF e.row < list[e.message] THEN late \cup {e.message} ELSE late
     ELSE UNCHANGED <<list, late>>
  /\ UNCHANGED <<remote, query, selected, thread, call, selects, posted>>

\* onMessageUpdated and onMessageDeleted look at no channel
HandleChanged(e) ==
  /\ e \in wire /\ e.row > 1 /\ wire' = wire \ {e}
  /\ Upsert(e.message, e.row)
  /\ UNCHANGED <<remote, query, selected, thread, call, selects, posted>>

\* what the effect on messageQuery.data copies
Rows(page) == IF page = NoPage THEN Empty ELSE page

-------------------------------------------------------------------------------
(* The messages query *)

Asked(c, f) == [f EXCEPT ![c] = Asking]

\* invalidateQueries repeats a fetch that is on its way only when the query holds
\* data; the first one goes on, and its answer clears the invalidation
FirstFetch(c) == cache[c] = NoPage /\ fetch[c] # NotAsked

\* the first page was read before m was stored and is still on its way
Outrun(c, m) == FirstFetch(c) /\ fetch[c] # Asking /\ fetch[c][m] = 0

ServeFetch(c) ==
  /\ fetch[c] = Asking
  /\ fetch' = [fetch EXCEPT ![c] = FirstPage(c)]
  /\ UNCHANGED <<remote, cache, stale, selected, list, thread, wire, call, selects, posted, late>>

\* an answer of the same value keeps the cached object, and no effect runs
FetchAnswered(c) ==
  /\ fetch[c] \notin {NotAsked, Asking}
  /\ cache' = [cache EXCEPT ![c] = fetch[c]]
  /\ stale' = stale \ {c}
  /\ fetch' = [fetch EXCEPT ![c] = NotAsked]
  /\ IF c = selected /\ cache[c] # fetch[c]
     THEN list' = Rows(fetch[c]) /\ late' = late \cap {thread}
     ELSE UNCHANGED <<list, late>>
  /\ UNCHANGED <<remote, selected, thread, wire, call, selects, posted>>

\* retry: false
FetchFails(c) ==
  /\ fetch[c] # NotAsked
  /\ fetch' = [fetch EXCEPT ![c] = NotAsked]
  /\ UNCHANGED <<remote, cache, stale, selected, list, thread, wire, call, selects, posted, late>>

\* selectChannel. A page is fetched when there is none, when it is invalidated
\* or when it is older than staleTime; the effect does not run from no data to
\* no data, and then the rows of the old channel stay
Select(c, expired) ==
  /\ c # selected /\ selects < MaxSelects /\ selects' = selects + 1
  /\ selected' = c
  /\ fetch' = IF fetch[c] = NotAsked /\ (cache[c] = NoPage \/ c \in stale \/ expired)
              THEN Asked(c, fetch) ELSE fetch
  /\ IF cache[c] = NoPage /\ cache[selected] = NoPage
     THEN list' = list /\ late' = late \cup {m \in Messages : list[m] > 0}
     ELSE list' = Rows(cache[c]) /\ late' = {}
  /\ thread' = NoMessage /\ posted' = {}
  /\ UNCHANGED <<remote, cache, stale, wire, call>>

-------------------------------------------------------------------------------
(* The user's own calls; a composer waits for the answer to its post *)

Begin(k, do, c, m) ==
  /\ call[k] = NoCall
  /\ call' = [call EXCEPT ![k] = [do |-> do, channel |-> c, message |-> m]]
  /\ UNCHANGED <<remote, query, selected, list, thread, wire, selects, posted, late>>

Idle(do) == \A k \in Calls : call[k].do # do

Send(k) == Idle("post") /\ Begin(k, "post", selected, NoMessage)

Reply(k) ==
  /\ thread # NoMessage /\ Idle("reply")
  /\ Begin(k, "reply", ChannelOf[thread], NoMessage)

OpenThread(k, m) == list[m] > 0 /\ Begin(k, "thread", selected, m)

Stored(k, m) ==
  /\ call[k].do \in {"post", "reply"} /\ call[k].message = NoMessage
  /\ m \in In(call[k].channel) /\ row[m] = 0 /\ CanChange(m)
  /\ row' = [row EXCEPT ![m] = 1]
  /\ call' = [call EXCEPT ![k].message = m]
  /\ UNCHANGED <<changes, query, selected, list, thread, wire, selects, posted, late>>

\* the row is put into the list of whatever channel is open, and the page of
\* the channel it was sent to is invalidated, which fetches that of the open one
PostAnswered(k) ==
  /\ call[k].do = "post" /\ call[k].message # NoMessage
  /\ LET c == call[k].channel  m == call[k].message IN
       /\ Upsert(m, 1)
       /\ stale' = stale \cup {c}
       /\ fetch' = IF c = selected /\ ~FirstFetch(c) THEN Asked(c, fetch) ELSE fetch
       /\ posted' = IF c = selected /\ ~Outrun(c, m) THEN posted \cup {m} ELSE posted
  /\ call' = [call EXCEPT ![k] = NoCall]
  /\ UNCHANGED <<remote, cache, selected, thread, wire, selects>>

\* a reply invalidates the query of its thread, not the page
ReplyAnswered(k) ==
  /\ call[k].do = "reply" /\ call[k].message # NoMessage
  /\ Upsert(call[k].message, 1)
  /\ call' = [call EXCEPT ![k] = NoCall]
  /\ UNCHANGED <<remote, query, selected, thread, wire, selects, posted>>

\* setActiveThreadId after the await, whatever channel is open by then
ThreadAnswered(k) ==
  /\ call[k].do = "thread"
  /\ thread' = call[k].message
  /\ call' = [call EXCEPT ![k] = NoCall]
  /\ late' = IF ChannelOf[call[k].message] # selected
             THEN late \cup {call[k].message} ELSE late
  /\ UNCHANGED <<remote, query, selected, list, wire, selects, posted>>

CallFails(k) ==
  /\ call[k] # NoCall
  /\ call' = [call EXCEPT ![k] = NoCall]
  /\ UNCHANGED <<remote, query, selected, list, thread, wire, selects, posted, late>>

-------------------------------------------------------------------------------
Next ==
  \/ \E m \in Messages : \/ ChangeTold(m) \/ ChangeUntold(m)
  \/ \E e \in wire : HandleCreated(e) \/ HandleChanged(e)
  \/ \E c \in Channels : ServeFetch(c) \/ FetchAnswered(c) \/ FetchFails(c)
  \/ \E c \in Channels, expired \in BOOLEAN : Select(c, expired)
  \/ \E k \in Calls : \/ Send(k) \/ Reply(k) \/ CallFails(k)
                      \/ PostAnswered(k) \/ ReplyAnswered(k) \/ ThreadAnswered(k)
  \/ \E k \in Calls, m \in Messages : OpenThread(k, m) \/ Stored(k, m)

Spec == Init /\ [][Next]_vars

-------------------------------------------------------------------------------
TypeOK ==
  /\ row \in Page /\ list \in Page
  /\ selected \in Channels
  /\ cache \in [Channels -> Page \cup {NoPage}] /\ stale \subseteq Channels
  /\ fetch \in [Channels -> Page \cup {NotAsked, Asking}]
  /\ wire \subseteq Event /\ thread \in Messages \cup {NoMessage}
  /\ call \in [Calls -> Call] /\ posted \subseteq Messages /\ late \subseteq Messages
  /\ changes \in 0..MaxChanges /\ selects \in 0..MaxSelects

\* A post the user has seen arrive does not vanish while the channel stays
\* open, unless it was answered while the first page of the channel was on its
\* way and had been read without it: that fetch alone is not repeated (WEB
\* 110-115, 260-262). With more messages than a page holds the next page lacks
\* the row, and a change of any older row takes it away (MS 113-118)
OwnMessageStays ==
  \A m \in posted : Cardinality(Posted(selected)) <= PageSize => list[m] > 0

\* A row or a thread of another channel is shown only after a change or an answer
\* of the user's that the switch overtook, and never because of a new message or
\* thread reply; a thread is closed by the switch (WEB 210-240, 251-262, 311-312)
ForeignIsLate ==
  \A m \in Messages : (list[m] > 0 \/ thread = m) /\ ChannelOf[m] # selected => m \in late

\* When the cached page is what the database holds, the timeline shows it,
\* except for rows that an older event or answer has overwritten
CurrentPageIsShown ==
  cache[selected] = FirstPage(selected) =>
    \A m \in In(selected) \ late : cache[selected][m] > 0 => list[m] = row[m]

\* What the timeline shows of the user's posts, of other channels and of its page
TimelineIsTrue == OwnMessageStays /\ ForeignIsLate /\ CurrentPageIsShown
===============================================================================
