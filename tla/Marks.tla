-------------------------------- MODULE Marks --------------------------------
(***************************************************************************)
(* Pins and bookmarks. The messages page decides by what its two queries   *)
(* hold whether a click sets or clears a mark, may be clicked again before *)
(* the answer, and fetches the query anew when the answer arrives. A       *)
(* bookmark is deleted by the id the page knows; pins are shared, and no   *)
(* event tells of them.                                                    *)
(***************************************************************************)
EXTENDS Integers, Sequences, FiniteSets, SequencesExt

CONSTANTS
  Messages,
  PageSize,    \* rows of a GET /bookmarks: the 50 marked last
  MaxClicks, MaxCalls,
  MaxOthers,   \* changes from other pages
  NotAsked, Asking

Bookmark == [message : Messages, id : Nat]
Answer   == [rows : (SUBSET Messages) \cup (SUBSET Bookmark)]

MarksAssumption ==
  /\ PageSize \in Nat \ {0} /\ MaxClicks \in Nat /\ MaxCalls \in Nat /\ MaxOthers \in Nat
  /\ NotAsked \notin Answer /\ Asking \notin Answer /\ NotAsked # Asking

VARIABLES
  pins,       \* messages with a MessagePin row
  bookmarks,  \* the user's Bookmark rows, the one marked last first
  made,       \* bookmark ids given out
  shown,      \* what the page's queries hold
  loaded,     \* queries that hold data
  fetch,      \* query -> NotAsked, Asking, or the answer on its way
  calls,      \* the page's calls: by the click that made them
  clicks, others,
  \* history
  unheard     \* queries whose rows may have changed after they were read for the last time

rows == <<pins, bookmarks, made>>
vars == <<rows, shown, loaded, fetch, calls, clicks, others, unheard>>

Queries   == {"pins", "bookmarks"}
RowsOf(q) == IF q = "pins" THEN SUBSET Messages ELSE SUBSET Bookmark

FirstPage == SubSeq(bookmarks, 1, IF PageSize < Len(bookmarks) THEN PageSize ELSE Len(bookmarks))
Current(q) == IF q = "pins" THEN pins ELSE ToSet(FirstPage)

Init ==
  /\ pins = {} /\ bookmarks = <<>> /\ made = 0
  /\ shown = [q \in Queries |-> {}] /\ loaded = {} /\ fetch = [q \in Queries |-> Asking]
  /\ calls = {} /\ clicks = 0 /\ others = 0 /\ unheard = Queries

QueryOf(do) == IF do \in {"pin", "unpin"} THEN "pins" ELSE "bookmarks"

-------------------------------------------------------------------------------
(* Plausible mistakes: not part of the system. *)

\* create in place of upsert
BookmarkedAgain(m) ==
  /\ bookmarks' = <<[message |-> m, id |-> made + 1]>> \o bookmarks
  /\ made' = made + 1

\* a fetch that is on its way is not repeated
RefetchOnce(q) == IF fetch[q] = NotAsked THEN [fetch EXCEPT ![q] = Asking] ELSE fetch

\* the rows are fetched when the call is made
RefetchNothing(q) == fetch

-------------------------------------------------------------------------------
(* messaging-service *)

\* upsert: a bookmark that is there moves to the front
Bookmarked(m) ==
  \/ \E i \in DOMAIN bookmarks :
       /\ bookmarks[i].message = m
       /\ bookmarks' = <<bookmarks[i]>> \o RemoveAt(bookmarks, i) /\ made' = made
  \/ /\ \A i \in DOMAIN bookmarks : bookmarks[i].message # m
     /\ bookmarks' = <<[message |-> m, id |-> made + 1]>> \o bookmarks
     /\ made' = made + 1

Set(do, m) ==
  \/ do = "pin"      /\ pins' = pins \cup {m} /\ UNCHANGED <<bookmarks, made>>
  \/ do = "bookmark" /\ Bookmarked(m) /\ UNCHANGED pins

Unpin(m) == pins' = pins \ {m} /\ UNCHANGED <<bookmarks, made>>

\* not found if it is gone
DeleteBookmark(b) ==
  /\ \E i \in DOMAIN bookmarks :
       bookmarks[i] = b /\ bookmarks' = RemoveAt(bookmarks, i)
  /\ UNCHANGED <<pins, made>>

-------------------------------------------------------------------------------
(* The page *)

Call(do, m, id) == [click |-> clicks', do |-> do, message |-> m, id |-> id, served |-> FALSE]

Click ==
  /\ clicks < MaxClicks /\ Cardinality(calls) < MaxCalls /\ clicks' = clicks + 1
  /\ UNCHANGED <<rows, shown, loaded, fetch, others, unheard>>

TogglePin(m) ==
  /\ Click
  /\ calls' = calls \cup {Call(IF m \in shown["pins"] THEN "unpin" ELSE "pin", m, 0)}

ToggleBookmark(m) ==
  /\ Click
  /\ LET known == {b \in shown["bookmarks"] : b.message = m} IN
       \/ known = {} /\ calls' = calls \cup {Call("bookmark", m, 0)}
       \/ \E b \in known : calls' = calls \cup {Call("delete", m, b.id)}

Serve(k) ==
  /\ k \in calls /\ ~k.served
  /\ \/ Set(k.do, k.message)
     \/ k.do = "unpin" /\ Unpin(k.message)
     \/ k.do = "delete" /\ DeleteBookmark([message |-> k.message, id |-> k.id])
  /\ calls' = (calls \ {k}) \cup {[k EXCEPT !.served = TRUE]}
  /\ UNCHANGED <<shown, loaded, fetch, clicks, others, unheard>>

\* invalidateQueries repeats a fetch that is on its way only when the query holds
\* data; the first one goes on, and its answer clears the invalidation
FirstFetch(q) == q \notin loaded /\ fetch[q] # NotAsked

Refetch(q) == IF FirstFetch(q) THEN fetch ELSE [fetch EXCEPT ![q] = Asking]

\* the first answer was read before the rows changed, and is still on its way
Outrun(q) == FirstFetch(q) /\ fetch[q] # Asking /\ fetch[q].rows # Current(q)

Answered(k) ==
  /\ k \in calls /\ k.served /\ calls' = calls \ {k}
  /\ LET q == QueryOf(k.do) IN
       /\ fetch' = Refetch(q)
       /\ unheard' = IF Outrun(q) THEN unheard \cup {q} ELSE unheard
  /\ UNCHANGED <<rows, shown, loaded, clicks, others>>

\* refused, not found or not answered: the query stays as it is
CallFails(k) ==
  /\ k \in calls /\ calls' = calls \ {k}
  /\ unheard' = IF k.served THEN unheard \cup {QueryOf(k.do)} ELSE unheard
  /\ UNCHANGED <<rows, shown, loaded, fetch, clicks, others>>

\* listPins, listBookmarks
ServeFetch(q) ==
  /\ fetch[q] = Asking
  /\ fetch' = [fetch EXCEPT ![q] = [rows |-> Current(q)]]
  /\ unheard' = unheard \ {q}
  /\ UNCHANGED <<rows, shown, loaded, calls, clicks, others>>

FetchAnswered(q) ==
  /\ fetch[q] \notin {NotAsked, Asking}
  /\ shown' = [shown EXCEPT ![q] = fetch[q].rows] /\ loaded' = loaded \cup {q}
  /\ fetch' = [fetch EXCEPT ![q] = NotAsked]
  /\ UNCHANGED <<rows, calls, clicks, others, unheard>>

FetchFails(q) ==
  /\ fetch[q] # NotAsked /\ fetch' = [fetch EXCEPT ![q] = NotAsked]
  /\ unheard' = unheard \cup {q}
  /\ UNCHANGED <<rows, shown, loaded, calls, clicks, others>>

\* another user's pin, or the user's own other page
Elsewhere ==
  /\ others < MaxOthers /\ others' = others + 1
  /\ \E m \in Messages : \/ Set("pin", m) \/ Set("bookmark", m) \/ Unpin(m)
                         \/ \E b \in ToSet(bookmarks) : DeleteBookmark(b)
  /\ unheard' = unheard \cup Queries
  /\ UNCHANGED <<shown, loaded, fetch, calls, clicks>>

-------------------------------------------------------------------------------
Next ==
  \/ \E m \in Messages : TogglePin(m) \/ ToggleBookmark(m)
  \/ \E k \in calls : Serve(k) \/ Answered(k) \/ CallFails(k)
  \/ \E q \in Queries : ServeFetch(q) \/ FetchAnswered(q) \/ FetchFails(q)
  \/ Elsewhere

Spec == Init /\ [][Next]_vars

-------------------------------------------------------------------------------
TypeOK ==
  /\ pins \subseteq Messages /\ bookmarks \in Seq(Bookmark) /\ made \in Nat
  /\ DOMAIN shown = Queries /\ DOMAIN fetch = Queries
  /\ \A q \in Queries : shown[q] \in RowsOf(q) /\ fetch[q] \in [rows : RowsOf(q)] \cup {NotAsked, Asking}
  /\ calls \subseteq [click : 1..clicks, do : {"pin", "unpin", "bookmark", "delete"},
                     message : Messages, id : Nat, served : BOOLEAN]
  /\ loaded \subseteq Queries /\ unheard \subseteq Queries /\ clicks \in 0..MaxClicks /\ others \in 0..MaxOthers

\* Once its calls and fetches are answered the page shows the marks that are
\* stored, whatever was clicked twice or answered out of order (WEB 356-392),
\* unless the last read of a query went before a change that this page was not
\* told of: one made elsewhere, one whose answer was lost or refetched in vain,
\* or one answered while the first fetch was on its way, which is not repeated
ShownIsStored ==
  calls = {} => \A q \in Queries \ unheard : fetch[q] = NotAsked => shown[q] = Current(q)

\* A message has one bookmark of the user, however often it is marked (MS 445-456)
OneBookmark ==
  \A i, j \in DOMAIN bookmarks : bookmarks[i].message = bookmarks[j].message => i = j

MarksAreTrue == ShownIsStored /\ OneBookmark
=============================================================================
