-------------------------------- MODULE Live --------------------------------
(***************************************************************************)
(* What the messages page hears and what it shows, side by side: Realtime  *)
(* and Timeline share no state, and a behaviour takes one of the two.      *)
(***************************************************************************)
EXTENDS Realtime

CONSTANTS
  Numbers,     \* the messages of the timeline
  NumberIn,    \* their channels
  PageSize, MaxChanges, NoPage, NotAsked, Asking

VARIABLES part, tRow, tSelected, cache, stale, fetch, list, wire, tCall, thread, changes,
          tSelects, posted, late

tvars == <<tRow, tSelected, cache, stale, fetch, list, wire, tCall, thread, changes, tSelects,
           posted, late>>

T == INSTANCE Timeline WITH
  Messages <- Numbers, ChannelOf <- NumberIn,
  row <- tRow, selected <- tSelected, call <- tCall, selects <- tSelects

ASSUME TimelineConstants == T!TimelineAssumption

LiveInit ==
  /\ part \in {"events", "page"}
  /\ Init /\ T!Init /\ (part = "page" \/ tSelected = CHOOSE c \in Channels : TRUE)

LiveNext ==
  \/ part = "events" /\ Next /\ UNCHANGED <<part, tvars>>
  \/ part = "page" /\ T!Next /\ UNCHANGED <<part, vars>>

LiveSpec == LiveInit /\ [][LiveNext]_<<part, vars, tvars>>

LiveTypeOK     == TypeOK /\ T!TypeOK
TimelineIsTrue == T!TimelineIsTrue
=============================================================================
