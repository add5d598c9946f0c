------------------------------- MODULE Drafts -------------------------------
(***************************************************************************)
(* The draft of a channel: a row that messaging-service keeps, and the     *)
(* composer of the messages page that is hydrated from it and saves it     *)
(* 500 ms after the last change. One user with one page; the page forgets  *)
(* the timer of the channel it leaves, and saves travel independently.     *)
(***************************************************************************)
EXTENDS Integers, Sequences, FiniteSets, SequencesExt

CONSTANTS
  Channels, Texts,
  HomeOf,      \* the channel in which a text is typed
  MaxTypes,    \* changes the user makes to a text
  MaxSelects,  \* switches of the channel and reloads of the page
  MaxSaves,    \* saves of a channel on their way at a time
  MaxCalls,    \* sends and schedules on their way at a time
  NoText,      \* an empty composer, a missing row
  NoData, NotAsked, Asking

ASSUME DraftsAssumption ==
  /\ HomeOf \in [Texts -> Channels]
  /\ NoText \notin Texts /\ {NoData, NotAsked, Asking} \cap (Texts \cup {NoText}) = {}
  /\ MaxTypes \in Nat /\ MaxSelects \in Nat /\ MaxSaves \in Nat /\ MaxCalls \in Nat

VARIABLES
  draft,     \* channel -> the row of MessageDraft
  saves,     \* channel -> PUT /drafts on their way, in the order they were made
  cache,     \* channel -> what the query client holds of GET /drafts
  fetch,     \* channel -> NotAsked, Asking, or the answer on its way
  stale,     \* channels whose query is invalidated
  selected,
  text,      \* composerContent
  hydrated,  \* draftHydratedChannelId = selected
  armed,     \* a timer is set for the text and the channel of this render
  calls,     \* the sends and schedules that are not answered
  types, selects,
  \* history
  fresh,     \* channels whose last save was stored last
  intent,    \* channel -> what the user last left in its composer
  lost       \* channels where a known accident separated the draft from the intent

server == <<draft, saves, fresh>>
query  == <<cache, fetch, stale>>
page   == <<selected, text, hydrated, armed>>
bounds == <<types, selects>>
vars   == <<server, query, page, calls, bounds, intent, lost>>

TextsOf(c) == {t \in Texts : HomeOf[t] = c}
Save == [text : Texts \cup {NoText}, overtaken : BOOLEAN]
Call == [do : {"send", "schedule"}, channel : Channels, text : Texts]

Init ==
  /\ draft = [c \in Channels |-> NoText]
  /\ saves = [c \in Channels |-> <<>>] /\ fresh = {}
  /\ selected \in Channels
  /\ cache = [c \in Channels |-> NoData] /\ stale = {}
  /\ fetch = [c \in Channels |-> IF c = selected THEN Asking ELSE NotAsked]
  /\ text = NoText /\ hydrated = FALSE /\ armed = FALSE
  /\ calls = {} /\ types = 0 /\ selects = 0
  /\ intent = [c \in Channels |-> NoText] /\ lost = {}

-------------------------------------------------------------------------------
(* Plausible mistakes: not part of the system. *)

\* the composer is hydrated from an answer although the user has left the channel
FetchAnsweredAnywhere(c) ==
  /\ fetch[c] \notin {NotAsked, Asking}
  /\ cache' = [cache EXCEPT ![c] = fetch[c]] /\ stale' = stale \ {c}
  /\ fetch' = [fetch EXCEPT ![c] = NotAsked]
  /\ IF ~hydrated
     THEN /\ text' = fetch[c] /\ hydrated' = TRUE /\ armed' = TRUE
          /\ lost' = IF fetch[c] = intent[c] THEN lost ELSE lost \cup {c}
     ELSE UNCHANGED <<text, hydrated, armed, lost>>
  /\ UNCHANGED <<server, selected, calls, bounds, intent>>

\* a change of a text that is hydrated does not set the timer again
TypeUnarmed(t) ==
  /\ types < MaxTypes /\ types' = types + 1
  /\ t \in TextsOf(selected) \cup {NoText} /\ t # text
  /\ text' = t
  /\ intent' = [intent EXCEPT ![selected] = t]
  /\ UNCHANGED <<server, query, selected, hydrated, armed, calls, selects, lost>>

\* an empty text is refused like that of a message, and the old row stays
StoreSaveOfText(c, i) ==
  /\ i \in DOMAIN saves[c]
  /\ draft' = IF saves[c][i].text = NoText THEN draft ELSE [draft EXCEPT ![c] = saves[c][i].text]
  /\ fresh' = IF i = Len(saves[c]) /\ ~saves[c][i].overtaken THEN fresh \cup {c} ELSE fresh \ {c}
  /\ lost' = IF saves[c][i].overtaken THEN lost \cup {c} ELSE lost
  /\ saves' = [saves EXCEPT ![c] = RemoveAt(@, i)]
  /\ UNCHANGED <<query, page, calls, bounds, intent>>

\* the switch leaves the text in the composer until the new draft arrives
SelectKeepsText(c, expired) ==
  /\ c # selected /\ selects < MaxSelects /\ selects' = selects + 1
  /\ selected' = c
  /\ fetch' = IF fetch[c] = NotAsked THEN [fetch EXCEPT ![c] = Asking] ELSE fetch
  /\ hydrated' = FALSE /\ armed' = FALSE /\ lost' = lost \cup {selected}
  /\ UNCHANGED <<server, cache, stale, text, calls, types, intent>>

\* a channel without a draft is answered with no data
ServeFetchUndefined(c) ==
  /\ fetch[c] = Asking
  /\ fetch' = [fetch EXCEPT ![c] = IF draft[c] = NoText THEN NoData ELSE draft[c]]
  /\ UNCHANGED <<server, cache, stale, page, calls, bounds, intent, lost>>

-------------------------------------------------------------------------------
(* The rows *)

\* the saves that were made before the i-th and are stored after it
Overtake(c, i) ==
  [j \in DOMAIN saves[c] |->
     IF j < i THEN [saves[c][j] EXCEPT !.overtaken = TRUE] ELSE saves[c][j]]

\* upsertDraft: an empty text deletes the row
StoreSave(c, i) ==
  /\ i \in DOMAIN saves[c]
  /\ draft' = [draft EXCEPT ![c] = saves[c][i].text]
  /\ fresh' = IF i = Len(saves[c]) /\ ~saves[c][i].overtaken THEN fresh \cup {c} ELSE fresh \ {c}
  /\ lost' = IF saves[c][i].overtaken THEN lost \cup {c} ELSE lost
  /\ saves' = [saves EXCEPT ![c] = RemoveAt(Overtake(c, i), i)]
  /\ UNCHANGED <<query, page, calls, bounds, intent>>

SaveFails(c, i) ==
  /\ i \in DOMAIN saves[c]
  /\ lost' = lost \cup {c}
  /\ fresh' = fresh \ {c}
  /\ saves' = [saves EXCEPT ![c] = RemoveAt(Overtake(c, i), i)]
  /\ UNCHANGED <<draft, query, page, calls, bounds, intent>>

\* listDrafts
ServeFetch(c) ==
  /\ fetch[c] = Asking
  /\ fetch' = [fetch EXCEPT ![c] = draft[c]]
  /\ UNCHANGED <<server, cache, stale, page, calls, bounds, intent, lost>>

-------------------------------------------------------------------------------
(* The effects of the page *)

\* every change of the text or of the channel sets the timer anew, once the
\* composer is hydrated
Hydrate(c, t) ==
  /\ text' = t /\ hydrated' = TRUE /\ armed' = TRUE
  /\ lost' = IF t = intent[c] THEN lost ELSE lost \cup {c}

FetchAnswered(c) ==
  /\ fetch[c] \notin {NotAsked, Asking}
  /\ cache' = [cache EXCEPT ![c] = fetch[c]] /\ stale' = stale \ {c}
  /\ fetch' = [fetch EXCEPT ![c] = NotAsked]
  /\ IF c = selected /\ ~hydrated
     THEN Hydrate(c, fetch[c]) ELSE UNCHANGED <<text, hydrated, armed, lost>>
  /\ UNCHANGED <<server, selected, calls, bounds, intent>>

\* retry: false; the composer starts empty
FetchFails(c) ==
  /\ fetch[c] # NotAsked
  /\ fetch' = [fetch EXCEPT ![c] = NotAsked]
  /\ IF c = selected /\ ~hydrated
     THEN Hydrate(c, NoText) ELSE UNCHANGED <<text, hydrated, armed, lost>>
  /\ UNCHANGED <<server, cache, stale, selected, calls, bounds, intent>>

\* the timer fires
Fire ==
  /\ armed /\ armed' = FALSE
  /\ Len(saves[selected]) < MaxSaves
  /\ saves' = [saves EXCEPT ![selected] = Append(@, [text |-> text, overtaken |-> FALSE])]
  /\ fresh' = fresh \ {selected}
  /\ UNCHANGED <<draft, query, selected, text, hydrated, calls, bounds, intent, lost>>

\* what leaving a channel forgets: the timer, or a text typed before hydration
Abandoned == IF armed \/ ~hydrated THEN {selected} ELSE {}

\* the composer is hydrated at once from cached data, fresh or not
Select(c, expired) ==
  /\ c # selected /\ selects < MaxSelects /\ selects' = selects + 1
  /\ selected' = c
  /\ fetch' = IF fetch[c] = NotAsked /\ (cache[c] = NoData \/ c \in stale \/ expired)
              THEN [fetch EXCEPT ![c] = Asking] ELSE fetch
  /\ IF cache[c] = NoData
     THEN /\ text' = NoText /\ hydrated' = FALSE /\ armed' = FALSE
          /\ lost' = lost \cup Abandoned
     ELSE /\ text' = cache[c] /\ hydrated' = TRUE /\ armed' = TRUE
          /\ lost' = lost \cup Abandoned \cup (IF cache[c] = intent[c] THEN {} ELSE {c})
  /\ UNCHANGED <<server, cache, stale, calls, types, intent>>

\* the page is loaded again: saves on their way are still served
Reload(c) ==
  /\ selects < MaxSelects /\ selects' = selects + 1
  /\ selected' = c
  /\ cache' = [d \in Channels |-> NoData] /\ stale' = {} /\ calls' = {}
  /\ fetch' = [d \in Channels |-> IF d = c THEN Asking ELSE NotAsked]
  /\ text' = NoText /\ hydrated' = FALSE /\ armed' = FALSE
  /\ lost' = lost \cup Abandoned \cup {k.channel : k \in calls}
  /\ UNCHANGED <<server, types, intent>>

-------------------------------------------------------------------------------
(* The user *)

\* the text area takes text at any time
Type(t) ==
  /\ types < MaxTypes /\ types' = types + 1
  /\ t \in TextsOf(selected) \cup {NoText} /\ t # text
  /\ text' = t /\ armed' = hydrated
  /\ intent' = [intent EXCEPT ![selected] = t]
  /\ UNCHANGED <<server, query, selected, hydrated, calls, selects, lost>>

\* submitMessage and submitScheduledMessage: one call of each kind at a time
Submit(do) ==
  /\ text # NoText /\ \A k \in calls : k.do # do
  /\ Cardinality(calls) < MaxCalls
  /\ calls' = calls \cup {[do |-> do, channel |-> selected, text |-> text]}
  /\ UNCHANGED <<server, query, page, bounds, intent, lost>>

\* invalidateQueries leaves the first fetch of a query alone
FirstFetch(c) == cache[c] = NoData /\ fetch[c] # NotAsked

\* the answer empties whatever composer is open by then; the drafts of the
\* channel are fetched anew after a send, though the row still is what it was
SubmitAnswered(k) ==
  /\ k \in calls /\ calls' = calls \ {k}
  /\ LET c == k.channel  own == c = selected IN
       /\ text' = NoText
       /\ armed' = IF text = NoText THEN armed ELSE hydrated
       /\ intent' = IF intent[c] = k.text THEN [intent EXCEPT ![c] = NoText] ELSE intent
       /\ lost' = lost \cup (IF own THEN {} ELSE {c})
                       \cup (IF text = (IF own THEN k.text ELSE NoText) THEN {} ELSE {selected})
       /\ stale' = IF k.do = "send" THEN stale \cup {c} ELSE stale
       /\ fetch' = IF k.do = "send" /\ own /\ ~FirstFetch(c) THEN [fetch EXCEPT ![c] = Asking] ELSE fetch
  /\ UNCHANGED <<server, cache, selected, hydrated, bounds>>

SubmitFails(k) ==
  /\ k \in calls /\ calls' = calls \ {k}
  /\ UNCHANGED <<server, query, page, bounds, intent, lost>>

-------------------------------------------------------------------------------
Next ==
  \/ \E c \in Channels : \E i \in DOMAIN saves[c] : StoreSave(c, i) \/ SaveFails(c, i)
  \/ \E c \in Channels : ServeFetch(c) \/ FetchAnswered(c) \/ FetchFails(c) \/ Reload(c)
  \/ \E c \in Channels, expired \in BOOLEAN : Select(c, expired)
  \/ Fire
  \/ \E t \in Texts \cup {NoText} : Type(t)
  \/ \E do \in {"send", "schedule"} : Submit(do)
  \/ \E k \in calls : SubmitAnswered(k) \/ SubmitFails(k)

Spec == Init /\ [][Next]_vars

-------------------------------------------------------------------------------
TypeOK ==
  /\ draft \in [Channels -> Texts \cup {NoText}]
  /\ saves \in [Channels -> Seq(Save)] /\ fresh \subseteq Channels
  /\ cache \in [Channels -> Texts \cup {NoText, NoData}] /\ stale \subseteq Channels
  /\ fetch \in [Channels -> Texts \cup {NoText, NotAsked, Asking}]
  /\ selected \in Channels /\ text \in Texts \cup {NoText}
  /\ hydrated \in BOOLEAN /\ armed \in BOOLEAN /\ (armed => hydrated)
  /\ calls \subseteq Call
  /\ intent \in [Channels -> Texts \cup {NoText}] /\ lost \subseteq Channels

\* A text that was typed in one channel is never seen or stored as the draft of
\* another, whatever is on its way when the user switches (WEB 167-208)
TypedHere ==
  /\ \A c \in Channels : draft[c] \in TextsOf(c) \cup {NoText}
  /\ text \in TextsOf(selected) \cup {NoText}

\* A composer that is at rest shows what is stored, if its last save was stored
\* last (WEB 189-208, MS 566-621)
AtRest(c) == saves[c] = <<>>

SeenIsSaved ==
  hydrated /\ ~armed /\ AtRest(selected) /\ selected \in fresh
    => draft[selected] = text

\* The draft of a channel at rest is what the user left there, and what he sees
\* too, unless one of the known accidents happened: the page left the channel
\* within 500 ms of a change or before it was hydrated, it was hydrated from
\* an old cache or after a failed fetch or over a text being typed, a save
\* failed or overtook a later one, or the answer to a send emptied a composer
\* that no longer held the sent text
LossesAreKnown ==
  \A c \in Channels \ lost :
    AtRest(c) /\ ~(c = selected /\ (armed \/ ~hydrated)) => draft[c] = intent[c]

\* Drafts stay in their channel, are saved as they are seen, and are lost in
\* known ways only
DraftsAreKept == TypedHere /\ SeenIsSaved /\ LossesAreKnown
=============================================================================
