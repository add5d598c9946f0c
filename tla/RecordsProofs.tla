---------------------------- MODULE RecordsProofs ----------------------------
(* Proofs about Records and its parts, for any number of channels, rows,      *)
(* sessions, links, files and messages: drafts stay in their channel, walks   *)
(* over the paged lists are complete, and sessions, links, files and marks    *)
(* are true to what is stored. A part's lemmas come first; a behaviour of the *)
(* composition is then shown to be one of each part.                          *)
EXTENDS Records, SequenceTheorems, FiniteSetTheorems, WellFoundedInduction, TLAPS

(* Drafts *)

\* What is left of the saves of c when its i-th has been stored or has failed.
Left(c, i) == RemoveAt(Overtake(c, i), i)

LEMMA OvertakeFacts ==
  ASSUME saves \in [Channels -> Seq(Save)], NEW c \in Channels, NEW i \in DOMAIN saves[c]
  PROVE  /\ Overtake(c, i) \in Seq(Save)
         /\ Len(Overtake(c, i)) = Len(saves[c])
         /\ \A j \in DOMAIN saves[c] :
              /\ Overtake(c, i)[j].text = saves[c][j].text
              /\ j < i => Overtake(c, i)[j].overtaken
              /\ j >= i => Overtake(c, i)[j] = saves[c][j]
<1> DEFINE s == saves[c]
           o == Overtake(c, i)
<1>1. s \in Seq(Save) /\ DOMAIN s = 1..Len(s) /\ Len(s) \in Nat
  OBVIOUS
<1>2. \A j \in 1..Len(s) : s[j] \in Save
  BY <1>1
<1>3. DOMAIN o = 1..Len(s)
  BY <1>1 DEF Overtake
<1>4. \A j \in 1..Len(s) : /\ j < i => o[j] = [s[j] EXCEPT !.overtaken = TRUE]
                           /\ ~(j < i) => o[j] = s[j]
  BY <1>1 DEF Overtake
<1>5. \A j \in 1..Len(s) : [s[j] EXCEPT !.overtaken = TRUE] \in Save
  BY <1>2 DEF Save
<1>6. \A j \in 1..Len(s) : o[j] \in Save
  BY <1>2, <1>4, <1>5
<1>7. o = [j \in 1..Len(s) |-> o[j]]
  BY <1>1 DEF Overtake
<1>8. o \in Seq(Save) /\ Len(o) = Len(s)
  BY <1>1, <1>3, <1>6, <1>7
<1> HIDE DEF o
<1>9. \A j \in 1..Len(s) : /\ o[j].text = s[j].text
                           /\ j < i => o[j].overtaken
                           /\ j >= i => o[j] = s[j]
  <2> TAKE j \in 1..Len(s)
  <2>1. s[j] \in Save
    BY <1>2
  <2>2. /\ [s[j] EXCEPT !.overtaken = TRUE].text = s[j].text
        /\ [s[j] EXCEPT !.overtaken = TRUE].overtaken
    BY <2>1 DEF Save
  <2>3. j >= i <=> ~(j < i)
    BY <1>1
  <2>4. j < i => o[j] = [s[j] EXCEPT !.overtaken = TRUE]
    BY <1>4
  <2>5. j >= i => o[j] = s[j]
    BY <2>3, <1>4
  <2> QED
    BY <2>2, <2>3, <2>4, <2>5
<1> QED
  BY <1>1, <1>8, <1>9 DEF o

LEMMA LeftFacts ==
  ASSUME saves \in [Channels -> Seq(Save)], NEW c \in Channels, NEW i \in DOMAIN saves[c]
  PROVE  /\ Left(c, i) \in Seq(Save)
         /\ \A j \in DOMAIN Left(c, i) : \E k \in DOMAIN saves[c] :
              Left(c, i)[j].text = saves[c][k].text
         /\ Left(c, i) = <<>> => Len(saves[c]) = 1 /\ i = 1
         /\ Left(c, i) # <<>> /\ ~Left(c, i)[Len(Left(c, i))].overtaken =>
              /\ saves[c] # <<>> /\ i < Len(saves[c])
              /\ Left(c, i)[Len(Left(c, i))] = saves[c][Len(saves[c])]
<1> DEFINE s == saves[c]
           o == Overtake(c, i)
           l == Left(c, i)
           n == Len(s)
<1>1. s \in Seq(Save) /\ n \in Nat /\ i \in 1..n /\ DOMAIN s = 1..n
  OBVIOUS
<1>2. /\ o \in Seq(Save) /\ Len(o) = n
      /\ \A j \in 1..n : /\ o[j].text = s[j].text
                         /\ j < i => o[j].overtaken
                         /\ j >= i => o[j] = s[j]
  BY <1>1, OvertakeFacts
<1> HIDE DEF o
<1>3. l = SubSeq(o, 1, i - 1) \o SubSeq(o, i + 1, n)
  BY <1>2 DEF Left, RemoveAt, o
<1>4. /\ l \in Seq(Save) /\ Len(l) = n - 1
      /\ \A j \in 1..(n - 1) : l[j] = IF j < i THEN o[j] ELSE o[j + 1]
  <2> DEFINE a == SubSeq(o, 1, i - 1)
             b == SubSeq(o, i + 1, n)
  <2>1. /\ a \in Seq(Save) /\ Len(a) = i - 1
        /\ \A j \in 1..(i - 1) : a[j] = o[j]
    BY <1>1, <1>2, SubSeqProperties
  <2>2. /\ b \in Seq(Save) /\ Len(b) = n - i
        /\ \A j \in 1..(n - i) : b[j] = o[i + j]
    BY <1>1, <1>2, SubSeqProperties
  <2> HIDE DEF a, b
  <2>3. /\ a \o b \in Seq(Save) /\ Len(a \o b) = n - 1
        /\ \A j \in 1..(n - 1) : (a \o b)[j] = IF j < i THEN a[j] ELSE b[j - (i - 1)]
    <3>1. /\ a \o b \in Seq(Save) /\ Len(a \o b) = Len(a) + Len(b)
          /\ \A j \in 1..(Len(a) + Len(b)) :
               (a \o b)[j] = IF j <= Len(a) THEN a[j] ELSE b[j - Len(a)]
      BY <2>1, <2>2, ConcatProperties
    <3>2. Len(a) + Len(b) = n - 1
      BY <1>1, <2>1, <2>2
    <3>3. \A j \in 1..(n - 1) : j <= Len(a) <=> j < i
      BY <1>1, <2>1
    <3> QED
      BY <2>1, <3>1, <3>2, <3>3
  <2>4. ASSUME NEW j \in 1..(n - 1) PROVE (a \o b)[j] = IF j < i THEN o[j] ELSE o[j + 1]
    <3>1. CASE j < i
      BY <3>1, <1>1, <2>1, <2>3
    <3>2. CASE ~(j < i)
      <4>1. j - (i - 1) \in 1..(n - i) /\ i + (j - (i - 1)) = j + 1
        BY <3>2, <1>1
      <4> QED
        BY <3>2, <4>1, <2>2, <2>3
    <3> QED
      BY <3>1, <3>2
  <2> QED
    BY <1>3, <2>3, <2>4 DEF a, b
<1> HIDE DEF l
<1>5. \A j \in DOMAIN l : \E k \in DOMAIN s : l[j].text = s[k].text
  <2> TAKE j \in DOMAIN l
  <2>1. j \in 1..(n - 1) /\ j \in 1..n /\ j + 1 \in 1..n
    BY <1>1, <1>4
  <2>2. CASE j < i
    BY <2>1, <2>2, <1>1, <1>2, <1>4
  <2>3. CASE ~(j < i)
    BY <2>1, <2>3, <1>1, <1>2, <1>4
  <2> QED
    BY <2>2, <2>3
<1>6. l = <<>> => n = 1 /\ i = 1
  <2>1. l = <<>> => Len(l) = 0
    OBVIOUS
  <2> QED
    BY <2>1, <1>1, <1>4
<1>7. ASSUME l # <<>>, ~l[Len(l)].overtaken
      PROVE  s # <<>> /\ i < n /\ l[Len(l)] = s[n]
  <2>1. n - 1 \in 1..(n - 1) /\ Len(l) = n - 1
    BY <1>1, <1>4, <1>7
  <2>2. i < n
    <3> SUFFICES ASSUME i = n PROVE FALSE
      BY <1>1
    <3>1. l[Len(l)] = o[n - 1]
      BY <2>1, <1>1, <1>4
    <3> QED
      BY <3>1, <2>1, <1>1, <1>2, <1>7
  <2>3. l[Len(l)] = o[n]
    BY <2>1, <2>2, <1>1, <1>4
  <2> QED
    BY <2>1, <2>2, <2>3, <1>1, <1>2
<1> QED
  BY <1>4, <1>5, <1>6, <1>7 DEF l
-------------------------------------------------------------------------------
(* The inductive invariant *)

OwnTexts(c) == TextsOf(c) \cup {NoText}

\* No text is on its way to another channel than its own.
DraftsAtHome == \A c \in Channels : draft[c] \in OwnTexts(c)
SavesAtHome  == \A c \in Channels : \A i \in DOMAIN saves[c] : saves[c][i].text \in OwnTexts(c)
QueryAtHome  == \A c \in Channels : /\ cache[c] \in OwnTexts(c) \cup {NoData}
                                    /\ fetch[c] \in OwnTexts(c) \cup {NotAsked, Asking}
TextAtHome   == text \in OwnTexts(selected)
AllAtHome    == DraftsAtHome /\ SavesAtHome /\ QueryAtHome /\ TextAtHome

\* The last save of a channel is still to be stored, and will be the last one.
LastSave(c) == saves[c][Len(saves[c])]
Pending(c)  == saves[c] # <<>> /\ ~LastSave(c).overtaken

\* What a composer at rest shows was saved last.
SeenIsSent ==
  hydrated /\ ~armed =>
    /\ selected \in fresh => draft[selected] = text
    /\ Pending(selected) => LastSave(selected).text = text

\* A channel that no accident met: its composer shows what the user left, and
\* so does its draft, or the save that will be the last to change it.
Settled(c) == c # selected \/ (hydrated /\ ~armed)
Kept(c) ==
  /\ c = selected /\ hydrated => text = intent[c]
  /\ Settled(c) => /\ saves[c] = <<>> => draft[c] = intent[c]
                   /\ Pending(c) => LastSave(c).text = intent[c]
AllKept == \A c \in Channels \ lost : Kept(c)

IInv == TypeOK /\ AllAtHome /\ SeenIsSent /\ AllKept
-------------------------------------------------------------------------------
(* Steps *)

\* A save that is stored or has failed leaves the others of its channel.
LEMMA SavesLeft ==
  ASSUME saves \in [Channels -> Seq(Save)], NEW c \in Channels, NEW i \in DOMAIN saves[c],
         StoreSave(c, i) \/ SaveFails(c, i)
  PROVE  /\ saves' \in [Channels -> Seq(Save)]
         /\ saves'[c] = Left(c, i)
         /\ \A d \in Channels \ {c} : saves'[d] = saves[d]
<1>1. saves' = [saves EXCEPT ![c] = Left(c, i)]
  BY DEF StoreSave, SaveFails, Left
<1>2. Left(c, i) \in Seq(Save)
  BY LeftFacts
<1> QED
  BY <1>1, <1>2

\* The timer adds one save at the end.
LEMMA SaveAdded ==
  ASSUME TypeOK, Fire
  PROVE  /\ saves' \in [Channels -> Seq(Save)]
         /\ saves'[selected] # <<>>
         /\ DOMAIN saves'[selected] = DOMAIN saves[selected] \cup {Len(saves'[selected])}
         /\ saves'[selected][Len(saves'[selected])] = [text |-> text, overtaken |-> FALSE]
         /\ \A j \in DOMAIN saves[selected] : saves'[selected][j] = saves[selected][j]
         /\ \A d \in Channels \ {selected} : saves'[d] = saves[d]
<1> DEFINE e == [text |-> text, overtaken |-> FALSE]
           s == saves[selected]
<1>1. s \in Seq(Save) /\ selected \in Channels /\ saves \in [Channels -> Seq(Save)]
  BY DEF TypeOK
<1>2. e \in Save
  BY DEF TypeOK, Save
<1>3. saves' = [saves EXCEPT ![selected] = Append(s, e)]
  BY DEF Fire
<1> HIDE DEF e
<1>4. Append(s, e) \in Seq(Save) /\ Len(Append(s, e)) = Len(s) + 1 /\ Append(s, e) # <<>>
  BY <1>1, <1>2, AppendProperties
<1>5. Append(s, e)[Len(s) + 1] = e /\ \A j \in 1..Len(s) : Append(s, e)[j] = s[j]
  BY <1>1, <1>2, AppendProperties
<1>6. DOMAIN s = 1..Len(s) /\ DOMAIN Append(s, e) = 1..(Len(s) + 1) /\ Len(s) \in Nat
  BY <1>1, <1>4
<1>7. saves'[selected] = Append(s, e)
  BY <1>1, <1>3
<1>8. 1..(Len(s) + 1) = 1..Len(s) \cup {Len(s) + 1}
  BY <1>6
<1> QED
  BY <1>1, <1>3, <1>4, <1>5, <1>6, <1>7, <1>8 DEF e

LEMMA TypeStep ==
  ASSUME TypeOK, [Next]_vars
  PROVE  TypeOK'
<1> USE DraftsAssumption
<1>1. ASSUME NEW c \in Channels, NEW i \in DOMAIN saves[c], StoreSave(c, i) \/ SaveFails(c, i)
      PROVE  TypeOK'
  <2>1. saves' \in [Channels -> Seq(Save)]
    BY <1>1, SavesLeft DEF TypeOK
  <2>2. saves[c][i].text \in Texts \cup {NoText}
    <3>1. saves[c][i] \in Save
      BY <1>1 DEF TypeOK
    <3> QED
      BY <3>1 DEF Save
  <2>3. CASE StoreSave(c, i)
    BY <2>3, <2>1, <2>2 DEF TypeOK, StoreSave, query, page, bounds
  <2>4. CASE SaveFails(c, i)
    BY <2>4, <2>1 DEF TypeOK, SaveFails, query, page, bounds
  <2> QED
    BY <1>1, <2>3, <2>4
<1>2. ASSUME NEW c \in Channels, ServeFetch(c) \/ FetchAnswered(c) \/ FetchFails(c)
      PROVE  TypeOK'
  <2>1. CASE ServeFetch(c)
    BY <2>1 DEF TypeOK, ServeFetch, server, page, bounds
  <2>2. CASE FetchAnswered(c)
    <3>1. fetch[c] \in Texts \cup {NoText}
      BY <2>2 DEF TypeOK, FetchAnswered
    <3>2. /\ text' \in Texts \cup {NoText} /\ hydrated' \in BOOLEAN /\ armed' \in BOOLEAN
          /\ (armed' => hydrated') /\ lost' \subseteq Channels
      BY <2>2, <3>1 DEF TypeOK, FetchAnswered, Hydrate
    <3> QED
      BY <2>2, <3>1, <3>2 DEF TypeOK, FetchAnswered, server, bounds
  <2>3. CASE FetchFails(c)
    <3>1. /\ text' \in Texts \cup {NoText} /\ hydrated' \in BOOLEAN /\ armed' \in BOOLEAN
          /\ (armed' => hydrated') /\ lost' \subseteq Channels
      BY <2>3 DEF TypeOK, FetchFails, Hydrate
    <3> QED
      BY <2>3, <3>1 DEF TypeOK, FetchFails, server, bounds
  <2> QED
    BY <1>2, <2>1, <2>2, <2>3
<1>3. ASSUME NEW c \in Channels, Reload(c)
      PROVE  TypeOK'
  <2>1. \A k \in calls : k.channel \in Channels
    BY DEF TypeOK, Call
  <2>2. lost' \subseteq Channels
    BY <1>3, <2>1 DEF TypeOK, Reload, Abandoned
  <2>3. cache' \in [Channels -> {NoData}] /\ fetch' \in [Channels -> {Asking, NotAsked}]
    BY <1>3 DEF Reload
  <2> QED
    BY <1>3, <2>2, <2>3 DEF TypeOK, Reload, server
<1>4. ASSUME NEW c \in Channels, NEW old \in BOOLEAN, Select(c, old)
      PROVE  TypeOK'
  <2>1. fetch' \in [Channels -> Texts \cup {NoText, NotAsked, Asking}]
    BY <1>4 DEF TypeOK, Select
  <2>2. /\ text' \in Texts \cup {NoText} /\ hydrated' \in BOOLEAN /\ armed' \in BOOLEAN
        /\ (armed' => hydrated') /\ lost' \subseteq Channels
    <3>1. Abandoned \subseteq Channels
      BY DEF TypeOK, Abandoned
    <3>2. CASE cache[c] = NoData
      BY <1>4, <3>1, <3>2 DEF TypeOK, Select
    <3>3. CASE cache[c] # NoData
      <4>1. /\ text' = cache[c] /\ hydrated' = TRUE /\ armed' = TRUE
            /\ lost' \subseteq lost \cup Abandoned \cup {c}
        BY <1>4, <3>3 DEF Select
      <4>2. cache[c] \in Texts \cup {NoText}
        BY <3>3 DEF TypeOK
      <4> QED
        BY <4>1, <4>2, <3>1 DEF TypeOK
    <3> QED
      BY <3>2, <3>3
  <2> QED
    BY <1>4, <2>1, <2>2 DEF TypeOK, Select, server
<1>5. CASE Fire
  <2>1. saves' \in [Channels -> Seq(Save)]
    BY <1>5, SaveAdded
  <2> QED
    BY <1>5, <2>1 DEF TypeOK, Fire, query, bounds
<1>6. ASSUME NEW t \in Texts \cup {NoText}, Type(t)
      PROVE  TypeOK'
  BY <1>6 DEF TypeOK, Type, server, query
<1>7. ASSUME NEW do \in {"send", "schedule"}, Submit(do)
      PROVE  TypeOK'
  <2>1. [do |-> do, channel |-> selected, text |-> text] \in Call
    BY <1>7 DEF TypeOK, Submit, Call
  <2>2. calls' \subseteq Call
    BY <1>7, <2>1 DEF TypeOK, Submit
  <2> QED
    BY <1>7, <2>2 DEF TypeOK, Submit, server, query, page, bounds
<1>8. ASSUME NEW k \in calls, SubmitAnswered(k) \/ SubmitFails(k)
      PROVE  TypeOK'
  <2>1. k.channel \in Channels
    BY <1>8 DEF TypeOK, Call
  <2>2. CASE SubmitAnswered(k)
    <3>1. /\ fetch' \in [Channels -> Texts \cup {NoText, NotAsked, Asking}]
          /\ stale' \subseteq Channels /\ calls' \subseteq Call
      BY <2>1, <2>2 DEF TypeOK, SubmitAnswered
    <3>2. intent' \in [Channels -> Texts \cup {NoText}] /\ lost' \subseteq Channels
      BY <2>1, <2>2 DEF TypeOK, SubmitAnswered
    <3>3. armed' \in BOOLEAN /\ (armed' => hydrated)
      BY <2>2 DEF TypeOK, SubmitAnswered
    <3> QED
      BY <2>2, <3>1, <3>2, <3>3 DEF TypeOK, SubmitAnswered, server, bounds
  <2>3. CASE SubmitFails(k)
    BY <2>3 DEF TypeOK, SubmitFails, server, query, page, bounds
  <2> QED
    BY <1>8, <2>2, <2>3
<1>9. CASE UNCHANGED vars
  BY <1>9 DEF TypeOK, vars, server, query, page, bounds
<1> QED
  BY <1>1, <1>2, <1>3, <1>4, <1>5, <1>6, <1>7, <1>8, <1>9 DEF Next

LEMMA TypeInit == Init => TypeOK
<1> SUFFICES ASSUME Init PROVE TypeOK
  OBVIOUS
<1>1. saves \in [Channels -> Seq(Save)]
  BY DEF Init
<1> QED
  BY <1>1, DraftsAssumption DEF Init, TypeOK

\* The state of the composer, the rows and the calls keeps its types.
THEOREM TypeCorrect == Spec => []TypeOK
<1>1. Init => TypeOK
  BY TypeInit
<1>2. TypeOK /\ [Next]_vars => TypeOK'
  BY TypeStep
<1> QED
  BY <1>1, <1>2, PTL DEF Spec
\* Channels keep their texts apart.
LEMMA HomeStep ==
  ASSUME TypeOK, AllAtHome, [Next]_vars
  PROVE  AllAtHome'
<1>1. \A c \in Channels : NoText \in OwnTexts(c)
  BY DEF OwnTexts
<1>2. ASSUME NEW c \in Channels, NEW i \in DOMAIN saves[c], StoreSave(c, i) \/ SaveFails(c, i)
      PROVE  AllAtHome'
  <2>1. saves[c][i].text \in OwnTexts(c)
    BY <1>2 DEF AllAtHome, SavesAtHome
  <2>2. DraftsAtHome'
    BY <1>2, <2>1 DEF AllAtHome, DraftsAtHome, StoreSave, SaveFails, TypeOK
  <2>3. SavesAtHome'
    <3> SUFFICES ASSUME NEW d \in Channels, NEW j \in DOMAIN saves'[d]
                 PROVE  saves'[d][j].text \in OwnTexts(d)
      BY DEF SavesAtHome
    <3>1. CASE d = c
      <4>1. saves'[c] = Left(c, i)
        BY <1>2, SavesLeft DEF TypeOK
      <4>2. \A m \in DOMAIN Left(c, i) : \E k \in DOMAIN saves[c] :
              Left(c, i)[m].text = saves[c][k].text
        BY <1>2, LeftFacts DEF TypeOK
      <4>3. PICK k \in DOMAIN saves[c] : saves'[c][j].text = saves[c][k].text
        BY <3>1, <4>1, <4>2
      <4>4. saves[c][k].text \in OwnTexts(c)
        BY DEF AllAtHome, SavesAtHome
      <4> QED
        BY <3>1, <4>3, <4>4
    <3>2. CASE d # c
      BY <1>2, <3>2, SavesLeft DEF TypeOK, AllAtHome, SavesAtHome
    <3> QED
      BY <3>1, <3>2
  <2>4. QueryAtHome' /\ TextAtHome'
    BY <1>2 DEF AllAtHome, QueryAtHome, TextAtHome, StoreSave, SaveFails, query, page
  <2> QED
    BY <2>2, <2>3, <2>4 DEF AllAtHome
<1>3. CASE Fire
  <2>1. SavesAtHome'
    <3> SUFFICES ASSUME NEW d \in Channels, NEW j \in DOMAIN saves'[d]
                 PROVE  saves'[d][j].text \in OwnTexts(d)
      BY DEF SavesAtHome
    <3>1. CASE d = selected
      <4>1. CASE j \in DOMAIN saves[selected]
        BY <1>3, <3>1, <4>1, SaveAdded DEF AllAtHome, SavesAtHome
      <4>2. CASE j = Len(saves'[selected])
        BY <1>3, <3>1, <4>2, SaveAdded DEF AllAtHome, TextAtHome
      <4> QED
        BY <1>3, <3>1, <4>1, <4>2, SaveAdded
    <3>2. CASE d # selected
      BY <1>3, <3>2, SaveAdded DEF AllAtHome, SavesAtHome
    <3> QED
      BY <3>1, <3>2
  <2>2. DraftsAtHome' /\ QueryAtHome' /\ TextAtHome'
    BY <1>3 DEF AllAtHome, DraftsAtHome, QueryAtHome, TextAtHome, Fire, query
  <2> QED
    BY <2>1, <2>2 DEF AllAtHome
<1>4. ASSUME UNCHANGED <<draft, saves>>, QueryAtHome', TextAtHome'
      PROVE  AllAtHome'
  BY <1>4 DEF AllAtHome, DraftsAtHome, SavesAtHome
<1>5. ASSUME NEW c \in Channels, ServeFetch(c)
      PROVE  AllAtHome'
  <2>1. draft[c] \in OwnTexts(c)
    BY DEF AllAtHome, DraftsAtHome
  <2>2. QueryAtHome'
    BY <1>5, <2>1 DEF AllAtHome, QueryAtHome, ServeFetch, TypeOK
  <2> QED
    BY <1>4, <1>5, <2>2 DEF AllAtHome, TextAtHome, ServeFetch, server, page
<1>6. ASSUME NEW c \in Channels, FetchAnswered(c)
      PROVE  AllAtHome'
  <2>1. fetch[c] \in OwnTexts(c)
    BY <1>6 DEF AllAtHome, QueryAtHome, FetchAnswered
  <2>2. QueryAtHome'
    BY <1>6, <2>1 DEF AllAtHome, QueryAtHome, FetchAnswered, TypeOK
  <2>3. TextAtHome'
    BY <1>6, <2>1 DEF AllAtHome, TextAtHome, FetchAnswered, Hydrate
  <2> QED
    BY <1>4, <1>6, <2>2, <2>3 DEF FetchAnswered, server
<1>7. ASSUME NEW c \in Channels, FetchFails(c)
      PROVE  AllAtHome'
  <2>1. QueryAtHome'
    BY <1>7 DEF AllAtHome, QueryAtHome, FetchFails, TypeOK
  <2>2. TextAtHome'
    BY <1>1, <1>7 DEF AllAtHome, TextAtHome, FetchFails, Hydrate
  <2> QED
    BY <1>4, <1>7, <2>1, <2>2 DEF FetchFails, server
<1>8. ASSUME NEW c \in Channels, Reload(c)
      PROVE  AllAtHome'
  <2>1. QueryAtHome' /\ TextAtHome'
    BY <1>1, <1>8 DEF QueryAtHome, TextAtHome, Reload
  <2> QED
    BY <1>4, <1>8, <2>1 DEF Reload, server
<1>9. ASSUME NEW c \in Channels, NEW old \in BOOLEAN, Select(c, old)
      PROVE  AllAtHome'
  <2>1. QueryAtHome'
    BY <1>9 DEF AllAtHome, QueryAtHome, Select, TypeOK
  <2>2. TextAtHome'
    BY <1>1, <1>9 DEF AllAtHome, QueryAtHome, TextAtHome, Select
  <2> QED
    BY <1>4, <1>9, <2>1, <2>2 DEF Select, server
<1>10. ASSUME NEW t \in Texts \cup {NoText}, Type(t)
       PROVE  AllAtHome'
  <2>1. QueryAtHome' /\ TextAtHome'
    BY <1>10 DEF AllAtHome, QueryAtHome, TextAtHome, OwnTexts, Type, query
  <2> QED
    BY <1>4, <1>10, <2>1 DEF Type, server
<1>11. ASSUME NEW k \in calls, SubmitAnswered(k)
       PROVE  AllAtHome'
  <2>1. QueryAtHome'
    BY <1>11 DEF AllAtHome, QueryAtHome, SubmitAnswered, TypeOK
  <2>2. TextAtHome'
    BY <1>1, <1>11 DEF TextAtHome, SubmitAnswered, TypeOK
  <2> QED
    BY <1>4, <1>11, <2>1, <2>2 DEF SubmitAnswered, server
<1>12. ASSUME UNCHANGED <<server, query, page>>
       PROVE  AllAtHome'
  BY <1>4, <1>12 DEF AllAtHome, QueryAtHome, TextAtHome, server, query, page
<1> QED
  BY <1>2, <1>3, <1>5, <1>6, <1>7, <1>8, <1>9, <1>10, <1>11, <1>12
  DEF Next, Submit, SubmitFails, vars

\* What the end of a save means for the last one, the draft and the accidents.
LEMMA SaveStep ==
  ASSUME TypeOK, NEW c \in Channels, NEW i \in DOMAIN saves[c],
         StoreSave(c, i) \/ SaveFails(c, i)
  PROVE  /\ \A d \in Channels \ {c} : /\ saves'[d] = saves[d] /\ draft'[d] = draft[d]
                                      /\ d \in fresh' => d \in fresh
         /\ Pending(c)' => Pending(c) /\ LastSave(c)' = LastSave(c)
         /\ c \in fresh' => Pending(c) /\ draft'[c] = LastSave(c).text
         /\ saves'[c] = <<>> /\ c \notin lost' => Pending(c) /\ draft'[c] = LastSave(c).text
         /\ lost \subseteq lost'
         /\ UNCHANGED <<selected, text, hydrated, armed, intent>>
<1>1. /\ saves'[c] = Left(c, i)
      /\ \A d \in Channels \ {c} : saves'[d] = saves[d]
  BY SavesLeft DEF TypeOK
<1>2. /\ Left(c, i) = <<>> => Len(saves[c]) = 1 /\ i = 1
      /\ Left(c, i) # <<>> /\ ~Left(c, i)[Len(Left(c, i))].overtaken =>
           /\ saves[c] # <<>> /\ i < Len(saves[c])
           /\ Left(c, i)[Len(Left(c, i))] = saves[c][Len(saves[c])]
  BY LeftFacts DEF TypeOK
<1>3. saves[c] # <<>>
  BY DEF TypeOK
<1>4. Pending(c)' => Pending(c) /\ LastSave(c)' = LastSave(c)
  BY <1>1, <1>2, <1>3 DEF Pending, LastSave
<1>5. CASE StoreSave(c, i)
  <2>1. draft'[c] = saves[c][i].text
    BY <1>5 DEF StoreSave, TypeOK
  <2>2. c \in fresh' => Pending(c) /\ draft'[c] = LastSave(c).text
    BY <1>3, <1>5, <2>1 DEF StoreSave, Pending, LastSave
  <2>3. saves'[c] = <<>> /\ c \notin lost' => Pending(c) /\ draft'[c] = LastSave(c).text
    BY <1>1, <1>2, <1>3, <1>5, <2>1 DEF StoreSave, Pending, LastSave
  <2>4. \A d \in Channels \ {c} : draft'[d] = draft[d] /\ (d \in fresh' => d \in fresh)
    BY <1>5 DEF StoreSave, TypeOK
  <2> QED
    BY <1>1, <1>4, <1>5, <2>2, <2>3, <2>4 DEF StoreSave, page
<1>6. CASE SaveFails(c, i)
  <2>1. c \notin fresh' /\ c \in lost'
    BY <1>6 DEF SaveFails
  <2> QED
    BY <1>1, <1>4, <1>6, <2>1 DEF SaveFails, page
<1> QED
  BY <1>5, <1>6

\* A composer that comes to rest has sent what it shows.
LEMMA SeenStep ==
  ASSUME TypeOK, SeenIsSent, [Next]_vars
  PROVE  SeenIsSent'
<1>1. ASSUME NEW c \in Channels, NEW i \in DOMAIN saves[c], StoreSave(c, i) \/ SaveFails(c, i)
      PROVE  SeenIsSent'
  <2>1. CASE selected = c
    BY <1>1, <2>1, SaveStep DEF SeenIsSent
  <2>2. CASE selected # c
    <3>1. selected \in Channels \ {c}
      BY <2>2 DEF TypeOK
    <3>2. /\ saves'[selected] = saves[selected] /\ draft'[selected] = draft[selected]
          /\ selected \in fresh' => selected \in fresh
          /\ UNCHANGED <<selected, text, hydrated, armed>>
      BY <1>1, <3>1, SaveStep
    <3> QED
      BY <3>2 DEF SeenIsSent, Pending, LastSave
  <2> QED
    BY <2>1, <2>2
<1>2. CASE Fire
  <2>1. selected \notin fresh' /\ UNCHANGED <<selected, text>>
    BY <1>2 DEF Fire
  <2>2. LastSave(selected)'.text = text
    BY <1>2, <2>1, SaveAdded DEF LastSave
  <2> QED
    BY <2>1, <2>2 DEF SeenIsSent
<1>3. ASSUME UNCHANGED <<draft, saves, fresh, selected>>,
             hydrated' /\ ~armed' => hydrated /\ ~armed /\ text' = text
      PROVE  SeenIsSent'
  BY <1>3 DEF SeenIsSent, Pending, LastSave
<1>4. ASSUME NEW c \in Channels, ServeFetch(c) \/ FetchAnswered(c) \/ FetchFails(c)
      PROVE  SeenIsSent'
  BY <1>3, <1>4 DEF ServeFetch, FetchAnswered, FetchFails, Hydrate, server, page
<1>5. ASSUME hydrated' => armed'
      PROVE  SeenIsSent'
  BY <1>5 DEF SeenIsSent
<1>6. ASSUME NEW c \in Channels, NEW old \in BOOLEAN, Reload(c) \/ Select(c, old)
      PROVE  SeenIsSent'
  BY <1>5, <1>6 DEF Reload, Select
<1>7. ASSUME NEW t \in Texts \cup {NoText}, Type(t)
      PROVE  SeenIsSent'
  BY <1>5, <1>7 DEF Type
<1>8. ASSUME NEW k \in calls, SubmitAnswered(k)
      PROVE  SeenIsSent'
  BY <1>3, <1>5, <1>8 DEF SubmitAnswered, server
<1>9. ASSUME UNCHANGED <<server, page>>
      PROVE  SeenIsSent'
  BY <1>3, <1>9 DEF server, page
<1> QED
  BY <1>1, <1>2, <1>4, <1>6, <1>7, <1>8, <1>9 DEF Next, Submit, SubmitFails, vars
\* What no accident met stays as the user left it.
LEMMA KeptStep ==
  ASSUME TypeOK, AllKept, [Next]_vars
  PROVE  AllKept'
<1>1. ASSUME NEW d \in Channels, d \notin lost, UNCHANGED <<draft, saves>>,
             intent'[d] = intent[d],
             d = selected' /\ hydrated' => text' = intent[d],
             Settled(d)' => Settled(d)
      PROVE  Kept(d)'
  BY <1>1 DEF AllKept, Kept, Pending, LastSave
<1>2. ASSUME NEW c \in Channels, NEW i \in DOMAIN saves[c], StoreSave(c, i) \/ SaveFails(c, i),
             NEW d \in Channels, d \notin lost'
      PROVE  Kept(d)'
  <2>1. Kept(d) /\ UNCHANGED <<selected, text, hydrated, armed, intent>>
    BY <1>2, SaveStep DEF AllKept
  <2>2. CASE d = c
    BY <1>2, <2>1, <2>2, SaveStep DEF Kept, Settled
  <2>3. CASE d # c
    <3>1. saves'[d] = saves[d] /\ draft'[d] = draft[d]
      BY <1>2, <2>3, SaveStep
    <3> QED
      BY <2>1, <3>1 DEF Kept, Settled, Pending, LastSave
  <2> QED
    BY <2>2, <2>3
<1>3. ASSUME Fire, NEW d \in Channels, d \notin lost'
      PROVE  Kept(d)'
  <2>1. Kept(d) /\ hydrated /\ UNCHANGED <<draft, selected, text, hydrated, intent>>
    BY <1>3 DEF AllKept, Fire, TypeOK
  <2>2. CASE d = selected
    <3>1. saves'[d] # <<>> /\ LastSave(d)'.text = text
      BY <1>3, <2>2, SaveAdded DEF LastSave
    <3>2. text = intent[d]
      BY <2>1, <2>2 DEF Kept
    <3> QED
      BY <2>1, <3>1, <3>2 DEF Kept
  <2>3. CASE d # selected
    <3>1. saves'[d] = saves[d]
      BY <1>3, <2>3, SaveAdded
    <3> QED
      BY <2>1, <2>3, <3>1 DEF Kept, Settled, Pending, LastSave
  <2> QED
    BY <2>2, <2>3
<1>4. ASSUME NEW c \in Channels, ServeFetch(c), NEW d \in Channels, d \notin lost'
      PROVE  Kept(d)'
  <2>1. Kept(d) /\ d \notin lost
    BY <1>4 DEF AllKept, ServeFetch
  <2> QED
    BY <1>1, <1>4, <2>1 DEF ServeFetch, Kept, Settled, server, page
<1>5. ASSUME NEW c \in Channels, FetchAnswered(c) \/ FetchFails(c), NEW d \in Channels, d \notin lost'
      PROVE  Kept(d)'
  <2>1. Kept(d) /\ d \notin lost
    BY <1>5 DEF AllKept, FetchAnswered, FetchFails, Hydrate
  <2>2. UNCHANGED <<draft, saves, selected, intent>>
    BY <1>5 DEF FetchAnswered, FetchFails, server
  <2>3. CASE UNCHANGED <<text, hydrated, armed>>
    BY <1>1, <2>1, <2>2, <2>3 DEF Kept, Settled
  <2>4. ASSUME NEW t, c = selected, Hydrate(c, t)
        PROVE  Kept(d)'
    <3>1. d = selected => text' = intent[d]
      BY <1>5, <2>4 DEF Hydrate
    <3>2. Settled(d)' => Settled(d)
      BY <2>2, <2>4 DEF Hydrate, Settled
    <3> QED
      BY <1>1, <2>1, <2>2, <3>1, <3>2
  <2> QED
    BY <1>5, <2>3, <2>4 DEF FetchAnswered, FetchFails
<1>6. ASSUME NEW c \in Channels, Reload(c), NEW d \in Channels, d \notin lost'
      PROVE  Kept(d)'
  <2>1. d \notin lost /\ d \notin Abandoned
    BY <1>6 DEF Reload
  <2>2. Settled(d)
    BY <2>1 DEF Abandoned, Settled
  <2> QED
    BY <1>1, <1>6, <2>1, <2>2 DEF Reload, server
<1>7. ASSUME NEW c \in Channels, NEW old \in BOOLEAN, Select(c, old),
             NEW d \in Channels, d \notin lost'
      PROVE  Kept(d)'
  <2>1. d \notin lost /\ d \notin Abandoned
    BY <1>7 DEF Select
  <2>2. Settled(d)
    BY <2>1 DEF Abandoned, Settled
  <2>3. d = selected' /\ hydrated' => text' = intent[d]
    BY <1>7 DEF Select
  <2> QED
    BY <1>1, <1>7, <2>1, <2>2, <2>3 DEF Select, server
<1>8. ASSUME NEW t \in Texts \cup {NoText}, Type(t), NEW d \in Channels, d \notin lost'
      PROVE  Kept(d)'
  <2>1. Kept(d) /\ d \notin lost /\ UNCHANGED <<draft, saves, selected, hydrated>>
    BY <1>8 DEF AllKept, Type, server
  <2>2. CASE d = selected
    <3>1. text' = intent'[d] /\ ~Settled(d)'
      BY <1>8, <2>1, <2>2 DEF Type, Settled, TypeOK
    <3> QED
      BY <3>1 DEF Kept
  <2>3. CASE d # selected
    BY <1>1, <1>8, <2>1, <2>3 DEF Type, Settled, TypeOK
  <2> QED
    BY <2>2, <2>3
<1>9. ASSUME NEW k \in calls, SubmitAnswered(k), NEW d \in Channels, d \notin lost'
      PROVE  Kept(d)'
  <2>1. Kept(d) /\ d \notin lost /\ UNCHANGED <<draft, saves, selected, hydrated>>
    BY <1>9 DEF AllKept, SubmitAnswered, server
  <2>2. k.text \in Texts /\ k.channel \in Channels
    BY <1>9 DEF TypeOK, Call
  <2>3. text' = NoText /\ NoText \notin Texts
    BY <1>9, DraftsAssumption DEF SubmitAnswered
  <2>4. CASE d = selected /\ d = k.channel
    <3>1. text = k.text /\ text # NoText
      BY <1>9, <2>2, <2>3, <2>4 DEF SubmitAnswered
    <3>2. ~Settled(d)'
      BY <1>9, <2>1, <2>4, <3>1 DEF SubmitAnswered, Settled
    <3>3. hydrated => text' = intent'[d]
      BY <1>9, <2>1, <2>3, <2>4, <3>1 DEF SubmitAnswered, Kept, TypeOK
    <3> QED
      BY <2>1, <3>2, <3>3 DEF Kept
  <2>5. CASE d = selected /\ d # k.channel
    <3>1. text = NoText
      BY <1>9, <2>5 DEF SubmitAnswered
    <3>2. intent'[d] = intent[d] /\ armed' = armed
      BY <1>9, <2>2, <2>5, <3>1 DEF SubmitAnswered, TypeOK
    <3> QED
      BY <1>1, <2>1, <2>3, <2>5, <3>1, <3>2 DEF Kept, Settled
  <2>6. CASE d # selected
    <3>1. d # k.channel
      BY <1>9, <2>6 DEF SubmitAnswered
    <3>2. intent'[d] = intent[d]
      BY <1>9, <2>2, <3>1 DEF SubmitAnswered, TypeOK
    <3> QED
      BY <1>1, <2>1, <2>6, <3>2 DEF Settled
  <2> QED
    BY <2>4, <2>5, <2>6
<1>10. ASSUME UNCHANGED <<server, page, intent, lost>>
       PROVE  AllKept'
  <2> SUFFICES ASSUME NEW d \in Channels, d \notin lost PROVE Kept(d)'
    BY <1>10 DEF AllKept
  <2>1. Kept(d)
    BY DEF AllKept
  <2> QED
    BY <1>1, <1>10, <2>1 DEF Kept, Settled, server, page
<1>11. ASSUME \A d \in Channels : d \notin lost' => Kept(d)'
       PROVE  AllKept'
  BY <1>11 DEF AllKept
<1> QED
  BY <1>2, <1>3, <1>4, <1>5, <1>6, <1>7, <1>8, <1>9, <1>10, <1>11
  DEF Next, Submit, SubmitFails, vars

-------------------------------------------------------------------------------
(* Results *)

LEMMA Invariance == Spec => []IInv
<1>1. Init => IInv
  <2> SUFFICES ASSUME Init PROVE IInv
    OBVIOUS
  <2>1. TypeOK
    BY TypeInit
  <2>2. AllAtHome
    BY DraftsAssumption DEF Init, AllAtHome, DraftsAtHome, SavesAtHome, QueryAtHome, TextAtHome,
                            OwnTexts
  <2>3. SeenIsSent
    BY DEF Init, SeenIsSent
  <2>4. \A c \in Channels : draft[c] = NoText /\ intent[c] = NoText /\ saves[c] = <<>>
    BY DEF Init
  <2>5. AllKept
    BY <2>4 DEF Init, AllKept, Kept, Pending
  <2> QED
    BY <2>1, <2>2, <2>3, <2>5 DEF IInv
<1>2. IInv /\ [Next]_vars => IInv'
  BY TypeStep, HomeStep, SeenStep, KeptStep DEF IInv
<1> QED
  BY <1>1, <1>2, PTL DEF Spec

\* Drafts stay in their channel, a composer at rest shows the stored row, and a
\* draft is what the user left unless a named accident happened (page.tsx
\* 167-208, upsertDraft).
THEOREM DraftsStayTrue == Spec => []DraftsAreKept
<1>1. IInv => DraftsAreKept
  <2> SUFFICES ASSUME IInv PROVE DraftsAreKept
    OBVIOUS
  <2>1. TypedHere
    BY DEF IInv, AllAtHome, DraftsAtHome, TextAtHome, OwnTexts, TypedHere
  <2>2. SeenIsSaved
    BY DEF IInv, SeenIsSent, SeenIsSaved
  <2>3. LossesAreKnown
    BY DEF IInv, AllKept, Kept, Settled, LossesAreKnown, AtRest
  <2> QED
    BY <2>1, <2>2, <2>3 DEF DraftsAreKept
<1> QED
  BY <1>1, Invariance, PTL

-------------------------------------------------------------------------------
(* Marks *)

LEMMA Removed1 ==
  ASSUME NEW Item, NEW s \in Seq(Item), NEW i \in 1..Len(s)
  PROVE  /\ RemoveAt(s, i) \in Seq(Item) /\ Len(RemoveAt(s, i)) = Len(s) - 1
         /\ \A j \in 1..(Len(s) - 1) : RemoveAt(s, i)[j] = IF j < i THEN s[j] ELSE s[j + 1]
<1> DEFINE before == SubSeq(s, 1, i - 1)
           after  == SubSeq(s, i + 1, Len(s))
<1>1. Len(s) \in Nat /\ i \in Nat /\ \A j \in 1..Len(s) : s[j] \in Item
  OBVIOUS
<1>2. /\ before \in Seq(Item) /\ Len(before) = i - 1
      /\ \A j \in 1..(i - 1) : before[j] = s[j]
  BY <1>1, SubSeqProperties
<1>3. /\ after \in Seq(Item) /\ Len(after) = Len(s) - i
      /\ \A j \in 1..(Len(s) - i) : after[j] = s[i + j]
  BY <1>1, SubSeqProperties
<1>4. RemoveAt(s, i) = before \o after
  BY DEF RemoveAt
<1> DEFINE rest == before \o after
<1> HIDE DEF before, after
<1>5. /\ rest \in Seq(Item) /\ Len(rest) = Len(before) + Len(after)
      /\ \A j \in 1..(Len(before) + Len(after)) :
           rest[j] = IF j <= Len(before) THEN before[j] ELSE after[j - Len(before)]
  BY <1>2, <1>3, ConcatProperties
<1> HIDE DEF rest
<1>6. ASSUME NEW j \in 1..(Len(s) - 1)
      PROVE  rest[j] = IF j < i THEN s[j] ELSE s[j + 1]
  <2>1. CASE j < i
    <3>1. j \in 1..(i - 1) /\ j \in 1..(Len(before) + Len(after)) /\ j <= Len(before)
      BY <1>1, <1>2, <1>3, <1>6, <2>1
    <3>2. rest[j] = before[j]
      BY <1>5, <3>1
    <3>3. QED
      BY <1>2, <2>1, <3>1, <3>2
  <2>2. CASE j >= i
    <3>1. j - (i - 1) \in 1..(Len(s) - i) /\ i + (j - (i - 1)) = j + 1
      BY <1>1, <1>6, <2>2
    <3>2. rest[j] = after[j - (i - 1)]
      <4>1. j \in 1..(Len(before) + Len(after)) /\ ~(j <= Len(before)) /\ Len(before) = i - 1
        BY <1>1, <1>2, <1>3, <1>6, <2>2
      <4>2. QED
        BY <1>5, <4>1
    <3>3. after[j - (i - 1)] = s[j + 1]
      BY <1>3, <3>1
    <3>4. QED
      BY <1>1, <1>6, <2>2, <3>2, <3>3
  <2>3. QED
    BY <1>1, <1>6, <2>1, <2>2
<1>7. QED
  BY <1>1, <1>2, <1>3, <1>4, <1>5, <1>6 DEF rest

\* one bookmark of a message, in a sequence
Once(s) == \A i, j \in DOMAIN s : s[i].message = s[j].message => i = j

LEMMA RemovedOnce ==
  ASSUME NEW Item, NEW s \in Seq(Item), Once(s), NEW i \in DOMAIN s
  PROVE  /\ RemoveAt(s, i) \in Seq(Item) /\ Once(RemoveAt(s, i))
         /\ \A j \in DOMAIN RemoveAt(s, i) : RemoveAt(s, i)[j].message # s[i].message
<1> DEFINE t == RemoveAt(s, i)
<1>1. DOMAIN s = 1..Len(s) /\ Len(s) \in Nat
  OBVIOUS
<1>2. /\ t \in Seq(Item) /\ Len(t) = Len(s) - 1
      /\ \A j \in 1..(Len(s) - 1) : t[j] = IF j < i THEN s[j] ELSE s[j + 1]
  BY <1>1, Removed1
<1>3. DOMAIN t = 1..(Len(s) - 1)
  BY <1>2
<1> HIDE DEF t
<1>4. \A j \in DOMAIN t : \E n \in DOMAIN s :
        n # i /\ t[j] = s[n] /\ ((n = j /\ j < i) \/ (n = j + 1 /\ j >= i))
  <2> TAKE j \in DOMAIN t
  <2>1. j \in 1..(Len(s) - 1) /\ i \in 1..Len(s)
    BY <1>1, <1>3
  <2>2. CASE j < i
    <3>1. j \in DOMAIN s /\ j # i /\ t[j] = s[j]
      BY <1>1, <1>2, <2>1, <2>2
    <3>2. QED
      BY <2>2, <3>1
  <2>3. CASE j >= i
    <3>1. j + 1 \in DOMAIN s /\ j + 1 # i /\ t[j] = s[j + 1]
      BY <1>1, <1>2, <2>1, <2>3
    <3>2. QED
      BY <2>3, <3>1
  <2>4. QED
    BY <2>1, <2>2, <2>3
<1>5. Once(t)
  BY <1>1, <1>3, <1>4 DEF Once
<1>6. \A j \in DOMAIN t : t[j].message # s[i].message
  BY <1>4 DEF Once
<1>7. QED
  BY <1>2, <1>5, <1>6 DEF t

LEMMA PutFirst ==
  ASSUME NEW Item, NEW b \in Item, NEW s \in Seq(Item), Once(s),
         \A j \in DOMAIN s : s[j].message # b.message
  PROVE  <<b>> \o s \in Seq(Item) /\ Once(<<b>> \o s)
<1> DEFINE t == <<b>> \o s
<1>1. <<b>> \in Seq(Item) /\ Len(<<b>>) = 1 /\ <<b>>[1] = b
  OBVIOUS
<1>2. /\ t \in Seq(Item) /\ Len(t) = 1 + Len(s)
      /\ \A j \in 1..(1 + Len(s)) : t[j] = IF j <= 1 THEN <<b>>[j] ELSE s[j - 1]
  BY <1>1, ConcatProperties
<1>3. DOMAIN s = 1..Len(s) /\ DOMAIN t = 1..(1 + Len(s)) /\ Len(s) \in Nat
  BY <1>2
<1> HIDE DEF t
<1>4. \A j \in DOMAIN t : (j = 1 /\ t[j] = b) \/ (j # 1 /\ j - 1 \in DOMAIN s /\ t[j] = s[j - 1])
  <2> TAKE j \in DOMAIN t
  <2>1. j \in 1..(1 + Len(s))
    BY <1>3
  <2>2. CASE j = 1
    <3>1. t[1] = <<b>>[1]
      BY <1>2, <1>3
    <3>2. QED
      BY <1>1, <2>2, <3>1
  <2>3. CASE j # 1
    BY <1>2, <1>3, <2>1, <2>3
  <2>4. QED
    BY <2>2, <2>3
<1>5. Once(t)
  BY <1>3, <1>4 DEF Once
<1>6. QED
  BY <1>2, <1>5 DEF t

\* the answers of the page that are on their way
ServedCalls(q) == {k \in markCalls : k.served /\ M!QueryOf(k.do) = q}

\* the marks of a query are what the page has or will have of it
InStep(q) ==
  ServedCalls(q) = {} =>
    /\ markFetch[q] = NotAsked => shown[q] = M!Current(q)
    /\ markFetch[q] \notin {NotAsked, Asking} => markFetch[q].rows = M!Current(q)

MarksInv ==
  /\ M!TypeOK
  /\ Once(bookmarks)
  /\ \A q \in M!Queries \ unheard : InStep(q)

LEMMA MarksConstants == M!MarksAssumption
BY RecordsConstants DEF RecordsConstants

LEMMA MarksOperators ==
  /\ \A s, i : M!RemoveAt(s, i) = RemoveAt(s, i)
  /\ \A s : M!ToSet(s) = {s[i] : i \in DOMAIN s}
BY DEF M!RemoveAt, RemoveAt, M!ToSet

LEMMA MarksInit == M!Init => MarksInv
<1> SUFFICES ASSUME M!Init PROVE MarksInv
  OBVIOUS
<1> USE MarksConstants DEF M!MarksAssumption
<1>1. Once(bookmarks)
  BY DEF M!Init, Once
<1>2. M!TypeOK
  BY DEF M!Init, M!TypeOK, M!Queries, M!RowsOf
<1>3. M!Queries \ unheard = {}
  BY DEF M!Init
<1>4. QED
  BY <1>1, <1>2, <1>3 DEF MarksInv

LEMMA FirstPageRows ==
  ASSUME M!TypeOK
  PROVE  /\ M!ToSet(M!FirstPage) \subseteq M!Bookmark
         /\ \A q \in M!Queries : M!Current(q) \in M!RowsOf(q)
<1> DEFINE size == IF PageSize < Len(bookmarks) THEN PageSize ELSE Len(bookmarks)
<1>1. bookmarks \in Seq(M!Bookmark) /\ Len(bookmarks) \in Nat /\ PageSize \in Nat
  BY MarksConstants DEF M!TypeOK, M!MarksAssumption
<1>2. size \in Nat /\ size <= Len(bookmarks)
  BY <1>1
<1>3. SubSeq(bookmarks, 1, size) \in Seq(M!Bookmark)
  <2> HIDE DEF size
  <2>1. \A i \in 1..size : bookmarks[i] \in M!Bookmark
    BY <1>1, <1>2
  <2>2. QED
    BY <1>1, <1>2, <2>1, SubSeqProperties
<1>4. M!FirstPage \in Seq(M!Bookmark)
  BY <1>3 DEF M!FirstPage
<1>5. M!ToSet(M!FirstPage) \subseteq M!Bookmark
  BY <1>4, MarksOperators
<1>6. QED
  BY <1>5 DEF M!TypeOK, M!Current, M!RowsOf, M!Queries

\* The parts of the type invariant: the rows,
RowsTyped ==
  pins \subseteq Messages /\ bookmarks \in Seq(M!Bookmark) /\ made \in Nat /\ Once(bookmarks)

LEMMA BookmarkMoved ==
  ASSUME RowsTyped, NEW m \in Messages, M!Bookmarked(m)
  PROVE  bookmarks' \in Seq(M!Bookmark) /\ made' \in Nat /\ Once(bookmarks)'
<1>1. /\ bookmarks \in Seq(M!Bookmark) /\ made \in Nat /\ Once(bookmarks)
      /\ \A i \in DOMAIN bookmarks : bookmarks[i] \in M!Bookmark
  BY DEF RowsTyped
<1>2. ASSUME NEW i \in DOMAIN bookmarks, bookmarks[i].message = m,
             bookmarks' = <<bookmarks[i]>> \o M!RemoveAt(bookmarks, i), made' = made
      PROVE  bookmarks' \in Seq(M!Bookmark) /\ made' \in Nat /\ Once(bookmarks)'
  <2> DEFINE t == RemoveAt(bookmarks, i)
  <2>1. t \in Seq(M!Bookmark) /\ Once(t) /\ \A j \in DOMAIN t : t[j].message # bookmarks[i].message
    BY <1>1, <1>2, RemovedOnce
  <2>2. bookmarks' = <<bookmarks[i]>> \o t
    BY <1>2, MarksOperators
  <2> HIDE DEF t
  <2>3. bookmarks[i] \in M!Bookmark
    BY <1>1, <1>2
  <2>4. <<bookmarks[i]>> \o t \in Seq(M!Bookmark) /\ Once(<<bookmarks[i]>> \o t)
    BY <2>1, <2>3, PutFirst
  <2>5. QED
    BY <1>1, <1>2, <2>2, <2>4 DEF Once
<1>3. ASSUME \A i \in DOMAIN bookmarks : bookmarks[i].message # m,
             bookmarks' = <<[message |-> m, id |-> made + 1]>> \o bookmarks, made' = made + 1
      PROVE  bookmarks' \in Seq(M!Bookmark) /\ made' \in Nat /\ Once(bookmarks)'
  <2> DEFINE b == [message |-> m, id |-> made + 1]
  <2>1. b \in M!Bookmark /\ b.message = m
    BY <1>1 DEF M!Bookmark
  <2>2. bookmarks' = <<b>> \o bookmarks
    BY <1>3
  <2> HIDE DEF b
  <2>3. <<b>> \o bookmarks \in Seq(M!Bookmark) /\ Once(<<b>> \o bookmarks)
    BY <1>1, <1>3, <2>1, PutFirst
  <2>4. QED
    BY <1>1, <1>3, <2>2, <2>3 DEF Once
<1>4. QED
  BY <1>2, <1>3 DEF M!Bookmarked

LEMMA BookmarkDeleted ==
  ASSUME RowsTyped, NEW b, M!DeleteBookmark(b)
  PROVE  RowsTyped'
<1>1. PICK i \in DOMAIN bookmarks : bookmarks' = M!RemoveAt(bookmarks, i)
  BY DEF M!DeleteBookmark
<1>2. bookmarks \in Seq(M!Bookmark) /\ Once(bookmarks)
  BY DEF RowsTyped
<1>3. RemoveAt(bookmarks, i) \in Seq(M!Bookmark) /\ Once(RemoveAt(bookmarks, i))
  BY <1>1, <1>2, RemovedOnce
<1>4. bookmarks' \in Seq(M!Bookmark) /\ Once(bookmarks)'
  BY <1>1, <1>3, MarksOperators DEF Once
<1>5. QED
  BY <1>4 DEF M!DeleteBookmark, RowsTyped

LEMMA RowsSet ==
  ASSUME RowsTyped, NEW m \in Messages, NEW do, M!Set(do, m) \/ M!Unpin(m)
  PROVE  RowsTyped'
<1>1. CASE M!Set(do, m)
  <2>1. CASE do = "bookmark" /\ M!Bookmarked(m) /\ UNCHANGED pins
    BY <2>1, BookmarkMoved DEF RowsTyped
  <2>2. CASE pins' = pins \cup {m} /\ UNCHANGED <<bookmarks, made>>
    BY <2>2 DEF RowsTyped, Once
  <2>3. QED
    BY <1>1, <2>1, <2>2 DEF M!Set
<1>2. CASE M!Unpin(m)
  BY <1>2 DEF M!Unpin, RowsTyped, Once
<1>3. QED
  BY <1>1, <1>2

\* what the page holds of the marks
PageTyped ==
  /\ DOMAIN shown = M!Queries /\ DOMAIN markFetch = M!Queries
  /\ \A q \in M!Queries :
       shown[q] \in M!RowsOf(q) /\ markFetch[q] \in [rows : M!RowsOf(q)] \cup {NotAsked, Asking}

\* the calls on their way
CallsTyped ==
  markCalls \subseteq [click : 1..clicks, do : {"pin", "unpin", "bookmark", "delete"},
                       message : Messages, id : Nat, served : BOOLEAN]

\* and the bounds
BoundsTyped ==
  /\ loaded \subseteq M!Queries /\ unheard \subseteq M!Queries
  /\ clicks \in 0..MaxClicks /\ others \in 0..MaxOthers

LEMMA MarksParts ==
  M!TypeOK /\ Once(bookmarks) <=> RowsTyped /\ PageTyped /\ CallsTyped /\ BoundsTyped
BY DEF M!TypeOK, RowsTyped, PageTyped, CallsTyped, BoundsTyped

LEMMA QueryOfACall == \A do : M!QueryOf(do) \in M!Queries
BY DEF M!QueryOf, M!Queries

LEMMA MarksTyped ==
  ASSUME MarksInv, M!Next
  PROVE  (M!TypeOK /\ Once(bookmarks))'
<1> DEFINE Goal == RowsTyped /\ PageTyped /\ CallsTyped /\ BoundsTyped
<1>1. Goal
  BY MarksParts DEF MarksInv
<1> USE MarksConstants DEF M!MarksAssumption
<1>2. ASSUME NEW m \in Messages, M!TogglePin(m) \/ M!ToggleBookmark(m)
      PROVE  Goal'
  <2>1. M!Click /\ clicks' \in 1..MaxClicks /\ clicks' = clicks + 1
    BY <1>1, <1>2 DEF M!TogglePin, M!ToggleBookmark, M!Click, BoundsTyped
  <2>2. RowsTyped' /\ PageTyped' /\ BoundsTyped'
    BY <1>1, <2>1 DEF M!Click, M!rows, RowsTyped, PageTyped, BoundsTyped, Once
  <2>3. \E do \in {"pin", "unpin", "bookmark", "delete"} : \E id \in Nat :
          markCalls' = markCalls \cup {M!Call(do, m, id)}
    <3>1. CASE M!TogglePin(m)
      BY <3>1 DEF M!TogglePin
    <3>2. CASE M!ToggleBookmark(m)
      <4>1. shown["bookmarks"] \subseteq M!Bookmark
        BY <1>1 DEF PageTyped, M!RowsOf, M!Queries
      <4>2. \A b \in shown["bookmarks"] : b.id \in Nat
        BY <4>1 DEF M!Bookmark
      <4>3. QED
        BY <3>2, <4>2 DEF M!ToggleBookmark
    <3>3. QED
      BY <1>2, <3>1, <3>2
  <2>4. CallsTyped'
    <3>1. PICK do \in {"pin", "unpin", "bookmark", "delete"}, id \in Nat :
            markCalls' = markCalls \cup {M!Call(do, m, id)}
      BY <2>3
    <3>2. clicks \in Nat /\ clicks' = clicks + 1
      BY <1>1, <2>1 DEF BoundsTyped
    <3>3. 1..clicks \subseteq 1..clicks'
      BY <3>2
    <3>4. M!Call(do, m, id) \in
            [click : 1..clicks', do : {"pin", "unpin", "bookmark", "delete"},
             message : Messages, id : Nat, served : BOOLEAN]
      BY <1>2, <3>1, <3>2 DEF M!Call
    <3>5. QED
      BY <1>1, <3>1, <3>3, <3>4 DEF CallsTyped
  <2>5. QED
    BY <2>2, <2>4
<1>3. ASSUME NEW k \in markCalls, M!Serve(k)
      PROVE  Goal'
  <2>1. k.message \in Messages
    BY <1>1, <1>3 DEF CallsTyped
  <2>2. RowsTyped'
    BY <1>1, <1>3, <2>1, RowsSet, BookmarkDeleted DEF M!Serve
  <2>3. [k EXCEPT !.served = TRUE] \in
          [click : 1..clicks, do : {"pin", "unpin", "bookmark", "delete"},
           message : Messages, id : Nat, served : BOOLEAN]
    BY <1>1, <1>3 DEF CallsTyped
  <2>4. CallsTyped'
    BY <1>1, <1>3, <2>3 DEF M!Serve, CallsTyped
  <2>5. PageTyped' /\ BoundsTyped'
    BY <1>1, <1>3 DEF M!Serve, PageTyped, BoundsTyped
  <2>6. QED
    BY <2>2, <2>4, <2>5
<1>4. ASSUME NEW k \in markCalls, M!Answered(k) \/ M!CallFails(k)
      PROVE  Goal'
  <2>1. RowsTyped' /\ CallsTyped'
    BY <1>1, <1>4 DEF M!Answered, M!CallFails, M!rows, RowsTyped, CallsTyped, Once
  <2>2. BoundsTyped'
    BY <1>1, <1>4, QueryOfACall DEF M!Answered, M!CallFails, BoundsTyped
  <2>3. PageTyped'
    BY <1>1, <1>4, QueryOfACall DEF M!Answered, M!CallFails, M!Refetch, PageTyped
  <2>4. QED
    BY <2>1, <2>2, <2>3
<1>5. ASSUME NEW q \in M!Queries, M!ServeFetch(q) \/ M!FetchAnswered(q) \/ M!FetchFails(q)
      PROVE  Goal'
  <2>1. RowsTyped' /\ CallsTyped' /\ BoundsTyped'
    BY <1>1, <1>5, QueryOfACall DEF M!ServeFetch, M!FetchAnswered, M!FetchFails, M!rows, RowsTyped, CallsTyped,
                      BoundsTyped, Once
  <2>2. M!Current(q) \in M!RowsOf(q)
    BY <1>1, <1>5, FirstPageRows, MarksParts
  <2>3. PageTyped'
    <3>1. CASE M!ServeFetch(q)
      BY <1>1, <1>5, <2>2, <3>1 DEF M!ServeFetch, PageTyped
    <3>2. CASE M!FetchAnswered(q)
      BY <1>1, <1>5, <3>2 DEF M!FetchAnswered, PageTyped
    <3>3. CASE M!FetchFails(q)
      BY <1>1, <1>5, <3>3 DEF M!FetchFails, PageTyped
    <3>4. QED
      BY <1>5, <3>1, <3>2, <3>3
  <2>4. QED
    BY <2>1, <2>3
<1>6. ASSUME M!Elsewhere PROVE Goal'
  <2>1. RowsTyped'
    BY <1>1, <1>6, RowsSet, BookmarkDeleted DEF M!Elsewhere
  <2>2. PageTyped' /\ CallsTyped' /\ BoundsTyped'
    BY <1>1, <1>6 DEF M!Elsewhere, PageTyped, CallsTyped, BoundsTyped
  <2>3. QED
    BY <2>1, <2>2
<1>7. Goal'
  BY <1>2, <1>3, <1>4, <1>5, <1>6 DEF M!Next
<1>8. QED
  BY <1>7 DEF M!TypeOK, RowsTyped, PageTyped, CallsTyped, BoundsTyped

LEMMA RowsOfAnother ==
  ASSUME NEW q \in M!Queries, q = "pins" => pins' = pins, q = "bookmarks" => bookmarks' = bookmarks
  PROVE  M!Current(q)' = M!Current(q)
BY DEF M!Current, M!FirstPage, M!Queries

LEMMA MarksStep ==
  ASSUME MarksInv, M!Next
  PROVE  MarksInv'
<1> USE MarksConstants DEF M!MarksAssumption
<1>1. (M!TypeOK /\ Once(bookmarks))'
  BY MarksTyped
<1>2. /\ PageTyped /\ CallsTyped
      /\ \A q \in M!Queries \ unheard : InStep(q)
  BY MarksParts DEF MarksInv
<1>3. ASSUME NEW q \in M!Queries, q \notin unheard'
      PROVE  InStep(q)'
  <2>1. ASSUME NEW m \in Messages, M!TogglePin(m) \/ M!ToggleBookmark(m)
        PROVE  InStep(q)'
    <3>1. M!Click /\ \E do, id : markCalls' = markCalls \cup {M!Call(do, m, id)}
      BY <2>1 DEF M!TogglePin, M!ToggleBookmark
    <3>2. ServedCalls(q) \subseteq ServedCalls(q)'
      BY <3>1 DEF ServedCalls
    <3>3. QED
      BY <1>2, <1>3, <3>1, <3>2, RowsOfAnother DEF InStep, M!Click, M!rows
  <2>2. ASSUME NEW k \in markCalls, M!Serve(k)
        PROVE  InStep(q)'
    <3>1. CASE M!QueryOf(k.do) = q
      <4>1. [k EXCEPT !.served = TRUE].served = TRUE /\ [k EXCEPT !.served = TRUE].do = k.do
        BY <1>2, <2>2 DEF CallsTyped
      <4>2. [k EXCEPT !.served = TRUE] \in ServedCalls(q)'
        BY <2>2, <3>1, <4>1 DEF M!Serve, ServedCalls
      <4>3. QED
        BY <4>2 DEF InStep
    <3>2. CASE M!QueryOf(k.do) # q
      <4>1. ServedCalls(q) \subseteq ServedCalls(q)'
        BY <2>2 DEF M!Serve, ServedCalls
      <4>2. M!Current(q)' = M!Current(q)
        <5>1. q = "pins" => pins' = pins
          BY <2>2, <3>2 DEF M!Serve, M!Set, M!QueryOf, M!DeleteBookmark
        <5>2. q = "bookmarks" => bookmarks' = bookmarks
          BY <2>2, <3>2 DEF M!Serve, M!Set, M!Unpin, M!QueryOf
        <5>3. QED
          BY <1>3, <5>1, <5>2, RowsOfAnother
      <4>3. QED
        BY <1>2, <1>3, <2>2, <4>1, <4>2 DEF M!Serve, InStep
    <3>3. QED
      BY <3>1, <3>2
  <2>3. ASSUME NEW k \in markCalls, M!Answered(k)
        PROVE  InStep(q)'
    <3>1. M!Current(q)' = M!Current(q) /\ q \notin unheard /\ UNCHANGED shown
      BY <1>3, <2>3, RowsOfAnother DEF M!Answered, M!rows
    <3>2. CASE M!QueryOf(k.do) = q
      <4>1. ~M!Outrun(q) /\ markFetch' = M!Refetch(q)
        BY <1>3, <2>3, <3>2 DEF M!Answered
      <4>2. CASE M!FirstFetch(q)
        BY <3>1, <4>1, <4>2 DEF M!Outrun, M!FirstFetch, M!Refetch, InStep
      <4>3. CASE ~M!FirstFetch(q)
        BY <1>2, <4>1, <4>3 DEF M!Refetch, InStep, PageTyped
      <4>4. QED
        BY <4>2, <4>3
    <3>3. CASE M!QueryOf(k.do) # q
      <4>1. ServedCalls(q) \subseteq ServedCalls(q)' /\ markFetch'[q] = markFetch[q]
        BY <1>2, <2>3, <3>3 DEF M!Answered, M!Refetch, ServedCalls, PageTyped
      <4>2. QED
        BY <1>2, <1>3, <3>1, <4>1 DEF InStep
    <3>4. QED
      BY <3>2, <3>3
  <2>4. ASSUME NEW k \in markCalls, M!CallFails(k)
        PROVE  InStep(q)'
    <3>1. M!Current(q)' = M!Current(q) /\ UNCHANGED <<shown, markFetch>> /\ q \notin unheard
      BY <1>3, <2>4, RowsOfAnother DEF M!CallFails, M!rows
    <3>2. ServedCalls(q) \subseteq ServedCalls(q)'
      BY <1>3, <2>4 DEF M!CallFails, ServedCalls
    <3>3. QED
      BY <1>2, <3>1, <3>2 DEF InStep
  <2>5. ASSUME NEW p \in M!Queries, M!ServeFetch(p) \/ M!FetchAnswered(p)
        PROVE  InStep(q)'
    <3>1. M!Current(q)' = M!Current(q) /\ ServedCalls(q)' = ServedCalls(q)
      BY <2>5, RowsOfAnother DEF M!ServeFetch, M!FetchAnswered, M!rows, ServedCalls
    <3>2. CASE p # q
      BY <1>2, <1>3, <2>5, <3>1, <3>2 DEF M!ServeFetch, M!FetchAnswered, InStep, PageTyped
    <3>3. CASE p = q /\ M!ServeFetch(q)
      <4>1. markFetch'[q] = [rows |-> M!Current(q)]
        BY <1>2, <3>3 DEF M!ServeFetch, PageTyped
      <4>2. [rows |-> M!Current(q)] \in M!Answer
        <5>1. M!Current(q) \in M!RowsOf(q)
          BY <2>5, FirstPageRows DEF MarksInv
        <5>2. M!Current(q) \in (SUBSET Messages) \cup (SUBSET M!Bookmark)
          BY <5>1 DEF M!RowsOf
        <5>3. QED
          BY <5>2 DEF M!Answer
      <4>3. markFetch'[q] # NotAsked /\ markFetch'[q].rows = M!Current(q)
        BY <4>1, <4>2
      <4>4. QED
        BY <3>1, <4>3 DEF InStep
    <3>4. CASE p = q /\ M!FetchAnswered(q)
      BY <1>2, <1>3, <3>1, <3>4 DEF M!FetchAnswered, InStep, PageTyped
    <3>5. QED
      BY <2>5, <3>2, <3>3, <3>4
  <2>6. ASSUME NEW p \in M!Queries, M!FetchFails(p)
        PROVE  InStep(q)'
    <3>1. p # q /\ q \notin unheard /\ UNCHANGED shown
      BY <1>3, <2>6 DEF M!FetchFails
    <3>2. M!Current(q)' = M!Current(q) /\ ServedCalls(q)' = ServedCalls(q)
      BY <2>6, RowsOfAnother DEF M!FetchFails, M!rows, ServedCalls
    <3>3. markFetch'[q] = markFetch[q]
      BY <1>2, <2>6, <3>1 DEF M!FetchFails, PageTyped
    <3>4. QED
      BY <1>2, <3>1, <3>2, <3>3 DEF InStep
  <2>7. CASE M!Elsewhere
    BY <1>3, <2>7 DEF M!Elsewhere
  <2>8. QED
    BY <2>1, <2>2, <2>3, <2>4, <2>5, <2>6, <2>7 DEF M!Next
<1>4. QED
  BY <1>1, <1>3 DEF MarksInv

LEMMA MarksMeaning == MarksInv => M!TypeOK /\ M!MarksAreTrue
<1> SUFFICES ASSUME MarksInv PROVE M!TypeOK /\ M!MarksAreTrue
  OBVIOUS
<1>1. M!OneBookmark
  BY DEF MarksInv, Once, M!OneBookmark
<1>2. M!ShownIsStored
  BY DEF MarksInv, InStep, ServedCalls, M!ShownIsStored
<1>3. QED
  BY <1>1, <1>2 DEF MarksInv, M!MarksAreTrue

LEMMA MarksStutter == MarksInv /\ UNCHANGED M!vars => MarksInv'
<1> SUFFICES ASSUME MarksInv, UNCHANGED M!vars PROVE MarksInv'
  OBVIOUS
<1>1. M!TypeOK'
  BY DEF MarksInv, M!TypeOK, M!vars, M!rows
<1>2. Once(bookmarks)'
  BY DEF MarksInv, Once, M!vars, M!rows
<1>3. \A q \in M!Queries : ServedCalls(q)' = ServedCalls(q) /\ M!Current(q)' = M!Current(q)
  BY DEF M!vars, M!rows, ServedCalls, M!Current, M!FirstPage
<1>4. QED
  BY <1>1, <1>2, <1>3 DEF MarksInv, InStep, M!vars

\* The page shows the marks that are stored, unless a change was made elsewhere,
\* an answer was lost, a fetch failed, or a click was answered while the first
\* fetch of the query, read before it, was on its way; a message has one bookmark
\* (page.tsx 357-392, toggleBookmark).
THEOREM MarksStayTrue == M!Spec => []M!MarksAreTrue
BY MarksInit, MarksStep, MarksStutter, MarksMeaning, PTL DEF M!Spec

-------------------------------------------------------------------------------
(* Paging *)

LEMMA LeastNumber ==
  ASSUME NEW T \in SUBSET Nat, T # {}
  PROVE  \E x \in T : \A y \in T : x <= y
<1> DEFINE R == {ss \in Nat \X Nat : ss[1] < ss[2]}
<1>1. IsWellFoundedOn(R, Nat)
  BY NatLessThanWellFounded DEF OpToRel
<1>2. \A x, y \in Nat : x < y => <<x, y>> \in R
  OBVIOUS
<1> HIDE DEF R
<1>3. PICK x \in T : \A y \in T : ~(<<y, x>> \in R)
  BY <1>1, WFMin
<1>4. \A y \in T : ~(y < x)
  BY <1>2, <1>3
<1>5. QED
  BY <1>4

LEMMA LeastRow ==
  ASSUME NEW at, NEW set, set # {}, \A r \in set : at[r] \in Nat
  PROVE  \E r \in set : \A s \in set : at[r] <= at[s]
<1> DEFINE T == {at[r] : r \in set}
<1>1. T \in SUBSET Nat /\ T # {}
  OBVIOUS
<1>2. PICK x \in T : \A y \in T : x <= y
  BY <1>1, LeastNumber
<1>3. QED
  BY <1>2

LEMMA GreatestRow ==
  ASSUME NEW at, NEW n \in Nat, NEW set, set # {}, \A r \in set : at[r] \in 0..n
  PROVE  \E r \in set : \A s \in set : at[s] <= at[r]
<1> DEFINE below == [r \in set |-> n - at[r]]
<1>1. \A r \in set : below[r] \in Nat /\ below[r] = n - at[r]
  OBVIOUS
<1> HIDE DEF below
<1>2. PICK r \in set : \A s \in set : below[r] <= below[s]
  BY <1>1, LeastRow
<1>3. \A s \in set : at[s] <= at[r]
  BY <1>1, <1>2
<1>4. QED
  BY <1>3

LEMMA PagesConstants ==
  /\ P!PagingAssumption
  /\ \A X : P!Cardinality(X) = Cardinality(X)
BY RecordsConstants DEF RecordsConstants, P!Cardinality, Cardinality

LEMMA RowsAreFinite ==
  /\ P!Rows = 1..MaxRows /\ MaxRows \in Nat /\ IsFiniteSet(P!Rows)
  /\ \A X \in SUBSET P!Rows : IsFiniteSet(X) /\ Cardinality(X) \in Nat
<1>1. P!Rows = 1..MaxRows /\ MaxRows \in Nat
  BY PagesConstants DEF P!Rows, P!PagingAssumption
<1>2. IsFiniteSet(P!Rows)
  BY <1>1, FS_Interval
<1>3. \A X \in SUBSET P!Rows : IsFiniteSet(X) /\ Cardinality(X) \in Nat
  BY <1>2, FS_Subset, FS_CardinalityType
<1>4. QED
  BY <1>1, <1>2, <1>3

LEMMA BoundedTake ==
  ASSUME P!TypeOK
  PROVE  P!Bounded(limit) \in Nat \ {0}
BY PagesConstants DEF P!TypeOK, P!Bounded, P!PagingAssumption

\* A page is closed downwards: with a row it holds the rows before it
LEMMA PageIsClosed ==
  ASSUME NEW rest \in SUBSET P!Rows, NEW take \in Nat, place \in [P!Rows -> Nat],
         NEW batch, batch = {r \in rest : P!Cardinality(P!UpTo(rest, r)) <= take},
         NEW r \in batch, NEW s \in rest, place[s] <= place[r]
  PROVE  s \in batch
<1>1. P!UpTo(rest, s) \subseteq P!UpTo(rest, r) /\ P!UpTo(rest, r) \subseteq P!Rows
  BY DEF P!UpTo
<1>2. Cardinality(P!UpTo(rest, s)) <= Cardinality(P!UpTo(rest, r))
  BY <1>1, RowsAreFinite, FS_Subset
<1>3. Cardinality(P!UpTo(rest, s)) \in Nat /\ Cardinality(P!UpTo(rest, r)) \in Nat
  BY <1>1, RowsAreFinite
<1>4. QED
  BY <1>2, <1>3, PagesConstants

\* A short page is the whole rest
LEMMA ShortPage ==
  ASSUME NEW rest \in SUBSET P!Rows, NEW take \in Nat, place \in [P!Rows -> Nat],
         \A r, s \in rest : place[r] = place[s] => r = s,
         NEW batch, batch = {r \in rest : P!Cardinality(P!UpTo(rest, r)) <= take},
         P!Cardinality(batch) < take
  PROVE  batch = rest
<1> SUFFICES ASSUME rest \ batch # {} PROVE FALSE
  OBVIOUS
<1>1. PICK r \in rest \ batch : \A s \in rest \ batch : place[r] <= place[s]
  BY LeastRow
<1>2. P!UpTo(rest, r) \subseteq batch \cup {r}
  <2> SUFFICES ASSUME NEW s \in P!UpTo(rest, r), s \notin batch PROVE s = r
    OBVIOUS
  <2>1. s \in rest /\ place[s] <= place[r]
    BY DEF P!UpTo
  <2>2. place[r] = place[s]
    BY <1>1, <2>1
  <2>3. QED
    BY <1>1, <2>1, <2>2
<1>3. batch \subseteq P!Rows /\ IsFiniteSet(batch) /\ Cardinality(batch) \in Nat
  BY RowsAreFinite
<1>4. IsFiniteSet(batch \cup {r}) /\ Cardinality(batch \cup {r}) = Cardinality(batch) + 1
  BY <1>1, <1>3, FS_AddElement
<1>5. /\ Cardinality(P!UpTo(rest, r)) <= Cardinality(batch) + 1
      /\ Cardinality(P!UpTo(rest, r)) \in Nat
  BY <1>2, <1>4, FS_Subset, FS_CardinalityType
<1>6. Cardinality(P!UpTo(rest, r)) <= take
  BY <1>3, <1>5, PagesConstants
<1>7. QED
  BY <1>1, <1>6, PagesConstants

LEMMA LastRow ==
  ASSUME P!TypeOK, NEW batch \in SUBSET P!Rows, batch # {}
  PROVE  P!Last(batch) \in batch /\ \A s \in batch : place[s] <= place[P!Last(batch)]
<1>1. \A r \in batch : place[r] \in 0..rows
  BY DEF P!TypeOK
<1>2. rows \in Nat
  BY RowsAreFinite DEF P!TypeOK
<1>3. \E r \in batch : \A s \in batch : place[s] <= place[r]
  BY <1>1, <1>2, GreatestRow
<1>4. QED
  BY <1>3 DEF P!Last

-------------------------------------------------------------------------------
\* the rows a caller has behind him
Behind == {r \in steady : place[r] <= place[cursor]}

\* The cursor row stands where it was while it was not moved. Of the rows behind
\* it as many are missed as pages dropped one in place of a cursor row that had
\* left the filter, and of the rows before it none is seen.
PagesInv ==
  /\ P!TypeOK
  /\ steady \cap moved = {}
  /\ phase = "new" => /\ cursor = NoCursor /\ seen = {} /\ steady = {} /\ moved = {}
                      /\ pages = 0 /\ skipped = 0
  /\ phase # "done" => ~cut
  /\ phase = "walking" => cursor \in P!Rows /\ (cursor \notin moved => place[cursor] > 0)
  /\ phase = "walking" /\ ~broken /\ cursor \notin moved =>
       /\ Cardinality(Behind \ P!SeenRows) <= skipped
       /\ \A x \in seen : x.row \notin moved => place[x.row] > 0 /\ place[x.row] <= place[cursor]
  /\ P!SeenInOrder
  /\ P!NothingIsMissed

LEMMA PagesInit == P!Init => PagesInv
<1> SUFFICES ASSUME P!Init PROVE PagesInv
  OBVIOUS
<1>1. P!TypeOK
  <2>1. \A r \in P!Rows : place[r] = IF r <= InitialRows THEN r ELSE 0
    BY DEF P!Init
  <2>2. InitialRows \in 0..MaxRows /\ MaxRows \in Nat /\ P!Rows = 1..MaxRows
    BY PagesConstants, RowsAreFinite DEF P!PagingAssumption
  <2>3. place \in [P!Rows -> 0..rows] /\ P!Stored = 1..rows
    BY <2>1, <2>2 DEF P!Init, P!Stored
  <2>4. \A r, s \in P!Stored : place[r] = place[s] => r = s
    BY <2>1, <2>2, <2>3 DEF P!Init
  <2>5. seen \subseteq [row : P!Rows, page : 1..pages]
    BY DEF P!Init
  <2>6. changes \in 0..MaxChanges /\ limit \in 0..(MaxLimit + 1)
    BY PagesConstants DEF P!Init, P!PagingAssumption
  <2>7. QED
    BY <2>2, <2>3, <2>4, <2>5, <2>6 DEF P!Init, P!TypeOK
<1>2. QED
  BY <1>1 DEF P!Init, PagesInv, P!SeenInOrder, P!NothingIsMissed

-------------------------------------------------------------------------------
\* What a page adds

LEMMA RestFacts ==
  ASSUME PagesInv, phase = "walking", cursor \notin moved
  PROVE  /\ P!Rest(cursor) \subseteq matches
         /\ \A r \in P!Rest(cursor) : place[r] > place[cursor]
         /\ kind.from = "place" \/ cursor \in matches =>
              \A r, s \in matches \ P!Rest(cursor) :
                place[r] > place[cursor] /\ place[s] > place[cursor] => r = s /\ cursor \notin matches
         /\ kind.from # "place" /\ cursor \notin matches => P!Rest(cursor) = {}
<1>1. /\ cursor \in P!Rows /\ cursor # NoCursor /\ place[cursor] > 0 /\ cursor \in P!Stored
  BY PagesConstants, RowsAreFinite DEF PagesInv, P!Stored, P!PagingAssumption
<1>2. /\ matches \subseteq P!Stored /\ P!Stored \subseteq P!Rows
      /\ \A r \in P!Rows : place[r] \in Nat
      /\ \A r, s \in P!Stored : place[r] = place[s] => r = s
  BY DEF PagesInv, P!TypeOK, P!Stored
<1>3. P!Rest(cursor) \subseteq P!From(cursor) /\ P!From(cursor) \subseteq matches
      /\ \A r \in P!From(cursor) : place[r] >= place[cursor]
  BY <1>1 DEF P!From, P!Rest
<1>4. P!Rest(cursor) = {r \in P!From(cursor) : \E s \in P!From(cursor) : place[s] < place[r]}
  BY <1>1 DEF P!Rest
<1>5. \A r \in P!Rest(cursor) : place[r] > place[cursor]
  BY <1>1, <1>2, <1>3, <1>4
<1>6. ASSUME kind.from = "place" \/ cursor \in matches,
             NEW r \in matches \ P!Rest(cursor), NEW s \in matches \ P!Rest(cursor),
             place[r] > place[cursor], place[s] > place[cursor]
      PROVE  r = s /\ cursor \notin matches
  <2>1. P!From(cursor) = {t \in matches : place[t] >= place[cursor]}
    BY <1>1, <1>6 DEF P!From
  <2>2. /\ \A t \in matches : place[t] > place[cursor] => place[r] <= place[t] /\ place[s] <= place[t]
        /\ cursor \notin matches
    BY <1>1, <1>2, <1>4, <1>6, <2>1
  <2>3. place[r] <= place[s] /\ place[s] <= place[r]
    BY <1>6, <2>2
  <2>4. place[r] = place[s]
    BY <1>2, <1>6, <2>3
  <2>5. QED
    BY <1>2, <1>6, <2>2, <2>4
<1>7. kind.from # "place" /\ cursor \notin matches => P!Rest(cursor) = {}
  <2>1. kind.from # "place" /\ cursor \notin matches => P!From(cursor) = {}
    BY DEF P!From
  <2>2. QED
    BY <1>3, <2>1
<1>8. QED
  BY <1>3, <1>5, <1>6, <1>7

\* rows that are behind, but for one in place of the cursor row
LEMMA WalkMisses ==
  ASSUME PagesInv, P!Walk, phase = "walking", ~broken, cursor \notin moved, ~cut',
         NEW set \in SUBSET steady,
         \A r \in set : r \in P!Rest(cursor) => r \in P!SeenRows'
  PROVE  Cardinality(set \ P!SeenRows') <= skipped'
<1> DEFINE new == set \ P!SeenRows'
           old == Behind \ P!SeenRows
<1>1. /\ steady \subseteq matches /\ matches \subseteq P!Rows /\ skipped \in Nat /\ cursor \in P!Rows
      /\ \A r \in P!Rows : place[r] \in Nat
  BY DEF PagesInv, P!TypeOK, P!Stored
<1>2. P!SeenRows \subseteq P!SeenRows'
  BY DEF P!Walk, P!SeenRows
<1>3. new \subseteq P!Rows /\ old \subseteq P!Rows /\ old \subseteq steady
  BY <1>1 DEF Behind
<1>4. Cardinality(old) <= skipped /\ IsFiniteSet(old) /\ Cardinality(old) \in Nat
      /\ IsFiniteSet(new) /\ Cardinality(new) \in Nat
  BY <1>3, RowsAreFinite DEF PagesInv
<1>5. \A r \in new : r \in old \/ (r \in matches \ P!Rest(cursor) /\ place[r] > place[cursor])
  BY <1>1, <1>2 DEF Behind
<1>6. CASE new \subseteq old
  <2>1. Cardinality(new) <= Cardinality(old)
    BY <1>4, <1>6, FS_Subset
  <2>2. skipped' >= skipped
    BY <1>1 DEF P!Walk
  <2>3. skipped' \in Nat
    BY <1>1 DEF P!Walk
  <2>4. QED
    BY <1>1, <1>4, <2>1, <2>2, <2>3
<1>7. CASE ~(new \subseteq old)
  <2>0. kind.from = "place" \/ cursor \in matches
    <3>1. cut' = (cursor \in P!Rows \ (matches \cup moved) /\ kind.from = "row")
      BY DEF P!Walk
    <3>2. kind.from \in {"place", "row"}
      BY DEF PagesInv, P!TypeOK, P!Lists, P!ListMessages, P!ListBookmarks, P!ListScheduled,
             P!ListNotifications, P!ListUsers, P!ListChannels, P!ListWorkspaces,
             P!SearchMessages, P!SearchChannels, P!SearchUsers, P!SearchFiles
    <3>3. QED
      BY <1>1, <3>1, <3>2
  <2>1. PICK r \in new : r \notin old
    BY <1>7
  <2>2. /\ r \in matches \ P!Rest(cursor) /\ place[r] > place[cursor]
    BY <1>5, <2>1
  <2>3. cursor \notin matches /\ new \subseteq old \cup {r}
    BY <1>5, <2>0, <2>2, RestFacts
  <2>4. skipped' = skipped + 1
    BY <1>1, <2>0, <2>3 DEF P!Walk
  <2>5. IsFiniteSet(old \cup {r}) /\ Cardinality(old \cup {r}) = Cardinality(old) + 1
    BY <1>4, <2>1, FS_AddElement
  <2>6. Cardinality(new) <= Cardinality(old) + 1
    BY <2>3, <2>5, FS_Subset
  <2>7. QED
    BY <1>1, <1>4, <2>4, <2>6
<1>8. QED
  BY <1>6, <1>7

\* what a call of the caller returns
LEMMA ThePage ==
  ASSUME PagesInv, P!Walk, NEW batch, batch = P!Page(cursor, P!Bounded(limit))
  PROVE  /\ batch \subseteq P!Rest(cursor) /\ P!Rest(cursor) \subseteq matches
         /\ pages' = pages + 1 /\ P!SeenRows' = P!SeenRows \cup batch
         /\ seen' = seen \cup {[row |-> r, page |-> pages + 1] : r \in batch}
         /\ \/ phase' = "done" /\ cursor' = NoCursor /\ batch = P!Rest(cursor)
            \/ /\ phase' = "walking" /\ cursor' \in batch /\ cursor' # NoCursor
               /\ \A r \in batch : place[r] <= place[cursor']
               /\ \A r \in P!Rest(cursor) : place[r] <= place[cursor'] => r \in batch
<1> DEFINE take == P!Bounded(limit)
           rest == P!Rest(cursor)
<1>1. /\ take \in Nat \ {0} /\ NoCursor \notin P!Rows /\ pages' = pages + 1
      /\ matches \subseteq P!Stored /\ matches \subseteq P!Rows
      /\ place \in [P!Rows -> Nat]
      /\ \A r, s \in P!Stored : place[r] = place[s] => r = s
  <2>1. P!TypeOK
    BY DEF PagesInv
  <2>2. rows \in Nat /\ place \in [P!Rows -> 0..rows]
    BY <2>1, RowsAreFinite DEF P!TypeOK
  <2>3. place \in [P!Rows -> Nat]
    BY <2>2
  <2>4. QED
    BY <2>1, <2>3, BoundedTake, PagesConstants, RowsAreFinite
       DEF P!TypeOK, P!Walk, P!Stored, P!PagingAssumption
<1>2. rest \subseteq matches
  BY DEF P!Rest, P!From
<1>3. batch = {r \in rest : P!Cardinality(P!UpTo(rest, r)) <= take}
  BY DEF P!Page
<1>4. /\ seen' = seen \cup {[row |-> r, page |-> pages + 1] : r \in batch}
      /\ cursor' = P!NextCursor(batch, take)
      /\ phase' = IF cursor' = NoCursor THEN "done" ELSE "walking"
  <2>1. /\ pages' = pages + 1
        /\ seen' = seen \cup {[row |-> r, page |-> pages'] : r \in batch}
        /\ cursor' = P!NextCursor(batch, take)
        /\ phase' = IF cursor' = NoCursor THEN "done" ELSE "walking"
    BY ZenonT(30) DEF P!Walk
  <2>2. QED
    BY <2>1
<1> DEFINE added == {[row |-> r, page |-> pages + 1] : r \in batch}
<1>5. P!SeenRows' = P!SeenRows \cup batch
  <2>1. \A r \in batch : \E x \in added : x.row = r
    <3> TAKE r \in batch
    <3>1. [row |-> r, page |-> pages + 1] \in added /\ [row |-> r, page |-> pages + 1].row = r
      OBVIOUS
    <3>2. QED
      BY <3>1
  <2>2. \A x \in added : x.row \in batch
    OBVIOUS
  <2>3. seen' = seen \cup added
    BY <1>4
  <2> HIDE DEF added
  <2>4. QED
    BY <2>1, <2>2, <2>3 DEF P!SeenRows
<1> HIDE DEF take, rest
<1>6. rest \in SUBSET P!Rows /\ batch \in SUBSET P!Rows
  BY <1>1, <1>2, <1>3
<1>7. CASE P!Cardinality(batch) < take
  <2>1. batch = rest
    BY <1>1, <1>2, <1>3, <1>6, <1>7, ShortPage
  <2>2. cursor' = NoCursor
    BY <1>4, <1>7 DEF P!NextCursor
  <2>3. QED
    BY <1>1, <1>2, <1>4, <1>5, <2>1, <2>2 DEF rest
<1>8. CASE ~(P!Cardinality(batch) < take)
  <2>1. batch # {}
    BY <1>1, <1>8, PagesConstants, FS_EmptySet
  <2>2. cursor' = P!Last(batch)
    BY <1>4, <1>8 DEF P!NextCursor
  <2>3. cursor' \in batch /\ \A s \in batch : place[s] <= place[cursor']
    BY <1>6, <2>1, <2>2, LastRow DEF PagesInv
  <2>4. \A r \in rest : place[r] <= place[cursor'] => r \in batch
    <3>1. PICK last \in batch : last = cursor'
      BY <2>3
    <3>2. \A r \in rest : place[r] <= place[last] => r \in batch
      BY <1>1, <1>3, <1>6, PageIsClosed
    <3>3. QED
      BY <3>1, <3>2
  <2>5. cursor' # NoCursor
    BY <1>1, <1>6, <2>3
  <2>6. batch \subseteq rest
    BY <1>3
  <2>7. QED
    BY <1>1, <1>2, <1>4, <1>5, <2>3, <2>4, <2>5, <2>6 DEF rest
<1>9. QED
  BY <1>7, <1>8

LEMMA WalkTyped ==
  ASSUME PagesInv, P!Walk
  PROVE  P!TypeOK'
<1> DEFINE batch == P!Page(cursor, P!Bounded(limit))
<1>1. /\ batch \subseteq P!Rest(cursor) /\ P!Rest(cursor) \subseteq matches
      /\ pages' = pages + 1
      /\ seen' = seen \cup {[row |-> r, page |-> pages + 1] : r \in batch}
      /\ \/ phase' = "done" /\ cursor' = NoCursor
         \/ phase' = "walking" /\ cursor' \in batch
  BY ThePage
<1> HIDE DEF batch
<1>2. P!TypeOK
  BY DEF PagesInv
<1>3. batch \subseteq P!Rows
  BY <1>1, <1>2 DEF P!TypeOK, P!Stored
<1>4. pages' \in Nat /\ seen' \subseteq [row : P!Rows, page : 1..pages']
  <2>1. pages \in Nat /\ seen \subseteq [row : P!Rows, page : 1..pages]
    BY <1>2 DEF P!TypeOK
  <2>2. 1..pages \subseteq 1..(pages + 1) /\ pages + 1 \in 1..(pages + 1)
    BY <2>1
  <2>3. seen \subseteq [row : P!Rows, page : 1..(pages + 1)]
    BY <2>1, <2>2
  <2>4. {[row |-> r, page |-> pages + 1] : r \in batch} \subseteq [row : P!Rows, page : 1..(pages + 1)]
    BY <1>3, <2>2
  <2>5. QED
    BY <1>1, <2>1, <2>3, <2>4
<1>5. /\ cursor' \in P!Rows \cup {NoCursor} /\ phase' \in {"new", "walking", "done"}
      /\ steady' \subseteq matches
  BY <1>1, <1>2, <1>3 DEF P!Walk, P!TypeOK
<1>6. skipped' \in Nat
  BY <1>2 DEF P!Walk, P!TypeOK
<1>7. cut' \in BOOLEAN /\ broken' \in BOOLEAN
  BY DEF P!Walk
<1>8. /\ UNCHANGED <<kind, place, matches, rows, changes, limit, moved>>
      /\ P!Stored' = P!Stored
  BY DEF P!Walk, P!data, P!Stored
<1>9. QED
  BY <1>2, <1>4, <1>5, <1>6, <1>7, <1>8 DEF P!TypeOK

\* the rows of a new page come after those that were seen
LEMMA WalkOrder ==
  ASSUME PagesInv, P!Walk
  PROVE  P!SeenInOrder'
<1> DEFINE batch == P!Page(cursor, P!Bounded(limit))
<1>1. /\ batch \subseteq P!Rest(cursor) /\ P!Rest(cursor) \subseteq matches
      /\ seen' = seen \cup {[row |-> r, page |-> pages + 1] : r \in batch}
  BY ThePage
<1> HIDE DEF batch
<1>2. /\ pages \in Nat /\ \A x \in seen : x.page \in 1..pages /\ x.row \in P!Rows
      /\ place \in [P!Rows -> 0..rows] /\ rows \in Nat /\ matches \subseteq P!Rows
  BY RowsAreFinite DEF PagesInv, P!TypeOK, P!Stored
<1>3. place' = place
  BY DEF P!Walk, P!data
<1> SUFFICES ASSUME ~broken', NEW x \in seen', NEW y \in seen', x.page < y.page,
                    {x.row, y.row} \subseteq steady'
             PROVE  place[x.row] < place[y.row]
  BY <1>3 DEF P!SeenInOrder
<1>4. phase \in {"new", "walking"}
  BY DEF P!Walk, PagesInv, P!TypeOK
<1>5. ~broken /\ cursor \notin moved
  BY DEF P!Walk
<1>6. x \in seen \/ (x.page = pages + 1 /\ x.row \in batch)
  BY <1>1
<1>7. y \in seen \/ (y.page = pages + 1 /\ y.row \in batch)
  BY <1>1
<1>8. CASE phase = "new"
  BY <1>6, <1>7, <1>2, <1>8 DEF PagesInv
<1>9. CASE phase = "walking"
  <2>1. steady' = steady
    BY <1>9 DEF P!Walk
  <2>2. x \in seen
    BY <1>2, <1>6, <1>7
  <2>3. CASE y \in seen
    BY <1>5, <2>1, <2>2, <2>3 DEF PagesInv, P!SeenInOrder
  <2>4. CASE y.row \in batch
    <3>1. place[y.row] > place[cursor] /\ y.row \in P!Rows
      BY <1>1, <1>2, <1>5, <1>9, <2>4, RestFacts
    <3>2. place[x.row] <= place[cursor]
      BY <1>5, <1>9, <2>1, <2>2 DEF PagesInv
    <3>3. cursor \in P!Rows
      BY <1>9 DEF PagesInv
    <3>4. place[x.row] \in Nat /\ place[y.row] \in Nat /\ place[cursor] \in Nat
      BY <1>2, <2>2, <3>1, <3>3
    <3>5. QED
      BY <3>1, <3>2, <3>4
  <2>5. QED
    BY <1>7, <2>3, <2>4
<1>10. QED
  BY <1>4, <1>8, <1>9

LEMMA WalkStep ==
  ASSUME PagesInv, P!Walk
  PROVE  PagesInv'
<1> DEFINE batch == P!Page(cursor, P!Bounded(limit))
<1>1. /\ batch \subseteq P!Rest(cursor) /\ P!Rest(cursor) \subseteq matches
      /\ P!SeenRows' = P!SeenRows \cup batch
      /\ seen' = seen \cup {[row |-> r, page |-> pages + 1] : r \in batch}
      /\ \/ phase' = "done" /\ cursor' = NoCursor /\ batch = P!Rest(cursor)
         \/ /\ phase' = "walking" /\ cursor' \in batch /\ cursor' # NoCursor
            /\ \A r \in batch : place[r] <= place[cursor']
            /\ \A r \in P!Rest(cursor) : place[r] <= place[cursor'] => r \in batch
  BY ThePage
<1> HIDE DEF batch
<1>2. P!TypeOK /\ UNCHANGED <<place, matches, moved>>
  BY DEF PagesInv, P!Walk, P!data
<1>3. phase \in {"new", "walking"} /\ (phase = "new" => steady' = matches)
      /\ (phase = "walking" => steady' = steady)
  BY <1>2 DEF P!TypeOK, P!Walk
<1>4. P!TypeOK' /\ P!SeenInOrder'
  BY WalkTyped, WalkOrder
<1>5. (steady \cap moved = {})'
  BY <1>2, <1>3 DEF PagesInv
<1>6. phase' = "walking" => cursor' \in P!Rows /\ (cursor' \notin moved' => place'[cursor'] > 0)
  <2>1. \A r \in matches : r \in P!Rows /\ place[r] > 0
    BY <1>2 DEF P!TypeOK, P!Stored
  <2>2. QED
    BY <1>1, <1>2, <2>1
<1>7. ASSUME ~broken', ~cut', NEW set \in SUBSET steady',
             \A r \in set : r \in P!Rest(cursor) => r \in batch
      PROVE  Cardinality(set \ P!SeenRows') <= skipped'
  <2>1. CASE phase = "walking"
    BY <1>1, <1>3, <1>7, <2>1, WalkMisses DEF P!Walk
  <2>2. CASE phase = "new"
    <3>1. P!Rest(cursor) = matches
      BY <2>2 DEF PagesInv, P!Rest
    <3>2. set \ P!SeenRows' = {}
      BY <1>1, <1>3, <1>7, <2>2, <3>1
    <3>3. skipped' \in Nat
      BY <1>4 DEF P!TypeOK
    <3>4. Cardinality(set \ P!SeenRows') = 0
      BY <3>2, FS_EmptySet
    <3>5. QED
      BY <3>3, <3>4
  <2>3. QED
    BY <1>3, <2>1, <2>2
<1>8. cut' => /\ phase = "walking" /\ cursor \in P!Rows \ (matches \cup moved)
               /\ phase' = "done" /\ P!SeenRows' = P!SeenRows
  <2> SUFFICES ASSUME cut' PROVE /\ phase = "walking" /\ cursor \in P!Rows \ (matches \cup moved)
                                 /\ phase' = "done" /\ P!SeenRows' = P!SeenRows
    OBVIOUS
  <2>1. cursor \in P!Rows \ (matches \cup moved) /\ kind.from = "row"
    BY DEF P!Walk
  <2>2. phase = "walking"
    BY <1>3, <2>1, PagesConstants, RowsAreFinite DEF PagesInv, P!PagingAssumption
  <2>3. P!Rest(cursor) = {}
    BY <2>1, <2>2, RestFacts
  <2>4. QED
    BY <1>1, <2>1, <2>2, <2>3
<1>9. (phase = "walking" /\ ~broken /\ cursor \notin moved =>
        /\ Cardinality(Behind \ P!SeenRows) <= skipped
        /\ \A x \in seen : x.row \notin moved => place[x.row] > 0 /\ place[x.row] <= place[cursor])'
  <2> SUFFICES ASSUME phase' = "walking", ~broken', cursor' \notin moved'
               PROVE  /\ Cardinality(Behind' \ P!SeenRows') <= skipped'
                      /\ \A x \in seen' : x.row \notin moved =>
                           place[x.row] > 0 /\ place[x.row] <= place[cursor']
    BY <1>2
  <2>1. Behind' \subseteq steady' /\ \A r \in Behind' : r \in P!Rest(cursor) => r \in batch
    BY <1>1, <1>2 DEF Behind
  <2>2. Cardinality(Behind' \ P!SeenRows') <= skipped'
    BY <1>7, <1>8, <2>1
  <2>3. ASSUME NEW x \in seen', x.row \notin moved
        PROVE  place[x.row] > 0 /\ place[x.row] <= place[cursor']
    <3>1. CASE x.row \in batch
      BY <1>1, <1>2, <3>1 DEF P!TypeOK, P!Stored
    <3>2. CASE x \in seen
      <4>1. phase = "walking" /\ ~broken /\ cursor \notin moved
        BY <1>3, <3>2 DEF PagesInv, P!Walk
      <4>2. place[x.row] > 0 /\ place[x.row] <= place[cursor]
        BY <1>3, <2>3, <3>2, <4>1 DEF PagesInv
      <4>3. place[cursor'] > place[cursor] /\ cursor' \in P!Rows
        BY <1>1, <1>6, <4>1, RestFacts
      <4>4. place[cursor'] \in Nat /\ place[cursor] \in Nat /\ place[x.row] \in Nat
        BY <1>2, <3>2, <4>1, <4>3, RowsAreFinite DEF P!TypeOK, PagesInv
      <4>5. QED
        BY <4>2, <4>3, <4>4
    <3>3. QED
      BY <1>1, <2>3, <3>1, <3>2
  <2>4. QED
    BY <2>2, <2>3
<1>10. P!NothingIsMissed'
  <2> SUFFICES ASSUME phase' = "done", ~broken'
               PROVE  P!Cardinality(P!Missed') <= skipped'
    BY DEF P!NothingIsMissed
  <2>1. CASE ~cut'
    <3>1. \A r \in steady' : r \in P!Rest(cursor) => r \in batch
      BY <1>1
    <3>2. Cardinality(steady' \ P!SeenRows') <= skipped'
      BY <1>7, <2>1, <3>1
    <3>3. P!Missed' = steady' \ P!SeenRows'
      BY <2>1 DEF P!Missed
    <3>4. QED
      BY <3>2, <3>3, PagesConstants
  <2>2. CASE cut'
    <3>1. /\ phase = "walking" /\ ~broken /\ cursor \notin moved /\ cursor \in P!Rows
          /\ P!SeenRows' = P!SeenRows /\ steady' = steady
          /\ skipped' \in {skipped, skipped + 1} /\ skipped \in Nat
      BY <1>2, <1>3, <1>8, <2>2 DEF P!Walk, P!TypeOK
    <3>2. /\ Cardinality(Behind \ P!SeenRows) <= skipped
          /\ \A x \in seen : x.row \notin moved => place[x.row] > 0 /\ place[x.row] <= place[cursor]
      BY <3>1 DEF PagesInv
    <3>3. \A t \in P!SeenRows \ moved : place[t] <= place[cursor] /\ t \in P!Rows
      BY <1>2, <3>2 DEF P!SeenRows, P!TypeOK
    <3>4. \A r \in P!Rows : place[r] \in Nat
      BY <1>2, RowsAreFinite DEF P!TypeOK
    <3>5. steady \subseteq P!Rows
      BY <1>2 DEF P!TypeOK, P!Stored
    <3>6. P!Missed' \subseteq Behind \ P!SeenRows
      <4> SUFFICES ASSUME NEW r \in P!Missed' PROVE r \in Behind \ P!SeenRows
        OBVIOUS
      <4>1. r \in steady \ P!SeenRows /\ \E t \in P!SeenRows \ moved : place[r] <= place[t]
        BY <1>2, <2>2, <3>1 DEF P!Missed, P!Passed
      <4>2. PICK t \in P!SeenRows \ moved : place[r] <= place[t]
        BY <4>1
      <4>3. place[r] <= place[cursor]
        BY <3>1, <3>3, <3>4, <3>5, <4>1, <4>2
      <4>4. QED
        BY <4>1, <4>3 DEF Behind
    <3>7. Behind \ P!SeenRows \subseteq P!Rows
      BY <3>5 DEF Behind
    <3>8. Cardinality(P!Missed') <= Cardinality(Behind \ P!SeenRows)
          /\ Cardinality(P!Missed') \in Nat /\ Cardinality(Behind \ P!SeenRows) \in Nat
      BY <3>6, <3>7, RowsAreFinite, FS_Subset
    <3>9. QED
      BY <3>1, <3>2, <3>8, PagesConstants
  <2>3. QED
    BY <2>1, <2>2
<1>11. phase' # "new"
  BY <1>1
<1>12. QED
  BY <1>4, <1>5, <1>6, <1>9, <1>10, <1>11, <1>8 DEF PagesInv

-------------------------------------------------------------------------------
\* What the changes of other callers leave

\* the rows that are not moved stay, in their order
OrderStays ==
  \A r, s \in P!Stored \ moved' :
    place'[r] > 0 /\ place'[s] > 0 /\ (place'[r] <= place'[s] <=> place[r] <= place[s])

LEMMA AddOrder ==
  ASSUME P!TypeOK, P!Add
  PROVE  P!TypeOK' /\ OrderStays
<1>1. PICK i \in 1..(P!Cardinality(P!Stored) + 1) : place' = P!Inserted(i)
  BY DEF P!Add
<1>2. P!Stored \subseteq 1..rows /\ rows \in Nat /\ rows < MaxRows /\ MaxRows \in Nat
      /\ rows' = rows + 1 /\ rows' \in 0..MaxRows /\ rows + 1 \in P!Rows
  BY RowsAreFinite DEF P!TypeOK, P!Add
<1>3. Cardinality(P!Stored) <= rows
  <2>1. IsFiniteSet(1..rows) /\ Cardinality(1..rows) = rows
    BY <1>2, FS_Interval
  <2>2. QED
    BY <1>2, <2>1, FS_Subset
<1>4. i \in 1..(rows + 1)
  <2>1. Cardinality(P!Stored) \in Nat
    BY RowsAreFinite DEF P!Stored
  <2>2. i \in 1..(Cardinality(P!Stored) + 1)
    BY PagesConstants
  <2>3. QED
    BY <1>2, <1>3, <2>1, <2>2
<1>5. place \in [P!Rows -> 0..rows]
  BY DEF P!TypeOK
<1>6. \A r \in P!Rows : place[r] \in 0..rows /\ (place[r] > 0 => r # rows + 1)
  BY <1>2, <1>5 DEF P!Stored
<1>7. \A r \in P!Rows : place'[r] = IF r = rows + 1 THEN i
                                     ELSE IF place[r] >= i THEN place[r] + 1 ELSE place[r]
  BY <1>1 DEF P!Inserted
<1>8. place' \in [P!Rows -> 0..(rows + 1)]
  <2>1. \A r \in P!Rows : place'[r] \in 0..(rows + 1)
    BY <1>2, <1>4, <1>6, <1>7
  <2>2. place' = [r \in P!Rows |-> place'[r]]
    BY <1>1 DEF P!Inserted
  <2>3. QED
    BY <2>1, <2>2
<1>9. P!Stored' = P!Stored \cup {rows + 1}
  BY <1>2, <1>4, <1>6, <1>7 DEF P!Stored
<1>10. \A r, s \in P!Stored' : place'[r] = place'[s] => r = s
  <2>1. \A r, s \in P!Stored : place[r] = place[s] => r = s
    BY DEF P!TypeOK
  <2>2. QED
    BY <1>2, <1>4, <1>6, <1>7, <1>9, <2>1 DEF P!Stored
<1>11. OrderStays
  BY <1>2, <1>4, <1>6, <1>7 DEF OrderStays, P!Stored
<1>12. matches' = matches \cup {rows + 1} /\ matches \subseteq P!Stored
       /\ P!Stored' \subseteq 1..(rows + 1)
  BY <1>2, <1>9 DEF P!Add, P!TypeOK
<1>13. changes' \in 0..MaxChanges
  BY PagesConstants DEF P!TypeOK, P!Add, P!Change, P!PagingAssumption
<1>14. UNCHANGED <<kind, limit, cursor, pages, seen, phase, steady, moved, skipped, cut, broken>>
  BY DEF P!Add, P!Change, P!walk
<1>15. P!TypeOK'
  BY <1>2, <1>8, <1>9, <1>10, <1>12, <1>13, <1>14 DEF P!TypeOK
<1>16. QED
  BY <1>11, <1>15

LEMMA TouchOrder ==
  ASSUME P!TypeOK, NEW r \in P!Rows, P!Touch(r)
  PROVE  P!TypeOK' /\ OrderStays
<1>1. /\ rows \in Nat /\ \A s \in P!Rows : place[s] \in 0..rows
      /\ r \in P!Stored /\ place[r] > 0 /\ r \in moved'
      /\ \A s, t \in P!Stored : place[s] = place[t] => s = t
  BY RowsAreFinite DEF P!TypeOK, P!Touch, P!Stored
<1>2. \A s \in P!Rows : place'[s] = IF s = r THEN 1
                           ELSE IF place[s] \in 1..place[r] THEN place[s] + 1 ELSE place[s]
  BY DEF P!Touch
<1>3. \A s \in P!Rows : s # r /\ place[s] > 0 => place[s] # place[r]
  BY <1>1 DEF P!Stored
<1>4. place' \in [P!Rows -> 0..rows]
  <2>1. \A s \in P!Rows : place'[s] \in 0..rows
    BY <1>1, <1>2, <1>3
  <2>2. place' = [s \in P!Rows |-> place'[s]]
    BY DEF P!Touch
  <2>3. QED
    BY <2>1, <2>2
<1>5. P!Stored' = P!Stored
  BY <1>1, <1>2 DEF P!Stored
<1>6. \A s, t \in P!Stored' : place'[s] = place'[t] => s = t
  BY <1>1, <1>2, <1>3, <1>5 DEF P!Stored
<1>7. OrderStays
  BY <1>1, <1>2, <1>3 DEF OrderStays, P!Stored
<1>8. changes' \in 0..MaxChanges
  BY PagesConstants DEF P!TypeOK, P!Touch, P!Change, P!PagingAssumption
<1>9. /\ UNCHANGED <<kind, limit, cursor, pages, seen, phase, matches, rows, skipped, cut, broken>>
      /\ steady' \subseteq steady /\ moved' \subseteq P!Rows
  BY DEF P!Touch, P!Change, P!walk, P!TypeOK
<1>10. P!TypeOK'
  BY <1>4, <1>5, <1>6, <1>8, <1>9 DEF P!TypeOK
<1>11. QED
  BY <1>7, <1>10

LEMMA RemoveOrder ==
  ASSUME P!TypeOK, NEW r \in P!Rows, P!RemoveRow(r)
  PROVE  P!TypeOK' /\ OrderStays
<1>1. /\ rows \in Nat /\ \A s \in P!Rows : place[s] \in 0..rows
      /\ r \in P!Stored /\ place[r] > 0 /\ r \in moved'
      /\ \A s, t \in P!Stored : place[s] = place[t] => s = t
  BY RowsAreFinite DEF P!TypeOK, P!RemoveRow, P!Stored
<1>2. \A s \in P!Rows : place'[s] = IF s = r THEN 0
                           ELSE IF place[s] > place[r] THEN place[s] - 1 ELSE place[s]
  BY DEF P!RemoveRow
<1>3. \A s \in P!Rows : s # r /\ place[s] > 0 => place[s] # place[r]
  BY <1>1 DEF P!Stored
<1>4. place' \in [P!Rows -> 0..rows]
  <2>1. \A s \in P!Rows : place'[s] \in 0..rows
    BY <1>1, <1>2, <1>3
  <2>2. place' = [s \in P!Rows |-> place'[s]]
    BY DEF P!RemoveRow
  <2>3. QED
    BY <2>1, <2>2
<1>5. P!Stored' = P!Stored \ {r}
  BY <1>1, <1>2 DEF P!Stored
<1>6. \A s, t \in P!Stored' : place'[s] = place'[t] => s = t
  BY <1>1, <1>2, <1>3, <1>5 DEF P!Stored
<1>7. OrderStays
  BY <1>1, <1>2, <1>3 DEF OrderStays, P!Stored
<1>8. changes' \in 0..MaxChanges
  BY PagesConstants DEF P!TypeOK, P!RemoveRow, P!Change, P!PagingAssumption
<1>9. /\ UNCHANGED <<kind, limit, cursor, pages, seen, phase, rows, skipped, cut, broken>>
      /\ matches' = matches \ {r} /\ steady' = steady \ {r} /\ moved' \subseteq P!Rows
  BY DEF P!RemoveRow, P!Change, P!walk, P!TypeOK
<1>10. P!TypeOK'
  BY <1>4, <1>5, <1>6, <1>8, <1>9 DEF P!TypeOK
<1>11. QED
  BY <1>7, <1>10

LEMMA FilterOrder ==
  ASSUME P!TypeOK, NEW r \in P!Rows, P!Hide(r) \/ P!Show(r)
  PROVE  P!TypeOK' /\ OrderStays
<1>1. changes' \in 0..MaxChanges
  BY PagesConstants DEF P!TypeOK, P!Hide, P!Show, P!Change, P!PagingAssumption
<1>2. /\ UNCHANGED <<kind, limit, cursor, pages, seen, phase, rows, place, moved, skipped, cut, broken>>
      /\ P!Stored' = P!Stored
      /\ matches' \subseteq P!Stored /\ steady' \subseteq matches'
  BY DEF P!Hide, P!Show, P!Change, P!walk, P!TypeOK, P!Stored
<1>3. P!TypeOK'
  BY <1>1, <1>2 DEF P!TypeOK
<1>4. OrderStays
  BY <1>2 DEF OrderStays, P!Stored
<1>5. QED
  BY <1>3, <1>4

LEMMA ChangeStep ==
  ASSUME PagesInv, P!Change, P!TypeOK', OrderStays,
         steady' \subseteq steady, moved \subseteq moved', steady' \cap moved' = {}
  PROVE  PagesInv'
<1>1. /\ phase = "walking" /\ ~cut
      /\ UNCHANGED <<cursor, pages, seen, phase, skipped, cut, broken>>
  BY DEF P!Change, P!walk, PagesInv
<1>2. P!SeenRows' = P!SeenRows
  BY <1>1 DEF P!SeenRows
<1>3. steady \subseteq P!Stored /\ steady' \subseteq P!Stored \ moved'
  BY DEF PagesInv, P!TypeOK
<1>4. cursor \in P!Rows /\ (cursor \notin moved' => cursor \in P!Stored /\ place'[cursor] > 0)
  <2>1. cursor \in P!Rows /\ (cursor \notin moved => place[cursor] > 0)
    BY <1>1 DEF PagesInv
  <2>2. QED
    BY <2>1 DEF OrderStays, P!Stored
<1>5. ASSUME ~broken, cursor \notin moved'
      PROVE  /\ Cardinality(Behind' \ P!SeenRows') <= skipped'
             /\ \A x \in seen' : x.row \notin moved' =>
                  place'[x.row] > 0 /\ place'[x.row] <= place'[cursor']
  <2>1. /\ Cardinality(Behind \ P!SeenRows) <= skipped
        /\ \A x \in seen : x.row \notin moved => place[x.row] > 0 /\ place[x.row] <= place[cursor]
    BY <1>1, <1>5 DEF PagesInv
  <2>2. \A r \in steady' : place'[r] <= place'[cursor] <=> place[r] <= place[cursor]
    BY <1>3, <1>4, <1>5 DEF OrderStays
  <2>3. Behind' \subseteq Behind
    BY <1>1, <2>2 DEF Behind
  <2>4. Cardinality(Behind' \ P!SeenRows') <= Cardinality(Behind \ P!SeenRows)
    <3>1. Behind \ P!SeenRows \subseteq P!Rows /\ Behind' \ P!SeenRows \subseteq Behind \ P!SeenRows
      BY <1>3, <2>3 DEF Behind, P!Stored
    <3>2. QED
      BY <1>2, <3>1, RowsAreFinite, FS_Subset
  <2>5. Cardinality(Behind' \ P!SeenRows') \in Nat /\ Cardinality(Behind \ P!SeenRows) \in Nat
        /\ skipped \in Nat
    <3>1. Behind \ P!SeenRows \subseteq P!Rows /\ Behind' \ P!SeenRows' \subseteq P!Rows
      BY <1>3, <2>3 DEF Behind, P!Stored
    <3>2. QED
      BY <3>1, RowsAreFinite DEF PagesInv, P!TypeOK
  <2>6. Cardinality(Behind' \ P!SeenRows') <= skipped'
    BY <1>1, <2>1, <2>4, <2>5
  <2>7. ASSUME NEW x \in seen', x.row \notin moved'
        PROVE  place'[x.row] > 0 /\ place'[x.row] <= place'[cursor']
    <3>1. x \in seen /\ x.row \in P!Rows /\ x.row \notin moved
      BY <1>1, <2>7 DEF PagesInv, P!TypeOK
    <3>2. place[x.row] > 0 /\ place[x.row] <= place[cursor]
      BY <2>1, <3>1
    <3>3. x.row \in P!Stored \ moved' /\ cursor \in P!Stored \ moved'
      BY <1>4, <1>5, <2>7, <3>1, <3>2 DEF P!Stored
    <3>4. QED
      BY <1>1, <3>2, <3>3 DEF OrderStays
  <2>8. QED
    BY <2>6, <2>7
<1>6. P!SeenInOrder'
  <2> SUFFICES ASSUME ~broken, NEW x \in seen, NEW y \in seen, x.page < y.page,
                      {x.row, y.row} \subseteq steady'
               PROVE  place'[x.row] < place'[y.row]
    BY <1>1 DEF P!SeenInOrder
  <2>1. place[x.row] < place[y.row]
    BY DEF PagesInv, P!SeenInOrder
  <2>2. /\ x.row \in P!Stored \ moved' /\ y.row \in P!Stored \ moved'
    BY <1>3
  <2>3. place'[y.row] <= place'[x.row] <=> place[y.row] <= place[x.row]
    BY <2>2 DEF OrderStays
  <2>4. /\ rows \in Nat /\ rows' \in Nat /\ x.row \in P!Rows /\ y.row \in P!Rows
        /\ place[x.row] \in 0..rows /\ place[y.row] \in 0..rows
        /\ place'[x.row] \in 0..rows' /\ place'[y.row] \in 0..rows'
    <3>1. rows \in Nat /\ rows' \in Nat
      BY RowsAreFinite DEF PagesInv, P!TypeOK
    <3>2. x.row \in P!Rows /\ y.row \in P!Rows
      BY <2>2 DEF P!Stored
    <3>3. P!Rows' = P!Rows
      BY DEF P!Rows
    <3>4. place \in [P!Rows -> 0..rows] /\ place' \in [P!Rows -> 0..rows']
      BY <3>3 DEF PagesInv, P!TypeOK
    <3>5. QED
      BY <3>1, <3>2, <3>4
  <2>5. QED
    BY <2>1, <2>3, <2>4
<1>7. P!NothingIsMissed'
  BY <1>1 DEF P!NothingIsMissed
<1>8. QED
  BY <1>1, <1>4, <1>5, <1>6, <1>7 DEF PagesInv

LEMMA PagesStep ==
  ASSUME PagesInv, P!Next
  PROVE  PagesInv'
<1>1. P!TypeOK /\ steady \cap moved = {}
  BY DEF PagesInv
<1>2. CASE P!Walk
  BY <1>2, WalkStep
<1>3. CASE P!Add
  <2>1. P!Change /\ UNCHANGED <<steady, moved>>
    BY <1>3 DEF P!Add
  <2>2. QED
    BY <1>1, <1>3, <2>1, AddOrder, ChangeStep
<1>4. ASSUME NEW r \in P!Rows, P!Hide(r) \/ P!Show(r)
      PROVE  PagesInv'
  <2>1. P!Change /\ steady' \subseteq steady /\ moved' = moved
    BY <1>4 DEF P!Hide, P!Show
  <2>2. QED
    BY <1>1, <1>4, <2>1, FilterOrder, ChangeStep
<1>5. ASSUME NEW r \in P!Rows, P!Touch(r)
      PROVE  PagesInv'
  <2>1. P!Change /\ steady' = steady \ {r} /\ moved' = moved \cup {r}
    BY <1>5 DEF P!Touch
  <2>2. QED
    BY <1>1, <1>5, <2>1, TouchOrder, ChangeStep
<1>6. ASSUME NEW r \in P!Rows, P!RemoveRow(r)
      PROVE  PagesInv'
  <2>1. P!Change /\ steady' = steady \ {r} /\ moved' = moved \cup {r}
    BY <1>6 DEF P!RemoveRow
  <2>2. QED
    BY <1>1, <1>6, <2>1, RemoveOrder, ChangeStep
<1>7. QED
  BY <1>2, <1>3, <1>4, <1>5, <1>6 DEF P!Next

LEMMA PagesMeaning == PagesInv => P!TypeOK /\ P!WalksAreComplete
BY DEF PagesInv, P!WalksAreComplete

LEMMA PagesStutter == PagesInv /\ UNCHANGED P!vars => PagesInv'
BY DEF PagesInv, P!vars, P!data, P!walk, P!TypeOK, P!Stored, P!SeenRows, P!SeenInOrder,
       P!NothingIsMissed, P!Missed, P!Passed, Behind, P!Rows, P!Lists

\* A walk to the end of a paged list repeats no row that stayed, and misses of
\* them at most one for each cursor row that left the filter, whatever changes
\* meanwhile. A list that is ordered by its dates alone ends at such a cursor
\* row: of the rows up to those that were seen it misses no more, and all that
\* lie after them (listScheduledMessages, searchMessages).
THEOREM PagesStayComplete == P!Spec => []P!WalksAreComplete
BY PagesInit, PagesStep, PagesStutter, PagesMeaning, PTL DEF P!Spec

-------------------------------------------------------------------------------
(* Email verification *)

\* The link of a call that has not made it yet is nowhere, and only a link that
\* reached the user is used
LinksInOrder ==
  /\ \A l \in V!Links : vpc[l] \in {"new", "sweep", "create"} => link[l] = "none"
  /\ \A l \in V!Links : link[l] = "used" => l \in mailbox
  /\ \A l \in mailbox : vpc[l] \notin {"new", "sweep", "create", "mail"}
  /\ \A v \in Verifies : vpc[v] \in {"apply", "ok"} => using[v] \in mailbox

\* A link that is valid, or about to be
MayBeValid(l) == vpc[l] = "create" \/ link[l] = "unused"

\* Of two links that are valid or about to be, one was pending at the other's sweep
OnePending ==
  \A r, s \in V!Links : r # s /\ MayBeValid(r) /\ MayBeValid(s)
    => r \in pending[s] \/ s \in pending[r]

LinksInv == V!TypeOK /\ LinksInOrder /\ V!VerifiedByLink /\ OnePending

LEMMA LinksConstants == V!VerificationAssumption
  BY RecordsConstants DEF RecordsConstants

LEMMA LinksInit == V!Init => LinksInv
<1> SUFFICES ASSUME V!Init PROVE LinksInv
  OBVIOUS
<1> USE LinksConstants DEF V!VerificationAssumption
<1>1. V!TypeOK
  <2> USE DEF V!Init, V!Links, V!Handlers
  <2>1. verified \in BOOLEAN OBVIOUS
  <2>7. now \in 0..MaxTime OBVIOUS
  <2>2. link \in [V!Links -> {"none", "unused", "used", "deleted"}] OBVIOUS
  <2>3. madeAt \in [V!Links -> 0..MaxTime] /\ mailbox \subseteq V!Links OBVIOUS
  <2>4. vpc \in [V!Handlers -> {"new", "sweep", "create", "mail", "apply", "done", "ok", "failed"}]
    OBVIOUS
  <2>5. using \in [Verifies -> V!Links \cup {NoLink}] /\ pending \in [V!Links -> SUBSET V!Links] OBVIOUS
  <2>6. QED BY <2>1, <2>2, <2>3, <2>4, <2>5, <2>7 DEF V!TypeOK
<1>2. LinksInOrder
  BY DEF V!Init, LinksInOrder, V!Links, V!Handlers
<1>3. V!VerifiedByLink
  BY DEF V!Init, V!VerifiedByLink, V!Links, V!Handlers
<1>4. OnePending
  BY DEF V!Init, OnePending, MayBeValid, V!Links, V!Handlers
<1>5. QED
  BY <1>1, <1>2, <1>3, <1>4 DEF LinksInv

LEMMA LinksTyped == LinksInv /\ [V!Next]_(V!vars) => V!TypeOK'
<1> SUFFICES ASSUME LinksInv, [V!Next]_(V!vars) PROVE V!TypeOK'
  OBVIOUS
<1> USE LinksConstants DEF V!VerificationAssumption, LinksInv, V!TypeOK, V!Links, V!Handlers, V!Goto
<1>1. ASSUME NEW r \in V!Links, V!ResendRead(r) PROVE V!TypeOK'
  BY <1>1 DEF V!ResendRead
<1>2. ASSUME NEW r \in V!Links, V!Sweep(r) PROVE V!TypeOK'
  BY <1>2 DEF V!Sweep
<1>3. ASSUME NEW r \in V!Links, V!Create(r) PROVE V!TypeOK'
  BY <1>3 DEF V!Create
<1>4. ASSUME NEW r \in V!Links, V!Mail(r) PROVE V!TypeOK'
  BY <1>4 DEF V!Mail
<1>5. ASSUME NEW r \in V!Links, V!DispatchFails(r) PROVE V!TypeOK'
  BY <1>5 DEF V!DispatchFails
<1>6. ASSUME NEW v \in Verifies, V!VerifyApply(v) PROVE V!TypeOK'
  BY <1>6 DEF V!VerifyApply
<1>7. ASSUME NEW v \in Verifies, NEW l \in V!Links, V!VerifyRead(v, l) PROVE V!TypeOK'
  BY <1>7 DEF V!VerifyRead
<1>8. CASE V!Tick
  BY <1>8 DEF V!Tick
<1>9. CASE UNCHANGED V!vars
  BY <1>9 DEF V!vars
<1>10. QED
  BY <1>1, <1>2, <1>3, <1>4, <1>5, <1>6, <1>7, <1>8, <1>9 DEF V!Next, V!Dispatch

LEMMA LinksStep == LinksInv /\ [V!Next]_(V!vars) => LinksInv'
<1> SUFFICES ASSUME LinksInv, [V!Next]_(V!vars) PROVE (LinksInOrder /\ V!VerifiedByLink /\ OnePending)'
  BY LinksTyped DEF LinksInv
<1> USE LinksConstants DEF V!VerificationAssumption, V!Goto
<1>0. V!TypeOK'
  BY LinksTyped
<1> USE <1>0 DEF LinksInv, V!TypeOK, V!Links, V!Handlers
<1>1. ASSUME NEW r \in V!Links, V!ResendRead(r)
      PROVE  (LinksInOrder /\ V!VerifiedByLink /\ OnePending)'
  <2>1. LinksInOrder'
    BY <1>1 DEF V!ResendRead, LinksInOrder
  <2>2. V!VerifiedByLink'
    BY <1>1 DEF V!ResendRead, LinksInOrder, V!VerifiedByLink
  <2>3. OnePending'
    BY <1>1 DEF V!ResendRead, LinksInOrder, OnePending, MayBeValid
  <2>4. QED
    BY <2>1, <2>2, <2>3
<1>2. ASSUME NEW r \in V!Links, V!Sweep(r)
      PROVE  (LinksInOrder /\ V!VerifiedByLink /\ OnePending)'
  <2>1. LinksInOrder'
    BY <1>2 DEF V!Sweep, LinksInOrder
  <2>2. V!VerifiedByLink'
    BY <1>2 DEF V!Sweep, LinksInOrder, V!VerifiedByLink
  <2>3. OnePending'
    BY <1>2 DEF V!Sweep, LinksInOrder, OnePending, MayBeValid
  <2>4. QED
    BY <2>1, <2>2, <2>3
<1>3. ASSUME NEW r \in V!Links, V!Create(r)
      PROVE  (LinksInOrder /\ V!VerifiedByLink /\ OnePending)'
  <2>1. LinksInOrder'
    BY <1>3 DEF V!Create, LinksInOrder
  <2>2. V!VerifiedByLink'
    BY <1>3 DEF V!Create, LinksInOrder, V!VerifiedByLink
  <2>3. OnePending'
    BY <1>3 DEF V!Create, LinksInOrder, OnePending, MayBeValid
  <2>4. QED
    BY <2>1, <2>2, <2>3
<1>4. ASSUME NEW r \in V!Links, V!Mail(r)
      PROVE  (LinksInOrder /\ V!VerifiedByLink /\ OnePending)'
  <2>1. LinksInOrder'
    BY <1>4 DEF V!Mail, LinksInOrder
  <2>2. V!VerifiedByLink'
    BY <1>4 DEF V!Mail, LinksInOrder, V!VerifiedByLink
  <2>3. OnePending'
    BY <1>4 DEF V!Mail, LinksInOrder, OnePending, MayBeValid
  <2>4. QED
    BY <2>1, <2>2, <2>3
<1>5. ASSUME NEW r \in V!Links, V!DispatchFails(r)
      PROVE  (LinksInOrder /\ V!VerifiedByLink /\ OnePending)'
  <2>1. LinksInOrder'
    BY <1>5 DEF V!DispatchFails, LinksInOrder
  <2>2. V!VerifiedByLink'
    BY <1>5 DEF V!DispatchFails, LinksInOrder, V!VerifiedByLink
  <2>3. OnePending'
    BY <1>5 DEF V!DispatchFails, LinksInOrder, OnePending, MayBeValid
  <2>4. QED
    BY <2>1, <2>2, <2>3
<1>6. ASSUME NEW v \in Verifies, V!VerifyApply(v)
      PROVE  (LinksInOrder /\ V!VerifiedByLink /\ OnePending)'
  <2>1. LinksInOrder'
    BY <1>6 DEF V!VerifyApply, LinksInOrder
  <2>2. V!VerifiedByLink'
    BY <1>6 DEF V!VerifyApply, LinksInOrder, V!VerifiedByLink
  <2>3. OnePending'
    BY <1>6 DEF V!VerifyApply, LinksInOrder, OnePending, MayBeValid
  <2>4. QED
    BY <2>1, <2>2, <2>3
<1>7. ASSUME NEW v \in Verifies, NEW l \in V!Links, V!VerifyRead(v, l)
      PROVE  (LinksInOrder /\ V!VerifiedByLink /\ OnePending)'
  <2>1. LinksInOrder'
    BY <1>7 DEF V!VerifyRead, LinksInOrder
  <2>2. V!VerifiedByLink'
    BY <1>7 DEF V!VerifyRead, LinksInOrder, V!VerifiedByLink
  <2>3. OnePending'
    BY <1>7 DEF V!VerifyRead, LinksInOrder, OnePending, MayBeValid
  <2>4. QED
    BY <2>1, <2>2, <2>3
<1>8. CASE V!Tick
  BY <1>8 DEF V!Tick, LinksInOrder, V!VerifiedByLink, OnePending, MayBeValid
<1>9. CASE UNCHANGED V!vars
  BY <1>9 DEF V!vars, LinksInOrder, V!VerifiedByLink, OnePending, MayBeValid
<1>10. QED
  BY <1>1, <1>2, <1>3, <1>4, <1>5, <1>6, <1>7, <1>8, <1>9 DEF V!Next, V!Dispatch

LEMMA LinksMeaning == LinksInv => V!LinksAreTrue
  BY DEF LinksInv, V!LinksAreTrue, OnePending, MayBeValid, V!ResendSupersedes

\* An address is verified by a link that was mailed to it, and of two valid links
\* one was on its way when the other was made (resendVerification,
\* verifyEmail).
THEOREM LinksStayTrue == V!Spec => []V!LinksAreTrue
<1>1. V!Init => LinksInv
  BY LinksInit
<1>2. LinksInv /\ [V!Next]_(V!vars) => LinksInv'
  BY LinksStep
<1>3. QED
  BY <1>1, <1>2, LinksMeaning, PTL DEF V!Spec

-------------------------------------------------------------------------------
(* Attachments *)

\* What a call of file-service or sendMessage knows between its round trips
CallsKnow ==
  /\ \A r \in Requests : fpc[r] \in {"new", "create", "remove"} => r \notin F!Sent
  /\ \A r \in Requests : fpc[r] \in {"find", "attach"} =>
       r \in F!Sent /\ user[r] = messages[r].author
  /\ \A r \in Requests : fpc[r] = "remove" => wanted[r] \subseteq F!Stored
  /\ \A r \in Requests : fpc[r] = "attach" => \A f \in wanted[r] :
       f \in F!Stored /\ files[f].uploader = user[r]
  /\ \A r \in Requests : fpc[r] = "create" => user[r] \in Users /\
       (named[r].message # NoMessage =>
         /\ named[r].message \in F!Sent
         /\ named[r].channel # NoChannel =>
              messages[named[r].message].channel = named[r].channel)

\* A file has a message that was sent, in the channel it names
FilesFollow ==
  \A f \in F!Stored : files[f].message # NoMessage =>
    /\ files[f].message \in F!Sent
    /\ files[f].channel # NoChannel =>
         messages[files[f].message].channel = files[f].channel

\* The files of an answered send belong to messages of their uploader, each sent
\* with the file it has
SentFilesStay ==
  \A r \in F!Sent : fpc[r] = "ok" => \A f \in wanted[r] :
    /\ f \in F!Stored /\ files[f].uploader = messages[r].author
    /\ files[f].message \in F!Sent
    /\ fpc[files[f].message] \in {"ok", "failed"} /\ f \in wanted[files[f].message]
    /\ messages[files[f].message].author = messages[r].author

RemovedFilesStay == \A f \in removed : f \in F!Stored /\ files[f].deleted

FilesInv == F!TypeOK /\ CallsKnow /\ FilesFollow /\ SentFilesStay /\ RemovedFilesStay

LEMMA FilesConstants == F!AttachmentsAssumption
  BY RecordsConstants DEF RecordsConstants

LEMMA FilesInit == F!Init => FilesInv
<1> SUFFICES ASSUME F!Init PROVE FilesInv
  OBVIOUS
<1> USE FilesConstants DEF F!AttachmentsAssumption
<1>1. F!TypeOK
  BY DEF F!Init, F!TypeOK, F!Stored, F!Sent, F!Place, F!Nowhere
<1>2. CallsKnow /\ FilesFollow /\ SentFilesStay /\ RemovedFilesStay
  BY DEF F!Init, CallsKnow, FilesFollow, SentFilesStay, RemovedFilesStay, F!Stored, F!Sent
<1>3. QED
  BY <1>1, <1>2 DEF FilesInv

LEMMA MovedIs ==
  ASSUME NEW f, files[f] \in F!File, NEW m
  PROVE  F!Moved(f, m) = [uploader |-> files[f].uploader, channel |-> messages[m].channel,
                          message |-> m, deleted |-> files[f].deleted]
<1> DEFINE there == [files[f] EXCEPT !.message = m]
<1>1. there = [uploader |-> files[f].uploader, channel |-> files[f].channel,
               message |-> m, deleted |-> files[f].deleted]
  BY DEF F!File
<1>2. F!Moved(f, m) = [there EXCEPT !.channel = messages[m].channel]
  BY DEF F!Moved
<1> HIDE DEF there
<1>3. [there EXCEPT !.channel = messages[m].channel]
        = [uploader |-> files[f].uploader, channel |-> messages[m].channel,
           message |-> m, deleted |-> files[f].deleted]
  BY <1>1
<1>4. QED
  BY <1>2, <1>3

\* What an attachment leaves of a file, and what it writes
LEMMA AttachedFiles ==
  ASSUME F!TypeOK, NEW r \in Requests, F!Attach(r)
  PROVE  /\ F!Stored' = F!Stored
         /\ \A f \in F!Stored \ wanted[r] : files'[f] = files[f]
         /\ \A f \in F!Stored \cap wanted[r] :
              files'[f] = [uploader |-> files[f].uploader, channel |-> messages[r].channel,
                           message |-> r, deleted |-> files[f].deleted]
<1>1. files' = [f \in F!Stored |-> IF f \in wanted[r] THEN F!Moved(f, r) ELSE files[f]]
  BY DEF F!Attach
<1>2. \A f \in F!Stored : files[f] \in F!File
  BY DEF F!TypeOK
<1>3. QED
  BY <1>1, <1>2, MovedIs DEF F!Stored

LEMMA FilesTyped == FilesInv /\ [F!Next]_(F!vars) => F!TypeOK'
<1> SUFFICES ASSUME FilesInv, [F!Next]_(F!vars) PROVE F!TypeOK'
  OBVIOUS
<1> USE FilesConstants DEF F!AttachmentsAssumption, FilesInv, F!TypeOK, F!Stored, F!Sent,
      F!Begin, F!Finish, F!File, F!Message, F!Place, F!Nowhere
<1>1. ASSUME NEW r \in Requests, NEW u \in Users, NEW c \in Rooms, NEW fs \in SUBSET Files,
             F!Send(r, u, c, fs)
      PROVE  F!TypeOK'
  BY <1>1 DEF F!Send, CallsKnow
<1>2. ASSUME NEW r \in Requests, NEW u \in Users, NEW c \in Rooms \cup {NoChannel},
             NEW m \in F!Sent \cup {NoMessage}, F!UploadCheck(r, u, c, m)
      PROVE  F!TypeOK'
  BY <1>2 DEF F!UploadCheck, F!MessageFits, CallsKnow
<1>3. ASSUME NEW r \in Requests, NEW f \in Files, F!UploadCreate(r, f)
      PROVE  F!TypeOK'
  BY <1>3 DEF F!UploadCreate, CallsKnow
<1>4. ASSUME NEW r \in Requests, NEW u \in Users, NEW f \in Files, F!RemoveCheck(r, u, f)
      PROVE  F!TypeOK'
  BY <1>4 DEF F!RemoveCheck, F!MayDelete, CallsKnow
<1>5. ASSUME NEW r \in Requests, NEW f \in Files, F!RemoveApply(r, f)
      PROVE  F!TypeOK'
  <2>1. f \in F!Stored
    BY <1>5 DEF F!RemoveApply, CallsKnow
  <2>2. [files[f] EXCEPT !.deleted = TRUE] \in F!File
    BY <2>1
  <2>3. F!Stored' = F!Stored /\ \A g \in F!Stored : files'[g] \in F!File
    BY <1>5, <2>1, <2>2 DEF F!RemoveApply
  <2>4. (F!Stored \subseteq Files /\ \A g \in F!Stored : files[g] \in F!File)'
    BY <2>1, <2>3
  <2>5. fpc' \in [Requests -> {"new", "create", "remove", "find", "attach", "ok", "failed"}]
        /\ removed' \subseteq Files
    BY <1>5 DEF F!RemoveApply
  <2>6. UNCHANGED <<messages, user, named, wanted>>
    BY <1>5 DEF F!RemoveApply
  <2>7. QED
    BY <2>4, <2>5, <2>6
<1>6. ASSUME NEW r \in Requests, F!Find(r)
      PROVE  F!TypeOK'
  BY <1>6 DEF F!Find, F!Allowed, CallsKnow
<1>7. ASSUME NEW r \in Requests, F!Attach(r)
      PROVE  F!TypeOK'
  <2>1. r \in F!Sent
    BY <1>7 DEF F!Attach, CallsKnow
  <2>2. F!Stored' = F!Stored /\ \A f \in F!Stored : files'[f] \in F!File
    <3>1. messages[r].channel \in Rooms \cup {NoChannel}
      BY <2>1
    <3>2. \A f \in F!Stored \ wanted[r] : files'[f] \in F!File
      BY <1>7, AttachedFiles
    <3>3. ASSUME NEW f \in F!Stored \cap wanted[r] PROVE files'[f] \in F!File
      <4>1. files'[f] = [uploader |-> files[f].uploader, channel |-> messages[r].channel,
                         message |-> r, deleted |-> files[f].deleted]
        BY <1>7, AttachedFiles
      <4>2. files[f] \in F!File
        OBVIOUS
      <4>3. QED
        BY <3>1, <4>1, <4>2
    <3>4. QED
      BY <1>7, <3>2, <3>3, AttachedFiles
  <2>3. QED
    BY <1>7, <2>2 DEF F!Attach
<1>8. ASSUME NEW r \in Requests, F!SendFails(r)
      PROVE  F!TypeOK'
  BY <1>8 DEF F!SendFails, CallsKnow
<1>9. CASE UNCHANGED F!vars
  BY <1>9 DEF F!vars
<1>10. QED
  BY <1>1, <1>2, <1>3, <1>4, <1>5, <1>6, <1>7, <1>8, <1>9 DEF F!Next

LEMMA FilesStep == FilesInv /\ [F!Next]_(F!vars) => FilesInv'
<1> SUFFICES ASSUME FilesInv, [F!Next]_(F!vars)
             PROVE  (CallsKnow /\ FilesFollow /\ SentFilesStay /\ RemovedFilesStay)'
  BY FilesTyped DEF FilesInv
<1>0. F!TypeOK'
  BY FilesTyped
<1> USE <1>0, FilesConstants DEF F!AttachmentsAssumption, FilesInv, F!TypeOK, F!Stored, F!Sent,
      F!Begin, F!Finish, F!File, F!Message, F!Place, F!Nowhere
<1>1. ASSUME NEW r \in Requests, NEW u \in Users, NEW c \in Rooms, NEW fs \in SUBSET Files,
             F!Send(r, u, c, fs)
      PROVE  (CallsKnow /\ FilesFollow /\ SentFilesStay /\ RemovedFilesStay)'
  <2>1. CallsKnow'
    BY <1>1 DEF F!Send, CallsKnow
  <2>2. FilesFollow'
    BY <1>1 DEF F!Send, CallsKnow, FilesFollow
  <2>3. SentFilesStay'
    BY <1>1 DEF F!Send, CallsKnow, SentFilesStay
  <2>4. RemovedFilesStay'
    BY <1>1 DEF F!Send, CallsKnow, RemovedFilesStay
  <2>5. QED
    BY <2>1, <2>2, <2>3, <2>4
<1>2. ASSUME NEW r \in Requests, NEW u \in Users, NEW c \in Rooms \cup {NoChannel},
             NEW m \in F!Sent \cup {NoMessage}, F!UploadCheck(r, u, c, m)
      PROVE  (CallsKnow /\ FilesFollow /\ SentFilesStay /\ RemovedFilesStay)'
  <2>1. CallsKnow'
    BY <1>2 DEF F!UploadCheck, F!MessageFits, CallsKnow
  <2>2. FilesFollow'
    BY <1>2 DEF F!UploadCheck, F!MessageFits, CallsKnow, FilesFollow
  <2>3. SentFilesStay'
    BY <1>2 DEF F!UploadCheck, F!MessageFits, CallsKnow, SentFilesStay
  <2>4. RemovedFilesStay'
    BY <1>2 DEF F!UploadCheck, F!MessageFits, CallsKnow, RemovedFilesStay
  <2>5. QED
    BY <2>1, <2>2, <2>3, <2>4
<1>3. ASSUME NEW r \in Requests, NEW f \in Files, F!UploadCreate(r, f)
      PROVE  (CallsKnow /\ FilesFollow /\ SentFilesStay /\ RemovedFilesStay)'
  <2>1. CallsKnow'
    BY <1>3 DEF F!UploadCreate, CallsKnow
  <2>2. FilesFollow'
    BY <1>3 DEF F!UploadCreate, CallsKnow, FilesFollow
  <2>3. SentFilesStay'
    BY <1>3 DEF F!UploadCreate, CallsKnow, SentFilesStay
  <2>4. RemovedFilesStay'
    BY <1>3 DEF F!UploadCreate, CallsKnow, RemovedFilesStay
  <2>5. QED
    BY <2>1, <2>2, <2>3, <2>4
<1>4. ASSUME NEW r \in Requests, NEW u \in Users, NEW f \in Files, F!RemoveCheck(r, u, f)
      PROVE  (CallsKnow /\ FilesFollow /\ SentFilesStay /\ RemovedFilesStay)'
  <2>1. CallsKnow'
    BY <1>4 DEF F!RemoveCheck, F!MayDelete, CallsKnow
  <2>2. FilesFollow'
    BY <1>4 DEF F!RemoveCheck, F!MayDelete, CallsKnow, FilesFollow
  <2>3. SentFilesStay'
    BY <1>4 DEF F!RemoveCheck, F!MayDelete, CallsKnow, SentFilesStay
  <2>4. RemovedFilesStay'
    BY <1>4 DEF F!RemoveCheck, F!MayDelete, CallsKnow, RemovedFilesStay
  <2>5. QED
    BY <2>1, <2>2, <2>3, <2>4
<1>5. ASSUME NEW r \in Requests, NEW f \in Files, F!RemoveApply(r, f)
      PROVE  (CallsKnow /\ FilesFollow /\ SentFilesStay /\ RemovedFilesStay)'
  <2>1. CallsKnow'
    BY <1>5 DEF F!RemoveApply, CallsKnow
  <2>2. FilesFollow'
    BY <1>5 DEF F!RemoveApply, CallsKnow, FilesFollow
  <2>3. SentFilesStay'
    BY <1>5 DEF F!RemoveApply, CallsKnow, SentFilesStay
  <2>4. RemovedFilesStay'
    BY <1>5 DEF F!RemoveApply, CallsKnow, RemovedFilesStay
  <2>5. QED
    BY <2>1, <2>2, <2>3, <2>4
<1>6. ASSUME NEW r \in Requests, F!Find(r)
      PROVE  (CallsKnow /\ FilesFollow /\ SentFilesStay /\ RemovedFilesStay)'
  <2>1. CallsKnow'
    BY <1>6 DEF F!Find, F!Allowed, CallsKnow
  <2>2. FilesFollow'
    BY <1>6 DEF F!Find, F!Allowed, CallsKnow, FilesFollow
  <2>3. SentFilesStay'
    BY <1>6 DEF F!Find, F!Allowed, CallsKnow, SentFilesStay
  <2>4. RemovedFilesStay'
    BY <1>6 DEF F!Find, F!Allowed, CallsKnow, RemovedFilesStay
  <2>5. QED
    BY <2>1, <2>2, <2>3, <2>4
<1>7. ASSUME NEW r \in Requests, F!Attach(r)
      PROVE  (CallsKnow /\ FilesFollow /\ SentFilesStay /\ RemovedFilesStay)'
  <2>0. /\ F!Stored' = F!Stored
        /\ \A f \in F!Stored \ wanted[r] : files'[f] = files[f]
        /\ \A f \in F!Stored \cap wanted[r] :
             files'[f] = [uploader |-> files[f].uploader, channel |-> messages[r].channel,
                          message |-> r, deleted |-> files[f].deleted]
    BY <1>7, AttachedFiles
  <2>6. UNCHANGED <<messages, user, named, wanted, removed>> /\ fpc[r] = "attach"
        /\ \E outcome \in {"ok", "failed"} : fpc' = [fpc EXCEPT ![r] = outcome]
    BY <1>7 DEF F!Attach
  <2>1. CallsKnow'
    BY <2>0, <2>6 DEF CallsKnow
  <2>2. FilesFollow'
    BY <2>0, <2>6 DEF CallsKnow, FilesFollow
  <2>3. SentFilesStay'
    BY <2>0, <2>6 DEF CallsKnow, SentFilesStay
  <2>4. RemovedFilesStay'
    BY <2>0, <2>6 DEF CallsKnow, RemovedFilesStay
  <2>5. QED
    BY <2>1, <2>2, <2>3, <2>4
<1>8. ASSUME NEW r \in Requests, F!SendFails(r)
      PROVE  (CallsKnow /\ FilesFollow /\ SentFilesStay /\ RemovedFilesStay)'
  <2>1. CallsKnow'
    BY <1>8 DEF F!SendFails, CallsKnow
  <2>2. FilesFollow'
    BY <1>8 DEF F!SendFails, CallsKnow, FilesFollow
  <2>3. SentFilesStay'
    BY <1>8 DEF F!SendFails, CallsKnow, SentFilesStay
  <2>4. RemovedFilesStay'
    BY <1>8 DEF F!SendFails, CallsKnow, RemovedFilesStay
  <2>5. QED
    BY <2>1, <2>2, <2>3, <2>4
<1>9. CASE UNCHANGED F!vars
  BY <1>9 DEF F!vars, CallsKnow, FilesFollow, SentFilesStay, RemovedFilesStay
<1>10. QED
  BY <1>1, <1>2, <1>3, <1>4, <1>5, <1>6, <1>7, <1>8, <1>9 DEF F!Next

LEMMA FilesMeaning == FilesInv => F!FilesAreTrue
  BY DEF FilesInv, F!FilesAreTrue, FilesFollow, SentFilesStay, RemovedFilesStay,
         F!FileFollowsMessage, F!RemovedStaysRemoved, F!SentWithItsFiles

\* A file is in the channel of its message, stays removed, and leaves the message
\* it was sent with only for another one of its uploader that names it, whatever
\* the two services do between their reads and writes (upload, remove,
\* attachFilesToMessage).
THEOREM FilesStayTrue == F!Spec => []F!FilesAreTrue
BY FilesInit, FilesStep, FilesMeaning, PTL DEF F!Spec

-------------------------------------------------------------------------------
(* Client session *)

\* The tokens that the browser knows were issued to it
TokensAreIssued ==
  /\ stored # S!NoSession => stored.token \in issued
  /\ \A t \in Tabs : held[t] # S!NoSession => held[t].token \in issued
  /\ \A k \in requests : k.do = "logout" => k.token \in issued

\* Whom a tab has seen since it was loaded: the account it names, the one whose
\* workspaces it holds, and those of the stored token and of its requests
AccountsHaveLived ==
  /\ \A t \in Tabs : IsFiniteSet(lived[t])
  /\ stored # S!NoSession => \A t \in Tabs : OwnerOf[stored.token] \in lived[t]
  /\ \A t \in Tabs : held[t] # S!NoSession => held[t].user \in lived[t]
  /\ \A t \in Tabs : account[t] # Nobody => account[t] \in lived[t]
  /\ \A k \in requests : k.do # "logout" /\ k.token \in Sessions
       => OwnerOf[k.token] \in lived[k.tab]

\* A save that is on its way is of the stored account, or was overtaken
SavesAreOwn ==
  \A k \in requests :
    /\ k.do = "save" /\ k.token \in Sessions /\ OwnerOf[k.token] = k.user
    /\ stored # S!NoSession
    => OwnerOf[stored.token] = k.user \/ k.user \in overtaken

SessionInv ==
  /\ S!TypeOK /\ TokensAreIssued /\ AccountsHaveLived /\ SavesAreOwn
  /\ S!LiveSessionIsStored /\ S!StoredIsWhole

LEMMA SessionConstants == S!SessionAssumption
  BY RecordsConstants DEF RecordsConstants

LEMMA SessionInit == S!Init => SessionInv
<1> SUFFICES ASSUME S!Init PROVE SessionInv
  OBVIOUS
<1> USE SessionConstants DEF S!SessionAssumption, S!Init
<1>1. S!TypeOK
  BY DEF S!TypeOK
<1>2. TokensAreIssued /\ SavesAreOwn
  BY DEF TokensAreIssued, SavesAreOwn
<1>3. AccountsHaveLived
  BY FS_EmptySet DEF AccountsHaveLived
<1>4. S!LiveSessionIsStored /\ S!StoredIsWhole
  BY DEF S!LiveSessionIsStored, S!StoredIsWhole, S!Live
<1>5. QED
  BY <1>1, <1>2, <1>3, <1>4 DEF SessionInv

LEMMA NobodyIsNoAccount ==
  /\ \A x \in S!Session : x # S!NoSession
  /\ \A s \in Sessions : OwnerOf[s] \in Accounts
  BY SessionConstants DEF S!SessionAssumption, S!Session, S!NoSession

LEMMA AccountsOfARecord ==
  ASSUME NEW record
  PROVE  IsFiniteSet(S!AccountsOf(record))
<1>1. IsFiniteSet({record.user}) /\ IsFiniteSet({})
  BY FS_Singleton, FS_EmptySet
<1>2. IsFiniteSet({record.user} \cup {OwnerOf[record.token]})
  BY <1>1, FS_AddElement
<1>3. {record.user} \cup {OwnerOf[record.token]} = {record.user, OwnerOf[record.token]}
  OBVIOUS
<1>4. QED
  BY <1>1, <1>2, <1>3 DEF S!AccountsOf

LEMMA SessionTyped == SessionInv /\ [S!Next]_(S!vars) => S!TypeOK'
<1> SUFFICES ASSUME SessionInv, [S!Next]_(S!vars) PROVE S!TypeOK'
  OBVIOUS
<1> USE SessionConstants, NobodyIsNoAccount
    DEF S!SessionAssumption, SessionInv, S!TypeOK, S!Session, S!NoSession, S!Call, S!Live,
        S!server, S!history, TokensAreIssued
<1>1. ASSUME NEW t \in Tabs, S!Load(t)
      PROVE  S!TypeOK'
  BY <1>1 DEF S!Load, S!Loaded, S!AccountsOf
<1>2. ASSUME NEW t \in Tabs, NEW do \in {"login", "read", "save", "logout"}, S!Begin(t, do)
      PROVE  S!TypeOK'
  BY <1>2 DEF S!Begin
<1>3. ASSUME NEW k \in requests, NEW s \in Sessions, S!SignedIn(k, s)
      PROVE  S!TypeOK'
  BY <1>3 DEF S!SignedIn, S!SignIn
<1>4. ASSUME NEW k \in requests, S!Read(k)
      PROVE  S!TypeOK'
  BY <1>4 DEF S!Read, S!Authorized
<1>5. ASSUME NEW k \in requests, S!Saved(k)
      PROVE  S!TypeOK'
  BY <1>5 DEF S!Saved, S!MaySave, S!Update
<1>6. ASSUME NEW k \in requests, S!Unauthorized(k)
      PROVE  S!TypeOK'
  BY <1>6 DEF S!Unauthorized, S!Removed, S!Loaded, S!Authorized, S!AccountsOf
<1>7. ASSUME NEW k \in requests, S!SignedOut(k)
      PROVE  S!TypeOK'
  BY <1>7 DEF S!SignedOut, S!Removed
<1>8. ASSUME NEW k \in requests, S!Fails(k)
      PROVE  S!TypeOK'
  BY <1>8 DEF S!Fails
<1>9. ASSUME NEW s \in Sessions, S!Expire(s)
      PROVE  S!TypeOK'
  BY <1>9 DEF S!Expire
<1>10. CASE UNCHANGED S!vars
  BY <1>10 DEF S!vars
<1>11. QED
  BY <1>1, <1>2, <1>3, <1>4, <1>5, <1>6, <1>7, <1>8, <1>9, <1>10 DEF S!Next

LEMMA SessionStep == SessionInv /\ [S!Next]_(S!vars) => SessionInv'
<1> SUFFICES ASSUME SessionInv, [S!Next]_(S!vars)
             PROVE  (TokensAreIssued /\ AccountsHaveLived /\ SavesAreOwn
                       /\ S!LiveSessionIsStored /\ S!StoredIsWhole)'
  BY SessionTyped DEF SessionInv
<1> USE SessionConstants, NobodyIsNoAccount
    DEF S!SessionAssumption, SessionInv, S!TypeOK, S!Session, S!NoSession, S!Call, S!Live,
        S!server, S!history
<1>1. ASSUME NEW t \in Tabs, S!Load(t)
      PROVE  (TokensAreIssued /\ AccountsHaveLived /\ SavesAreOwn
               /\ S!LiveSessionIsStored /\ S!StoredIsWhole)'
  <2>1. TokensAreIssued'
    BY <1>1 DEF S!Load, S!Loaded, S!AccountsOf, TokensAreIssued
  <2>0. \A tab \in Tabs : IsFiniteSet(lived'[tab])
    BY <1>1, AccountsOfARecord DEF S!Load, S!Loaded, AccountsHaveLived
  <2>2. AccountsHaveLived'
    BY <1>1, <2>0 DEF S!Load, S!Loaded, S!AccountsOf, AccountsHaveLived
  <2>3. SavesAreOwn'
    BY <1>1 DEF S!Load, S!Loaded, S!AccountsOf, SavesAreOwn
  <2>4. S!LiveSessionIsStored'
    BY <1>1 DEF S!Load, S!Loaded, S!AccountsOf, TokensAreIssued, S!LiveSessionIsStored
  <2>5. S!StoredIsWhole'
    BY <1>1 DEF S!Load, S!Loaded, S!AccountsOf, SavesAreOwn, S!StoredIsWhole
  <2>6. QED
    BY <2>1, <2>2, <2>3, <2>4, <2>5
<1>2. ASSUME NEW t \in Tabs, NEW do \in {"login", "read", "save", "logout"}, S!Begin(t, do)
      PROVE  (TokensAreIssued /\ AccountsHaveLived /\ SavesAreOwn
               /\ S!LiveSessionIsStored /\ S!StoredIsWhole)'
  <2>1. TokensAreIssued'
    BY <1>2 DEF S!Begin, TokensAreIssued
  <2>2. AccountsHaveLived'
    BY <1>2 DEF S!Begin, AccountsHaveLived
  <2>3. SavesAreOwn'
    BY <1>2 DEF S!Begin, SavesAreOwn
  <2>4. S!LiveSessionIsStored'
    BY <1>2 DEF S!Begin, TokensAreIssued, S!LiveSessionIsStored
  <2>5. S!StoredIsWhole'
    BY <1>2 DEF S!Begin, SavesAreOwn, S!StoredIsWhole
  <2>6. QED
    BY <2>1, <2>2, <2>3, <2>4, <2>5
<1>3. ASSUME NEW k \in requests, NEW s \in Sessions, S!SignedIn(k, s)
      PROVE  (TokensAreIssued /\ AccountsHaveLived /\ SavesAreOwn
               /\ S!LiveSessionIsStored /\ S!StoredIsWhole)'
  <2>1. TokensAreIssued'
    BY <1>3 DEF S!SignedIn, S!SignIn, TokensAreIssued
  <2>0. \A t \in Tabs : IsFiniteSet(lived'[t])
    BY <1>3, FS_AddElement DEF S!SignedIn, AccountsHaveLived
  <2>2. AccountsHaveLived'
    BY <1>3, <2>0 DEF S!SignedIn, S!SignIn, AccountsHaveLived
  <2>3. SavesAreOwn'
    BY <1>3 DEF S!SignedIn, S!SignIn, SavesAreOwn
  <2>4. S!LiveSessionIsStored'
    BY <1>3 DEF S!SignedIn, S!SignIn, TokensAreIssued, S!LiveSessionIsStored
  <2>5. S!StoredIsWhole'
    BY <1>3 DEF S!SignedIn, S!SignIn, SavesAreOwn, S!StoredIsWhole
  <2>6. QED
    BY <2>1, <2>2, <2>3, <2>4, <2>5
<1>4. ASSUME NEW k \in requests, S!Read(k)
      PROVE  (TokensAreIssued /\ AccountsHaveLived /\ SavesAreOwn
               /\ S!LiveSessionIsStored /\ S!StoredIsWhole)'
  <2>1. TokensAreIssued'
    BY <1>4 DEF S!Read, S!Authorized, TokensAreIssued
  <2>2. AccountsHaveLived'
    BY <1>4 DEF S!Read, S!Authorized, AccountsHaveLived
  <2>3. SavesAreOwn'
    BY <1>4 DEF S!Read, S!Authorized, SavesAreOwn
  <2>4. S!LiveSessionIsStored'
    BY <1>4 DEF S!Read, S!Authorized, TokensAreIssued, S!LiveSessionIsStored
  <2>5. S!StoredIsWhole'
    BY <1>4 DEF S!Read, S!Authorized, SavesAreOwn, S!StoredIsWhole
  <2>6. QED
    BY <2>1, <2>2, <2>3, <2>4, <2>5
<1>5. ASSUME NEW k \in requests, S!Saved(k)
      PROVE  (TokensAreIssued /\ AccountsHaveLived /\ SavesAreOwn
               /\ S!LiveSessionIsStored /\ S!StoredIsWhole)'
  <2>1. TokensAreIssued'
    BY <1>5 DEF S!Saved, S!MaySave, S!Update, TokensAreIssued
  <2>2. AccountsHaveLived'
    BY <1>5 DEF S!Saved, S!MaySave, S!Update, AccountsHaveLived
  <2>3. SavesAreOwn'
    BY <1>5 DEF S!Saved, S!MaySave, S!Update, SavesAreOwn
  <2>4. S!LiveSessionIsStored'
    BY <1>5 DEF S!Saved, S!MaySave, S!Update, TokensAreIssued, S!LiveSessionIsStored
  <2>5. S!StoredIsWhole'
    BY <1>5 DEF S!Saved, S!MaySave, S!Update, SavesAreOwn, S!StoredIsWhole
  <2>6. QED
    BY <2>1, <2>2, <2>3, <2>4, <2>5
<1>6. ASSUME NEW k \in requests, S!Unauthorized(k)
      PROVE  (TokensAreIssued /\ AccountsHaveLived /\ SavesAreOwn
               /\ S!LiveSessionIsStored /\ S!StoredIsWhole)'
  <2>1. TokensAreIssued'
    BY <1>6 DEF S!Unauthorized, S!Removed, S!Loaded, S!Authorized, S!AccountsOf, TokensAreIssued
  <2>0. \A tab \in Tabs : IsFiniteSet(lived'[tab])
    BY <1>6, AccountsOfARecord DEF S!Unauthorized, S!Removed, S!Loaded, S!Authorized, AccountsHaveLived
  <2>2. AccountsHaveLived'
    BY <1>6, <2>0 DEF S!Unauthorized, S!Removed, S!Loaded, S!Authorized, S!AccountsOf, AccountsHaveLived
  <2>3. SavesAreOwn'
    BY <1>6 DEF S!Unauthorized, S!Removed, S!Loaded, S!Authorized, S!AccountsOf, SavesAreOwn
  <2>4. S!LiveSessionIsStored'
    BY <1>6 DEF S!Unauthorized, S!Removed, S!Loaded, S!Authorized, S!AccountsOf, TokensAreIssued,
                S!LiveSessionIsStored
  <2>5. S!StoredIsWhole'
    BY <1>6 DEF S!Unauthorized, S!Removed, S!Loaded, S!Authorized, S!AccountsOf, SavesAreOwn,
                S!StoredIsWhole
  <2>6. QED
    BY <2>1, <2>2, <2>3, <2>4, <2>5
<1>7. ASSUME NEW k \in requests, S!SignedOut(k)
      PROVE  (TokensAreIssued /\ AccountsHaveLived /\ SavesAreOwn
               /\ S!LiveSessionIsStored /\ S!StoredIsWhole)'
  <2>1. TokensAreIssued'
    BY <1>7 DEF S!SignedOut, S!Removed, TokensAreIssued
  <2>2. AccountsHaveLived'
    BY <1>7 DEF S!SignedOut, S!Removed, AccountsHaveLived
  <2>3. SavesAreOwn'
    BY <1>7 DEF S!SignedOut, S!Removed, SavesAreOwn
  <2>4. S!LiveSessionIsStored'
    BY <1>7 DEF S!SignedOut, S!Removed, TokensAreIssued, S!LiveSessionIsStored
  <2>5. S!StoredIsWhole'
    BY <1>7 DEF S!SignedOut, S!Removed, SavesAreOwn, S!StoredIsWhole
  <2>6. QED
    BY <2>1, <2>2, <2>3, <2>4, <2>5
<1>8. ASSUME NEW k \in requests, S!Fails(k)
      PROVE  (TokensAreIssued /\ AccountsHaveLived /\ SavesAreOwn
               /\ S!LiveSessionIsStored /\ S!StoredIsWhole)'
  <2>1. TokensAreIssued'
    BY <1>8 DEF S!Fails, TokensAreIssued
  <2>2. AccountsHaveLived'
    BY <1>8 DEF S!Fails, AccountsHaveLived
  <2>3. SavesAreOwn'
    BY <1>8 DEF S!Fails, SavesAreOwn
  <2>4. S!LiveSessionIsStored'
    BY <1>8 DEF S!Fails, TokensAreIssued, S!LiveSessionIsStored
  <2>5. S!StoredIsWhole'
    BY <1>8 DEF S!Fails, SavesAreOwn, S!StoredIsWhole
  <2>6. QED
    BY <2>1, <2>2, <2>3, <2>4, <2>5
<1>9. ASSUME NEW s \in Sessions, S!Expire(s)
      PROVE  (TokensAreIssued /\ AccountsHaveLived /\ SavesAreOwn
               /\ S!LiveSessionIsStored /\ S!StoredIsWhole)'
  <2>1. TokensAreIssued'
    BY <1>9 DEF S!Expire, TokensAreIssued
  <2>2. AccountsHaveLived'
    BY <1>9 DEF S!Expire, AccountsHaveLived
  <2>3. SavesAreOwn'
    BY <1>9 DEF S!Expire, SavesAreOwn
  <2>4. S!LiveSessionIsStored'
    BY <1>9 DEF S!Expire, TokensAreIssued, S!LiveSessionIsStored
  <2>5. S!StoredIsWhole'
    BY <1>9 DEF S!Expire, SavesAreOwn, S!StoredIsWhole
  <2>6. QED
    BY <2>1, <2>2, <2>3, <2>4, <2>5
<1>10. CASE UNCHANGED S!vars
  BY <1>10 DEF S!vars, TokensAreIssued, AccountsHaveLived, SavesAreOwn, S!LiveSessionIsStored,
               S!StoredIsWhole
<1>11. QED
  BY <1>1, <1>2, <1>3, <1>4, <1>5, <1>6, <1>7, <1>8, <1>9, <1>10 DEF S!Next

LEMMA SessionCounts == \A set : S!Cardinality(set) = Cardinality(set)
  BY DEF S!Cardinality, Cardinality

LEMMA SessionMeaning == SessionInv => S!SessionsAreTrue
<1> SUFFICES ASSUME SessionInv PROVE S!ShownIsOwn
  BY DEF SessionInv, S!SessionsAreTrue
<1> SUFFICES ASSUME NEW t \in Tabs, held[t] # S!NoSession, account[t] \notin {Nobody, held[t].user}
             PROVE  Cardinality(lived[t]) > 1
  BY SessionCounts DEF S!ShownIsOwn
<1>1. IsFiniteSet(lived[t]) /\ {account[t], held[t].user} \subseteq lived[t]
  BY DEF SessionInv, AccountsHaveLived
<1>2. Cardinality({account[t], held[t].user}) = 2
  <2>1. IsFiniteSet({held[t].user}) /\ Cardinality({held[t].user}) = 1
    BY FS_Singleton
  <2>2. {account[t], held[t].user} = {held[t].user} \cup {account[t]}
    OBVIOUS
  <2>3. account[t] \notin {held[t].user}
    OBVIOUS
  <2>4. Cardinality({held[t].user} \cup {account[t]}) = Cardinality({held[t].user}) + 1
    BY <2>1, <2>3, FS_AddElement
  <2>5. QED
    BY <2>1, <2>2, <2>4
<1>3. Cardinality({account[t], held[t].user}) <= Cardinality(lived[t])
  BY <1>1, FS_Subset
<1>4. QED
  BY <1>1, <1>2, <1>3, FS_CardinalityType

\* The stored session is one of the service and whole, and a tab that shows
\* another account than the one it names has seen both (auth-provider.tsx,
\* api-client.ts).
THEOREM SessionsStayTrue == S!Spec => []S!SessionsAreTrue
BY SessionInit, SessionStep, SessionMeaning, PTL DEF S!Spec

-------------------------------------------------------------------------------
(* The composition *)

\* A step of the composition is a step of one part and leaves the others alone
LEMMA PartsStep ==
  ASSUME [RecordsNext]_<<part, vars, pvars, svars, vvars, fvars, mvars>>
  PROVE  /\ [Next]_vars /\ [P!Next]_(P!vars) /\ [S!Next]_(S!vars)
         /\ [V!Next]_(V!vars) /\ [F!Next]_(F!vars) /\ [M!Next]_(M!vars)
<1>1. /\ UNCHANGED pvars => UNCHANGED P!vars
      /\ UNCHANGED svars => UNCHANGED S!vars
      /\ UNCHANGED vvars => UNCHANGED V!vars
      /\ UNCHANGED fvars => UNCHANGED F!vars
      /\ UNCHANGED mvars => UNCHANGED M!vars
  BY DEF pvars, P!vars, P!data, P!walk, svars, S!vars, S!server, S!history, vvars, V!vars,
         fvars, F!vars, mvars, M!vars, M!rows
<1>2. QED
  BY <1>1 DEF RecordsNext

\* What a user has of his own is kept by six parts that do not know of each
\* other: a behaviour of the composition is one of each part.
THEOREM RecordsAreTheirParts ==
  RecordsSpec => Spec /\ P!Spec /\ S!Spec /\ V!Spec /\ F!Spec /\ M!Spec
<1>1. RecordsInit => Init /\ P!Init /\ S!Init /\ V!Init /\ F!Init /\ M!Init
  BY DEF RecordsInit
<1>2. QED
  BY <1>1, PartsStep, PTL DEF RecordsSpec, Spec, P!Spec, S!Spec, V!Spec, F!Spec, M!Spec

\* The state of each part keeps its types.
THEOREM RecordsTypeCorrect == RecordsSpec => []RecordsTypeOK
<1>1. P!Spec => []P!TypeOK
  BY PagesInit, PagesStep, PagesStutter, PagesMeaning, PTL DEF P!Spec
<1>2. S!Spec => []S!TypeOK
  <2>1. SessionInv => S!TypeOK
    BY DEF SessionInv
  <2>2. QED
    BY <2>1, SessionInit, SessionStep, PTL DEF S!Spec
<1>3. V!Spec => []V!TypeOK
  <2>1. LinksInv => V!TypeOK
    BY DEF LinksInv
  <2>2. QED
    BY <2>1, LinksInit, LinksStep, PTL DEF V!Spec
<1>4. F!Spec => []F!TypeOK
  <2>1. FilesInv => F!TypeOK
    BY DEF FilesInv
  <2>2. QED
    BY <2>1, FilesInit, FilesStep, PTL DEF F!Spec
<1>5. M!Spec => []M!TypeOK
  BY MarksInit, MarksStep, MarksStutter, MarksMeaning, PTL DEF M!Spec
<1>6. TypeOK /\ P!TypeOK /\ S!TypeOK /\ V!TypeOK /\ F!TypeOK /\ M!TypeOK => RecordsTypeOK
  BY DEF RecordsTypeOK
<1>7. QED
  BY <1>1, <1>2, <1>3, <1>4, <1>5, <1>6, RecordsAreTheirParts, TypeCorrect, PTL

\* Beside the other parts too, a caller who follows the cursors to the end misses
\* one row for each cursor row that left the filter, and in a list that is
\* ordered by its dates alone what lies after such a row (listScheduledMessages,
\* searchMessages).
THEOREM WalksStayComplete == RecordsSpec => []WalksAreComplete
<1>1. P!WalksAreComplete => WalksAreComplete
  BY DEF WalksAreComplete
<1>2. QED
  BY <1>1, RecordsAreTheirParts, PagesStayComplete, PTL

\* The session a browser stores, the account its tabs show and the links that
\* verify an address are true to the account (auth-provider.tsx, verifyEmail).
THEOREM AccountStaysTrue == RecordsSpec => []AccountIsTrue
<1>1. S!SessionsAreTrue /\ V!LinksAreTrue => AccountIsTrue
  BY DEF AccountIsTrue
<1>2. QED
  BY <1>1, RecordsAreTheirParts, SessionsStayTrue, LinksStayTrue, PTL

\* The marks a page shows at rest are those that are stored, unless it was not told
\* or was told before its first fetch was answered; and a file is at a message of
\* its uploader that was sent with it (toggleBookmark, attachFilesToMessage).
THEOREM MarksAndFilesStayTrue == RecordsSpec => []MarksAndFilesAreTrue
<1>1. M!MarksAreTrue /\ F!FilesAreTrue => MarksAndFilesAreTrue
  BY DEF MarksAndFilesAreTrue
<1>2. QED
  BY <1>1, RecordsAreTheirParts, MarksStayTrue, FilesStayTrue, PTL
===============================================================================
