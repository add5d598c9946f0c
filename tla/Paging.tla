------------------------------- MODULE Paging -------------------------------
(***************************************************************************)
(* The paged lists of the services. All of them are one Prisma query with  *)
(* a filter, an order, `take`, and `cursor: {id}, skip: 1` when the caller *)
(* passes the id that ended his last page. When the order has a column of  *)
(* its own unique index Prisma compares it with what the cursor row has,   *)
(* and skips the first row that is left, whichever it is; otherwise it     *)
(* reads the rows that match and looks for the cursor row among them. A    *)
(* caller walks one list to its end while others change the rows. A row is *)
(* a number: its position among the insertions. A page is the set of its   *)
(* rows: their order is that of the list. Rows of one millisecond keep     *)
(* their order from one query to the next.                                 *)
(***************************************************************************)
EXTENDS Integers, FiniteSets

CONSTANTS
  InitialRows,
  MaxRows,     \* rows that are ever inserted
  MaxLimit,    \* the largest page: 100 or 200
  MaxChanges,  \* changes of rows, the insertions included
  NoCursor

PagingAssumption ==
  /\ InitialRows \in Nat /\ MaxRows \in Nat /\ InitialRows <= MaxRows
  /\ MaxLimit \in Nat \ {0} /\ MaxChanges \in Nat /\ NoCursor \notin 1..MaxRows

VARIABLES
  kind,     \* the list that is walked
  place,    \* row -> its rank in the list's order, that of rows the filter rejects
            \* included; 0: no such row
  matches,  \* the rows that pass the filter
  rows,     \* how many were inserted
  changes,
  limit,    \* what the caller asks for
  cursor,   \* the id he passes next
  pages,    \* how many he has
  seen,     \* their rows, with the numbers of the pages
  phase,    \* "new", "walking", "done"
  \* history
  steady,   \* rows that were in the list from the first page on and never moved
  moved,    \* rows that were moved or removed
  skipped,  \* pages that dropped a row in place of a cursor row that no longer matches
  cut,      \* the last page was empty, for the cursor row was not among those that match
  broken    \* a page was asked for after a row that was removed or moved

data == <<place, matches, rows>>
walk == <<cursor, pages, seen, phase, skipped, cut, broken>>
vars == <<kind, data, changes, limit, walk, steady, moved>>

Rows   == 1..MaxRows
Stored == {r \in Rows : place[r] > 0}

(* The lists: where a new row goes, what happens to the others, and what the  *)
(* next page starts from: the cursor row, or the place of its keys.           *)

ListMessages      == [new |-> "end",      may |-> {},                  from |-> "row"]
ListBookmarks     == [new |-> "front",    may |-> {"touch", "remove"}, from |-> "place"]
ListScheduled     == [new |-> "anywhere", may |-> {"hide", "show"},    from |-> "place"]
ListNotifications == [new |-> "front",    may |-> {},                  from |-> "row"]
ListUsers         == [new |-> "anywhere", may |-> {"hide", "show"},    from |-> "place"]
ListChannels      == [new |-> "anywhere", may |-> {"hide", "show"},    from |-> "place"]
ListWorkspaces    == [new |-> "anywhere", may |-> {"hide", "show"},    from |-> "place"]
SearchMessages    == [new |-> "front",    may |-> {"hide", "show"},    from |-> "row"]
SearchChannels    == [new |-> "front",    may |-> {"hide", "show"},    from |-> "row"]
SearchUsers       == [new |-> "anywhere", may |-> {"hide", "show"},    from |-> "place"]
SearchFiles       == [new |-> "front",    may |-> {"hide"},            from |-> "row"]

Lists == {ListMessages, ListBookmarks, ListScheduled, ListNotifications, ListUsers,
          ListChannels, ListWorkspaces, SearchMessages, SearchChannels, SearchUsers, SearchFiles}

Init ==
  /\ kind \in Lists
  /\ rows = InitialRows /\ matches = 1..rows
  /\ place = [r \in Rows |-> IF r <= InitialRows THEN r ELSE 0]
  /\ changes = 0 /\ limit \in 0..(MaxLimit + 1)
  /\ cursor = NoCursor /\ pages = 0 /\ seen = {} /\ phase = "new"
  /\ steady = {} /\ moved = {} /\ skipped = 0 /\ cut = FALSE /\ broken = FALSE

UpTo(set, r) == {s \in set : place[s] <= place[r]}
Last(set)    == CHOOSE r \in set : \A s \in set : place[s] <= place[r]

-------------------------------------------------------------------------------
(* Plausible mistakes: not part of the system. *)

\* a full page is taken for the last one
NextCursorEager(page, take) == IF Cardinality(page) <= take THEN NoCursor ELSE Last(page)

\* the rows are counted from the start: OFFSET in place of a cursor
RestOffset(id) == {r \in matches : Cardinality(UpTo(matches, r)) > Cardinality(seen)}

\* the cursor row is not skipped
RestWithCursor(id) ==
  IF id = NoCursor THEN matches
  ELSE {r \in matches : place[id] > 0 /\ place[r] >= place[id]}

\* the filter is applied to the rows that were taken
PageFilteredLate(id, take) ==
  LET left == {r \in Stored : id = NoCursor \/ place[r] > place[id]}
  IN {r \in left \cap matches : Cardinality(UpTo(left, r)) <= take}

-------------------------------------------------------------------------------
(* A page *)

\* normalizeLimit
Bounded(n) == IF n < 1 THEN 1 ELSE IF n < MaxLimit THEN n ELSE MaxLimit

\* the rows from the place of the cursor row on: none if it is gone, or if it
\* has to be among them and no longer matches
From(id) ==
  {r \in matches : /\ place[id] > 0 /\ place[r] >= place[id]
                   /\ kind.from = "place" \/ id \in matches}

\* skip: 1 drops the first of them
Rest(id) ==
  IF id = NoCursor THEN matches
  ELSE LET left == From(id) IN {r \in left : \E s \in left : place[s] < place[r]}

Page(id, take) == LET left == Rest(id) IN {r \in left : Cardinality(UpTo(left, r)) <= take}

\* nextCursor: a short page is the last one
NextCursor(page, take) == IF Cardinality(page) < take THEN NoCursor ELSE Last(page)

Walk ==
  /\ phase # "done"
  /\ LET take == Bounded(limit)  page == Page(cursor, take) IN
       /\ pages' = pages + 1
       /\ seen' = seen \cup {[row |-> r, page |-> pages'] : r \in page}
       /\ cursor' = NextCursor(page, take)
       /\ phase' = IF cursor' = NoCursor THEN "done" ELSE "walking"
  /\ steady' = IF phase = "new" THEN matches ELSE steady
  /\ LET left == cursor \in Rows \ (matches \cup moved) IN
       /\ skipped' = IF left /\ kind.from = "place" THEN skipped + 1 ELSE skipped
       /\ cut' = (left /\ kind.from = "row")
  /\ broken' = (broken \/ cursor \in moved)
  /\ UNCHANGED <<kind, data, changes, limit, moved>>

-------------------------------------------------------------------------------
(* Other callers *)

Change ==
  /\ phase = "walking" /\ changes < MaxChanges /\ changes' = changes + 1
  /\ UNCHANGED <<kind, limit, walk>>

\* the new row is the i-th
Inserted(i) ==
  [r \in Rows |-> IF r = rows + 1 THEN i ELSE IF place[r] >= i THEN place[r] + 1 ELSE place[r]]

Add ==
  /\ Change /\ rows < MaxRows /\ rows' = rows + 1
  /\ \E i \in 1..(Cardinality(Stored) + 1) :
       /\ kind.new = "front" => i = 1
       /\ kind.new = "end" => i = Cardinality(Stored) + 1
       /\ place' = Inserted(i)
  /\ matches' = matches \cup {rows'}
  /\ UNCHANGED <<steady, moved>>

\* deleted, archived, edited, sent, a member no longer
Hide(r) ==
  /\ Change /\ "hide" \in kind.may /\ r \in matches
  /\ matches' = matches \ {r} /\ steady' = steady \ {r}
  /\ UNCHANGED <<place, rows, moved>>

Show(r) ==
  /\ Change /\ "show" \in kind.may /\ r \in Stored \ matches
  /\ matches' = matches \cup {r}
  /\ UNCHANGED <<place, rows, steady, moved>>

\* a bookmark that is made again moves to the front
Touch(r) ==
  /\ Change /\ "touch" \in kind.may /\ r \in Stored
  /\ place' = [s \in Rows |-> IF s = r THEN 1
                              ELSE IF place[s] \in 1..place[r] THEN place[s] + 1 ELSE place[s]]
  /\ steady' = steady \ {r} /\ moved' = moved \cup {r}
  /\ UNCHANGED <<matches, rows>>

RemoveRow(r) ==
  /\ Change /\ "remove" \in kind.may /\ r \in Stored
  /\ place' = [s \in Rows |-> IF s = r THEN 0
                              ELSE IF place[s] > place[r] THEN place[s] - 1 ELSE place[s]]
  /\ matches' = matches \ {r}
  /\ steady' = steady \ {r} /\ moved' = moved \cup {r}
  /\ UNCHANGED rows

-------------------------------------------------------------------------------
Next ==
  \/ Walk \/ Add
  \/ \E r \in Rows : Hide(r) \/ Show(r) \/ Touch(r) \/ RemoveRow(r)

Spec == Init /\ [][Next]_vars

-------------------------------------------------------------------------------
TypeOK ==
  /\ kind \in Lists /\ rows \in 0..MaxRows
  /\ place \in [Rows -> 0..rows] /\ Stored \subseteq 1..rows /\ matches \subseteq Stored
  /\ \A r, s \in Stored : place[r] = place[s] => r = s
  /\ cursor \in Rows \cup {NoCursor} /\ phase \in {"new", "walking", "done"}
  /\ pages \in Nat /\ seen \subseteq [row : Rows, page : 1..pages]
  /\ changes \in 0..MaxChanges /\ limit \in 0..(MaxLimit + 1)
  /\ steady \subseteq matches /\ moved \subseteq Rows /\ skipped \in Nat
  /\ cut \in BOOLEAN /\ broken \in BOOLEAN

\* A caller who has followed the cursors to the end has seen every row that was
\* in the list all the time, but for one row for each cursor row that had left
\* the filter meanwhile (USR 80-90, MS 720-730). A list that is ordered by its
\* dates alone (SE 132-140) ends at such a cursor row, and what is missed then
\* lies after all that was seen. A cursor row that was removed or moved ends the
\* walk early or starts it over (MS 502-513)
SeenRows == {x.row : x \in seen}

Passed(r) == \E s \in SeenRows \ moved : place[r] <= place[s]

Missed == {r \in steady \ SeenRows : cut => Passed(r)}

NothingIsMissed == phase = "done" /\ ~broken => Cardinality(Missed) <= skipped

\* and he has seen those rows once, in their order
SeenInOrder ==
  ~broken => \A x, y \in seen :
    x.page < y.page /\ {x.row, y.row} \subseteq steady => place[x.row] < place[y.row]

WalksAreComplete == NothingIsMissed /\ SeenInOrder
=============================================================================
