-------------------------------- MODULE Listing --------------------------------
(***************************************************************************)
(* The lists that are read a page at a time, by keyset: the items of an    *)
(* organization, those an agent was granted, the agents, the permissions   *)
(* and the audit log; the clients that walk all the pages; and `abadge     *)
(* import`, which walks the items and then creates what it did not find.   *)
(*                                                                         *)
(* A page is one statement and sees what is committed.  A row gets its     *)
(* created_at (and an audit row its serial number) when its transaction    *)
(* writes it and is seen when that commits, so rows may appear behind a    *)
(* cursor that has passed them.                                            *)
(***************************************************************************)
EXTENDS Naturals, Sequences, FiniteSets, SequencesExt

CONSTANTS
  MaxRow,     \* rows are numbered by their id: a random one, or a serial number
  ZkRows,     \* of these, the items that are zero-knowledge
  Labels,
  Files,      \* what an import may be given: sequences of labels
  Walkers,
  Limit,      \* the page size that is asked for
  MaxPages,   \* MAX_DRAIN_PAGES
  MaxTime, MaxVersion   \* bound created_at and contentVersion

Rows == 1..MaxRow

ListingConstants ==
  /\ {MaxRow, Limit, MaxPages, MaxTime, MaxVersion} \subseteq Nat \ {0}
  /\ Files \subseteq Seq(Labels) /\ ZkRows \subseteq Rows

VARIABLES
  list,     \* which list is walked
  now,      \* the clock that created_at is taken from
  row,      \* the rows: [state, at, label, version]
  granted,  \* the items the agent has a permission for; the audit rows a role shows
  task,     \* "read" or "import"
  stage,
  cursor,   \* the last row of the page before: none, or <<at, id>>
  listed,   \* what a walker has got so far, as the server sent it
  pages,    \* how many pages that was
  todo,     \* the entries an import has still to do
  overwrite,\* --overwrite
  there,    \* history: rows to be seen since the walk began
  ever      \* history: rows to be seen at some time since

server == <<list, now, row, granted>>
client == <<task, stage, cursor, listed, pages, todo, overwrite>>
vars == <<server, client, there, ever>>

Lists == {"items", "agentItems", "audit"}
Row == [state : {"none", "begun", "active", "deleted"}, at : 0..MaxTime, label : Labels,
        version : 0..MaxVersion]
Entry == [id : Rows, label : Labels, version : 0..MaxVersion]
Stages == {"idle", "walking", "working", "done", "failed"}

TypeOK ==
  /\ list \in Lists /\ now \in 0..MaxTime
  /\ row \in [Rows -> Row] /\ granted \subseteq Rows
  /\ task \in [Walkers -> {"read", "import"}] /\ stage \in [Walkers -> Stages]
  /\ cursor \in [Walkers -> Seq(Nat)] /\ \A w \in Walkers : Len(cursor[w]) \in {0, 2}
  /\ listed \in [Walkers -> Seq(Entry)]
  /\ pages \in [Walkers -> 0..MaxPages]
  /\ todo \in [Walkers -> Seq(Labels)] /\ overwrite \in [Walkers -> BOOLEAN]
  /\ {there[w] : w \in Walkers} \cup {ever[w] : w \in Walkers} \subseteq SUBSET Rows

AnyLabel == CHOOSE l \in Labels : TRUE

Init ==
  /\ list \in Lists
  /\ now = 0
  /\ row = [i \in Rows |-> [state |-> "none", at |-> 0, label |-> AnyLabel, version |-> 0]]
  /\ granted \in SUBSET Rows
  /\ list = "items" => granted = Rows
  /\ task \in [Walkers -> IF list = "items" THEN {"read", "import"} ELSE {"read"}]
  /\ stage = [w \in Walkers |-> "idle"]
  /\ cursor = [w \in Walkers |-> <<>>]
  /\ listed = [w \in Walkers |-> <<>>]
  /\ pages = [w \in Walkers |-> 0]
  /\ todo = [w \in Walkers |-> <<>>]
  /\ overwrite \in [Walkers -> BOOLEAN]
  /\ \A w \in Walkers : overwrite[w] => task[w] = "import"
  /\ there = [w \in Walkers |-> {}]
  /\ ever = [w \in Walkers |-> {}]

Goto(w, s) == stage' = [stage EXCEPT ![w] = s]

\* What the WHERE clause of the list lets through, without the cursor.
Seen(rows, shown) == {i \in Rows : rows[i].state = "active" /\ i \in shown}
Visible == Seen(row, granted)

\* What changes on the server changes what the walks under way might see.
Watch ==
  LET seen == Seen(row', granted') IN
  /\ there' = [w \in Walkers |-> IF stage[w] = "walking" THEN there[w] \cap seen ELSE there[w]]
  /\ ever' = [w \in Walkers |-> IF stage[w] = "walking" THEN ever[w] \cup seen ELSE ever[w]]

-----------------------------------------------------------------------------
\* The server.

\* The rows' order: (created_at, id), or the serial number of an audit row.
Key(i) == IF list = "audit" THEN <<0, i>> ELSE <<row[i].at, i>>

Less(k, l) == k[1] < l[1] \/ (k[1] = l[1] /\ k[2] < l[2])

\* Mutant: the id does not break ties.
BehindInTime(k, c) == c = <<>> \/ k[1] < c[1]
\* cursorCondition: strictly behind the cursor in the descending order.
Behind(k, c) == c = <<>> \/ Less(k, c)

\* ORDER BY ... DESC LIMIT: the first rows behind the cursor, the last of them last.
Page(c) ==
  LET rest == {i \in Visible : Behind(Key(i), c)}
      first == {i \in rest : Cardinality({j \in rest : Less(Key(i), Key(j))}) < Limit}
  IN SetToSortSeq(first, LAMBDA i, j : Less(Key(j), Key(i)))

\* nextCursorFrom: none when the page is not full.
NextCursor(page) == IF Len(page) < Limit THEN <<>> ELSE Key(page[Len(page)])

\* Only an import looks at labels and versions: without one, all rows share them.
Importing == \E w \in Walkers : task[w] = "import"

\* A transaction writes a row; an audit row takes the next serial number.
Fresh(i) ==
  /\ row[i].state = "none"
  /\ list = "audit" => \A j \in 1..(i - 1) : row[j].state # "none"

Begin(i) ==
  /\ Fresh(i)
  /\ \E l \in IF Importing THEN Labels ELSE {AnyLabel} :
       row' = [row EXCEPT ![i] = [state |-> "begun", at |-> now, label |-> l, version |-> 0]]
  /\ UNCHANGED <<list, now, granted, client, there, ever>>

Commit(i) ==
  /\ row[i].state = "begun"
  /\ row' = [row EXCEPT ![i].state = "active"]
  /\ UNCHANGED <<list, now, granted, client>>
  /\ Watch

Tick ==
  /\ now < MaxTime
  /\ now' = now + 1
  /\ UNCHANGED <<list, row, granted, client, there, ever>>

\* items.delete: a soft delete.
Delete(i) ==
  /\ list # "audit" /\ row[i].state = "active"
  /\ row' = [row EXCEPT ![i].state = "deleted"]
  /\ UNCHANGED <<list, now, granted, client>>
  /\ Watch

\* items.update by someone else: another version, maybe another label.
Edit(i, l) ==
  /\ Importing /\ row[i].state = "active" /\ row[i].version < MaxVersion
  /\ row' = [row EXCEPT ![i].version = @ + 1, ![i].label = l]
  /\ UNCHANGED <<list, now, granted, client, there, ever>>

\* A permission is given or revoked; a role changes between two pages.
Regrant(i) ==
  /\ list # "items"
  /\ granted' = IF i \in granted THEN granted \ {i} ELSE granted \cup {i}
  /\ UNCHANGED <<list, now, row, client>>
  /\ Watch

-----------------------------------------------------------------------------
\* The clients.

Start(w) ==
  /\ stage[w] = "idle"
  /\ \E f \in IF task[w] = "import" THEN Files ELSE {<<>>} : todo' = [todo EXCEPT ![w] = f]
  /\ Goto(w, "walking")
  /\ there' = [there EXCEPT ![w] = Visible]
  /\ ever' = [ever EXCEPT ![w] = Visible]
  /\ UNCHANGED <<server, task, cursor, listed, pages, overwrite>>

\* drainPages: the walk ends at the page that has no next cursor.
Drained(w, next) == next = <<>>

Sent(i) == [id |-> i, label |-> row[i].label, version |-> row[i].version]

FetchPage(w) ==
  /\ stage[w] = "walking" /\ pages[w] < MaxPages
  /\ LET page == Page(cursor[w])
         next == NextCursor(page)
     IN /\ listed' = [listed EXCEPT ![w] = @ \o [n \in 1..Len(page) |-> Sent(page[n])]]
        /\ cursor' = [cursor EXCEPT ![w] = next]
        /\ Goto(w, IF Drained(w, next) THEN "working" ELSE "walking")
  /\ pages' = [pages EXCEPT ![w] = @ + 1]
  /\ UNCHANGED <<server, task, todo, overwrite, there, ever>>

\* PAGINATION_RUNAWAY: the pages do not end, and nothing is returned.
Runaway(w) == stage[w] = "walking" /\ pages[w] = MaxPages
FetchFails(w) == stage[w] = "walking" /\ pages[w] < MaxPages

WalkThrows(w) ==
  /\ Runaway(w) \/ FetchFails(w)
  /\ Goto(w, "failed")
  /\ UNCHANGED <<server, task, cursor, listed, pages, todo, overwrite, there, ever>>

\* existingByLabel: of two with one label the map keeps the later, the older item.
Existing(w, l) == {n \in 1..Len(listed[w]) : listed[w][n].label = l}
Mapped(w, l) == listed[w][CHOOSE n \in Existing(w, l) : \A k \in Existing(w, l) : k <= n]

NextEntry(w) == todo' = [todo EXCEPT ![w] = Tail(@)]

\* importEntry, under a label that was not listed: items.create.
ImportCreates(w) ==
  /\ stage[w] = "working" /\ todo[w] # <<>>
  /\ Existing(w, Head(todo[w])) = {}
  /\ \E i \in Rows :
       /\ Fresh(i) /\ i \notin ZkRows
       /\ row' = [row EXCEPT ![i] = [state |-> "active", at |-> now, label |-> Head(todo[w]),
                                     version |-> 0]]
  /\ NextEntry(w)
  /\ UNCHANGED <<list, now, granted, task, stage, cursor, listed, pages, overwrite>>
  /\ Watch

\* Under one that was, with --overwrite: items.update at the version listed.
ImportOverwrites(w) ==
  /\ stage[w] = "working" /\ todo[w] # <<>>
  /\ overwrite[w] /\ Existing(w, Head(todo[w])) # {}
  /\ LET e == Mapped(w, Head(todo[w])) IN
     /\ e.id \notin ZkRows
     /\ row[e.id].state = "active" /\ row[e.id].version = e.version
     /\ e.version < MaxVersion
     /\ row' = [row EXCEPT ![e.id].version = @ + 1, ![e.id].label = Head(todo[w])]
  /\ NextEntry(w)
  /\ UNCHANGED <<list, now, granted, task, stage, cursor, listed, pages, overwrite>>
  /\ Watch

\* Skipped, refused because it is zero-knowledge, or failed: the import goes on.
ImportLeaves(w) ==
  /\ stage[w] = "working" /\ todo[w] # <<>>
  /\ NextEntry(w)
  /\ UNCHANGED <<server, task, stage, cursor, listed, pages, overwrite, there, ever>>

\* The task is done; or the program is stopped halfway.
Finish(w) ==
  /\ stage[w] = "working"
  /\ Goto(w, IF todo[w] = <<>> THEN "done" ELSE "failed")
  /\ UNCHANGED <<server, task, cursor, listed, pages, todo, overwrite, there, ever>>

-----------------------------------------------------------------------------
Walk(w) ==
  \/ Start(w) \/ FetchPage(w) \/ WalkThrows(w)
  \/ ImportCreates(w) \/ ImportOverwrites(w) \/ ImportLeaves(w) \/ Finish(w)

Next ==
  \/ \E w \in Walkers : Walk(w)
  \/ \E i \in Rows : Begin(i) \/ Commit(i) \/ Delete(i) \/ Regrant(i)
  \/ \E i \in Rows, l \in Labels : Edit(i, l)
  \/ Tick

Spec == Init /\ [][Next]_vars

-----------------------------------------------------------------------------
Got(w) == {listed[w][n].id : n \in 1..Len(listed[w])}

\* "Stable, non-overlapping": a walk that returned has every row that was to be seen
\* all along exactly once, and none that never was, whatever rows were inserted,
\* committed late, deleted or hidden between two pages.
WalkComplete ==
  \A w \in Walkers : stage[w] \in {"working", "done"} =>
    /\ there[w] \subseteq Got(w)
    /\ Got(w) \subseteq ever[w]
    /\ Len(listed[w]) = Cardinality(Got(w))

\* An import never adds an item beside one of the same label that was there, under
\* that label and in sight, from the start of its listing on and is untouched.
AddsMissing ==
  \A w \in Walkers : ImportCreates(w) =>
    ~\E i \in there[w] : row[i].state = "active" /\ row[i].version = 0
                         /\ row[i].label = Head(todo[w])
ImportAddsOnlyMissing == [][AddsMissing]_vars
=============================================================================
