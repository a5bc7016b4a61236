------------------------------- MODULE Edits -------------------------------
(***************************************************************************)
(* The pending edits of a browser (app/tui/browser: loading.rs,            *)
(* editing/*, filters.rs, links.rs, query.rs): the rows a user marks for   *)
(* deletion, the values they change and the rows they add stay in tql      *)
(* until :w writes them, statement by statement, to the table that is      *)
(* selected then.  Meanwhile the user moves through the sidebar, whose     *)
(* tables are loaded only when tql is idle, filters, follows links, runs   *)
(* queries and reloads; and other clients change the database.             *)
(*                                                                         *)
(* A row is the value of its key column, a number, and 0 stands for none.  *)
(* Where a table has no key the whole row identifies it.  Each change has a number, so  *)
(* that what becomes of it can be followed.  The sidebar lists the tables  *)
(* that match what is typed into its filter, and table_index is a place in *)
(* that list.  table_index and row_index count from 0, as in the code.     *)
(***************************************************************************)
EXTENDS Integers, Sequences, FiniteSets, SequencesExt

CONSTANTS
  Tables,        \* names of tables
  Order,         \* the order the database lists them in
  Keyed,         \* those with a single-column primary key
  Keys,          \* values of the key column
  Present,       \* those of the rows each table has at first
  Matching,      \* the keys of the rows a filter lets through
  MaxChanges,    \* bound on the changes the user makes
  MatchesRows,   \* whether the driver finds a row by all its values
  ReadOnly,      \* what the connection's read-only mark may be
  MayFilter,     \* whether the user filters the sidebar
  KeyEdits,      \* whether the user edits the key column
  LastColumn,    \* 0 where a table has its key column only, 1 where it has two
  MayTypeAhead,  \* whether keys may come before a queued load is done
  MayFail,       \* whether the database may refuse a statement
  MayChange,     \* whether other clients add and delete rows
  Vanishing      \* the tables other clients may drop

ASSUME ConstantsAssumption ==
  /\ Keyed \subseteq Tables /\ Tables # {} /\ IsFiniteSet(Tables)
  /\ Keys \subseteq Nat \ {0} /\ IsFiniteSet(Keys) /\ Matching \subseteq Keys
  /\ Present \subseteq Keys
  /\ Order \in [1 .. Cardinality(Tables) -> Tables] /\ Tables = ToSet(Order)
  /\ MaxChanges \in Nat
  /\ MatchesRows \in BOOLEAN /\ ReadOnly \subseteq BOOLEAN /\ MayFilter \in BOOLEAN /\ KeyEdits \in BOOLEAN /\ LastColumn \in {0, 1} /\ MayTypeAhead \in BOOLEAN
  /\ MayFail \in BOOLEAN /\ MayChange \in BOOLEAN /\ Vanishing \subseteq Tables

VARIABLES
  read_only,     \* whether the connection is marked read-only
  keyed,         \* the tables of which tql knows the key
  \* the database
  existing,      \* the tables there are
  db,            \* the keys of the rows of each
  unanswered,    \* the changes it took without an answer that arrived
  \* the sidebar
  tables,        \* the tables tql knows of
  matched,       \* those that match its filter
  table_index,   \* the place of the cursor in it
  filters,       \* whether the rows are filtered
  pending,       \* whether a load is queued
  \* the grid
  loaded,        \* the table loaded last
  headers,       \* whether the grid has columns
  raw,           \* its rows
  row_index,     \* the row of the cursor
  column_index,  \* the column of the cursor
  results,       \* whether the rows are the results of a query
  \* the edits
  deletes,       \* the marks
  updates,       \* the changed values, by row
  inserts,       \* the added rows
  value,         \* the value editor
  form,          \* the record form
  \* :w
  stage,         \* where write_all stands
  columns,       \* how many columns of the first update are written
  problem,       \* the modal that says why a write failed
  \* what the properties remember
  changes,       \* how many changes were made
  written,       \* those whose statement the database took
  dropped,       \* those that were dropped
  attempt,       \* those that were pending when this :w began
  wrote,         \* those this :w has written
  astray,        \* those that were written to another row or column
  moved,         \* whether an edit was kept where it was not opened
  doubtful       \* those made, or kept, under another table than the one shown

database == <<read_only, keyed, existing, db, unanswered>>
sidebar  == <<tables, matched, table_index, filters, pending>>
grid     == <<loaded, headers, raw, row_index, column_index, results>>
edits    == <<deletes, updates, inserts>>
modals   == <<value, form>>
writing  == <<stage, columns, problem>>
attempts == <<attempt, wrote>>
memory   == <<changes, written, dropped, astray, moved>>
vars     == <<database, sidebar, grid, edits, modals, writing, attempts, memory, doubtful>>

NoTable   == "no table"
ASSUME NoTableAssumption == NoTable \notin Tables

Columns   == {"id", "name"}                 \* "id" is the key column
Column(i) == IF i = 0 THEN "id" ELSE "name"

NoRow     == [table |-> NoTable, key |-> 0, add |-> 0]
NoValue   == [open |-> FALSE, row |-> NoRow, column |-> "id", editable |-> FALSE, early |-> FALSE]
NoKey     == [key |-> 0, whole |-> FALSE]   \* the empty string
NoForm    == [open |-> FALSE, at |-> 0, adds |-> FALSE, identity |-> NoKey, row |-> NoRow, early |-> FALSE]

-----------------------------------------------------------------------------
(* Reading the state                                                       *)

\* sidebar_rows: the tables that match.  They are listed in the order of the
\* database.
SidebarRows(known, match) == known \cap match
Place(t) == CHOOSE i \in DOMAIN Order : Order[i] = t

\* row_of: where a table stands in the sidebar, its length when it does not
RowOf(t, rows) ==
  IF t \in rows THEN Cardinality({u \in rows : Place(u) < Place(t)}) ELSE Cardinality(rows)

TableAt(index, rows) ==
  LET at == {t \in rows : RowOf(t, rows) = index} IN IF at = {} THEN NoTable ELSE CHOOSE t \in at : TRUE

Sidebar == SidebarRows(tables, matched)
\* current_table
CurrentTable == TableAt(table_index, Sidebar)

\* The pending changes, by number
DeletesOf(marks)  == {marks[i].id : i \in DOMAIN marks}
UpdatesOf(values) == UNION {{values[i].columns[j].id : j \in DOMAIN values[i].columns}
                              : i \in DOMAIN values}
InsertsOf(rows)   == {rows[i].id : i \in DOMAIN rows}
Pending           == DeletesOf(deletes) \cup UpdatesOf(updates) \cup InsertsOf(inserts)

\* identifies_rows
IdentifiesRows == CurrentTable \in keyed \/ MatchesRows

\* key_value of the row of the cursor: its key, or all its values
RowIsThere == row_index + 1 \in DOMAIN raw
RowHere    == IF RowIsThere THEN raw[row_index + 1] ELSE NoRow
Identity   == [key |-> RowHere.key, whole |-> CurrentTable \notin keyed]

\* on_added_row
OnAddedRow == ~results /\ row_index < Len(inserts)

\* The row of updates for an identity, 0 when there is none
UpdateAt(identity) ==
  LET ats == {i \in DOMAIN updates : updates[i].identity = identity}
  IN  IF ats = {} THEN 0 ELSE CHOOSE i \in ats : \A j \in ats : i <= j

\* Named::put: a column's value replaces the one it had
Put(values, v) ==
  LET ats == {i \in DOMAIN values : values[i].column = v.column}
  IN  IF ats = {} THEN Append(values, v)
      ELSE [i \in DOMAIN values |-> IF i \in ats THEN v ELSE values[i]]

\* Edits::update_for(key).put(column, value)
PutUpdate(identity, v) ==
  IF UpdateAt(identity) = 0 THEN Append(updates, [identity |-> identity, columns |-> <<v>>])
  ELSE [updates EXCEPT ![UpdateAt(identity)].columns = Put(@, v)]

\* The changes the same edit replaces
Replaced(identity, column) ==
  IF UpdateAt(identity) = 0 THEN {}
  ELSE LET values == updates[UpdateAt(identity)].columns
       IN  {values[i].id : i \in {j \in DOMAIN values : values[j].column = column}}

-----------------------------------------------------------------------------
(* Loading                                                                 *)

\* The numbers of a set in their order
Sorted(S) == [i \in 1 .. Cardinality(S) |-> CHOOSE n \in S : Cardinality({m \in S : m < n}) = i - 1]

\* The rows the database has for the grid, in the order of the key
TableRows(table, filtered) ==
  LET keys == IF filtered THEN db[table] \cap Matching ELSE db[table]
      sorted == Sorted(keys)
  IN  [i \in DOMAIN sorted |-> [table |-> table, key |-> sorted[i], add |-> 0]]

\* Mutant of AddedRows: the newest row below the others
AddedRowsReversed(table, added) ==
  [i \in DOMAIN added |->
     LET j == Len(added) + 1 - i IN [table |-> table, key |-> added[j].key, add |-> added[j].id]]

\* prepend_pending_rows: the added rows as rows of the grid
AddedRows(table, added) ==
  [i \in DOMAIN added |-> [table |-> table, key |-> added[i].key, add |-> added[i].id]]

Least(a, b) == IF a <= b THEN a ELSE b

\* Mutant of Nearest: off by one
NearestOrNext(index, length) == Least(index, length)

\* The place nearest to an index in a list: index.min(length - 1)
Nearest(index, length) == Least(index, length - 1)

\* Browser::load of a table, with the rows added so far on top.  A table
\* that is not there, or a database that refuses, leaves an empty grid.
Load(table, filtered, added, keep, shows_results) ==
  /\ pending' = FALSE
  /\ \/ /\ table = NoTable
        /\ results' = shows_results
        /\ UNCHANGED <<loaded, headers, raw, row_index, column_index>>
     \/ /\ table # NoTable
        /\ table \notin existing \/ MayFail
        /\ headers' = FALSE
        /\ raw' = <<>>
        /\ results' = shows_results
        /\ UNCHANGED <<loaded, row_index, column_index>>
     \/ /\ table \in existing
        /\ loaded' = table
        /\ headers' = TRUE
        /\ raw' = AddedRows(table, added) \o TableRows(table, filtered)
        /\ results' = FALSE
        /\ row_index' = IF keep = "cursor" /\ raw' # <<>> THEN Nearest(row_index, Len(raw')) ELSE 0
        /\ column_index' = IF keep # "nothing" /\ headers THEN column_index ELSE 0

Init ==
  /\ read_only \in ReadOnly
  /\ keyed = Keyed
  /\ existing = Tables
  /\ unanswered = {}
  /\ db = [t \in Tables |-> Present]
  /\ tables = Tables
  /\ matched = Tables
  /\ table_index = 0
  /\ filters = FALSE
  /\ pending = FALSE
  /\ loaded = Order[1]
  /\ headers = TRUE
  /\ raw = TableRows(Order[1], FALSE)
  /\ row_index = 0 /\ column_index = 0
  /\ results = FALSE
  /\ deletes = <<>> /\ updates = <<>> /\ inserts = <<>>
  /\ value = NoValue /\ form = NoForm
  /\ stage = "no" /\ columns = 0 /\ problem = "none"
  /\ changes = 0 /\ written = {} /\ dropped = {}
  /\ attempt = {} /\ wrote = {} /\ astray = {} /\ moved = FALSE
  /\ doubtful = {}

-----------------------------------------------------------------------------
(* Which keys reach what.  The event loop hands over every key it has      *)
(* before tql is idle, so keys may come before a queued load is done.      *)

\* Whether keys are read at all
Listening == stage = "no" /\ problem = "none" /\ (MayTypeAhead \/ ~pending)

\* Mutant of Browsing: an open form does not keep the keys to itself
BrowsingBehindForm == Listening /\ ~value.open

\* Mutant of Browsing: an open editor does not keep the keys to itself
BrowsingBehindEditor == Listening /\ ~form.open

\* Whether they reach the grid and the sidebar: an open form or editor
\* keeps them to itself
Browsing == Listening /\ ~form.open /\ ~value.open

Elsewhere == <<database, tables, modals, writing, attempts, changes, written, astray, moved>>

-----------------------------------------------------------------------------
(* Moving through the tables                                               *)

\* Mutant of Forget: the marks are kept
ForgetKeepsMarks ==
  /\ updates' = <<>> /\ inserts' = <<>>
  /\ dropped' = dropped \cup UpdatesOf(updates) \cup InsertsOf(inserts)
  /\ UNCHANGED deletes

\* Edits::forget: every pending change is dropped
Forget ==
  /\ deletes' = <<>> /\ updates' = <<>> /\ inserts' = <<>>
  /\ dropped' = dropped \cup Pending

\* select_table, by keys or mouse: the load is only queued
SelectTable(index) ==
  /\ Browsing
  /\ index < Cardinality(Sidebar) /\ index # table_index
  /\ table_index' = index
  /\ filters' = FALSE
  /\ pending' = TRUE
  /\ Forget
  /\ UNCHANGED <<matched, grid, Elsewhere>>

\* Mutant of Reselect: a filter that nothing matches is like any other
ReselectUnderflow(match) ==
  /\ Browsing /\ MayFilter
  /\ match \subseteq Tables
  /\ matched' = match
  /\ table_index' = Least(table_index, Cardinality(SidebarRows(tables, match)) - 1)
  /\ pending' = TRUE
  /\ filters' = FALSE
  /\ Forget
  /\ UNCHANGED <<grid, Elsewhere>>

\* reselect, after each key typed into the filter of the sidebar
Reselect(match) ==
  /\ Browsing /\ MayFilter
  /\ match \subseteq Tables
  /\ matched' = match
  /\ LET rows  == SidebarRows(tables, match)
         index == Nearest(table_index, Cardinality(rows))
     IN  IF rows = {} THEN UNCHANGED <<table_index, filters, pending, edits, dropped>>
         ELSE /\ table_index' = index
              /\ pending' = TRUE
              /\ IF TableAt(index, rows) = loaded
                 THEN /\ deletes' = <<>>
                      /\ dropped' = dropped \cup DeletesOf(deletes)
                      /\ UNCHANGED <<filters, updates, inserts>>
                 ELSE /\ filters' = FALSE
                      /\ Forget
  /\ UNCHANGED <<grid, Elsewhere>>

\* Browser::idle with a load queued
IdleLoad ==
  /\ pending /\ stage = "no"
  /\ Load(CurrentTable, filters, inserts, "nothing", results)
  /\ UNCHANGED <<matched, table_index, filters, edits, dropped, Elsewhere>>

\* sort_by, page, back_to_table, and Enter in the sidebar
LoadAgain(keep) ==
  /\ Browsing
  /\ Load(CurrentTable, filters, inserts, keep, results)
  /\ UNCHANGED <<matched, table_index, filters, edits, dropped, Elsewhere>>

\* go_to_table of the palette: the filter of the sidebar is cleared first,
\* and the place the table then has is compared with the one of the cursor
GoToTable(t) ==
  /\ Browsing
  /\ t \in tables
  /\ matched' = Tables
  /\ table_index' = RowOf(t, SidebarRows(tables, Tables))
  /\ IF table_index' = table_index
     THEN /\ Load(t, filters, inserts, "nothing", FALSE)
          /\ UNCHANGED <<filters, edits, dropped>>
     ELSE /\ filters' = FALSE
          /\ pending' = TRUE
          /\ results' = FALSE
          /\ Forget
          /\ UNCHANGED <<loaded, headers, raw, row_index, column_index>>
  /\ UNCHANGED Elsewhere

\* reveal: a table the filter of the sidebar hides clears it
Revealed(t) == IF t \in Sidebar THEN matched ELSE Tables

\* open_linked: a link followed, or a jump back
OpenLinked(t, filtered) ==
  /\ Browsing
  /\ t \in tables
  /\ matched' = Revealed(t)
  /\ table_index' = RowOf(t, SidebarRows(tables, matched'))
  /\ filters' = filtered
  /\ Forget
  /\ Load(t, filtered, <<>>, "nothing", results)
  /\ UNCHANGED Elsewhere

\* Browser::reload: the keys and the tables are listed anew.  Keys that
\* cannot be listed are none; tables that cannot leave all else as it is.
\* When the selected table is not among them, the cursor keeps its place in
\* the sidebar.
Reload ==
  /\ Browsing
  /\ keyed' \in {Keyed \cap existing} \cup (IF MayFail THEN {{}} ELSE {})
  /\ \/ /\ tables' = existing
        /\ LET rows  == SidebarRows(existing, matched)
               found == RowOf(CurrentTable, rows)
               last  == IF rows = {} THEN 0 ELSE Cardinality(rows) - 1
           IN  /\ table_index' = IF found < Cardinality(rows) THEN found
                                 ELSE Least(table_index, last)
               /\ Load(TableAt(table_index', rows), filters, inserts, "cursor", results)
        /\ UNCHANGED problem
     \/ /\ MayFail
        /\ problem' = "refused"
        /\ UNCHANGED <<tables, table_index, pending, grid>>
  /\ UNCHANGED <<read_only, existing, db, unanswered, matched, filters, edits, modals,
                 stage, columns, attempts, memory>>

-----------------------------------------------------------------------------
(* Filters and queries                                                     *)

\* apply_filters
ApplyFilters(usable) ==
  /\ Browsing
  /\ filters' = usable
  /\ deletes' = <<>> /\ updates' = <<>>
  /\ dropped' = dropped \cup DeletesOf(deletes) \cup UpdatesOf(updates)
  /\ Load(CurrentTable, usable, inserts, "nothing", results)
  /\ UNCHANGED <<matched, table_index, inserts, Elsewhere>>

\* clear_filters
ClearFilters ==
  /\ Browsing /\ filters
  /\ filters' = FALSE
  /\ Load(CurrentTable, FALSE, inserts, "nothing", results)
  /\ UNCHANGED <<matched, table_index, edits, dropped, Elsewhere>>

\* run_query of a statement that returns rows with the key column.  It may
\* read from a table tql knows, which is then selected (follow_query_table).
RunQuery(from) ==
  /\ Browsing
  /\ from \in tables \cup {NoTable}
  /\ headers' = TRUE
  /\ \E k \in Keys : raw' \in {<<>>, <<[NoRow EXCEPT !.key = k]>>}
  /\ row_index' = 0 /\ column_index' = 0
  /\ results' = TRUE
  /\ IF from = NoTable THEN UNCHANGED <<matched, table_index, edits, dropped>>
     ELSE /\ matched' = Revealed(from)
          /\ table_index' = RowOf(from, SidebarRows(tables, matched'))
          /\ IF table_index' = table_index THEN UNCHANGED <<edits, dropped>>
             ELSE Forget
  /\ UNCHANGED <<filters, pending, loaded, Elsewhere>>

-----------------------------------------------------------------------------
(* Marking, editing and adding rows                                        *)

\* Mutant of MayEdit: the connection is not asked
MayEditAnywhere == ~results /\ (OnAddedRow \/ IdentifiesRows)

\* why_read_only, when it has nothing to say
MayEdit == ~read_only /\ ~results /\ (OnAddedRow \/ IdentifiesRows)

\* The keys that move the cursor in the grid
MoveCursor(row, column) ==
  /\ Browsing
  /\ row < Len(raw) /\ column <= LastColumn
  /\ row_index' = row /\ column_index' = column
  /\ UNCHANGED <<database, sidebar, loaded, headers, raw, results, edits, modals, writing, attempts, memory>>

\* mark_delete: the row is marked, or not any more
MarkDelete ==
  /\ Browsing
  /\ ~results /\ IdentifiesRows /\ ~read_only /\ ~OnAddedRow /\ RowIsThere
  /\ LET at == SelectInSeq(deletes, LAMBDA mark : mark.identity = Identity)
     IN  IF at # 0
         THEN /\ deletes' = RemoveAt(deletes, at)
              /\ dropped' = dropped \cup {deletes[at].id}
              /\ UNCHANGED changes
         ELSE /\ changes < MaxChanges
              /\ changes' = changes + 1
              /\ deletes' = Append(deletes, [id |-> changes', identity |-> Identity,
                                             table |-> RowHere.table])
              /\ UNCHANGED dropped
  /\ row_index' = Nearest(row_index + 1, Len(raw))
  /\ UNCHANGED <<database, sidebar, loaded, headers, raw, column_index, results, updates,
                 inserts, modals, writing, attempts, written, astray, moved>>

\* clear_marks: loaded anew only when there are added rows to take away
ClearMarks ==
  /\ Browsing /\ Pending # {}
  /\ Forget
  /\ IF inserts = <<>> THEN UNCHANGED <<pending, grid>>
     ELSE Load(CurrentTable, filters, <<>>, "cursor", results)
  /\ UNCHANGED <<matched, table_index, filters, Elsewhere>>

\* leave with unwritten changes: they are dropped, and tql stays
Leave ==
  /\ Browsing /\ Pending # {}
  /\ Forget
  /\ UNCHANGED <<sidebar, grid, Elsewhere>>

Editor(looking) ==
  [open |-> TRUE, row |-> RowHere, column |-> Column(column_index),
   editable |-> ~looking /\ MayEdit, early |-> pending]

\* start_editing, with e, or with I to look only
StartEditing(looking) ==
  /\ Browsing
  /\ raw # <<>>
  /\ KeyEdits \/ column_index # 0
  /\ value' = Editor(looking)
  /\ UNCHANGED <<database, sidebar, grid, edits, form, writing, attempts, memory>>

\* type_into_value: e where the value was only looked at
EditViewed ==
  /\ Listening /\ ~form.open /\ value.open /\ ~value.editable
  /\ value' = IF raw = <<>> THEN NoValue ELSE Editor(FALSE)
  /\ UNCHANGED <<database, sidebar, grid, edits, form, writing, attempts, memory>>

\* type_into_value: escape
CancelEdit ==
  /\ Listening /\ ~form.open /\ value.open
  /\ value' = NoValue
  /\ UNCHANGED <<database, sidebar, grid, edits, form, writing, attempts, memory>>

\* The values a column may be given: another key, or a name, which is not
\* told apart; and 0 leaves the key of an added row to the database
Typed(column) == IF column = "id" THEN Keys ELSE {0}

\* commit_edit.  The row, the column and the table are those of the cursor
\* now, not those the editor was opened on.
CommitEdit ==
  /\ Listening /\ ~form.open /\ value.open /\ value.editable
  /\ value' = NoValue
  /\ LET column == Column(column_index)
     IN  \/ /\ ~headers \/ (~OnAddedRow /\ ~IdentifiesRows)
            /\ UNCHANGED <<raw, updates, inserts, changes, dropped, moved>>
         \/ /\ headers /\ OnAddedRow
            /\ \E key \in IF column = "id" THEN Keys \cup {0} ELSE {inserts[row_index + 1].key} :
                 /\ inserts' = [inserts EXCEPT ![row_index + 1].key = key]
                 /\ raw' = [raw EXCEPT ![row_index + 1].key = key]
            /\ moved' = (moved \/ (~value.early /\ (value.row.add # inserts[row_index + 1].id
                                               \/ value.column # column)))
            /\ UNCHANGED <<updates, changes, dropped>>
         \/ /\ headers /\ ~OnAddedRow /\ IdentifiesRows
            /\ changes < MaxChanges
            /\ changes' = changes + 1
            /\ LET identity == IF RowIsThere THEN Identity ELSE NoKey
               IN  /\ \E to \in Typed(column) :
                        updates' = PutUpdate(identity,
                          [id |-> changes', column |-> column, to |-> to,
                           made |-> [table |-> value.row.table, key |-> value.row.key,
                                     column |-> value.column]])
                   /\ dropped' = dropped \cup Replaced(identity, column)
            /\ moved' = (moved \/ (~value.early /\ (value.row # RowHere \/ value.column # column)))
            /\ UNCHANGED <<raw, inserts>>
  /\ UNCHANGED <<database, sidebar, loaded, headers, row_index, column_index, results, deletes,
                 form, writing, attempts, written, astray>>

\* new_row
NewRow ==
  /\ Browsing
  /\ ~results /\ CurrentTable # NoTable /\ headers /\ ~read_only
  /\ form' = [NoForm EXCEPT !.open = TRUE, !.adds = TRUE, !.row.table = CurrentTable,
                           !.early = pending]
  /\ UNCHANGED <<database, sidebar, grid, edits, value, writing, attempts, memory>>

\* open_record: the form shows the row with its pending values, and takes
\* the key from there too
OpenRecord ==
  /\ Browsing
  /\ raw # <<>> /\ MayEdit
  /\ LET at    == UpdateAt(Identity)
         keys  == IF at = 0 THEN {}
                  ELSE {v.to : v \in {w \in ToSet(updates[at].columns) : w.column = "id"}}
         shown == IF keys = {} \/ Identity.whole THEN Identity
                  ELSE [Identity EXCEPT !.key = CHOOSE k \in keys : TRUE]
     IN  form' = IF OnAddedRow THEN [NoForm EXCEPT !.open = TRUE, !.at = row_index + 1, !.row = RowHere,
                                     !.early = pending]
                 ELSE [NoForm EXCEPT !.open = TRUE, !.identity = shown,
                                     !.row = [RowHere EXCEPT !.key = shown.key],
                                     !.early = pending]
  /\ UNCHANGED <<database, sidebar, grid, edits, value, writing, attempts, memory>>

\* close_record
CloseRecord ==
  /\ Listening /\ form.open
  /\ form' = NoForm
  /\ UNCHANGED <<database, sidebar, grid, edits, value, writing, attempts, memory>>

\* save_record of an added row: it changes in its place, and is loaded.
\* Without a table the form has no fields to change.
SaveAdded(key) ==
  /\ Listening /\ form.open /\ form.at # 0
  /\ CurrentTable = NoTable => key = inserts[form.at].key
  /\ form' = NoForm
  /\ inserts' = [inserts EXCEPT ![form.at].key = key]
  /\ Load(CurrentTable, filters, inserts', "cursor", results)
  /\ UNCHANGED <<database, tables, matched, table_index, filters, deletes, updates, value,
                 writing, attempts, memory>>

\* save_record of a new row: the newest is first, and the cursor is on it
SaveNew(key) ==
  /\ Listening /\ form.open /\ form.adds
  /\ changes < MaxChanges
  /\ changes' = changes + 1
  /\ form' = NoForm
  /\ inserts' = <<[id |-> changes', key |-> key, table |-> form.row.table]>> \o inserts
  /\ Load(CurrentTable, filters, inserts', "column", results)
  /\ UNCHANGED <<database, tables, matched, table_index, filters, deletes, updates, value,
                 writing, attempts, written, dropped, astray, moved>>

\* save_record of a row of the table, whose key the form does not change
SaveRow ==
  /\ Listening /\ form.open /\ form.at = 0 /\ ~form.adds /\ CurrentTable # NoTable
  /\ changes < MaxChanges
  /\ changes' = changes + 1
  /\ form' = NoForm
  /\ updates' = PutUpdate(form.identity,
                   [id |-> changes', column |-> "name", to |-> 0,
                    made |-> [table |-> form.row.table, key |-> form.row.key, column |-> "name"]])
  /\ dropped' = dropped \cup Replaced(form.identity, "name")
  /\ UNCHANGED <<database, sidebar, grid, deletes, inserts, value, writing, attempts,
                 written, astray, moved>>

-----------------------------------------------------------------------------
(* Writing.  write_all sends one statement after another, the added rows   *)
(* first, and takes each change off its list once its statement is done.   *)
(* Other clients get in between.  The first that fails ends it.            *)

Table == CurrentTable

Took(ids) ==
  /\ written' = written \cup ids
  /\ wrote' = wrote \cup ids

\* Mutants of Remaining: nothing is taken off, or everything
RemainingAll(list)  == list
RemainingNone(list) == <<>>

\* What is left of a list when its first change is written
Remaining(list) == Tail(list)

\* Mutant of Fails: the change that failed is taken off its list
FailsForgetting(why) ==
  /\ stage' = why
  /\ inserts' = IF inserts = <<>> THEN <<>> ELSE Tail(inserts)
  /\ UNCHANGED <<database, deletes, updates, columns, written, wrote, astray>>

\* The statement fails and the database did nothing: "gone" when it reached
\* no row
Fails(why) ==
  /\ stage' = why
  /\ UNCHANGED <<database, edits, columns, written, wrote, astray>>

\* The database does what the statement says, and its answer arrives,
Answered == UNCHANGED <<stage, unanswered>>

\* or is lost: to tql that is an error like any other, and the changes stay
AnswerLost(ids) ==
  /\ MayFail
  /\ stage' = "refused"
  /\ unanswered' = unanswered \cup ids
  /\ UNCHANGED <<edits, columns>>

MayBeRefused == MayFail \/ Table \notin existing

\* write_pending
WritePending ==
  /\ Browsing /\ Pending # {} /\ Table # NoTable
  /\ IdentifiesRows \/ (updates = <<>> /\ deletes = <<>>)
  /\ stage' = "writing"
  /\ columns' = 0
  /\ attempt' = Pending /\ wrote' = {}
  /\ UNCHANGED <<database, sidebar, grid, edits, modals, problem, memory>>

Unwritten == <<sidebar, grid, modals, problem, attempt, changes, dropped, moved>>

\* The keys the first added row may have in the table: its own, or one the
\* database gives
FreeKeys == (IF inserts[1].key = 0 THEN Keys ELSE {inserts[1].key}) \ db[Table]

\* What the database does of a statement that carries the changes ids, some
\* of them to another row or column than they were made in
Done(ids, elsewhere) ==
  /\ Took(ids)
  /\ astray' = astray \cup elsewhere
  /\ UNCHANGED <<read_only, keyed, existing>>

\* An added row, with its key or with one the database gives
WriteInsert ==
  /\ stage = "writing" /\ inserts # <<>>
  /\ LET id == inserts[1].id
     IN  \/ /\ Table \in existing
            /\ \E key \in FreeKeys : db' = [db EXCEPT ![Table] = @ \cup {key}]
            /\ Done({id}, IF inserts[1].table = Table THEN {} ELSE {id})
            /\ \/ /\ Answered
                  /\ inserts' = Remaining(inserts)
                  /\ UNCHANGED <<deletes, updates, columns>>
               \/ AnswerLost({id})
         \/ /\ MayBeRefused \/ FreeKeys = {}
            /\ Fails("refused")
  /\ UNCHANGED Unwritten

\* A value, once set, may be the key of the row
SetValue(key, v) ==
  db' = IF v.column = "id" THEN [db EXCEPT ![Table] = (@ \ {key}) \cup {v.to}] ELSE db

\* The values not made in the row they are written to, and the marks
StrayValues(values, key) ==
  {v.id : v \in {w \in values : w.made # [table |-> Table, key |-> key, column |-> w.column]}}
StrayMarks(marks) == {mark.id : mark \in {m \in marks : m.table # Table}}

\* One column of a changed row, found by its key.  A row that is gone, or
\* that another column gave another key, is not reached.
WriteUpdate ==
  /\ stage = "writing" /\ inserts = <<>> /\ updates # <<>> /\ Table \in keyed
  /\ LET key   == updates[1].identity.key
         found == Table \in existing /\ ~updates[1].identity.whole /\ key \in db[Table]
         v     == updates[1].columns[columns + 1]
         taken == v.column = "id" /\ v.to \in db[Table] \ {key}
     IN  \/ /\ found /\ ~taken
            /\ SetValue(key, v)
            /\ Done({v.id}, StrayValues({v}, key))
            /\ \/ /\ Answered
                  /\ IF columns + 1 = Len(updates[1].columns)
                     THEN updates' = Remaining(updates) /\ columns' = 0
                     ELSE columns' = columns + 1 /\ UNCHANGED updates
                  /\ UNCHANGED <<deletes, inserts>>
               \/ AnswerLost({v.id})
         \/ Table \in existing /\ ~found /\ Fails("gone")
         \/ (MayBeRefused \/ (found /\ taken)) /\ Fails("refused")
  /\ UNCHANGED Unwritten

\* The marked rows, in one statement
WriteDeletes ==
  /\ stage = "writing" /\ inserts = <<>> /\ updates = <<>> /\ deletes # <<>> /\ Table \in keyed
  /\ LET keys    == {deletes[i].identity.key : i \in {j \in DOMAIN deletes : ~deletes[j].identity.whole}}
         reached == IF Table \in existing THEN keys \cap db[Table] ELSE {}
     IN  \/ /\ reached # {}
            /\ db' = [db EXCEPT ![Table] = @ \ keys]
            /\ Done(DeletesOf(deletes), StrayMarks(ToSet(deletes)))
            /\ \/ /\ Answered
                  /\ deletes' = <<>>
                  /\ UNCHANGED <<updates, inserts, columns>>
               \/ AnswerLost(DeletesOf(deletes))
         \/ Table \in existing /\ reached = {} /\ Fails("gone")
         \/ MayBeRefused /\ Fails("refused")
  /\ UNCHANGED Unwritten

\* write_matched, where tql knows no key: a changed row in one statement.  A
\* key that is no row cannot be matched at all.
WriteMatchedUpdate ==
  /\ stage = "writing" /\ inserts = <<>> /\ updates # <<>> /\ Table \notin keyed
  /\ LET row    == updates[1].identity
         values == ToSet(updates[1].columns)
         ids    == {v.id : v \in values}
         keys   == {v.to : v \in {w \in values : w.column = "id"}}
         found  == Table \in existing /\ row.whole /\ row.key \in db[Table]
         taken  == Table \in Keyed /\ keys \cap (db[Table] \ {row.key}) # {}
     IN  \/ /\ found /\ ~taken
            /\ db' = IF keys = {} THEN db
                     ELSE [db EXCEPT ![Table] = (@ \ {row.key}) \cup keys]
            /\ Done(ids, StrayValues(values, row.key))
            /\ \/ /\ Answered
                  /\ updates' = Remaining(updates)
                  /\ UNCHANGED <<deletes, inserts, columns>>
               \/ AnswerLost(ids)
         \/ Table \in existing /\ row.whole /\ ~found /\ Fails("gone")
         \/ (MayBeRefused \/ ~row.whole \/ (found /\ taken)) /\ Fails("refused")
  /\ UNCHANGED Unwritten

\* write_matched: a marked row
WriteMatchedDelete ==
  /\ stage = "writing" /\ inserts = <<>> /\ updates = <<>> /\ deletes # <<>> /\ Table \notin keyed
  /\ LET row   == deletes[1].identity
         found == Table \in existing /\ row.whole /\ row.key \in db[Table]
     IN  \/ /\ found
            /\ db' = [db EXCEPT ![Table] = @ \ {row.key}]
            /\ Done({deletes[1].id}, StrayMarks({deletes[1]}))
            /\ \/ /\ Answered
                  /\ deletes' = Remaining(deletes)
                  /\ UNCHANGED <<updates, inserts, columns>>
               \/ AnswerLost({deletes[1].id})
         \/ Table \in existing /\ row.whole /\ ~found /\ Fails("gone")
         \/ (MayBeRefused \/ ~row.whole) /\ Fails("refused")
  /\ UNCHANGED Unwritten

\* The end of write_pending when all is written
WriteDone ==
  /\ stage = "writing" /\ Pending = {}
  /\ stage' = "no"
  /\ attempt' = {} /\ wrote' = {}
  /\ Load(Table, filters, <<>>, "cursor", results)
  /\ UNCHANGED <<database, tables, matched, table_index, filters, edits, modals, columns,
                 problem, memory>>

\* The end of write_pending when a statement failed: the table is loaded,
\* with what is still pending, and a modal says why
WriteFailed ==
  /\ stage \in {"refused", "gone"}
  /\ stage' = "no"
  /\ problem' = stage
  /\ columns' = 0
  /\ Load(Table, filters, inserts, "cursor", results)
  /\ UNCHANGED <<database, tables, matched, table_index, filters, edits, modals, attempts, memory>>

\* type_into_problem
Dismiss ==
  /\ stage = "no" /\ problem # "none"
  /\ problem' = "none"
  /\ attempt' = {} /\ wrote' = {}
  /\ UNCHANGED <<database, sidebar, grid, edits, modals, stage, columns, memory>>

-----------------------------------------------------------------------------
(* Other clients of the database                                           *)

OthersChange(t, k) ==
  /\ MayChange
  /\ t \in existing
  /\ db' = [db EXCEPT ![t] = IF k \in @ THEN @ \ {k} ELSE @ \cup {k}]
  /\ UNCHANGED <<read_only, keyed, existing, unanswered, sidebar, grid, edits, modals, writing,
                 attempts, memory>>

OthersDrop(t) ==
  /\ t \in Vanishing
  /\ t \in existing
  /\ existing' = existing \ {t}
  /\ UNCHANGED <<read_only, keyed, db, unanswered, sidebar, grid, edits, modals, writing,
                 attempts, memory>>

\* What the properties remember of a step.  A change is in doubt that was
\* made while a load was queued, or in a form or an editor opened then; and
\* so are those kept while the list of the sidebar put another table under
\* the cursor.
Remember ==
  doubtful' = doubtful
    \cup (IF pending \/ form.early \/ value.early THEN Pending' \ Pending ELSE {})
    \cup (IF Sidebar' # Sidebar /\ CurrentTable' # CurrentTable THEN Pending \cap Pending' ELSE {})

Next ==
  /\ \/ \E i \in 0 .. Cardinality(Tables) - 1 : SelectTable(i)
     \/ \E m \in SUBSET Tables : Reselect(m)
     \/ IdleLoad
     \/ \E keep \in {"nothing", "cursor"} : LoadAgain(keep)
     \/ \E t \in Tables : GoToTable(t)
     \/ \E t \in Tables, f \in BOOLEAN : OpenLinked(t, f)
     \/ Reload
     \/ \E f \in BOOLEAN : ApplyFilters(f)
     \/ ClearFilters
     \/ \E t \in Tables \cup {NoTable} : RunQuery(t)
     \/ \E r \in 0 .. MaxChanges + Cardinality(Keys), c \in 0 .. LastColumn : MoveCursor(r, c)
     \/ MarkDelete \/ ClearMarks \/ Leave
     \/ \E looking \in BOOLEAN : StartEditing(looking)
     \/ EditViewed \/ CancelEdit \/ CommitEdit
     \/ NewRow \/ OpenRecord \/ CloseRecord
     \/ \E k \in Keys \cup {0} : SaveAdded(k) \/ SaveNew(k)
     \/ SaveRow
     \/ WritePending
     \/ WriteInsert \/ WriteUpdate \/ WriteDeletes \/ WriteMatchedUpdate \/ WriteMatchedDelete
     \/ WriteDone \/ WriteFailed \/ Dismiss
     \/ \E t \in Tables, k \in Keys : OthersChange(t, k)
     \/ \E t \in Tables : OthersDrop(t)
  /\ Remember

Spec == Init /\ [][Next]_vars

-----------------------------------------------------------------------------
(* Types                                                                   *)

Ids        == 1 .. MaxChanges
Identities == [key : Keys \cup {0}, whole : BOOLEAN]
GridRows   == [table : Tables \cup {NoTable}, key : Keys \cup {0}, add : Ids \cup {0}]
Marks      == [id : Ids, identity : Identities, table : Tables \cup {NoTable}]
Cells      == [table : Tables \cup {NoTable}, key : Keys \cup {0}, column : Columns]
Values     == [id : Ids, column : Columns, to : Keys \cup {0}, made : Cells]
Updates    == [identity : Identities, columns : Seq(Values)]
Inserts    == [id : Ids, key : Keys \cup {0}, table : Tables]

\* Every variable has its type: what the browser of app/tui/browser/mod.rs
\* declares, and what the properties remember.
TypeOK ==
  /\ read_only \in BOOLEAN /\ keyed \in SUBSET Keyed /\ unanswered \subseteq Ids
  /\ existing \in SUBSET Tables /\ db \in [Tables -> SUBSET Keys]
  /\ tables \in SUBSET Tables /\ matched \in SUBSET Tables
  /\ table_index \in 0 .. Cardinality(Tables) - 1
  /\ filters \in BOOLEAN /\ pending \in BOOLEAN
  /\ loaded \in Tables /\ headers \in BOOLEAN /\ raw \in Seq(GridRows)
  /\ row_index \in Nat /\ column_index \in {0, 1} /\ results \in BOOLEAN
  /\ deletes \in Seq(Marks) /\ updates \in Seq(Updates) /\ inserts \in Seq(Inserts)
  /\ value \in [open : BOOLEAN, row : GridRows, column : Columns, editable : BOOLEAN,
                early : BOOLEAN]
  /\ form \in [open : BOOLEAN, at : Nat, adds : BOOLEAN, identity : Identities, row : GridRows,
               early : BOOLEAN]
  /\ stage \in {"no", "writing", "refused", "gone"} /\ columns \in 0 .. 1
  /\ problem \in {"none", "refused", "gone"}
  /\ changes \in 0 .. MaxChanges
  /\ written \subseteq Ids /\ dropped \subseteq Ids
  /\ attempt \subseteq Ids /\ wrote \subseteq Ids /\ astray \subseteq Ids
  /\ moved \in BOOLEAN /\ doubtful \subseteq Ids

-----------------------------------------------------------------------------
(* Safety                                                                  *)

\* Every change the user made is pending, written or dropped by something
\* the user did: "nothing is dropped because a write failed" (README).
NothingLost == 1 .. changes = Pending \cup written \cup dropped

\* An added row or a mark that was written is pending no more, so that :w
\* again after a failure writes none of them twice; but for those the
\* database took without an answer that arrived, which write_all cannot tell
\* from refused ones, and which the next :w writes again.
WrittenOnce ==
  /\ (DeletesOf(deletes) \cup InsertsOf(inserts)) \cap written \subseteq unanswered
  /\ Cardinality(InsertsOf(inserts)) = Len(inserts)

\* Where rows were added the first rows of the grid are those rows, in the
\* order of inserts: on_added_row, commit_edit, show_added_row and
\* open_record take a row of the grid for the added row of the same number.
AddedRowsOnTop ==
  stage = "no" /\ headers /\ ~results =>
    /\ Len(inserts) <= Len(raw)
    /\ \A i \in DOMAIN inserts : raw[i].add = inserts[i].id /\ raw[i].key = inserts[i].key

\* The cursor is on a row of a grid that has rows: open_record takes that
\* row without looking whether it is there, whatever was loaded since.
CursorOnARow == raw # <<>> => row_index < Len(raw)

\* A record form opened on an added row saves to that very row, however
\* the grid is loaded meanwhile (save_record takes it by its place).
FormsAddedRow ==
  form.open /\ form.at # 0 => /\ form.at <= Len(inserts)
                              /\ inserts[form.at].id = form.row.add

\* On a connection marked read-only nothing is ever pending, so :w has
\* nothing to write (refuses_writes, why_read_only).
ReadOnlyIsNeverWritten == read_only => Pending = {} /\ written = {}

\* Every change is written to the table, the row and the column it was made
\* in: pending changes "are dropped when you change table, because a mark
\* means nothing in a table where that id is a different row" (README).
WritesGoWhereMade == astray = {}

\* For one reason a change is written elsewhere: it was made, or kept, while
\* the grid showed another table than the one the sidebar had selected; never
\* for rows that failed, were tried again, moved in the grid or are gone.
OnlyDoubtfulGoAstray == astray \subseteq doubtful

\* A value is kept in the row and the column its editor was opened on,
\* although commit_edit takes those of the cursor; unless the editor was
\* opened before a queued load was done, which then comes under it.
CommitsWhereOpened == ~moved

\* ":w writes them, all in one transaction" (README): when a write fails,
\* nothing of what was pending is written.
AllOrNothing == problem # "none" => wrote = {}

\* "No row has ... any more, so nothing was written" (write_all): no value
\* of the changed row that this is said of was written.
NothingWrittenIsTrue ==
  problem = "gone" /\ updates # <<>> => {v.id : v \in ToSet(updates[1].columns)} \cap wrote = {}

-----------------------------------------------------------------------------
(* What a step may do                                                      *)

\* When :w says what it wrote, it wrote all that was pending, and nothing
\* is pending any more (write_pending).
SaidStep == stage = "writing" /\ stage' = "no" => attempt \subseteq wrote /\ Pending' = {}
SaidIsWritten == [][SaidStep]_vars

=============================================================================
