-------------------------------- MODULE Rows --------------------------------
(***************************************************************************)
(* The rows of one table: the order each driver asks for them in, the pages *)
(* the browser turns and the total it shows of them (src/app/tui/browser/   *)
(* loading.rs), the export that reads them in chunks (src/app/database/     *)
(* exporter.rs) and the statements that change the rows marked.  A server   *)
(* answers each statement in any order that fits its "order by".            *)
(***************************************************************************)
EXTENDS Naturals, FiniteSets, Sequences, SequencesExt

CONSTANTS
  Drivers,    \* those looked at: kind, whether the table has a key, repeats it, is hard to compare, and how often its rows are loaded and written
  Page,       \* PAGE and CHUNK
  Past,       \* ESTIMATED_PAST: from where on an estimate will do
  Values      \* what a cell may be changed to

VARIABLES
  table,    \* the rows: k is the column of the primary key, v another, 0 for null
  driver,   \* one of them
  browser,  \* the page shown and how it was asked for
  export,   \* the export under way
  past      \* what was seen since the first page, what :w wrote since the last load, and whether others wrote

\* What is looked at are drivers and tables there are, and a key tells rows apart where it must
TablesFit ==
  /\ Page \in Nat \ {0} /\ Past \in Nat /\ Values \subseteq Nat
  /\ Drivers \subseteq [kind : {"mysql", "postgres", "sqlserver", "sqlite", "libsql", "duckdb", "clickhouse", "snowflake"},
                       keyed : BOOLEAN, repeats : BOOLEAN, rough : BOOLEAN, loads : Nat, writes : Nat]
  /\ \A d \in Drivers : d.keyed /\ d.repeats => d.kind \in {"clickhouse", "snowflake"}

rowVars == <<table, driver, browser, export, past>>

NoSort == [column |-> "none", descending |-> FALSE]
By(column) == [column |-> column, descending |-> FALSE]
Filters == {"all", "v is not empty"}
Exact(n) == [exact |-> TRUE, n |-> n]
About(n) == [exact |-> FALSE, n |-> n]
NoTotal == [exact |-> FALSE, n |-> 0]
Lenient == {"clickhouse", "snowflake"}   \* whose keys need not be unique

-----------------------------------------------------------------------------
\* Statements

\* Filters::condition
Fits(filter, row) ==
  CASE filter = "all" -> TRUE
    [] filter = "v is not empty" -> row.v # 0
Matching(filter) == {i \in DOMAIN table : Fits(filter, table[i])}

Before(a, b, by) == IF by.descending THEN b[by.column] < a[by.column] ELSE a[by.column] < b[by.column]
\* a may come before b
Ordered(a, b, order) ==
  \A n \in 1..Len(order) :
    Before(b, a, order[n]) => \E m \in 1..n - 1 : Before(a, b, order[m])
Answers(ids, order) ==
  {s \in SetToSeqs(ids) : \A i, j \in 1..Len(s) : i < j => Ordered(table[s[i]], table[s[j]], order)}

Only(sort) == IF sort = NoSort THEN <<>> ELSE <<sort>>
KeyOrder == IF driver.keyed THEN <<By("k")>> ELSE <<>>

\* filtered_rows: the sort and nothing else
MySqlOrder(sort) == Only(sort)
PostgresOrder(sort) == Only(sort)
SqlServerOrder(sort) == Only(sort)
SqliteOrder(sort) == Only(sort)
LibsqlOrder(sort) == Only(sort)
DuckOrder(sort) == Only(sort)
\* ClickHouse adds the sorting key and every column it can compare
ClickHousePaging == KeyOrder \o <<By("k")>> \o (IF driver.rough THEN <<>> ELSE <<By("v")>>)
ClickHouseOrder(sort) == Only(sort) \o ClickHousePaging
\* Snowflake adds the columns of the primary key, without the one sorted by
SnowflakePaging == KeyOrder
SnowflakeOrder(sort) == Only(sort) \o SelectSeq(SnowflakePaging, LAMBDA by : by.column # sort.column)

Order(sort) ==
  CASE driver.kind = "mysql" -> MySqlOrder(sort)
    [] driver.kind = "postgres" -> PostgresOrder(sort)
    [] driver.kind = "sqlserver" -> SqlServerOrder(sort)
    [] driver.kind = "sqlite" -> SqliteOrder(sort)
    [] driver.kind = "libsql" -> LibsqlOrder(sort)
    [] driver.kind = "duckdb" -> DuckOrder(sort)
    [] driver.kind = "clickhouse" -> ClickHouseOrder(sort)
    [] driver.kind = "snowflake" -> SnowflakeOrder(sort)

\* estimated_rows of MySQL, Postgres, SQL Server, ClickHouse and Snowflake: what the server's
\* statistics say, which may be anything; the files have none
Estimates ==
  IF driver.kind \in {"sqlite", "libsql", "duckdb"} THEN {NoTotal}
  ELSE {NoTotal, About(1), About(Past)}

\* Whether no two rows of the table could come in either order
Total(order) ==
  \A i, j \in DOMAIN table : i # j => \E n \in 1..Len(order) : table[i][order[n].column] # table[j][order[n].column]

-----------------------------------------------------------------------------
Init ==
  /\ driver \in Drivers
  /\ table = IF driver.repeats
             THEN <<[k |-> 1, v |-> 1], [k |-> 1, v |-> 2], [k |-> 2, v |-> 1]>>
             ELSE <<[k |-> 1, v |-> 1], [k |-> 2, v |-> 0]>>
  /\ browser = [offset |-> 0, sort |-> NoSort, filter |-> "all", shown |-> <<>>, more |-> FALSE,
                total |-> NoTotal, counted |-> "none", turning |-> FALSE]
  /\ export = [on |-> FALSE, rows |-> <<>>, limit |-> 0, quiet |-> TRUE, whole |-> TRUE]
  /\ past = [seen |-> <<>>, quiet |-> TRUE, stale |-> FALSE, hit |-> {}, meant |-> {}, changed |-> {}, deleted |-> {}, twice |-> FALSE, loads |-> 0, writes |-> 0]

DefaultSort == IF driver.keyed THEN By("k") ELSE NoSort

\* counted_total: an estimate when there is no filter and it is large, else the rows are counted,
\* which may be refused
CountedTotal(filter) ==
  {NoTotal} \cup
  {IF e # NoTotal /\ e.n >= Past THEN e ELSE Exact(Cardinality(Matching(filter))) :
     e \in IF filter = "all" THEN Estimates ELSE {NoTotal}}

\* count_total: turning pages of one filter keeps the total
CountTotalKeeping(b, fetched) ==
  IF ~b.more THEN {Exact(b.offset + fetched)}
  ELSE IF b.turning /\ b.total # NoTotal THEN {b.total} ELSE CountedTotal(b.filter)

CountTotal(b, fetched) ==
  IF ~b.more THEN {Exact(b.offset + fetched)}
  ELSE IF b.turning /\ b.counted = b.filter /\ b.total # NoTotal THEN {b.total} ELSE CountedTotal(b.filter)

\* As many of the rows as there are
Taken(rows, from, n) == SubSeq(rows, from, IF from + n - 1 < Len(rows) THEN from + n - 1 ELSE Len(rows))

\* load: one row more than a page tells whether there are more
Answered(b, rows) ==
  LET asked == Taken(rows, b.offset + 1, Page + 1)
      shown == Taken(asked, 1, Page)
      b1 == [b EXCEPT !.shown = [i \in 1..Len(shown) |-> [id |-> shown[i], row |-> table[shown[i]]]],
                      !.more = Len(asked) > Page]
  IN  {[b1 EXCEPT !.total = total, !.counted = b.filter, !.turning = FALSE] : total \in CountTotal(b1, Len(shown))}

Load(b, first) ==
  /\ past.loads < driver.loads /\ ~export.on
  /\ LET b1 == [b EXCEPT !.sort = IF @ = NoSort THEN DefaultSort ELSE @] IN
     \/ \E rows \in Answers(Matching(b1.filter), Order(b1.sort)) :
          /\ browser' \in Answered(b1, rows)
          /\ LET ids == [i \in 1..Len(browser'.shown) |-> browser'.shown[i].id] IN
             past' = [past EXCEPT !.loads = @ + 1, !.hit = {}, !.meant = {}, !.changed = {}, !.deleted = {},
                        !.twice = FALSE, !.quiet = first \/ @,
                        !.stale = (ids = <<>> /\ b.offset > 0) \/ (@ /\ b.turning /\ browser'.more),
                        !.seen = IF ~Total(Order(b1.sort)) THEN <<>> ELSE IF first THEN ids
                                 ELSE IF @ # <<>> /\ b.offset > browser.offset THEN @ \o ids ELSE <<>>]
     \/ /\ browser' = [b1 EXCEPT !.shown = <<>>]                       \* it is refused
        /\ past' = [past EXCEPT !.loads = @ + 1, !.seen = <<>>, !.hit = {}, !.meant = {},
                        !.changed = {}, !.deleted = {}, !.twice = FALSE]
  /\ UNCHANGED <<table, driver, export>>

Reload == Load(browser, browser.offset = 0)

\* page
Turn(forward) ==
  /\ IF forward THEN browser.more ELSE browser.offset > 0
  /\ LET offset == IF forward THEN browser.offset + Page ELSE IF browser.offset > Page THEN browser.offset - Page ELSE 0 IN
     Load([browser EXCEPT !.offset = offset, !.turning = TRUE], offset = 0)

\* sort_by: ascending, descending, and the default again
SortBy(column) ==
  Load([browser EXCEPT !.offset = 0,
          !.sort = IF @ = By(column) THEN [column |-> column, descending |-> TRUE]
                   ELSE IF @.column = column THEN DefaultSort ELSE By(column)], TRUE)

FilterBy(filter) ==
  filter # browser.filter /\ Load([browser EXCEPT !.offset = 0, !.filter = filter], TRUE)

-----------------------------------------------------------------------------
\* Changes of the rows marked, which are named by key, or by all that can be compared of a row

Key(rows) == {i \in DOMAIN table : \E r \in rows : table[i].k = r.row.k}
\* row_matched: a null is told by "is null" whatever the type
Unmatched(r) == driver.rough /\ r.row.v # 0
ClickHouseMatched(r) == {i \in DOMAIN table : table[i].k = r.row.k /\ (Unmatched(r) \/ table[i].v = r.row.v)}
SnowflakeMatched(r) == {i \in DOMAIN table : table[i].k = r.row.k /\ (Unmatched(r) \/ table[i].v = r.row.v)}

Named(rows) ==
  IF driver.keyed THEN Key(rows)
  ELSE IF driver.kind = "clickhouse" THEN UNION {ClickHouseMatched(r) : r \in rows}
  ELSE UNION {SnowflakeMatched(r) : r \in rows}

\* update and delete: what the condition reaches
MySqlChanges(ids, most) == ids
PostgresChanges(ids, most) == ids
SqlServerChanges(ids, most) == ids
SqliteChanges(ids, most) == ids
LibsqlChanges(ids, most) == ids
DuckChanges(ids, most) == ids
\* mutated: nothing when more rows match than were meant
ClickHouseChanges(ids, most) == IF Cardinality(ids) > most THEN {} ELSE ids
\* guarded: the transaction is rolled back when it reached more
SnowflakeChangesAll(ids, most) == ids
SnowflakeChanges(ids, most) == IF Cardinality(ids) > most THEN {} ELSE ids

Changes(ids, most) ==
  CASE driver.kind = "mysql" -> MySqlChanges(ids, most)
    [] driver.kind = "postgres" -> PostgresChanges(ids, most)
    [] driver.kind = "sqlserver" -> SqlServerChanges(ids, most)
    [] driver.kind = "sqlite" -> SqliteChanges(ids, most)
    [] driver.kind = "libsql" -> LibsqlChanges(ids, most)
    [] driver.kind = "duckdb" -> DuckChanges(ids, most)
    [] driver.kind = "clickhouse" -> ClickHouseChanges(ids, most)
    [] driver.kind = "snowflake" -> SnowflakeChanges(ids, most)

\* The server keeps the values of a key apart
KeyHolds(rows) ==
  driver.keyed /\ driver.kind \notin Lenient =>
    \A i, j \in DOMAIN rows : rows[i].k = rows[j].k => i = j
Put(row, column, value) == IF column = "k" THEN [row EXCEPT !.k = value] ELSE [row EXCEPT !.v = value]

\* Deleted by key all at once, by row one at a time; changed one at a time.  :w changes each row once,
\* then deletes each once, those it changed too, and loads after
Change(rows, deletes) ==
  /\ past.writes < driver.writes /\ rows # {} /\ (driver.keyed \/ driver.kind \in Lenient)
  /\ (deletes /\ driver.keyed) \/ Cardinality(rows) = 1
  /\ LET ids == {r.id : r \in rows}
         hit == Changes(Named(rows), Cardinality(rows)) IN
     /\ IF deletes /\ ~driver.keyed THEN ids \cap past.deleted = {} ELSE past.deleted = {}
     /\ IF deletes THEN table' = [i \in DOMAIN table \ hit |-> table[i]]
        ELSE /\ ids \cap past.changed = {}
             /\ \E column \in {"k", "v"}, value \in Values :
                  table' = [i \in DOMAIN table |-> IF i \in hit THEN Put(table[i], column, value) ELSE table[i]]
     /\ past' = [past EXCEPT !.writes = @ + 1, !.hit = hit, !.meant = ids, !.seen = <<>>, !.stale = TRUE,
                   !.changed = IF deletes THEN @ ELSE @ \cup ids, !.deleted = IF deletes THEN @ \cup ids ELSE @,
                   !.twice = @ \/ ids \cap past.changed # {}]
  /\ KeyHolds(table')
  /\ UNCHANGED <<driver, browser, export>>

OthersWrite ==
  /\ past.writes < driver.writes
  /\ \/ \E i \in DOMAIN table : table' = [j \in DOMAIN table \ {i} |-> table[j]]
     \/ 4 \notin DOMAIN table /\ table' = [j \in DOMAIN table \cup {4} |->
                                           IF j = 4 THEN [k |-> IF driver.kind \in Lenient THEN 1 ELSE 4, v |-> 0] ELSE table[j]]
  /\ KeyHolds(table')
  /\ past' = [past EXCEPT !.writes = @ + 1, !.quiet = FALSE, !.stale = TRUE, !.seen = <<>>]
  /\ export' = [export EXCEPT !.quiet = ~export.on]
  /\ UNCHANGED <<driver, browser>>

-----------------------------------------------------------------------------
\* Exporter::write_table

\* By the paging order of ClickHouse and Snowflake, else the columns of the primary key
ExportOrder ==
  IF driver.kind = "clickhouse" THEN ClickHousePaging
  ELSE IF driver.kind = "snowflake" /\ SnowflakePaging # <<>> THEN SnowflakePaging ELSE KeyOrder

StartExport(limit) ==
  /\ ~export.on /\ past.loads = 0
  /\ export' = [on |-> TRUE, rows |-> <<>>, limit |-> limit, quiet |-> TRUE, whole |-> TRUE]
  /\ UNCHANGED <<table, driver, browser, past>>

\* A chunk, from after those written, until there are none or as many as were asked for
ExportChunk ==
  /\ export.on
  /\ LET written == Len(export.rows)
         left == IF export.limit > written THEN export.limit - written ELSE 0
         take == IF export.limit = 0 \/ left > Page THEN Page ELSE left IN
     \E rows \in Answers(DOMAIN table, ExportOrder) :
       LET chunk == Taken(rows, written + 1, take) IN
       export' = IF chunk # <<>> THEN [export EXCEPT !.rows = @ \o chunk]
                 ELSE [export EXCEPT !.on = FALSE,
                         !.whole = export.quiet /\ Total(ExportOrder) =>
                                   /\ Cardinality({export.rows[i] : i \in 1..written}) = written
                                   /\ written \in {Cardinality(DOMAIN table), export.limit}]
  /\ UNCHANGED <<table, driver, browser, past>>

Next ==
  \/ Reload
  \/ \E forward \in BOOLEAN : Turn(forward)
  \/ browser.shown # <<>> /\ SortBy("v")
  \/ \E filter \in Filters : FilterBy(filter)
  \/ \E marked \in SUBSET {browser.shown[i] : i \in 1..Len(browser.shown)}, deletes \in BOOLEAN : Change(marked, deletes)
  \/ OthersWrite
  \/ \E limit \in {0, 1} : StartExport(limit)
  \/ ExportChunk

Spec == Init /\ [][Next]_rowVars

-----------------------------------------------------------------------------
\* While nobody else writes, the pages turned from the first one on hold no row twice, and every row
\* once the last is shown, when what they are ordered by tells all rows apart (a table without a key,
\* or sorted by another column, has no such order in most drivers)
PagesAreWhole ==
  Total(Order(browser.sort)) =>
    LET seen == {past.seen[i] : i \in 1..Len(past.seen)} IN
    /\ Cardinality(seen) = Len(past.seen)
    /\ past.seen # <<>> /\ ~browser.more => seen = Matching(browser.filter)

\* What a total says of the rows a filter leaves
Says(total, filter) ==
  IF total.exact THEN total.n = Cardinality(Matching(filter)) ELSE filter = "all" /\ total.n >= Past

\* The total is the number of rows the filter leaves, until rows were written that tql did not
\* count again, or pages that could not be turned led past the last row
TotalIsTrue ==
  ~past.stale /\ browser.total # NoTotal /\ browser.shown # <<>> => Says(browser.total, browser.filter)

\* A change reaches the rows that were marked and no other, while nobody else writes, unless a row
\* that :w has changed is deleted, which is looked for as it was
ChangesWhatWasMarked == past.quiet /\ ~past.twice => past.hit \subseteq past.meant

\* An export has every row once, or as many as were asked for, in the same case
ExportIsWhole == export.whole

RowsAreTrue == PagesAreWhole /\ TotalIsTrue /\ ChangesWhatWasMarked /\ ExportIsWhole
=============================================================================
