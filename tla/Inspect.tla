------------------------------ MODULE Inspect -------------------------------
(***************************************************************************)
(* The row inspector and the links between tables                          *)
(* (src/app/tui/browser/inspect.rs, src/app/tui/document.rs,                *)
(* src/app/tui/browser/links.rs, src/app/tui/schema.rs,                     *)
(* src/app/database/schema.rs): a row, the rows of other tables that its    *)
(* keys lead to and that lead to it, counted when it opens and loaded when  *)
(* they are unfolded; and the grid, which follows a key and comes back.     *)
(* Other clients change the rows meanwhile, and lookups fail.               *)
(***************************************************************************)
EXTENDS Naturals, Sequences, SequencesExt, FiniteSets, FiniteSetsExt

CONSTANTS
  Tables,    \* a sequence, as they are listed
  Columns,   \* of each table: a sequence
  Keys,      \* of each table: its keys of one column, a sequence of [column, table, references]
  Uniques,   \* of each table: its columns with an index of their own that is unique
  Plumbing,  \* columns that carry no data: an id, when it was made or changed
  FirstData, \* of each table its rows, each a function from column to value, "" for null
  Hidden,    \* tables that are listed and must not be read
  Limit,     \* inspect_related
  Page,      \* rows of a page
  Rooms,     \* how many steps of each kind: browse, keys, moves, others
  MaxLevels

VARIABLES
  data,   \* the rows of each table, and whether the server answers
  grid,   \* what is browsed, with the way back
  schema, \* what is remembered of tables, keys and indexes
  modal,  \* the inspector: its levels, and where a selection began
  so      \* what was pressed, and what has come between

inspectVars == <<data, grid, schema, modal, so>>

None == <<>>
Put(f, k, v) == [x \in DOMAIN f \cup {k} |-> IF x = k THEN v ELSE f[x]]
Least(m, n) == IF m < n THEN m ELSE n
First(s, n) == SubSeq(s, 1, Least(n, Len(s)))
ValueIn(row, column) == IF column \in DOMAIN row THEN row[column] ELSE ""
Readable(t) == data.up /\ t \notin Hidden

-----------------------------------------------------------------------------
\* What is remembered; a lookup that fails is remembered as one that found nothing

Forgotten == [links |-> None, columns |-> << >>, indexes |-> << >>, referenced |-> << >>]
LearnLinks(s) == IF s.links # None THEN s ELSE [s EXCEPT !.links = <<IF data.up THEN Keys ELSE [t \in Range(Tables) |-> <<>>]>>]
LinksOf(s, t) == s.links[1][t]
Looked(cache, tables, truth) ==
  [t \in DOMAIN cache \cup tables |-> IF t \in DOMAIN cache THEN cache[t] ELSE IF data.up THEN truth[t] ELSE {}]
ColumnSets == [t \in Range(Tables) |-> Range(Columns[t])]

\* Links from other tables to it, in the order of the tables
BackLinks(s, t) ==
  FlattenSeq([i \in DOMAIN Tables |->
    IF Tables[i] = t THEN <<>>
    ELSE LET to == SelectSeq(LinksOf(s, Tables[i]), LAMBDA k : k.table = t)
         IN [j \in DOMAIN to |-> [table |-> Tables[i], column |-> to[j].column, references |-> to[j].references,
                                  unique |-> to[j].column \in s.indexes[Tables[i]]]]])
Linking(s, t) == {x \in Range(Tables) \ {t} : \E k \in Range(LinksOf(s, x)) : k.table = t}
Indexed(s, t) == [s EXCEPT !.indexes = Looked(@, Linking(s, t), Uniques)]
ReferencedBy(s, t) ==
  IF t \in DOMAIN s.referenced THEN s
  ELSE LET i == Indexed(s, t) IN [i EXCEPT !.referenced = Put(@, t, BackLinks(i, t))]

\* A table of two keys and no data of its own is read through to the table of the other key
PivotShaped(s, link) == Len(LinksOf(s, link.table)) = 2 /\ \E k \in Range(LinksOf(s, link.table)) : k.column # link.column
FarKey(s, link) == SelectSeq(LinksOf(s, link.table), LAMBDA k : k.column # link.column)[1]
CarriesData(s, t) == \E c \in s.columns[t] : c \notin Plumbing /\ \A k \in Range(LinksOf(s, t)) : k.column # c
Pivot(s, link) == PivotShaped(s, link) /\ ~CarriesData(s, link.table)
Pivots(s, back) == {link.table : link \in {l \in Range(back) : PivotShaped(s, l)}}

IdsToHide(s, t, on) == {on} \cup {k.column : k \in Range(LinksOf(s, t))}

\* All that opening a row of a table looks up
SchemaFor(s, t) ==
  LET r == ReferencedBy(LearnLinks(s), t)
  IN [r EXCEPT !.columns = Looked(@, {t} \cup Pivots(r, r.referenced[t]), ColumnSets)]

-----------------------------------------------------------------------------
\* What is related to a row

Where(t, column, value) == SelectSeq(data.rows[t], LAMBDA r : value # "" /\ r[column] = value)
Through(load) ==
  LET near == Where(load.pivot, load.joined, load.value)
  IN FlattenSeq([i \in DOMAIN near |-> Where(load.table, load.column, near[i][load.on])])
\* One more than the limit is asked for
Loaded(load) ==
  IF ~Readable(load.table) \/ (load.pivot # "" /\ ~Readable(load.pivot)) THEN <<>>
  ELSE First(IF load.pivot = "" THEN Where(load.table, load.column, load.value) ELSE Through(load), load.limit + 1)

From(table, column, value, limit) ==
  [table |-> table, column |-> column, value |-> value, limit |-> limit, pivot |-> "", joined |-> "", on |-> ""]
Planned(load, kind, hide, count) == [load |-> load, kind |-> kind, hide |-> hide, count |-> count]

ParentsOf(s, t, row) ==
  LET set == SelectSeq(LinksOf(s, t), LAMBDA k : ValueIn(row, k.column) # "")
  IN [i \in DOMAIN set |->
       LET load == From(set[i].table, set[i].references, row[set[i].column], 1)
       IN Planned(load, "belongs to", IdsToHide(s, set[i].table, set[i].references), <<load.table, load.column>>)]

ThroughOf(s, link, far, value) ==
  Planned([From(far.table, far.references, value, Limit) EXCEPT !.pivot = link.table, !.joined = link.column, !.on = far.column],
          "has many through", IdsToHide(s, far.table, far.references), <<link.table, link.column>>)
ChildOf(s, link, value) ==
  IF Pivot(s, link) THEN ThroughOf(s, link, FarKey(s, link), value)
  ELSE Planned(From(link.table, link.column, value, Limit), IF link.unique THEN "has one" ELSE "has many",
               IdsToHide(s, link.table, link.column), <<link.table, link.column>>)
ChildrenOf(s, t, row) ==
  LET set == SelectSeq(s.referenced[t], LAMBDA link : ValueIn(row, link.references) # "")
  IN [i \in DOMAIN set |-> ChildOf(s, set[i], row[set[i].references])]

\* A mutant of PlanOver: all of them stay
PlanAppended(plans, p) == Append(plans, p)

\* One of each table: the last takes the place of those before it
PlanOver(plans, p) ==
  LET i == SelectInSeq(plans, LAMBDA x : x.load.table = p.load.table) IN IF i = 0 THEN Append(plans, p) ELSE [plans EXCEPT ![i] = p]
PlanOf(plans) == FoldLeft(PlanOver, <<>>, plans)

\* Counted in one statement, or each on its own when that fails; NoTotal where it cannot be
NoTotal == 99
CountOf(p) == IF Readable(p.count[1]) THEN Len(Where(p.count[1], p.count[2], p.load.value)) ELSE NoTotal
Relation(p, total) ==
  [load |-> p.load, kind |-> p.kind, hide |-> p.hide, total |-> total, shown |-> IF total = NoTotal THEN p.load.limit ELSE Least(p.load.limit, total),
   loaded |-> FALSE, rows |-> <<>>, sure |-> FALSE]
Counted(plans) ==
  LET there == SelectSeq(plans, LAMBDA p : CountOf(p) # 0) IN [i \in DOMAIN there |-> Relation(there[i], CountOf(there[i]))]
Relations(s, t, row) == IF Limit < 1 THEN <<>> ELSE Counted(PlanOf(ParentsOf(s, t, row) \o ChildrenOf(s, t, row)))

-----------------------------------------------------------------------------
\* The document: its lines.  Relations are folded at first; the boxes stay open, as their headings
\* are never under the cursor.

DocLine(section, is) == [section |-> section, is |-> is, table |-> "", row |-> 0, shows |-> << >>]
One(r) == r.kind \in {"belongs to", "has one"}
Visible(r) == SelectSeq(Columns[r.load.table], LAMBDA c : c \notin r.hide)
\* A mutant of RowLine: the line of the columns is counted as a row
RowLineBelow(r, i, row) == [section |-> "related", is |-> "row", table |-> r.load.table, row |-> IF i < Len(r.rows) THEN i + 1 ELSE i, shows |-> row]
RowLine(r, i, row) == [section |-> "related", is |-> "row", table |-> r.load.table, row |-> i, shows |-> row]
Body(r) ==
  IF ~r.loaded THEN <<DocLine("related", "loading")>>
  ELSE IF One(r) /\ Len(r.rows) = 1 THEN [i \in DOMAIN Visible(r) |-> RowLine(r, 1, r.rows[1])]
  ELSE IF r.rows = <<>> \/ Visible(r) = <<>> THEN <<>>
  ELSE <<DocLine("related", "columns")>> \o [i \in DOMAIN r.rows |-> RowLine(r, i, r.rows[i])]
RelationLines(level, r) ==
  <<[DocLine("related", "relation") EXCEPT !.table = r.load.table]>> \o IF r.load.table \in level.folded THEN <<>> ELSE Body(r)
RecordLines(level) == [i \in DOMAIN level.headers |-> DocLine("record", level.headers[i])]
Lines(level) ==
  <<DocLine("record", "heading")>> \o RecordLines(level) \o
  IF level.related = <<>> THEN <<>>
  ELSE <<DocLine("related", "heading")>> \o FlattenSeq([i \in DOMAIN level.related |-> RelationLines(level, level.related[i])])
Stops(lines, sections) == SelectSeq([i \in DOMAIN lines |-> i], LAMBDA i : lines[i].section \in sections /\ lines[i].is # "heading")
SectionAt(lines, i) == IF i \in DOMAIN lines THEN lines[i].section ELSE "record"

\* Loaded one at a time while no key waits
Waiting(level) == SelectInSeq(level.related, LAMBDA r : ~r.loaded /\ r.load.table \notin level.folded)
Fill(r) ==
  LET rows == First(Loaded(r.load), Limit)
  IN [r EXCEPT !.rows = rows, !.loaded = TRUE, !.shown = IF r.total = NoTotal THEN Len(rows) ELSE @, !.sure = data.up]

OpenLevel(table, headers, row, related) ==
  [table |-> table, headers |-> headers, row |-> row, related |-> related, folded |-> {r.load.table : r \in Range(related)}, line |-> 2,
   at |-> so.changes, sure |-> data.up /\ ~so.blind /\ headers = Columns[table]]

-----------------------------------------------------------------------------
\* The grid: of `at` what is asked for, of `of` the rows that are shown

NoModal == [levels |-> <<>>, anchor |-> 0, shrunk |-> FALSE]
Filtered(t, filter) == IF filter = None THEN data.rows[t] ELSE Where(t, filter[1], filter[2])
From1(rows, offset) == SubSeq(rows, offset + 1, Len(rows))
Clamp(row, rows) == IF rows = <<>> THEN 1 ELSE Least(row, Len(rows))
LoadedGrid(g, rows, keep) ==
  [g EXCEPT !.of = g.at, !.headers = Columns[g.at], !.rows = First(rows, Page), !.more = Len(rows) > Page, !.pending = "",
            !.row = IF keep THEN Clamp(@, First(rows, Page)) ELSE 1, !.column = IF keep THEN Clamp(@, Columns[g.at]) ELSE 1]
Load(g, keep) ==
  IF Readable(g.at) THEN LoadedGrid(g, From1(Filtered(g.at, g.filter), g.offset), keep)
  ELSE [g EXCEPT !.headers = <<>>, !.rows = <<>>, !.pending = ""]
AtTable(t) ==
  [at |-> t, of |-> t, headers |-> <<>>, filter |-> None, offset |-> 0, rows |-> <<>>, row |-> 1, column |-> 1,
   pending |-> "top", more |-> FALSE, jumps |-> <<>>, picking |-> <<>>]

Init ==
  /\ data = [rows |-> FirstData, up |-> TRUE]
  /\ grid \in {AtTable(t) : t \in Range(Tables)} /\ schema = Forgotten /\ modal = NoModal
  /\ so \in [room : Rooms, changes : {0}, blind : {FALSE}, dead : {FALSE}, under : {FALSE}, did : {<<>>}]

Room(kind) == so.room[kind] > 0
Did(kind, did) == so' = [so EXCEPT !.room[kind] = @ - 1, !.blind = @ \/ ~data.up, !.did = did]
Alive == ~so.dead
Browsing == Alive /\ modal.levels = <<>> /\ grid.picking = <<>>
RowHere == IF grid.row \in DOMAIN grid.rows THEN grid.rows[grid.row] ELSE << >>
ColumnHere == IF grid.column \in DOMAIN grid.headers THEN grid.headers[grid.column] ELSE ""

MoveCursor ==
  /\ Browsing /\ Room("moves") /\ Did("moves", <<>>)
  /\ \E row \in DOMAIN grid.rows, column \in DOMAIN grid.headers : grid' = [grid EXCEPT !.row = row, !.column = column]
  /\ UNCHANGED <<data, schema, modal>>

\* Another table of the list: its rows come when tql is idle
SelectTable(t) ==
  /\ Browsing /\ t # grid.at /\ Room("browse") /\ Did("browse", <<>>)
  /\ grid' = [grid EXCEPT !.at = t, !.filter = None, !.offset = 0, !.pending = "top"] /\ UNCHANGED <<data, schema, modal>>
NextPage ==
  /\ Browsing /\ grid.more /\ Room("browse") /\ Did("browse", <<>>) /\ grid' = Load([grid EXCEPT !.offset = @ + Page], FALSE)
  /\ schema' = LearnLinks(schema) /\ UNCHANGED <<data, modal>>
Reload ==
  /\ Browsing /\ Room("browse") /\ so' = [so EXCEPT !.room.browse = @ - 1, !.blind = ~data.up, !.did = <<>>]
  /\ IF data.up THEN grid' = Load(grid, TRUE) /\ schema' = LearnLinks(Forgotten) ELSE schema' = Forgotten /\ UNCHANGED grid
  /\ UNCHANGED <<data, modal>>

IdleLoad ==
  /\ Alive /\ grid.pending # "" /\ (modal.levels # <<>> => Waiting(Last(modal.levels)) = 0)
  /\ grid' = Load(grid, grid.pending = "keep") /\ schema' = LearnLinks(schema)
  /\ so' = [so EXCEPT !.under = @ \/ modal.levels # <<>>, !.blind = @ \/ ~data.up, !.did = <<>>] /\ UNCHANGED <<data, modal>>

-----------------------------------------------------------------------------
\* Following a key, or one of those that lead here, and coming back

RememberJump ==
  Append(grid.jumps, [table |-> grid.at, filter |-> grid.filter, row |-> grid.row, was |-> RowHere, at |-> so.changes,
                      sure |-> grid.offset = 0 /\ grid.pending = "" /\ grid.rows = First(Filtered(grid.at, grid.filter), Page)])
OpenLinked(table, filter, jumps) ==
  Load([grid EXCEPT !.at = table, !.filter = filter, !.offset = 0, !.jumps = jumps, !.picking = <<>>], FALSE)

Follow(table, column, value) == OpenLinked(table, <<column, value>>, RememberJump)

OpenBackLink(g, link) == IF ValueIn(RowHere, link.references) = "" THEN g ELSE Follow(link.table, link.column, ValueIn(RowHere, link.references))
FollowBack(back) ==
  IF back = <<>> THEN grid ELSE IF Len(back) = 1 THEN OpenBackLink(grid, back[1]) ELSE [grid EXCEPT !.picking = back]
FollowLink ==
  LET s == LearnLinks(schema)
      link == SelectSeq(LinksOf(s, grid.at), LAMBDA k : k.column = ColumnHere)
      value == ValueIn(RowHere, ColumnHere)
      back == ReferencedBy(s, grid.at)
  IN /\ Browsing /\ Len(grid.jumps) < MaxLevels /\ Room("browse") /\ Did("browse", <<>>) /\ UNCHANGED <<data, modal>>
     /\ IF link = <<>> THEN schema' = back /\ grid' = FollowBack(back.referenced[grid.at])
        ELSE schema' = s /\ grid' = IF value = "" THEN grid ELSE Follow(link[1].table, link[1].references, value)

\* The one that is chosen of several, or none
TypeIntoLinkPicker ==
  /\ Alive /\ grid.picking # <<>> /\ UNCHANGED <<data, schema, modal>> /\ Room("browse") /\ Did("browse", <<>>)
  /\ \/ grid' = [grid EXCEPT !.picking = <<>>]
     \/ \E link \in Range(grid.picking) : grid' = OpenBackLink([grid EXCEPT !.picking = <<>>], link)

\* A mutant of JumpTo: to the first row
JumpToTop(jump) == OpenLinked(jump.table, jump.filter, Front(grid.jumps))
JumpTo(jump) == LET g == OpenLinked(jump.table, jump.filter, Front(grid.jumps)) IN [g EXCEPT !.row = Clamp(jump.row, g.rows)]
JumpBack ==
  LET jump == Last(grid.jumps)
      row == IF JumpTo(jump).row \in DOMAIN JumpTo(jump).rows THEN JumpTo(jump).rows[JumpTo(jump).row] ELSE << >>
  IN /\ Browsing /\ grid.jumps # <<>> /\ grid' = JumpTo(jump) /\ schema' = LearnLinks(schema) /\ UNCHANGED <<data, modal>>
     /\ Room("browse") /\ Did("browse", <<"back", jump.was, row, jump.sure /\ data.up /\ jump.at = so.changes>>)
ClearFilters ==
  /\ Browsing /\ grid.jumps = <<>> /\ grid.filter # None /\ Room("browse") /\ Did("browse", <<>>)
  /\ grid' = Load([grid EXCEPT !.filter = None, !.offset = 0], FALSE) /\ schema' = LearnLinks(schema) /\ UNCHANGED <<data, modal>>

-----------------------------------------------------------------------------
\* The inspector

Inspecting == Alive /\ modal.levels # <<>>
Level == Last(modal.levels)
Line == IF Level.line \in DOMAIN Lines(Level) THEN Lines(Level)[Level.line] ELSE DocLine("", "")
SetLevel(level) == [modal EXCEPT !.levels[Len(modal.levels)] = level, !.shrunk = @ \/ Len(Lines(level)) < Len(Lines(Level))]

InspectRow ==
  /\ Browsing /\ grid.row \in DOMAIN grid.rows /\ so' = [so EXCEPT !.blind = @ \/ ~data.up, !.did = <<>>] /\ schema' = SchemaFor(schema, grid.at)
  /\ modal' = [NoModal EXCEPT !.levels = <<OpenLevel(grid.at, grid.headers, RowHere, Relations(schema', grid.at, RowHere))>>]
  /\ UNCHANGED <<data, grid>>

LoadRelated ==
  /\ Inspecting /\ Waiting(Level) # 0
  /\ modal' = SetLevel([Level EXCEPT !.related[Waiting(Level)] = Fill(@)])
  /\ so' = [so EXCEPT !.did = <<>>] /\ UNCHANGED <<data, grid, schema>>

\* Up and down go round within a box
MoveWithin(stops, line, forward) ==
  LET at == IF SelectInSeq(stops, LAMBDA i : i = line) = 0 THEN 1 ELSE SelectInSeq(stops, LAMBDA i : i = line)
  IN IF stops = <<>> THEN line ELSE stops[IF forward THEN (at % Len(stops)) + 1 ELSE ((at + Len(stops) - 2) % Len(stops)) + 1]
FirstOf(stops, line) == IF stops = <<>> THEN line ELSE stops[1]
LineAfter(lines, line, key) ==
  LET here == SectionAt(lines, line)
  IN CASE key \in {"down", "up"} -> MoveWithin(Stops(lines, {here}), line, key = "down")
       [] key = "top" -> FirstOf(Stops(lines, {"record", "related"}), line)
       [] key = "bottom" -> IF Stops(lines, {"record", "related"}) = <<>> THEN line ELSE Last(Stops(lines, {"record", "related"}))
       [] key = "tab" -> FirstOf(Stops(lines, {IF here = "record" /\ line \in DOMAIN lines THEN "related" ELSE "record"}), line)
       [] OTHER -> line
Toggled(level, line) ==
  IF line.is # "relation" THEN level ELSE [level EXCEPT !.folded = IF line.table \in @ THEN @ \ {line.table} ELSE @ \cup {line.table}]
Clamped(level) == [level EXCEPT !.line = Least(@, Len(Lines(level)))]
Moves(key) ==
  SetLevel(Clamped(IF key = "enter" THEN Toggled(Level, Line) ELSE [Level EXCEPT !.line = LineAfter(Lines(Level), Level.line, key)]))

TypeIntoInspector(key) ==
  /\ Inspecting /\ Room(IF key = "enter" THEN "keys" ELSE "moves") /\ Did(IF key = "enter" THEN "keys" ELSE "moves", <<>>)
  /\ modal' = Moves(key) /\ UNCHANGED <<data, grid, schema>>

\* Where the selection began is kept as a number, whatever is folded since
ToggleSelection ==
  /\ Inspecting /\ Room("keys") /\ Did("keys", <<>>) /\ UNCHANGED <<data, grid, schema>>
  /\ modal' = [modal EXCEPT !.anchor = IF @ = 0 THEN Level.line ELSE 0, !.shrunk = Level.line > Len(Lines(Level))]
InspectorBack ==
  /\ Inspecting /\ so' = [so EXCEPT !.did = <<>>] /\ UNCHANGED <<data, grid, schema>>
  /\ modal' = IF modal.anchor # 0 THEN [modal EXCEPT !.anchor = 0]
              ELSE IF Len(modal.levels) > 1 THEN [modal EXCEPT !.levels = Front(@)] ELSE NoModal

\* From the first level alone; the column under the cursor is the one to edit
EditFromInspector ==
  LET at == SelectInSeq(grid.headers, LAMBDA c : c = Line.is)
      column == IF Line.section = "record" /\ at # 0 THEN at ELSE grid.column
  IN /\ Inspecting /\ Len(modal.levels) = 1 /\ Room("keys") /\ UNCHANGED <<data, schema>>
     /\ grid' = [grid EXCEPT !.column = column] /\ modal' = NoModal
     /\ so' = [so EXCEPT !.room.keys = @ - 1, !.under = FALSE,
                         !.did = IF so.under \/ grid.pending # "" THEN <<>> ELSE <<"edit", Level.row, RowHere, Line.is \in Range(grid.headers) => grid.headers[column] = Line.is>>]

\* The rows as they were loaded, by the place of the line among them
InspectRelatedRecord ==
  LET r == SelectSeq(Level.related, LAMBDA x : x.load.table = Line.table)[1]
  IN /\ Inspecting /\ Room("keys") /\ Len(modal.levels) < MaxLevels /\ Line.row # 0 /\ Did("keys", <<>>)
     /\ schema' = SchemaFor(schema, r.load.table)
     /\ modal' = [modal EXCEPT !.anchor = 0, !.levels = Append(@,
          OpenLevel(r.load.table, Columns[r.load.table], r.rows[Line.row], Relations(schema', r.load.table, r.rows[Line.row])))]
     /\ UNCHANGED <<data, grid>>

\* The lines of the selection, or all.  A selection over the end of the document ends tql.
Farther(m, n) == IF m < n THEN n ELSE m
YankDocument ==
  LET end == Farther(modal.anchor, Level.line)
  IN /\ Inspecting /\ Room("keys")
     /\ so' = [so EXCEPT !.room.keys = @ - 1, !.did = <<>>, !.dead = modal.anchor # 0 /\ end > Len(Lines(Level))]
     /\ modal' = [modal EXCEPT !.anchor = 0] /\ UNCHANGED <<data, grid, schema>>

-----------------------------------------------------------------------------
\* Keys hold: a row that another leads to is not deleted
Referenced(t, row) == \E x \in Range(Tables) : \E k \in Range(Keys[x]) : k.table = t /\ Where(x, k.column, row[k.references]) # <<>>
OthersDelete ==
  /\ Alive /\ Room("others") /\ so' = [so EXCEPT !.room.others = @ - 1, !.changes = @ + 1, !.did = <<>>]
  /\ \E t \in Range(Tables) : \E i \in DOMAIN data.rows[t] :
       ~Referenced(t, data.rows[t][i]) /\ data' = [data EXCEPT !.rows[t] = RemoveAt(@, i)]
  /\ UNCHANGED <<grid, schema, modal>>
Breaks ==
  /\ Alive /\ Room("others") /\ so' = [so EXCEPT !.room.others = @ - 1, !.did = <<>>]
  /\ data' = [data EXCEPT !.up = ~@] /\ UNCHANGED <<grid, schema, modal>>

Next ==
  \/ MoveCursor \/ NextPage \/ Reload \/ IdleLoad \/ FollowLink \/ TypeIntoLinkPicker \/ JumpBack \/ ClearFilters
  \/ \E t \in Range(Tables) : SelectTable(t)
  \/ InspectRow \/ LoadRelated \/ ToggleSelection \/ InspectorBack \/ EditFromInspector \/ InspectRelatedRecord \/ YankDocument
  \/ \E key \in {"down", "up", "top", "bottom", "tab", "enter"} : TypeIntoInspector(key)
  \/ OthersDelete \/ Breaks

Spec == Init /\ [][Next]_inspectVars

-----------------------------------------------------------------------------
\* The ways from a row of a table to another, told from the keys alone: by a key of it, by a key of
\* the other, or through a table that has two keys and no data
Joins(t) == Len(Keys[t]) = 2 /\ \A c \in Range(Columns[t]) : c \in Plumbing \/ \E k \in Range(Keys[t]) : k.column = c
Parents(t, row) == {[kind |-> "belongs to", table |-> k.table, rows |-> Where(k.table, k.references, ValueIn(row, k.column))] : k \in Range(Keys[t])}
Children(t, row) ==
  UNION {{[kind |-> IF k.column \in Uniques[x] THEN "has one" ELSE "has many", table |-> x, rows |-> Where(x, k.column, ValueIn(row, k.references))] :
          k \in {key \in Range(Keys[x]) : key.table = t}} : x \in {y \in Range(Tables) \ {t} : ~Joins(y)}}
FarRows(k, near) == FlattenSeq([i \in DOMAIN near |-> Where(k.table, k.references, near[i][k.column])])
Throughs(t, row) ==
  UNION {{[kind |-> "has many through", table |-> far.table, rows |-> FarRows(far, Where(x, near.column, ValueIn(row, near.references)))] :
          near \in {k \in Range(Keys[x]) : k.table = t}, far \in {k \in Range(Keys[x]) : \E o \in Range(Keys[x]) : o.table = t /\ o.column # k.column}}
         : x \in {y \in Range(Tables) \ {t} : Joins(y)}}
Ways(t, row) == Parents(t, row) \cup Children(t, row) \cup Throughs(t, row)

\* While nothing changes and every lookup was answered: a relation is one of the ways to its table,
\* its rows and its number are those of that way, there is one of each table, and a table to which
\* one way leads, to rows that can be read, is there
IsOneOf(r, ways) ==
  \E way \in ways :
    /\ way.kind = r.kind /\ way.table = r.load.table
    /\ r.total \in {NoTotal, Len(way.rows)} /\ r.total # 0
    /\ r.loaded /\ r.sure /\ Readable(r.load.table) => r.rows = First(way.rows, Limit) /\ r.shown = Len(r.rows)
AllAreThere(related, ways) ==
  \A way \in ways : way.rows # <<>> /\ (\A other \in ways : other.table = way.table => other = way) =>
    \E r \in Range(related) : r.load.table = way.table
RelatedIsTrue ==
  \A i \in DOMAIN modal.levels : LET level == modal.levels[i] IN
    level.sure /\ level.at = so.changes =>
      /\ \A r \in Range(level.related) : IsOneOf(r, Ways(level.table, level.row))
      /\ \A j, k \in DOMAIN level.related : level.related[j].load.table = level.related[k].load.table => j = k
      /\ AllAreThere(level.related, Ways(level.table, level.row))

\* A record that was opened from another is the one its line shows, which is there still when one comes back
OpenedIsTheLine ==
  \A i \in 2..Len(modal.levels) : LET below == modal.levels[i - 1] IN
    /\ below.line \in DOMAIN Lines(below)
    /\ Lines(below)[below.line].shows = modal.levels[i].row /\ Lines(below)[below.line].table = modal.levels[i].table

\* The cursor and the selection are in the document unless it became shorter under them
SelectionIsInside == (so.dead => modal.shrunk) /\ (Inspecting /\ ~modal.shrunk => Farther(modal.anchor, Level.line) <= Len(Lines(Level)))

\* What is edited is the row and the field that the inspector showed, and back is where one was
EditedIsShown == so.did # <<>> /\ so.did[1] = "edit" => so.did[2] = so.did[3] /\ so.did[4]
BackIsBack == so.did # <<>> /\ so.did[1] = "back" /\ so.did[4] => so.did[2] = so.did[3]

InspectorIsTrue == RelatedIsTrue /\ OpenedIsTheLine /\ SelectionIsInside /\ EditedIsShown /\ BackIsBack
=============================================================================
