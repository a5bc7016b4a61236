------------------------------- MODULE Forms --------------------------------
(***************************************************************************)
(* The forms over the grid: a row in the record form                       *)
(* (src/app/tui/record_form.rs, src/app/tui/browser/editing/record.rs), a   *)
(* value in the value editor (src/app/tui/browser/editing/value.rs) and the *)
(* filters (src/app/tui/filters.rs, src/app/tui/choice.rs,                  *)
(* src/app/tui/browser/filters.rs, src/app/database/filters.rs), from the   *)
(* keys typed into them to what is pending, written and shown, while others *)
(* change the same rows.  A text is a sequence of characters; a value is    *)
(* <<text>>, or <<>> for null; names are sequences of words.                *)
(***************************************************************************)
EXTENDS Naturals, Sequences, SequencesExt, FiniteSets, FiniteSetsExt

CONSTANTS
  Columns,   \* a sequence of [name, integer, nullable, auto, default]; the first is the key
  FirstRows, \* the rows: each a function from a column's name to its value
  Letters,   \* the characters, in their order
  Numbers,   \* the texts of the numbers, in their order
  Compact,   \* of each text that is JSON, the same without spaces
  Room,      \* how much of a value its line has room for
  Contested, \* the columns that others write to
  Kits       \* what is connected to, the keys pressed in one step, how often, and how often others write

VARIABLES
  table, \* the rows, whether the server answers, and its driver
  tql,   \* the grid, what is pending, and the forms
  past   \* what can be pressed, how often still, how often others write still, and what was pressed last

formVars == <<table, tql, past>>

None == <<>>
Least(m, n) == IF m < n THEN m ELSE n
Less(m, n) == IF m > n THEN m - n ELSE 0
Put(f, k, v) == [x \in DOMAIN f \cup {k} |-> IF x = k THEN v ELSE f[x]]
Without(f, k) == [x \in DOMAIN f \ {k} |-> f[x]]
Names == [i \in DOMAIN Columns |-> Columns[i].name]
Key == Columns[1].name
ColumnNamed(name) == CHOOSE c \in Range(Columns) : c.name = name

-----------------------------------------------------------------------------
\* An editor of one text: the keys it knows

Holding(text) == [text |-> text, cursor |-> Len(text)]
Handle(e, key) ==
  CASE key = "Backspace" -> IF e.cursor = 0 THEN e ELSE [text |-> RemoveAt(e.text, e.cursor), cursor |-> e.cursor - 1]
    [] key = "Delete" -> IF e.cursor = Len(e.text) THEN e ELSE [e EXCEPT !.text = RemoveAt(@, e.cursor + 1)]
    [] key = "Left" -> [e EXCEPT !.cursor = Less(@, 1)]
    [] key = "Right" -> [e EXCEPT !.cursor = Least(@ + 1, Len(e.text))]
    [] key = "Home" -> [e EXCEPT !.cursor = 0]
    [] key = "End" -> [e EXCEPT !.cursor = Len(e.text)]
    [] key \in Range(Letters) -> [text |-> InsertAt(e.text, e.cursor + 1, key), cursor |-> e.cursor + 1]
    [] OTHER -> e

-----------------------------------------------------------------------------
\* What a default is taken for, from how the database words it

Word(c) == c.default[1]
\* A mutant of ReadDefault: a name in double quotes is text everywhere
ReadQuoted(c, driver) ==
  CASE c.default = None \/ Word(c).is = "null" -> [is |-> "none"]
    [] Word(c).is = "time" -> [is |-> "now"]
    [] Word(c).is \in {"quoted", "double quoted", "number"} -> [is |-> "value", text |-> Word(c).text]
    [] OTHER -> [is |-> "expression"]
ReadDefault(c, driver) ==
  CASE c.default = None \/ Word(c).is = "null" -> [is |-> "none"]
    [] Word(c).is = "time" -> [is |-> "now"]
    [] Word(c).is \in {"quoted", "number"} \/ (Word(c).is = "double quoted" /\ driver \in {"sqlite", "libsql"})
       \/ (Word(c).is # "call" /\ driver = "mysql") -> [is |-> "value", text |-> Word(c).text]
    [] OTHER -> [is |-> "expression"]
Now == <<"now()">>
Moment == <<"12:00">>
Asked(text) == SelectSeq(text, LAMBDA ch : ch # " ") = Now
AtOnce(value) == IF value # None /\ Asked(value[1]) THEN <<Moment>> ELSE value
Json(text) == text \in DOMAIN Compact

\* Columns the database fills, and the key it does not give out
Generated == {c.name : c \in {d \in Range(Columns) : d.auto \/ (table.driver \in {"sqlite", "libsql"} /\ d.name = Key /\ d.integer)}}
Highest == Max({0} \cup {i \in DOMAIN Numbers : \E row \in Range(table.rows) : row[Key] = <<Numbers[i]>>})
SuggestedKey ==
  IF Key \notin Generated /\ ~Columns[1].nullable /\ Columns[1].default = None /\ Columns[1].integer /\ table.up
  THEN [n \in {Key} |-> <<Numbers[Highest + 1]>>] ELSE << >>

-----------------------------------------------------------------------------
\* The record form

Form(kind, values, at, key, index) ==
  [kind |-> kind, fields |-> IF table.up THEN Names ELSE <<>>, values |-> values, initial |-> values, at |-> at, key |-> key,
   index |-> index, editor |-> None, expanded |-> FALSE, json |-> FALSE, discarding |-> FALSE]
Fillable(c) == ReadDefault(c, table.driver).is \in {"value", "now"} /\ c.name \notin Generated
FilledWith(c) == IF ReadDefault(c, table.driver).is = "now" THEN <<Now>> ELSE <<ReadDefault(c, table.driver).text>>
Filling(given) ==
  [n \in DOMAIN given \cup {c.name : c \in {d \in Range(Columns) : Fillable(d)}} |->
    IF n \in DOMAIN given THEN given[n] ELSE FilledWith(ColumnNamed(n))]
Adding ==
  LET given == SuggestedKey
      yours == SelectInSeq(Names, LAMBDA n : n \notin Generated /\ n \notin DOMAIN given)
  IN Form("new", IF table.up THEN Filling(given) ELSE << >>, 0, None, IF yours = 0 THEN 1 ELSE yours)

Adds(f) == f.key = None
Name(f) == f.fields[f.index]
Changed(f, n) == (n \in DOMAIN f.values) # (n \in DOMAIN f.initial) \/ (n \in DOMAIN f.values /\ f.values[n] # f.initial[n])
Dirty(f) == \E n \in Range(f.fields) : Changed(f, n)
ReadOnlyField(f) == f.kind = "row" /\ Name(f) = Key
MoveBy(f, step) ==
  [f EXCEPT !.index = IF f.fields = <<>> THEN 1 ELSE IF step = "forward" THEN Least(@ + 1, Len(f.fields)) ELSE IF @ = 1 THEN 1 ELSE @ - 1]
TextOf(f) == IF Name(f) \in DOMAIN f.values /\ f.values[Name(f)] # None THEN f.values[Name(f)][1] ELSE <<>>
Start(f) ==
  IF ReadOnlyField(f) THEN f
  ELSE [f EXCEPT !.editor = <<[Holding(TextOf(f)) EXCEPT !.cursor = IF Json(TextOf(f)) THEN 0 ELSE @]>>,
                 !.json = Json(TextOf(f)), !.expanded = Json(TextOf(f)) \/ "nl" \in Range(TextOf(f)) \/ Len(TextOf(f)) >= Room]
Abandon(f) == [f EXCEPT !.editor = None, !.expanded = FALSE, !.json = FALSE]
\* JSON that is not valid any more stays in the editor
Keeps(f) == f.editor = None \/ (f.json => Json(f.editor[1].text))
\* A mutant of Keep: JSON stays as it was typed
KeepAsTyped(f) == IF f.editor = None \/ ~Keeps(f) THEN f ELSE Abandon([f EXCEPT !.values = Put(@, Name(f), <<f.editor[1].text>>)])
Keep(f) ==
  IF f.editor = None \/ ~Keeps(f) THEN f
  ELSE Abandon([f EXCEPT !.values = Put(@, Name(f), <<IF f.json THEN Compact[f.editor[1].text] ELSE f.editor[1].text>>)])
SetNull(f) ==
  IF ReadOnlyField(f) \/ ~ColumnNamed(Name(f)).nullable THEN f ELSE [f EXCEPT !.values = Put(@, Name(f), None)]
Reset(f) ==
  IF Name(f) \in DOMAIN f.initial /\ ~Adds(f) THEN [f EXCEPT !.values = Put(@, Name(f), f.initial[Name(f)])]
  ELSE [f EXCEPT !.values = Without(@, Name(f))]
\* A mutant of ValuesOf: all fields of a row
ValuesAll(f) == [n \in DOMAIN f.values |-> AtOnce(f.values[n])]
\* What is kept: of a row only what was changed
ValuesOf(f) == [n \in {m \in DOMAIN f.values : Adds(f) \/ Changed(f, m)} |-> AtOnce(f.values[n])]

-----------------------------------------------------------------------------
\* The grid: added rows first, then those of the table; pending changes by the key

OnAdded(t) == t.row \in DOMAIN t.inserts
RowAt(t, i) == t.rows[i - Len(t.inserts)]
Lines(t) == IF t.read THEN Len(t.inserts) + Len(t.rows) ELSE 0
UpdateOf(t, key) == IF key \in DOMAIN t.updates THEN t.updates[key] ELSE << >>
Overlaid(row, update) == [n \in DOMAIN row |-> IF n \in DOMAIN update THEN update[n] ELSE row[n]]
PutAll(f, g) == [n \in DOMAIN f \cup DOMAIN g |-> IF n \in DOMAIN g THEN g[n] ELSE f[n]]
Update(t, key, values) == [t EXCEPT !.updates = Put(@, key, PutAll(UpdateOf(t, key), values))]

OpenRecord(t) ==
  IF Lines(t) = 0 THEN t
  ELSE IF OnAdded(t) THEN [t EXCEPT !.form = <<Form("pending", t.inserts[t.row], t.row, None, t.column)>>]
  ELSE LET row == RowAt(t, t.row) key == row[Key]
           shown == Overlaid(row, UpdateOf(t, IF key = None THEN <<>> ELSE key[1]))
       IN [t EXCEPT !.form = <<Form("row", IF table.up THEN shown ELSE << >>, 0, shown[Key], t.column)>>]

SaveRecord(t) ==
  LET f == Keep(t.form[1])
      values == ValuesOf(f)
      closed == [t EXCEPT !.form = None]
  IN CASE ~Keeps(t.form[1]) -> t
       [] f.kind = "pending" -> [closed EXCEPT !.inserts[f.at] = values]
       [] f.kind # "pending" /\ Adds(f) -> [closed EXCEPT !.inserts = <<values>> \o @, !.row = 1]
       [] OTHER -> IF values = << >> THEN closed ELSE Update(closed, f.key[1], values)
\* A mutant of CloseRecord: thrown away at once
CloseAtOnce(t) == [t EXCEPT !.form = None]
\* Thrown away only when it is asked for twice
CloseRecord(t) ==
  IF Dirty(t.form[1]) /\ ~t.form[1].discarding THEN [t EXCEPT !.form[1].discarding = TRUE] ELSE [t EXCEPT !.form = None]

\* A form without fields has no current one: tql ends
ChangeField(t, key) ==
  IF t.form[1].fields = <<>> THEN [t EXCEPT !.dead = TRUE]
  ELSE [t EXCEPT !.form[1] = IF key = "Enter" THEN Start(@) ELSE IF key = "Ctrl-n" THEN SetNull(@) ELSE Reset(@)]
Undecided(f, key) == IF key = "Escape" THEN f ELSE [f EXCEPT !.discarding = FALSE]
InForm(t, key) ==
  CASE key = "Escape" -> CloseRecord(t)
    [] key = "Ctrl-s" -> SaveRecord(t)
    [] key \in {"Up", "Down"} -> [t EXCEPT !.form[1] = MoveBy(@, IF key = "Down" THEN "forward" ELSE "back")]
    [] key \in {"Enter", "Ctrl-n", "Backspace"} -> ChangeField(t, key)
    [] OTHER -> t
Grown(f) == [f EXCEPT !.expanded = @ \/ "nl" \in Range(f.editor[1].text)]
Stepping(f) == {"Enter", "Tab"} \cup IF f.expanded THEN {} ELSE {"Down"}
SteppingBack(f) == {"BackTab"} \cup IF f.expanded THEN {} ELSE {"Up"}
Stepped(f, step) == IF Keeps(f) THEN MoveBy(Keep(f), step) ELSE f
InField(f, key) ==
  CASE key = "Escape" -> Abandon(f)
    [] key = "Ctrl-t" -> [f EXCEPT !.editor[1] = Holding(Moment)]
    [] key \in Stepping(f) -> Stepped(f, "forward")
    [] key \in SteppingBack(f) -> Stepped(f, "back")
    [] OTHER -> Grown([f EXCEPT !.editor[1] = Handle(@, IF key = "Shift-Enter" THEN "nl" ELSE key)])
TypeIntoForm(t, key) ==
  IF t.form[1].editor = None THEN InForm([t EXCEPT !.form[1] = Undecided(@, key)], key)
  ELSE IF key = "Ctrl-s" THEN SaveRecord(t) ELSE [t EXCEPT !.form[1] = InField(@, key)]

-----------------------------------------------------------------------------
\* The value editor: opened on what is in the table, whatever is pending; nothing is null

StartEditing(t) ==
  LET at == Names[t.column]
      values == IF OnAdded(t) THEN t.inserts[t.row] ELSE RowAt(t, t.row)
      text == IF at \in DOMAIN values /\ values[at] # None THEN values[at][1] ELSE <<>>
  IN IF Lines(t) = 0 THEN t
     ELSE [t EXCEPT !.value = <<[editor |-> [Holding(text) EXCEPT !.cursor = IF Json(text) THEN 0 ELSE @], json |-> Json(text)]>>]
Committed(value) == IF value.json THEN Compact[value.editor.text] ELSE IF Asked(value.editor.text) THEN Moment ELSE value.editor.text
CommitEdit(t) ==
  LET value == t.value[1] n == Names[t.column] text == Committed(value)
      closed == [t EXCEPT !.value = None]
  IN CASE value.json /\ ~Json(value.editor.text) -> t
       [] OnAdded(t) -> [closed EXCEPT !.inserts[t.row] = IF text = <<>> THEN Without(@, n) ELSE Put(@, n, <<text>>)]
       [] OTHER -> LET key == RowAt(t, t.row)[Key]
                   IN Update(closed, IF key = None THEN <<>> ELSE key[1], [m \in {n} |-> IF text = <<>> THEN None ELSE <<text>>])
TypeIntoValue(t, key) ==
  CASE key = "Escape" -> [t EXCEPT !.value = None]
    [] key \in {"Enter", "Ctrl-s"} -> CommitEdit(t)
    [] key = "Ctrl-t" -> [t EXCEPT !.value[1].editor = Holding(Moment)]
    [] OTHER -> [t EXCEPT !.value[1].editor = Handle(@, IF key = "Shift-Enter" THEN "nl" ELSE key)]

-----------------------------------------------------------------------------
\* Filters as a database is asked for them

Operators ==
  <<[name |-> <<"is">>, sql |-> "="], [name |-> <<"is", "not">>, sql |-> "!="], [name |-> <<"contains">>, sql |-> "like"],
    [name |-> <<"starts", "with">>, sql |-> "like"], [name |-> <<"ends", "with">>, sql |-> "like"],
    [name |-> <<"is", "greater", "than">>, sql |-> ">"], [name |-> <<"is", "at", "least">>, sql |-> ">="],
    [name |-> <<"is", "less", "than">>, sql |-> "<"], [name |-> <<"is", "at", "most">>, sql |-> "<="],
    [name |-> <<"is", "empty">>, sql |-> "is null"], [name |-> <<"is", "not", "empty">>, sql |-> "is not null"],
    [name |-> <<"is", "one", "of">>, sql |-> "in"]>>
OperatorNames == [i \in DOMAIN Operators |-> Operators[i].name]
SqlOf(name) == Operators[SelectInSeq(OperatorNames, LAMBDA n : n = name)].sql
Filter(column, operator, value) == [column |-> column, operator |-> operator, value |-> value]
NeedsValue(f) == f.operator \notin {<<"is", "empty">>, <<"is", "not", "empty">>}
Usable(f) == NeedsValue(f) => f.value # <<>>
Joined(conditions, joiner) == [conditions |-> conditions, joiner |-> joiner]

\* What is between the commas, without spaces; what is empty is left out
Between(text, from, to) == SelectSeq(SubSeq(text, from + 1, to - 1), LAMBDA ch : ch # " ")
Commas(text) == {0, Len(text) + 1} \cup {i \in DOMAIN text : text[i] = ","}
OneOf(text) ==
  {Between(text, i, Min({j \in Commas(text) : j > i})) : i \in Commas(text) \ {Len(text) + 1}} \ {<<>>}
LikePattern(f) ==
  CASE f.operator = <<"contains">> -> <<"%">> \o f.value \o <<"%">>
    [] f.operator = <<"starts", "with">> -> f.value \o <<"%">>
    [] OTHER -> <<"%">> \o f.value
Condition(f) ==
  LET sql == SqlOf(f.operator)
  IN [column |-> f.column, sql |-> IF sql = "in" /\ OneOf(f.value) = {} THEN "1 = 1" ELSE sql,
      values |-> IF sql = "in" THEN OneOf(f.value) ELSE {IF sql = "like" THEN LikePattern(f) ELSE f.value}]
Conditions(filters) ==
  [joiner |-> filters.joiner,
   parts |-> LET usable == SelectSeq(filters.conditions, Usable) IN [i \in DOMAIN usable |-> Condition(usable[i])]]

\* What the database makes of them
Like(text, pattern) ==
  LET fits[i \in 1..(Len(text) + 1), j \in 1..(Len(pattern) + 1)] ==
        IF j > Len(pattern) THEN i > Len(text)
        ELSE IF pattern[j] = "%" THEN fits[i, j + 1] \/ (i <= Len(text) /\ fits[i + 1, j])
        ELSE i <= Len(text) /\ text[i] = pattern[j] /\ fits[i + 1, j + 1]
  IN fits[1, 1]
Place(ch) == CHOOSE i \in DOMAIN Letters : Letters[i] = ch
Precedes(a, b) ==
  \E n \in 0..Len(a) :
    /\ n < Len(b)
    /\ SubSeq(a, 1, n) = SubSeq(b, 1, n)
    /\ n = Len(a) \/ Place(a[n + 1]) < Place(b[n + 1])
Compares(text, sql, value) ==
  CASE sql = "=" -> text = value
    [] sql = "!=" -> text # value
    [] sql = "like" -> Like(text, value)
    [] sql = ">" -> Precedes(value, text)
    [] sql = ">=" -> ~Precedes(text, value)
    [] sql = "<" -> Precedes(text, value)
    [] OTHER -> ~Precedes(value, text)
Holds(c, row) ==
  CASE c.sql = "1 = 1" -> TRUE
    [] c.sql = "is null" -> row[c.column] = None
    [] c.sql = "is not null" -> row[c.column] # None
    [] c.sql = "in" -> row[c.column] # None /\ row[c.column][1] \in c.values
    [] OTHER -> row[c.column] # None /\ \A v \in c.values : Compares(row[c.column][1], c.sql, v)
Picked(where, row) ==
  IF where.joiner = "and" THEN \A i \in DOMAIN where.parts : Holds(where.parts[i], row)
  ELSE where.parts = <<>> \/ \E i \in DOMAIN where.parts : Holds(where.parts[i], row)
RowsOf(filters) ==
  IF filters = None THEN table.rows
  ELSE LET where == Conditions(filters[1]) IN SelectSeq(table.rows, LAMBDA row : Picked(where, row))

\* The page is asked for again; without an answer the grid is empty
Load(t, keep) ==
  IF ~table.up THEN [t EXCEPT !.rows = <<>>, !.read = FALSE]
  ELSE LET read == [t EXCEPT !.rows = RowsOf(t.filters), !.read = TRUE]
       IN [read EXCEPT !.row = IF keep THEN Max({1, Least(@, Lines(read))}) ELSE 1,
                       !.column = IF keep /\ t.read THEN @ ELSE 1]

-----------------------------------------------------------------------------
\* A list to choose from, narrowed by what is typed

Choice(options, chosen) ==
  [options |-> options, query |-> <<>>,
   index |-> LET at == SelectInSeq(options, LAMBDA o : o = chosen) IN IF at = 0 THEN 1 ELSE at]
Has(option, query) == \E i \in 1..(Len(option) + 1 - Len(query)) : SubSeq(option, i, i + Len(query) - 1) = query
Matches(c) == SelectSeq(c.options, LAMBDA o : c.query = <<>> \/ Has(o, c.query))
MoveChoice(c, step) ==
  LET count == Len(Matches(c))
  IN [c EXCEPT !.index = IF count = 0 THEN 1 ELSE IF step = "forward" THEN (@ % count) + 1 ELSE IF @ = 1 THEN count ELSE @ - 1]
TypeKey(c, key) ==
  IF key \in {"Ctrl-s", "Left", "Right", "Tab", "BackTab"} THEN c
  ELSE [c EXCEPT !.index = 1,
            !.query = IF key = "Ctrl-u" THEN <<>> ELSE IF key # "Backspace" THEN Append(@, key) ELSE IF @ = <<>> THEN @ ELSE Front(@)]

-----------------------------------------------------------------------------
\* The form of the filters: its cells are 1, the column, 2, the operator, and 3, the value

Add(b) ==
  [b EXCEPT !.conditions = Append(@, Filter(b.startOn, <<"contains">>, <<>>)), !.row = Len(b.conditions) + 1, !.cell = 1]
\* A mutant of RemoveCondition: the row is left where it was
RemoveOnly(b) ==
  IF Len(b.conditions) <= 1 THEN Add([b EXCEPT !.conditions = <<>>]) ELSE [b EXCEPT !.conditions = RemoveAt(@, b.row)]
RemoveCondition(b) ==
  IF Len(b.conditions) <= 1 THEN Add([b EXCEPT !.conditions = <<>>])
  ELSE [b EXCEPT !.conditions = RemoveAt(@, b.row), !.row = Least(@, Len(b.conditions) - 1)]
Current(b) == b.conditions[b.row]
InCells(b) == [b EXCEPT !.cell = Least(@, IF NeedsValue(Current(b)) THEN 3 ELSE 2)]
MoveRow(b, step) ==
  InCells([b EXCEPT !.row = IF step = "forward" THEN Least(@ + 1, Len(b.conditions)) ELSE IF @ = 1 THEN 1 ELSE @ - 1])
MoveCell(b, step) ==
  InCells([b EXCEPT !.cell = IF step = "forward" THEN Least(@ + 1, 3) ELSE IF @ = 1 THEN 1 ELSE @ - 1])
\* The one after the chosen one, or before it, around the end
NextOf(options, chosen, step) == Matches(MoveChoice(Choice(options, chosen), step))[MoveChoice(Choice(options, chosen), step).index]
Cycle(b, step) ==
  CASE b.cell = 1 -> [b EXCEPT !.conditions[b.row].column = NextOf(Names, @, step)]
    [] b.cell = 2 -> InCells([b EXCEPT !.conditions[b.row].operator = NextOf(OperatorNames, @, step)])
    [] OTHER -> MoveCell(b, step)
ToggleJoiner(b) == [b EXCEPT !.joiner = IF @ = "and" THEN "or" ELSE "and"]
OpenPicker(b) ==
  [b EXCEPT !.picker =
    IF b.cell = 1 THEN <<Choice([i \in DOMAIN Names |-> <<Names[i]>>], <<Current(b).column>>)>>
    ELSE <<Choice(OperatorNames, Current(b).operator)>>]
\* A list that is narrowed to nothing chooses nothing
Choose(b) ==
  LET matches == Matches(b.picker[1]) closed == [b EXCEPT !.picker = None]
  IN CASE b.picker[1].index > Len(matches) -> closed
       [] b.cell = 1 -> [closed EXCEPT !.conditions[b.row].column = matches[b.picker[1].index][1]]
       [] OTHER -> InCells([closed EXCEPT !.conditions[b.row].operator = matches[b.picker[1].index]])
EditCell(b) == [b EXCEPT !.editor = <<Holding(Current(b).value)>>]
\* Left without keeping it; a mutant of Commit does the same
Forget(b) == [b EXCEPT !.editor = None]
Commit(b) == IF b.editor = None THEN b ELSE [b EXCEPT !.conditions[b.row].value = b.editor[1].text, !.editor = None]
FilterForm(filters, startOn) ==
  LET given == IF filters = None THEN Joined(<<>>, "and") ELSE filters[1]
      form == [conditions |-> given.conditions, joiner |-> given.joiner, row |-> 1, cell |-> 1,
               editor |-> None, picker |-> None, startOn |-> startOn]
  IN IF given.conditions = <<>> THEN EditCell([Add(form) EXCEPT !.cell = 3]) ELSE form

OpenFilters(t) == IF ~t.read THEN t ELSE [t EXCEPT !.bar = <<FilterForm(t.filters, Names[t.column])>>]
\* What is pending is dropped, but for the added rows
ApplyFilters(t) ==
  LET b == Commit(t.bar[1])
      usable == \E i \in DOMAIN b.conditions : Usable(b.conditions[i])
  IN Load([t EXCEPT !.bar = None, !.updates = << >>,
                    !.filters = IF usable THEN <<Joined(b.conditions, b.joiner)>> ELSE None], FALSE)
ClearFilters(t) ==
  LET closed == [t EXCEPT !.bar = None, !.filters = None] IN IF t.filters = None THEN closed ELSE Load(closed, FALSE)

FormKeys == {"h", "j", "k", "l", "n", "d", "o", "i", " ", "+", "-"}
InPicker(b, key) ==
  CASE key = "Escape" -> [b EXCEPT !.picker = None]
    [] key = "Enter" -> Choose(b)
    [] key \in {"Up", "Down"} -> [b EXCEPT !.picker[1] = MoveChoice(@, IF key = "Down" THEN "forward" ELSE "back")]
    [] OTHER -> [b EXCEPT !.picker[1] = TypeKey(@, key)]
InCell(b, key) ==
  CASE key = "Escape" -> Forget(b)
    [] key = "Enter" -> Commit(b)
    [] OTHER -> [b EXCEPT !.editor[1] = Handle(@, key)]
Typed(b, key) == [EditCell(b) EXCEPT !.editor[1] = Handle(@, key)]
InBar(b, key) ==
  CASE key \in {"Up", "k"} -> MoveRow(b, "back")
    [] key \in {"Down", "j"} -> MoveRow(b, "forward")
    [] key \in {"Left", "h"} -> Cycle(b, "back")
    [] key \in {"Right", "l"} -> Cycle(b, "forward")
    [] key = "Tab" -> MoveCell(b, "forward")
    [] key = "BackTab" -> MoveCell(b, "back")
    [] key \in {"+", "n"} -> Add(b)
    [] key \in {"-", "d"} -> RemoveCondition(b)
    [] key = "o" -> ToggleJoiner(b)
    [] key \in {"Enter", "i"} -> IF b.cell = 3 THEN EditCell(b) ELSE OpenPicker(b)
    [] OTHER -> b
\* A form that stands on no condition ends tql
TypeIntoFilterForm(t, key) ==
  LET b == t.bar[1]
      free == b.picker = None /\ b.editor = None
  IN CASE b.row \notin DOMAIN b.conditions -> [t EXCEPT !.dead = TRUE]
       [] b.picker # None -> [t EXCEPT !.bar[1] = InPicker(@, key)]
       [] b.picker = None /\ (key = "Ctrl-s" \/ (free /\ b.cell = 3 /\ key = "Enter")) -> ApplyFilters(t)
       [] b.picker = None /\ b.editor # None /\ key # "Ctrl-s" -> [t EXCEPT !.bar[1] = InCell(@, key)]
       [] free /\ key = "Escape" -> ClearFilters(t)
       [] free /\ b.cell = 3 /\ key \in Range(Letters) \ FormKeys -> [t EXCEPT !.bar[1] = Typed(@, key)]
       [] OTHER -> [t EXCEPT !.bar[1] = InBar(@, key)]

-----------------------------------------------------------------------------
\* Keys as they are pressed, others who change a row, and a server that answers or not

SaveAndShow(t) ==
  LET saved == SaveRecord(t)
  IN IF saved.form # None \/ ~Adds(t.form[1]) THEN saved
     ELSE [Load(saved, TRUE) EXCEPT !.row = IF t.form[1].kind = "new" THEN 1 ELSE @]
InGrid(t, key) ==
  CASE key = "Down" -> [t EXCEPT !.row = Max({1, Least(@ + 1, Lines(t))})]
    [] key = "Right" -> [t EXCEPT !.column = Least(@ + 1, Len(Names))]
    [] key = "open" -> OpenRecord(t)
    [] key = "new" -> IF t.read THEN [t EXCEPT !.form = <<Adding>>] ELSE t
    [] key = "edit" -> StartEditing(t)
    [] key = "filter" -> OpenFilters(t)
    [] OTHER -> t
Press(t, key) ==
  CASE t.dead -> t
    [] t.form # None -> IF key = "Ctrl-s" THEN SaveAndShow(t) ELSE TypeIntoForm(t, key)
    [] t.form = None /\ t.value # None -> TypeIntoValue(t, key)
    [] t.form = None /\ t.value = None /\ t.bar # None -> TypeIntoFilterForm(t, key)
    [] OTHER -> InGrid(t, key)

Init ==
  \E c \in Kits :
    /\ table = [rows |-> FirstRows, up |-> TRUE, driver |-> c.driver]
    /\ tql = [rows |-> FirstRows, read |-> TRUE, inserts |-> <<>>, updates |-> << >>, row |-> 1, column |-> 1, filters |-> None,
              form |-> None, value |-> None, bar |-> None, dead |-> FALSE]
    /\ past = [keys |-> c.keys, left |-> c.steps, others |-> c.others, last |-> <<>>]

Pressing ==
  \E keys \in past.keys :
    /\ past.left > 0 /\ ~tql.dead
    /\ tql' = FoldLeft(Press, tql, keys)
    /\ past' = [past EXCEPT !.left = @ - 1, !.last = keys]
    /\ UNCHANGED table
OthersChange ==
  \E i \in DOMAIN table.rows, column \in Contested :
    /\ past.others > 0
    /\ table' = [table EXCEPT !.rows[i][column] = <<<<Last(Letters)>>>>]
    /\ past' = [past EXCEPT !.others = @ - 1]
    /\ UNCHANGED tql
Breaks ==
  /\ past.others > 0
  /\ table' = [table EXCEPT !.up = FALSE]
  /\ past' = [past EXCEPT !.others = @ - 1]
  /\ UNCHANGED tql
Next == Pressing \/ OthersChange \/ Breaks
Spec == Init /\ [][Next]_formVars
-----------------------------------------------------------------------------
\* What a form promises

\* What a field shows: nothing yet, or <<its value>>
FieldShown(f, n) ==
  IF f.editor # None /\ Name(f) = n THEN <<<<IF f.json THEN Compact[f.editor[1].text] ELSE f.editor[1].text>>>>
  ELSE IF n \in DOMAIN f.values THEN <<f.values[n]>> ELSE <<>>
\* What is put into a column that is left alone; a call is left to the database
Leaves(c) ==
  CASE c.default = None -> <<>>
    [] Word(c).is = "time" -> <<Moment>>
    [] Word(c).is \in {"quoted", "number"} \/ (Word(c).is = "double quoted" /\ table.driver = "sqlite")
       \/ (Word(c).is = "word" /\ table.driver = "mysql") -> <<Word(c).text>>
    [] OTHER -> <<>>
SameBut(f, g, k) == \A x \in (DOMAIN f \cup DOMAIN g) \ {k} : x \in DOMAIN f /\ x \in DOMAIN g /\ f[x] = g[x]
KeyAt(t) == RowAt(t, t.row)[Key][1]
RenamedAt(t) == Key \in DOMAIN UpdateOf(t, KeyAt(t))

\* A row that is added has the fields the form shows, and those left at their default have what the
\* database would have put there; the other added rows stay
AddsWhatIsShown(f) ==
  LET at == IF f.kind = "new" THEN 1 ELSE f.at added == tql'.inserts[at]
  IN /\ tql'.updates = tql.updates
     /\ IF f.kind = "new" THEN Tail(tql'.inserts) = tql.inserts
        ELSE Len(tql'.inserts) = Len(tql.inserts) /\ \A i \in DOMAIN tql.inserts \ {at} : tql'.inserts[i] = tql.inserts[i]
     /\ \A n \in Range(f.fields) :
          /\ n \in DOMAIN added <=> FieldShown(f, n) # <<>>
          /\ n \in DOMAIN added => added[n] = AtOnce(FieldShown(f, n)[1])
          /\ (f.kind = "new" /\ n \in DOMAIN added /\ n \in DOMAIN f.initial /\ ~Changed(f, n) /\ f.editor = None /\ n # Key)
               => added[n] = Leaves(ColumnNamed(n))

\* Of a row only what was changed is pending, as the form shows it and for the row it was opened on,
\* unless that row's key is itself to be changed
ChangesWhatIsShown(f) ==
  LET before == UpdateOf(tql, KeyAt(tql)) after == UpdateOf(tql', KeyAt(tql))
  IN ~RenamedAt(tql) =>
       /\ tql'.inserts = tql.inserts /\ SameBut(tql.updates, tql'.updates, KeyAt(tql))
       /\ \A n \in Range(f.fields) :
            IF FieldShown(f, n) = <<f.initial[n]>>
            THEN (n \in DOMAIN after <=> n \in DOMAIN before) /\ (n \in DOMAIN after => after[n] = before[n])
            ELSE n \in DOMAIN after /\ after[n] = AtOnce(FieldShown(f, n)[1])
SavesWhatIsShown ==
  (past'.last = <<"Ctrl-s">> /\ tql.form # None /\ tql'.form = None) =>
    IF tql.form[1].kind = "row" THEN ChangesWhatIsShown(tql.form[1]) ELSE AddsWhatIsShown(tql.form[1])

\* Escape leaves what is pending alone, and throws a changed form away only when pressed twice
EscapeIsAskedTwice ==
  (past'.last = <<"Escape">> /\ tql.form # None /\ tql'.form = None) =>
    /\ tql'.inserts = tql.inserts /\ tql'.updates = tql.updates
    /\ Dirty(tql.form[1]) => past.last = <<"Escape">>

\* A value kept is that of the cell it was opened on, and of no other
KeepsTheValue ==
  (tql.value # None /\ tql'.value = None /\ past'.last = <<"Ctrl-s">>) =>
    LET text == Committed(tql.value[1]) n == Names[tql.column]
        value == IF text = <<>> THEN None ELSE <<text>>
    IN IF OnAdded(tql)
       THEN /\ tql'.updates = tql.updates
            /\ \A i \in DOMAIN tql.inserts \ {tql.row} : tql'.inserts[i] = tql.inserts[i]
            /\ SameBut(tql.inserts[tql.row], tql'.inserts[tql.row], n)
            /\ n \in DOMAIN tql'.inserts[tql.row] <=> value # None
       ELSE /\ tql'.inserts = tql.inserts /\ SameBut(tql.updates, tql'.updates, KeyAt(tql))
            /\ SameBut(UpdateOf(tql, KeyAt(tql)), UpdateOf(tql', KeyAt(tql)), n)
            /\ UpdateOf(tql', KeyAt(tql))[n] = value

\* What a condition means to its reader, of values without % and lists that name something
Means(f, row) ==
  LET v == row[f.column] text == v[1] many == Len(f.value)
  IN CASE f.operator = <<"is", "empty">> -> v = None
       [] f.operator = <<"is", "not", "empty">> -> v # None
       [] v = None -> FALSE
       [] v # None /\ f.operator = <<"is">> -> text = f.value
       [] v # None /\ f.operator = <<"is", "not">> -> text # f.value
       [] v # None /\ f.operator = <<"contains">> -> Has(text, f.value)
       [] v # None /\ f.operator = <<"starts", "with">> -> Len(text) >= many /\ SubSeq(text, 1, many) = f.value
       [] v # None /\ f.operator = <<"ends", "with">> -> Len(text) >= many /\ SubSeq(text, Len(text) - many + 1, Len(text)) = f.value
       [] v # None /\ f.operator = <<"is", "greater", "than">> -> Precedes(f.value, text)
       [] v # None /\ f.operator = <<"is", "less", "than">> -> Precedes(text, f.value)
       [] v # None /\ f.operator = <<"is", "at", "least">> -> text = f.value \/ Precedes(f.value, text)
       [] v # None /\ f.operator = <<"is", "at", "most">> -> text = f.value \/ Precedes(text, f.value)
       [] OTHER -> \E i, j \in 1..many : i <= j /\ SubSeq(f.value, i, j) = text /\ "," \notin Range(text)
                     /\ (i = 1 \/ f.value[i - 1] = ",") /\ (j = many \/ f.value[j + 1] = ",")
Plain(f) == "%" \notin Range(f.value) /\ " " \notin Range(f.value) /\ ~(\A i \in DOMAIN f.value : f.value[i] = ",")
Conditioned(b) ==
  [i \in DOMAIN b.conditions |->
    IF i = b.row /\ b.editor # None THEN [b.conditions[i] EXCEPT !.value = b.editor[1].text] ELSE b.conditions[i]]
MeantBy(b, row) ==
  LET meant == SelectSeq(Conditioned(b), LAMBDA f : NeedsValue(f) => f.value # <<>>)
  IN \/ meant = <<>>
     \/ IF b.joiner = "and" THEN \A i \in DOMAIN meant : Means(meant[i], row) ELSE \E i \in DOMAIN meant : Means(meant[i], row)
\* The rows shown are those the form's conditions mean, all of them when it was left; the rows that
\* were added stay
ShowsWhatIsAsked ==
  (tql.bar # None /\ tql'.bar = None) =>
    LET b == tql.bar[1] left == past'.last = <<"Escape">>
    IN /\ tql'.inserts = tql.inserts
       /\ (table.up /\ (left \/ \A i \in DOMAIN b.conditions : NeedsValue(b.conditions[i]) => Plain(Conditioned(b)[i]) \/ Conditioned(b)[i].value = <<>>)) =>
            tql'.rows = IF left /\ tql.filters = None THEN tql.rows
                        ELSE SelectSeq(table.rows, LAMBDA row : left \/ MeantBy(b, row))

\* Only a form whose columns could not be read ends tql
EndsForOneReason == (tql'.dead /\ ~tql.dead) => tql.form # None /\ tql.form[1].fields = <<>>

\* What a form keeps, drops and shows is what its fields say
FormStep ==
  SavesWhatIsShown /\ EscapeIsAskedTwice /\ KeepsTheValue /\ ShowsWhatIsAsked /\ EndsForOneReason
=============================================================================
