----------------------------- MODULE Statements -----------------------------
(***************************************************************************)
(* What the SQL editor makes of its text: the statement at the cursor       *)
(* (src/app/tui/statements.rs), the order by that sorting its results puts  *)
(* into it (src/app/database/order_by.rs, lexed.rs), the table its results  *)
(* are taken for (src/app/tui/browser/query.rs), the names it completes     *)
(* (src/app/tui/completion.rs) and the rows it is drawn on                  *)
(* (src/app/tui/sql.rs).  A text is a sequence of tokens: keywords, letters *)
(* that make up names, quotes and other signs; a token counts for one       *)
(* character, and a name is the sequence of its letters.                    *)
(***************************************************************************)
EXTENDS Naturals, Sequences, SequencesExt, FiniteSets, FiniteSetsExt

CONSTANTS
  Kits,     \* of each sequence of steps: whether the connection is read-only, the texts it starts with, what is typed, the texts put in, the columns
            \* sorted by, the panes clicked on and how many steps it takes
  Tables,   \* the tables listed, in their order: [schema, name], <<>> where a schema is left out
  Default,  \* the schema that is left out
  Columns,  \* of each table, its columns
  Wide,     \* the characters of two columns
  Panes     \* the sizes of the pane, <<width, height>>

VARIABLES
  tql,  \* the editor, the results below it, the table that is open, and what the last step did
  past  \* the steps left, and the kit

statementVars == <<tql, past>>

Keywords ==
  {"select", "from", "join", "update", "into", "table", "as", "where", "order", "by", "limit", "offset", "asc", "desc",
   "union", "begin", "case", "end", "create", "null", "with"}
\* Words that are not among those the editor knows (sql.rs, KEYWORDS)
OtherWords == {"go", "procedure", "rows", "transaction"}
Digits == {"1"}
Letters == {"a", "b", "A", "_"} \cup Digits
WordTokens == Keywords \cup OtherWords \cup Letters
Blanks == {" ", "nl"}
Quotes == {"'", "\"", "grave"}
None == <<>>
Less(m, n) == IF m > n THEN m - n ELSE 0

-----------------------------------------------------------------------------
\* Text: words, lines and spaces

Lower(s) == [i \in DOMAIN s |-> IF s[i] = "A" THEN "a" ELSE s[i]]
IsWordAt(s, i) == i \in DOMAIN s /\ s[i] \in WordTokens
\* One of these keywords, and not a part of a longer word
Stands(s, i, words) == i \in DOMAIN s /\ s[i] \in words /\ ~IsWordAt(s, i - 1) /\ ~IsWordAt(s, i + 1)
BlankAt(s, i) == i \in DOMAIN s /\ s[i] \in Blanks
\* The first place from i on that holds one of these, and the first that holds none
Next1(s, i, set) == Min({k \in i..Len(s) : s[k] \in set} \cup {Max({i, Len(s) + 1})})
Past1(s, i, set) == Min({k \in i..Len(s) : s[k] \notin set} \cup {Max({i, Len(s) + 1})})
TrimStart(s, set) == SubSeq(s, Past1(s, 1, set), Len(s))
TrimEnd(s, set) == SubSeq(s, 1, Max({0} \cup {k \in DOMAIN s : s[k] \notin set}))
Trim(s) == TrimStart(TrimEnd(s, Blanks), Blanks)
StartsWith(s, part) == Len(part) <= Len(s) /\ SubSeq(s, 1, Len(part)) = part
LinesOf(text) ==
  LET ends == <<0>> \o SetToSortSeq({i \in DOMAIN text : text[i] = "nl"}, <) \o <<Len(text) + 1>>
  IN [l \in 1..Len(ends) - 1 |-> SubSeq(text, ends[l] + 1, ends[l + 1] - 1)]
LineStart(lines, l) == FoldLeft(LAMBDA n, line : n + Len(line) + 1, 0, SubSeq(lines, 1, l - 1))
LineAt(text, cursor) == 1 + Cardinality({i \in 1..cursor : text[i] = "nl"})
ColumnAt(text, cursor) == cursor - Max({0} \cup {i \in 1..cursor : text[i] = "nl"})
InLine(lines, l, column) == LineStart(lines, l) + Min({column, Len(lines[l])})
\* QueryEditor::move_to_line_column
AtLineColumn(lines, line, column) == InLine(lines, Min({line, Len(lines)}), column)

-----------------------------------------------------------------------------
\* The statement at the cursor (statements.rs)

\* Where what is quoted from i on is past
SkipUntil(s, i, closer) == Min({Next1(s, i, {closer}), Len(s)}) + 1
SkipString(s, i, quote) ==
  LET over[k \in 1..Len(s) + 2] ==
        CASE k > Len(s) -> Len(s) + 1
          [] k <= Len(s) /\ s[k] # quote -> over[k + 1]
          [] k < Len(s) /\ s[k] = quote /\ s[k + 1] = quote -> over[k + 2]
          [] OTHER -> k + 1
  IN over[i + 1]
SkipBracketed(s, i) == LET end == Next1(s, i + 1, {"]", "nl"}) IN IF BlankAt(s, end) THEN end ELSE Min({end, Len(s)}) + 1
SkipQuoted(s, i) ==
  CASE s[i] = "--" -> SkipUntil(s, i + 1, "nl")
    [] s[i] = "/*" -> SkipUntil(s, i + 1, "*/")
    [] s[i] = "$$" -> SkipUntil(s, i + 1, "$$")
    [] s[i] \in Quotes -> SkipString(s, i, s[i])
    [] s[i] = "[" -> SkipBracketed(s, i)
    [] OTHER -> i

IsRoutine(s) ==
  LET first == Past1(s, 1, Blanks) second == Past1(s, first + 1, Blanks)
  IN Stands(s, first, {"create"}) /\ second > first + 1 /\ Stands(s, second, {"procedure"})
LineEnd(s, i) == Next1(s, i, {"nl"})
IsBatchEnd(s, i) ==
  (i = 1 \/ s[i - 1] = "nl") /\ SelectSeq(SubSeq(s, i, LineEnd(s, i) - 1), LAMBDA c : c # " ") = <<"go">>
\* The statement after `start` and up to `end`, if there is one, and where the cursor leaves it
Statement(s, start, end, terminated) ==
  LET body == SubSeq(s, start + 1, end)
  IN IF Trim(body) = <<>> THEN <<>>
     ELSE <<[sql |-> Trim(body), start |-> start + Past1(body, 1, Blanks) - 1,
             end |-> IF terminated THEN end + 1 ELSE start + Len(TrimEnd(body, Blanks))]>>
Opens(s, i) ==
  Stands(s, i, {"case"}) \/ (Stands(s, i, {"begin"}) /\ ~Stands(s, Past1(s, i + 1, Blanks), {"transaction"}))
\* One turn of the loop that splits a text, at st.at, where what is quoted there is over at `over`
SplitOn(s, st, i, over) ==
  LET Cut(end, terminated, next) ==
        [at |-> next, start |-> next - 1, depth |-> 0, out |-> st.out \o Statement(s, st.start, end, terminated)]
      On(next, depth) == [st EXCEPT !.at = next, !.depth = depth]
  IN IF IsBatchEnd(s, i) THEN Cut(i - 1, FALSE, LineEnd(s, i))
     ELSE IF over # i THEN On(over, st.depth)
     ELSE IF s[i] = ";" /\ st.depth > 0 /\ IsRoutine(SubSeq(s, st.start + 1, i - 1)) THEN On(i + 1, st.depth)
     ELSE IF s[i] = ";" THEN Cut(i - 1, TRUE, i + 1)
     ELSE On(i + 1, IF Opens(s, i) THEN st.depth + 1 ELSE IF Stands(s, i, {"end"}) THEN Less(st.depth, 1) ELSE st.depth)
SplitAll(s) ==
  FoldLeft(LAMBDA st, n : IF st.at > Len(s) THEN st ELSE SplitOn(s, st, st.at, SkipQuoted(s, st.at)),
           [at |-> 1, start |-> 0, depth |-> 0, out |-> <<>>], s)
WithLast(s, st) == st.out \o Statement(s, st.start, Len(s), FALSE)
Split(s) == WithLast(s, SplitAll(s))
Nth(found, n) == IF found = <<>> THEN None ELSE <<found[IF n = 0 THEN Len(found) ELSE n]>>
\* A mutant of Picked: a statement ends before its semicolon
BeforeEnd(found, cursor) == Nth(found, SelectInSeq(found, LAMBDA st : cursor < st.end))
Picked(found, cursor) == Nth(found, SelectInSeq(found, LAMBDA st : cursor <= st.end))
At(s, cursor) == Picked(Split(s), cursor)

-----------------------------------------------------------------------------
\* What is code, and what runs

Closing(c) == CASE c = "[" -> "]" [] c = "--" -> "nl" [] c = "/*" -> "*/" [] OTHER -> c
\* One character of lexed.rs: what is quoted, said in a comment or, if asked to, in parentheses is blank
CodeOn(st, c, parentheses) ==
  LET Out(in, depth, seen) == [in |-> in, depth |-> depth, out |-> Append(st.out, seen)]
  IN CASE st.in # "" /\ c = st.in -> Out("", st.depth, IF c = "nl" THEN c ELSE " ")
       [] st.in # "" /\ c # st.in -> Out(st.in, st.depth, " ")
       [] st.in = "" /\ c \in Quotes \cup {"[", "--", "/*"} -> Out(Closing(c), st.depth, " ")
       [] st.in = "" /\ c = "(" /\ parentheses -> Out("", st.depth + 1, " ")
       [] st.in = "" /\ c = ")" /\ parentheses -> Out("", Less(st.depth, 1), " ")
       [] OTHER -> Out("", st.depth, IF st.depth > 0 THEN " " ELSE c)
Code(s, parentheses) == FoldLeft(LAMBDA st, c : CodeOn(st, c, parentheses), [in |-> "", depth |-> 0, out |-> <<>>], s)
TopLevel(s) == Code(s, TRUE).out
EndsInComment(s) == Code(s, TRUE).in = "nl"

\* A statement that a connection marked read-only runs (database/mod.rs)
PastNoise(s) ==
  LET from[i \in 1..Len(s) + 1] ==
        CASE BlankAt(s, i) -> from[i + 1]
          [] i <= Len(s) /\ s[i] = "--" /\ Next1(s, i, {"nl"}) <= Len(s) -> from[Next1(s, i, {"nl"}) + 1]
          [] i <= Len(s) /\ s[i] = "/*" /\ Next1(s, i, {"*/"}) <= Len(s) -> from[Next1(s, i, {"*/"}) + 1]
          [] OTHER -> i
  IN SubSeq(s, from[1], Len(s))
Reads(s) == Stands(s, 1, {"select", "with"})
OneReading(s) == ";" \notin ToSet(TrimEnd(s, Blanks \cup {";"})) /\ Reads(s)
IsReadOnly(s) == OneReading(PastNoise(s))

-----------------------------------------------------------------------------
\* The order by of a statement (order_by.rs): a sort is a column and a direction, or None

OrdersAt(out, from) ==
  {i \in from..Len(out) :
     LET by == Past1(out, i + 1, Blanks) IN Stands(out, i, {"order"}) /\ by > i + 1 /\ Stands(out, by, {"by"})}
LimitsAt(out, from) == {i \in from..Len(out) - 2 : BlankAt(out, i) /\ out[i + 1] \in {"limit", "offset"} /\ BlankAt(out, i + 2)}
OffsetRows(out) ==
  \E i \in LimitsAt(out, 1) :
    LET digits == Past1(out, i + 2, Blanks) after == Past1(out, digits, Digits) rows == Past1(out, after, Blanks)
    IN out[i + 1] = "offset" /\ after > digits /\ rows > after /\ Stands(out, rows, {"rows"})
\* `out` is what is at the top level of a statement
Rewritable(s, out) ==
  /\ Stands(Trim(out), 1, {"select"}) /\ BlankAt(TrimStart(out, Blanks), 2)
  /\ \A i \in DOMAIN out : ~Stands(out, i, {"union"}) /\ out[i] # ";"
  /\ Cardinality(OrdersAt(out, 1)) <= 1
Joined(before, after) == IF after = <<>> THEN before ELSE before \o <<" ">> \o after
StripFrom(s, out, order) ==
  Joined(TrimEnd(SubSeq(s, 1, order - 1), {" "}),
         TrimStart(SubSeq(s, Min(LimitsAt(out, Next1(out, order, {"by"}) + 1) \cup {Len(s) + 1}), Len(s)), Blanks))
Strip(s, out) == IF OrdersAt(out, 1) = {} THEN s ELSE StripFrom(s, out, Min(OrdersAt(out, 1)))
Quoted(name) == <<"\"">> \o name \o <<"\"">>
OrderBy(sort) == <<"order", " ", "by", " ">> \o Quoted(sort.column) \o <<" ", sort.direction>>
\* A mutant of Placed: a comment that ends the statement is not seen
PlacedLast(s, limits, clause) ==
  IF limits = {} THEN s \o <<" ">> \o clause
  ELSE TrimEnd(SubSeq(s, 1, Min(limits) - 1), {" "}) \o <<" ">> \o clause \o <<" ">> \o
       TrimStart(SubSeq(s, Min(limits), Len(s)), Blanks)
\* Where the clause goes in a statement without one; `limits` are those of its limits
Placed(s, limits, clause) ==
  CASE limits # {} -> TrimEnd(SubSeq(s, 1, Min(limits) - 1), {" "}) \o <<" ">> \o clause \o <<" ">> \o
                      TrimStart(SubSeq(s, Min(limits), Len(s)), Blanks)
    [] limits = {} /\ EndsInComment(s) -> s \o <<"nl">> \o clause
    [] OTHER -> s \o <<" ">> \o clause
ApplyTo(bare, out, sort) ==
  IF sort = None /\ ~OffsetRows(out) THEN <<bare>>
  ELSE <<Placed(bare, LimitsAt(out, 1),
                IF sort # None THEN OrderBy(sort) ELSE <<"order", " ", "by", " ", "(", "select", " ", "null", ")">>)>>
Stripped(s, out, sort) == LET bare == Strip(s, out) IN IF ~Rewritable(s, out) THEN None ELSE ApplyTo(bare, TopLevel(bare), sort)
Ended(text) == TrimEnd(TrimEnd(Trim(text), {";"}), Blanks)
\* The statement sorted, in a sequence, or None when it is too complex
Apply(text, sort) == Stripped(Ended(text), TopLevel(Ended(text)), sort)
NameStart(s, i) == IF i <= Len(s) /\ s[i] \in {"\"", "grave", "["} THEN i + 1 ELSE i
\* The column that ORDERED reads from a place on, up to `to`, and the direction `after` it
SortRead(s, from, to, after) ==
  LET direction == Past1(s, after, Blanks)
  IN IF to = from THEN None
     ELSE [column |-> SubSeq(s, from, to - 1),
           direction |-> IF direction > after /\ direction <= Len(s) /\ s[direction] = "desc" THEN "desc" ELSE "asc"]
NameClosed(s, to) == IF to <= Len(s) /\ s[to] \in {"\"", "grave", "]"} THEN to + 1 ELSE to
SortFrom(s, from, to) == SortRead(s, from, to, NameClosed(s, to))
SortNamed(s, from) == SortFrom(s, from, Past1(s, from, WordTokens))
SortAt(s, by) == IF BlankAt(s, by + 1) THEN SortNamed(s, NameStart(s, Past1(s, by + 1, Blanks))) ELSE None
FirstSort(sorts) == IF \E i \in DOMAIN sorts : sorts[i] # None THEN sorts[SelectInSeq(sorts, LAMBDA x : x # None)] ELSE None
\* Every order by from the statement's own on is tried
SortFromOrders(s, orders) ==
  IF orders = {} THEN None
  ELSE FirstSort([n \in 1..Len(s) |-> IF n \in OrdersAt(s, Min(orders)) THEN SortAt(s, Past1(s, n + 1, Blanks)) ELSE None])
SortOf(s) == SortFromOrders(s, OrdersAt(TopLevel(s), 1))

-----------------------------------------------------------------------------
\* Tables and their names (database/table.rs): a name is a sequence of letters, a schema is left out by <<>>

SplitName(typed) ==
  LET on(st, c) ==
        CASE st.in # "" /\ c = st.in -> [st EXCEPT !.in = ""]
          [] st.in = "" /\ c \in {"\"", "grave", "["} -> [st EXCEPT !.in = Closing(c)]
          [] st.in = "" /\ c = "." -> [st EXCEPT !.parts = Append(@, <<>>)]
          [] OTHER -> [st EXCEPT !.parts[Len(st.parts)] = Append(@, c)]
  IN FoldLeft(on, [in |-> "", parts |-> <<<<>>>>], typed).parts
\* The first of the tables here of exactly that name, or of that name in another letter case
FirstNamed(here, name) ==
  LET exact == SelectSeq(here, LAMBDA t : t.name = name)
  IN exact \o SelectSeq(here, LAMBDA t : Lower(t.name) = Lower(name))
Chosen(found, elsewhere) == IF found # <<>> THEN <<Head(found)>> ELSE IF Len(elsewhere) = 1 THEN elsewhere ELSE None
ResolveIn(schema, name) ==
  Chosen(FirstNamed(SelectSeq(Tables, LAMBDA t : Lower(t.schema) = Lower(schema)), name),
         IF schema = <<>> THEN SelectSeq(Tables, LAMBDA t : t.schema # <<>> /\ Lower(t.name) = Lower(name)) ELSE <<>>)
\* The table that parts of a name mean, in a sequence, or None
ResolveParts(parts) ==
  IF Len(parts) > 2 \/ <<>> \in ToSet(parts) THEN None
  ELSE ResolveIn(IF Len(parts) = 1 \/ Lower(parts[1]) = Lower(Default) THEN <<>> ELSE parts[1], parts[Len(parts)])
Resolve(typed) == ResolveParts(SplitName(Trim(typed)))

-----------------------------------------------------------------------------
\* Completion (completion.rs): what is offered is [items, start, end, index], or None;
\* with the word it was narrowed by and whether a text was put in its place since, which only the properties look at

\* The end of a name that starts at i, quoted or plain, or 0
NameEnd(s, i) ==
  CASE i > Len(s) -> 0
    [] i <= Len(s) /\ s[i] \in {"\"", "grave", "["} ->
         LET end == Next1(s, i + 1, {Closing(s[i])}) IN IF end <= Len(s) /\ end > i + 1 THEN end + 1 ELSE 0
    [] i <= Len(s) /\ s[i] \in WordTokens \ Digits -> Past1(s, i, WordTokens)
    [] OTHER -> 0
DotAt(s, i) == i \in DOMAIN s /\ s[i] = "."
\* The end of a name at i and, when a dot and another follow it, of that one
Longer(first, second) == IF second > 0 THEN second ELSE first
FullEnd(s, first) == IF first > 0 /\ DotAt(s, first) THEN Longer(first, NameEnd(s, first + 1)) ELSE first
FullNameEnd(s, i) == FullEnd(s, NameEnd(s, i))
Unquote(name) ==
  IF Len(name) > 1 /\ Head(name) \in {"\"", "grave", "["} /\ Last(name) \in {"\"", "grave", "]"} THEN SubSeq(name, 2, Len(name) - 1)
  ELSE name
\* The names before the dot that a text ends in: one, a schema and a table, or none
QualifierAt(s, i, first) ==
  IF first = Len(s) THEN <<Unquote(SubSeq(s, i, first - 1))>>
  ELSE <<Unquote(SubSeq(s, i, first - 1)), Unquote(SubSeq(s, first + 1, Len(s) - 1))>>
FirstQualifier(s, at) == IF at = {} THEN None ELSE QualifierAt(s, Min(at), NameEnd(s, Min(at)))
Qualifier(s) ==
  FirstQualifier(s, IF ~DotAt(s, Len(s)) THEN {} ELSE {i \in DOMAIN s : Len(s) \in {NameEnd(s, i), FullNameEnd(s, i)}})

\* The tables a statement names, each as <<name, table>>: by its name, by its full name and by its alias
Remember(known, name, table) ==
  LET at == SelectInSeq(known, LAMBDA k : k[1] = name)
  IN IF at = 0 THEN Append(known, <<name, table>>) ELSE [known EXCEPT ![at] = <<name, table>>]
FullName(table) == IF table.schema = <<>> THEN table.name ELSE table.schema \o <<".">> \o table.name
\* Where an alias may be after a name, and its end
AliasAfter(s, end, i, after) ==
  CASE i = end \/ NameEnd(s, i) = 0 -> <<end, end>>
    [] i > end /\ NameEnd(s, i) > 0 /\ Stands(s, i, {"as"}) /\ after > i + 1 /\ NameEnd(s, after) > 0 -> <<after, NameEnd(s, after)>>
    [] OTHER -> <<i, NameEnd(s, i)>>
AliasFrom(s, end) == AliasAfter(s, end, Past1(s, end, Blanks), Past1(s, Past1(s, end, Blanks) + 1, Blanks))
IsKeyword(name) == Len(name) = 1 /\ name[1] \in Keywords
NamesOf(table, called) ==
  IF table = None THEN <<>>
  ELSE <<<<Lower(table[1].name), table[1]>>, <<Lower(FullName(table[1])), table[1]>>>> \o
       (IF called = <<>> \/ IsKeyword(called) THEN <<>> ELSE <<<<Lower(called), table[1]>>>>)
\* A match at i, where a name and an alias are, and where the next is looked for
Reference(s, name, end, alias) ==
  [next |-> alias[2], names |-> NamesOf(ResolveParts(SplitName(SubSeq(s, name, end - 1))), Unquote(SubSeq(s, alias[1], alias[2] - 1)))]
NoReference(i) == [next |-> i + 1, names |-> <<>>]
ReferenceTo(s, i, name, end) == IF end = 0 THEN NoReference(i) ELSE Reference(s, name, end, AliasFrom(s, end))
NamedAt(s, i, name) == ReferenceTo(s, i, name, FullNameEnd(s, name))
ReferenceAt(s, i) ==
  IF s[i] \in {"from", "join", "update", "into"} /\ ~IsWordAt(s, i - 1) /\ BlankAt(s, i + 1) THEN NamedAt(s, i, Past1(s, i + 1, Blanks))
  ELSE NoReference(i)
\* What is found at i is added where the search has come to i
ReferenceOn(st, i, reference) ==
  IF st.at > i THEN st
  ELSE [at |-> reference.next, known |-> FoldLeft(LAMBDA known, n : Remember(known, n[1], n[2]), st.known, reference.names)]
Referenced(s) ==
  FoldLeft(LAMBDA st, i : ReferenceOn(st, i, ReferenceAt(s, i)), [at |-> 1, known |-> <<>>], [i \in DOMAIN s |-> i]).known

NeedsQuoting(name) == name[1] \in Digits \/ (\E i \in DOMAIN name : name[i] \notin Letters \ {"A"}) \/ IsKeyword(name)
QuotedPart(name) == IF NeedsQuoting(name) THEN Quoted(name) ELSE name
Written(table) == IF table.schema = <<>> THEN QuotedPart(table.name) ELSE QuotedPart(table.schema) \o <<".">> \o QuotedPart(table.name)
Candidate(text, label, kind, note) == [text |-> text, label |-> label, kind |-> kind, note |-> note]
Named(columns) == [i \in DOMAIN columns |-> Candidate(QuotedPart(columns[i]), columns[i], "column", <<>>)]
TableNames(tables) == [i \in DOMAIN tables |-> Candidate(QuotedPart(tables[i].name), tables[i].name, "table", <<>>)]
Once(s) == FoldLeft(LAMBDA seen, x : IF x \in ToSet(seen) THEN seen ELSE Append(seen, x), <<>>, s)
Schemas == Once(SelectSeq([i \in DOMAIN Tables |-> Tables[i].schema], LAMBDA schema : schema # <<>>))
TableCandidates ==
  [i \in DOMAIN Schemas |-> Candidate(QuotedPart(Schemas[i]), Schemas[i], "schema", <<>>)] \o
  [i \in DOMAIN Tables |-> Candidate(Written(Tables[i]), Tables[i].name, "table", Tables[i].schema)]
\* The keywords above that start as what is typed does; their letter case is left out
KeywordsFrom(prefix) ==
  LET Of(words) == [i \in DOMAIN words |-> Candidate(<<words[i]>>, <<words[i]>>, "keyword", <<>>)]
  IN CASE Lower(prefix) = <<"a">> -> Of(<<"as", "asc">>) [] Lower(prefix) = <<"b">> -> Of(<<"begin", "by">>) [] OTHER -> <<>>
\* The tables of a schema, when it is the one left out or one that is listed
TablesIn(name) ==
  IF Lower(Default) = Lower(name) THEN <<SelectSeq(Tables, LAMBDA t : t.schema = <<>>)>>
  ELSE IF \A i \in DOMAIN Tables : Lower(Tables[i].schema) # Lower(name) THEN None
  ELSE <<SelectSeq(Tables, LAMBDA t : Lower(t.schema) = Lower(name))>>

\* How close a label is to what is typed, 3 where it is not shown (palette.rs)
Score(label, needle) ==
  CASE label = needle -> 0
    [] label # needle /\ StartsWith(label, needle) -> 1
    [] label # needle /\ ~StartsWith(label, needle) /\
       (\E i \in 2..Len(label) : label[i - 1] \in {"_", ".", " ", "nl"} /\ StartsWith(SubSeq(label, i, Len(label)), needle)) -> 2
    [] OTHER -> 3
Closeness(candidate, label, needle) ==
  CASE needle = <<>> \/ candidate.kind = "keyword" -> 1
    [] needle # <<>> /\ label = needle /\ candidate.kind \in {"table", "column"} -> 3
    [] OTHER -> Min({Score(label, needle), IF candidate.note = <<>> THEN 3 ELSE Score(Lower(candidate.note) \o <<".">> \o label, needle)})
Ranked(candidates, scores) ==
  FlattenSeq([n \in 1..3 |-> FlattenSeq([i \in DOMAIN candidates |-> IF scores[i] = n - 1 THEN <<candidates[i]>> ELSE <<>>])])
Offered(items, prefix, end) ==
  IF items = <<>> THEN None
  ELSE [items |-> items, start |-> end - Len(prefix), end |-> end, index |-> 1, word |-> prefix, old |-> FALSE]
\* Nothing typed narrows nothing, where a dot is before it
Narrowed(candidates, prefix, end) ==
  Offered(Ranked(candidates, [i \in DOMAIN candidates |-> Closeness(candidates[i], Lower(candidates[i].label), Lower(prefix))]), prefix, end)

\* A line that ends inside quotes or in a comment
InStringOrComment(line) ==
  FoldLeft(LAMBDA in, c : CASE in = "--" -> in [] in # "--" /\ in = c -> "" [] in = "" /\ c \in Quotes \cup {"--"} -> c [] OTHER -> in,
           "", line) # ""
Before(text, cursor) == SubSeq(text, 1, cursor)
PrefixOf(before) == SubSeq(before, 1 + Max({0} \cup {i \in DOMAIN before : before[i] \notin WordTokens}), Len(before))
PreviousWord(ahead) ==
  LET end == Max({0} \cup {i \in DOMAIN ahead : ahead[i] \in WordTokens}) IN Lower(PrefixOf(SubSeq(ahead, 1, end)))
ColumnsOf(table) == IF table = None THEN <<>> ELSE Named(Columns[table[1]])
OfName(name, aliased, tables) ==
  IF aliased # None THEN ColumnsOf(aliased) ELSE IF tables # None THEN TableNames(tables[1]) ELSE ColumnsOf(ResolveParts(<<name>>))
AliasOf(referenced, name) ==
  LET at == SelectInSeq(referenced, LAMBDA r : r[1] = Lower(name)) IN IF at = 0 THEN None ELSE <<referenced[at][2]>>
QualifiedCandidates(names, referenced) ==
  IF Len(names) = 2 THEN ColumnsOf(ResolveParts(names)) ELSE OfName(names[1], AliasOf(referenced, names[1]), TablesIn(names[1]))
SourcesOf(referenced, open) ==
  IF referenced = <<>> THEN <<open>> ELSE Once([i \in DOMAIN referenced |-> referenced[i][2]])
AllColumns(sources) == Once(FlattenSeq([i \in DOMAIN sources |-> Columns[sources[i]]]))
TextOf(statement, text) == IF statement = None THEN text ELSE statement[1].sql
StatementHere(text, cursor) == TextOf(At(text, cursor), text)
Candidates(qualifier, previous, prefix, referenced, open) ==
  CASE qualifier # None -> QualifiedCandidates(qualifier, referenced)
    [] qualifier = None /\ (prefix = <<>> \/ previous = <<"as">>) -> <<>>
    [] qualifier = None /\ prefix # <<>> /\ previous \in {<<k>> : k \in {"from", "join", "into", "update", "table"}} -> TableCandidates
    [] OTHER -> Named(AllColumns(SourcesOf(referenced, open))) \o TableCandidates \o KeywordsFrom(prefix)
CompletionOf(text, cursor, ahead, prefix, open) ==
  IF prefix # <<>> /\ prefix[1] \in Digits THEN None
  ELSE Narrowed(Candidates(Qualifier(ahead), PreviousWord(ahead), prefix, Referenced(StatementHere(text, cursor)), open), prefix, cursor)
AheadOf(text, cursor, prefix, open) == CompletionOf(text, cursor, SubSeq(text, 1, cursor - Len(prefix)), prefix, open)
Completion(text, cursor, open) ==
  IF InStringOrComment(Last(LinesOf(Before(text, cursor)))) THEN None ELSE AheadOf(text, cursor, PrefixOf(Before(text, cursor)), open)

-----------------------------------------------------------------------------
\* The rows the text is drawn on (sql.rs): [line, from, to], from counting the characters before

WidthOf(s) == Len(s) + Cardinality({i \in DOMAIN s : s[i] \in Wide})
Fitting(s, width) == Max({n \in 0..Len(s) : WidthOf(SubSeq(s, 1, n)) <= width})
\* How many characters of a line that does not fit go on its first row
FirstRow(s, width) ==
  LET fits == Max({Fitting(s, width), 1}) spaces == {i \in 2..fits : s[i] = " "}
  IN IF spaces = {} THEN fits ELSE Max(spaces)
Wrap(line, width) ==
  LET starts[at \in 0..Len(line)] ==
        LET rest == SubSeq(line, at + 1, Len(line))
        IN IF Fitting(rest, width) = Len(rest) THEN <<at>> ELSE <<at>> \o starts[at + FirstRow(rest, width)]
  IN IF width = 0 THEN <<0>> ELSE starts[0]
\* A mutant of Rooms: no row is added
RoomsOnly(line, starts, ends, width) == starts
\* A line the cursor is at the end of has a row more when its last is full
Rooms(line, starts, ends, width) ==
  IF ends /\ WidthOf(SubSeq(line, Last(starts) + 1, Len(line))) >= width THEN Append(starts, Len(line)) ELSE starts
LineRows(line, l, starts) ==
  [i \in DOMAIN starts |-> [line |-> l, from |-> starts[i], to |-> IF i = Len(starts) THEN Len(line) ELSE starts[i + 1]]]
RowsIn(lines, at, column, width) ==
  FlattenSeq([l \in DOMAIN lines |->
    LineRows(lines[l], l, Rooms(lines[l], Wrap(lines[l], width), l = at /\ column = Len(lines[l]), width))])
RowsOf(text, cursor, width) == RowsIn(LinesOf(text), LineAt(text, cursor), ColumnAt(text, cursor), width)
CursorRow(rows, at, column) ==
  Max({i \in DOMAIN rows : rows[i].line = at /\ rows[i].from <= column /\
         (column < rows[i].to \/ i = Len(rows) \/ rows[i + 1].line # rows[i].line)})
DrawnOn(lines, row) == SubSeq(lines[row.line], row.from + 1, row.to)
\* Where the cursor is drawn, from <<0, 0>>, on the row at of those in view
CursorOn(drawn, ahead) == WidthOf(SubSeq(drawn, 1, Min({ahead, Len(drawn)}))) + Less(ahead, Len(drawn))
PaneOf(lines, rows, at, column, height) ==
  [rows |-> SubSeq(rows, Less(at, height) + 1, Min({Less(at, height) + height, Len(rows)})),
   cursor |-> <<at - 1 - Less(at, height), CursorOn(DrawnOn(lines, rows[at]), column - rows[at].from)>>]
PaneFrom(text, rows, at, column, height) == PaneOf(LinesOf(text), rows, CursorRow(rows, at, column), column, height)
Pane(text, cursor, size) == PaneFrom(text, RowsOf(text, cursor, size[1]), LineAt(text, cursor), ColumnAt(text, cursor), size[2])
\* The place in the text that is drawn in a row and a column of the pane
PositionOn(lines, row, drawn, column) ==
  AtLineColumn(lines, row.line, row.from + Fitting(drawn, column) + Less(column, WidthOf(drawn)))
PositionIn(lines, row, column) == PositionOn(lines, row, DrawnOn(lines, row), column)
PositionAt(text, pane, row, column) == PositionIn(LinesOf(text), pane.rows[Min({row + 1, Len(pane.rows)})], column)

-----------------------------------------------------------------------------
\* The editor and its results (browser/query.rs): t is what the variables hold, with what was done last

Quiet == [what |-> "nothing"]
Insert(t, cs) ==
  [t EXCEPT !.text = SubSeq(t.text, 1, t.cursor) \o cs \o SubSeq(t.text, t.cursor + 1, Len(t.text)), !.cursor = @ + Len(cs)]
Backspace(t) ==
  IF t.cursor = 0 THEN t
  ELSE [t EXCEPT !.text = SubSeq(t.text, 1, t.cursor - 1) \o SubSeq(t.text, t.cursor + 1, Len(t.text)), !.cursor = @ - 1]
MoveLine(t, l) ==
  IF l \notin DOMAIN LinesOf(t.text) THEN t ELSE [t EXCEPT !.cursor = AtLineColumn(LinesOf(t.text), l, ColumnAt(t.text, t.cursor))]
\* QueryEditor::handle, of the keys that are typed here
Handle(t, key) ==
  CASE key = "Enter" -> Insert(t, <<"nl">>)
    [] key = "Backspace" -> Backspace(t)
    [] key = "Left" -> [t EXCEPT !.cursor = Less(@, 1)]
    [] key = "Right" -> [t EXCEPT !.cursor = Min({@ + 1, Len(t.text)})]
    [] key = "Up" -> MoveLine(t, LineAt(t.text, t.cursor) - 1)
    [] key = "Down" -> MoveLine(t, LineAt(t.text, t.cursor) + 1)
    [] key = "Tab" -> Insert(t, <<" ", " ">>)
    [] key \in {"Ctrl-r", "Escape"} -> t
    [] OTHER -> Insert(t, <<key>>)

\* The table after the first from, as FROM_TABLE reads it
PartEnd(s, from, to) == IF to = from THEN 0 ELSE NameClosed(s, to)
PartAt(s, from) == PartEnd(s, from, Past1(s, from, WordTokens))
EndOfPart(s, i) == PartAt(s, NameStart(s, i))
EndOfParts(s, first) == IF first > 0 /\ DotAt(s, first) THEN Longer(first, EndOfPart(s, first + 1)) ELSE first
FromAt(s, i) ==
  s[i] = "from" /\ ~IsWordAt(s, i - 1) /\ BlankAt(s, i + 1) /\ EndOfPart(s, Past1(s, i + 1, Blanks)) > 0
NameFrom(s, i) == SubSeq(s, i, EndOfParts(s, EndOfPart(s, i)) - 1)
FirstFrom(s, froms) == IF froms = {} THEN None ELSE NameFrom(s, Past1(s, Min(froms) + 1, Blanks))
FromTable(s) == FirstFrom(s, {i \in DOMAIN s : FromAt(s, i)})
\* A mutant of Following: the table of the results before stays when none is found
KeepsTable(t, named) ==
  IF named = None THEN t ELSE [t EXCEPT !.table = named, !.at = SelectInSeq(Tables, LAMBDA x : x = named[1])]
Following(t, named) ==
  IF named = None THEN [t EXCEPT !.table = None]
  ELSE [t EXCEPT !.table = named, !.at = SelectInSeq(Tables, LAMBDA x : x = named[1])]
FollowNamed(t, name) == Following(t, IF name = None THEN None ELSE Resolve(name))
FollowQueryTable(t, statement) == FollowNamed(t, FromTable(statement))
\* What a write makes the browser read again is in Catalog
RunQuery(t, statement, fails) ==
  LET sent == [t EXCEPT !.did = [what |-> "sent", sql |-> statement]]
  IN IF Trim(statement) = <<>> THEN t
     ELSE IF (t.readOnly /\ ~IsReadOnly(statement)) THEN [t EXCEPT !.problem = TRUE]
     ELSE IF fails THEN [sent EXCEPT !.problem = TRUE]
     ELSE FollowQueryTable([sent EXCEPT !.results = TRUE, !.ran = statement, !.sort = SortOf(statement)], statement)
RunStatementAtCursor(t, fails) == RunQuery(t, StatementHere(t.text, t.cursor), fails)

Replace(t, from, to, cs) ==
  [t EXCEPT !.text = SubSeq(t.text, 1, from) \o cs \o SubSeq(t.text, to + 1, Len(t.text)), !.cursor = from + Len(cs)]
Completed(t, offered) ==
  [Replace(t, offered.start, offered.end, offered.items[offered.index].text) EXCEPT
     !.did = [what |-> "completed", offered |-> offered, text |-> t.text, cursor |-> t.cursor]]
Complete(t, offered) == IF offered.end # t.cursor THEN t ELSE Completed(t, offered)
MoveBy(offered, by) == [offered EXCEPT !.index = 1 + ((@ - 1 + by) % Len(offered.items))]
TakeCompletionKey(t, key, offered) ==
  CASE key \in {"Tab", "Enter"} -> Complete(t, offered)
    [] key = "Up" -> [t EXCEPT !.offered = MoveBy(offered, Len(offered.items) - 1)]
    [] key = "Down" -> [t EXCEPT !.offered = MoveBy(offered, 1)]
    [] key = "Escape" -> t
\* A key that edits the text as a letter or Backspace does offers a completion
OfferCompletionAfter(t, key) ==
  IF key \in {"Tab", "Enter", "Up", "Down", "Left", "Right", "Escape", "Ctrl-r"} THEN t
  ELSE [t EXCEPT !.offered = Completion(t.text, t.cursor, Tables[t.at])]
LeaveQuery(t) == [t EXCEPT !.offered = None, !.writing = FALSE]
TypeIntoQuery(t, key, fails) ==
  LET clear == [t EXCEPT !.offered = None]
  IN CASE t.offered # None /\ key \in {"Tab", "Enter", "Up", "Down", "Escape"} -> TakeCompletionKey(clear, key, t.offered)
       [] key = "Ctrl-r" -> RunStatementAtCursor(clear, fails)
       [] t.offered = None /\ key = "Escape" -> LeaveQuery(clear)
       [] OTHER -> OfferCompletionAfter(Handle(clear, key), key)
TypeIntoProblem(t, key) == IF key \in {"Up", "Down"} THEN t ELSE [t EXCEPT !.problem = FALSE]

\* Pressed again, a column is sorted the other way and then not
Turned(sort, column) ==
  CASE sort = None -> [column |-> column, direction |-> "asc"]
    [] sort # None /\ sort.column # column -> [column |-> column, direction |-> "asc"]
    [] sort # None /\ sort.column = column /\ sort.direction = "asc" -> [column |-> column, direction |-> "desc"]
    [] OTHER -> None
Sorted(t, ran, sort) == [ran EXCEPT !.did = [what |-> "sorted", text |-> t.text, sort |-> sort, sql |-> ran.text]]
RunSorted(t, rewritten, sort, fails) ==
  IF rewritten = None THEN t
  ELSE Sorted(t, RunQuery([t EXCEPT !.text = rewritten[1], !.cursor = Len(rewritten[1])], rewritten[1], fails), sort)
SortBy(t, sort, fails) == RunSorted(t, Apply(t.text, sort), sort, fails)
SortQueryResults(t, column, fails) == SortBy(t, Turned(t.sort, column), fails)

-----------------------------------------------------------------------------
Done(t) == tql' = t /\ past' = [past EXCEPT !.left = @ - 1]
Here == [tql EXCEPT !.did = Quiet]

\* Keys, one after the other
Type(keys) ==
  /\ tql.writing \/ tql.problem
  /\ \E fails \in (IF "Ctrl-r" \in ToSet(keys) THEN BOOLEAN ELSE {FALSE}) :
       Done(FoldLeft(LAMBDA t, key : CASE t.problem -> TypeIntoProblem(t, key)
                                       [] ~t.problem /\ t.writing -> TypeIntoQuery(t, key, fails)
                                       [] OTHER -> t, Here, keys))
\* s on a column of the results
Sort(column) ==
  /\ tql.results /\ ~tql.writing /\ ~tql.problem
  /\ \E fails \in BOOLEAN : Done(SortQueryResults(Here, column, fails))
\* The editor opened over the results
OpenQuery ==
  /\ ~tql.writing /\ ~tql.problem
  /\ Done([Here EXCEPT !.writing = TRUE, !.text = IF @ = <<>> THEN tql.ran ELSE @, !.cursor = IF tql.text = <<>> THEN Len(tql.ran) ELSE @])
\* A statement of the history: a completion that is offered stays
UseStatement(text) ==
  /\ ~tql.problem
  /\ Done([Here EXCEPT !.writing = TRUE, !.text = text, !.cursor = Len(text), !.offered = IF @ = None THEN None ELSE [@ EXCEPT !.old = TRUE]])
\* A query the AI answered with or an agent wrote
ReplaceQuery(text) == tql.writing /\ ~tql.problem /\ Done([Here EXCEPT !.text = text, !.cursor = Len(text), !.offered = None])
PasteIntoQuery(text) == tql.writing /\ ~tql.problem /\ Done([Insert(Here, text) EXCEPT !.offered = None])
ClickEditor(size, row, column) ==
  /\ ~tql.problem
  /\ Done([Here EXCEPT !.writing = TRUE, !.cursor = PositionAt(tql.text, Pane(tql.text, tql.cursor, size), row, column)])

Init ==
  \E kit \in DOMAIN Kits : \E text \in Kits[kit].starts, readOnly \in Kits[kit].readOnly :
    /\ tql = [text |-> text, cursor |-> Len(text), offered |-> None, writing |-> TRUE, results |-> FALSE, ran |-> <<>>, table |-> None,
              at |-> 1, sort |-> None, problem |-> FALSE, readOnly |-> readOnly, did |-> Quiet]
    /\ past = [left |-> Kits[kit].steps, kit |-> kit]
Next ==
  LET kit == Kits[past.kit]
  IN /\ past.left > 0
     /\ \/ \E keys \in kit.typed : Type(keys)
        \/ \E column \in kit.columns : Sort(column)
        \/ OpenQuery
        \/ \E text \in kit.texts : UseStatement(text) \/ ReplaceQuery(text) \/ PasteIntoQuery(text)
        \/ \E size \in kit.panes : \E row \in 0..size[2] - 1, column \in {0, size[1] - 1} : ClickEditor(size, row, column)
Spec == Init /\ [][Next]_statementVars

-----------------------------------------------------------------------------
\* Properties

\* The places of a text that are in a string, a quoted name, a comment or a body, by a lexer of its own
Hidden(s) ==
  LET on(st, i) ==
        CASE st.in = "" /\ s[i] \in Quotes \cup {"[", "--", "/*", "$$"} -> [in |-> Closing(s[i]), places |-> st.places \cup {i}]
          [] st.in # "" /\ (s[i] = st.in \/ (st.in = "]" /\ s[i] = "nl")) -> [in |-> "", places |-> st.places \cup {i}]
          [] st.in # "" /\ s[i] # st.in -> [in |-> st.in, places |-> st.places \cup {i}]
          [] OTHER -> st
  IN FoldLeft(on, [in |-> "", places |-> {}], [i \in DOMAIN s |-> i]).places
Balance(s) ==
  LET code == DOMAIN s \ Hidden(s)
  IN Cardinality({i \in code : Opens(s, i)}) - Cardinality({i \in code : Stands(s, i, {"end"})})

\* Of a text nothing but blanks, semicolons and lines of go is left out of its statements, a
\* semicolon is inside one only in the body of a routine that is not at its end yet, and what runs
\* is the first that the cursor is in (split, at).
RunsOneStatement ==
  LET text == tql.text found == Split(text) hidden == Hidden(text)
      Within(st) == st.start + 1..st.start + Len(st.sql)
      left == DOMAIN text \ UNION {Within(found[i]) : i \in DOMAIN found}
      at == {i \in DOMAIN found : tql.cursor \in found[i].start..found[i].end}
  IN /\ \A i \in left : text[i] \in Blanks \/ (i \notin hidden /\ text[i] \in {";", "go"})
     /\ \A i \in DOMAIN found :
          LET st == found[i]
              ends == {k \in DOMAIN st.sql : st.sql[k] = ";" /\ k \notin Hidden(st.sql)}
          IN /\ SubSeq(text, st.start + 1, st.start + Len(st.sql)) = st.sql
             /\ ends # {} => IsRoutine(st.sql)
             /\ \A k \in ends : Balance(SubSeq(st.sql, 1, k)) > 0
             /\ IsRoutine(st.sql) /\ st.end > st.start + Len(st.sql) => Balance(st.sql) <= 0
     /\ at # {} => At(text, tql.cursor) = <<found[Min(at)]>>

\* What a connection marked read-only is sent is one statement, and it starts by reading (run_query).
ReadsOnly ==
  tql.readOnly /\ tql.did.what = "sent" =>
    LET s == tql.did.sql
        code == SelectSeq([i \in DOMAIN s |-> IF i \in Hidden(s) THEN " " ELSE s[i]], LAMBDA c : c \notin Blanks)
    IN Head(code) \in {"select", "with"} /\ ";" \notin ToSet(TrimEnd(code, {";"}))

\* The tokens of a statement that are not blank, and not in its own order by
Said(s) ==
  LET orders == OrdersAt(TopLevel(s), 1)
      ends == LimitsAt(TopLevel(s), 1)
      from == IF orders = {} THEN Len(s) + 1 ELSE Min(orders)
      to == Min({i \in ends : i > from} \cup {Len(s) + 1})
  IN SelectSeq(SubSeq(s, 1, from - 1) \o SubSeq(s, to, Len(s)), LAMBDA c : c \notin Blanks)

\* A sorted statement says what it said but for its order, the order it has is read back as the one
\* asked for, where its column is one word, and it is what was sent (apply, of, sort_query_results).
SortIsKept ==
  tql.did.what = "sorted" =>
    LET d == tql.did
        Plain(s) == TrimEnd(s, {";"})
    IN /\ Plain(Said(d.sql)) = Plain(Said(TrimEnd(d.text, Blanks \cup {";"})))
       /\ d.sort # None /\ ToSet(d.sort.column) \subseteq Letters => SortOf(d.sql) = d.sort
       /\ d.sort = None => SortOf(d.sql) = None
       /\ ~tql.problem => tql.ran = d.sql /\ tql.results

\* The table that results are taken for is the one the statement that ran names after a from, and
\* the one that is open (follow_query_table); a from that is quoted is not told from one that is not.
FollowsTheTable ==
  tql.table # None =>
    LET s == tql.ran
        names == WordTokens \cup {"\"", "grave", "[", "]", "."}
        froms == {i \in DOMAIN s : Stands(s, i, {"from"}) /\ Past1(s, Past1(s, i + 1, Blanks), names) > Past1(s, i + 1, Blanks)}
        start == Past1(s, Min(froms) + 1, Blanks)
    IN /\ tql.results /\ froms # {}
       /\ LET name == SubSeq(s, start, Past1(s, start, names) - 1) IN <<>> \notin ToSet(SplitName(name)) => Resolve(name) = tql.table
       /\ Tables[tql.at] = tql.table[1]

\* What a server reads a name as that it folds where it is not quoted
ReadAs(typed) ==
  LET on(st, c) ==
        CASE st.in # "" /\ c = st.in -> [st EXCEPT !.in = ""]
          [] st.in # "" /\ c # st.in -> [st EXCEPT !.parts[Len(st.parts)] = Append(@, c)]
          [] st.in = "" /\ c \in {"\"", "grave", "["} -> [st EXCEPT !.in = Closing(c)]
          [] st.in = "" /\ c = "." -> [st EXCEPT !.parts = Append(@, <<>>)]
          [] OTHER -> [st EXCEPT !.parts[Len(st.parts)] = Append(@, IF c = "A" THEN "a" ELSE c)]
  IN FoldLeft(on, [in |-> "", parts |-> <<<<>>>>], typed).parts
TablesNamed(s) ==
  {Tables[n] : n \in {m \in DOMAIN Tables :
     \E i \in DOMAIN s : Stands(s, i, {"from", "join", "update", "into"}) /\
       Resolve(SubSeq(s, i + 1, Past1(s, Past1(s, i + 1, Blanks), WordTokens \cup Quotes \cup {".", "[", "]"}) - 1)) = <<Tables[m]>>}}

\* A completion writes over the word it was offered for, unless a text was put in its place; the
\* table taken is one the server reads there; and a column is one of a table that the statement at
\* the cursor or the name before the dot names, or of the table that is open (Completion::at, complete).
CompletesTheWord ==
  tql.did.what = "completed" /\ ~tql.did.offered.old =>
    LET d == tql.did
        item == d.offered.items[d.offered.index]
        typed == Before(tql.text, tql.cursor)
        name == SubSeq(typed, 1 + Max({0} \cup {i \in DOMAIN typed : typed[i] \notin WordTokens \cup {".", "\""}}), Len(typed))
        read == ReadAs(name)
        \* where the word is a name, or the last part of one
        stands ==
          /\ <<>> \notin ToSet(read) /\ (d.offered.start = 0 \/ d.text[d.offered.start] \in Blanks \cup {"."})
          /\ \A k \in DOMAIN name : name[k] = "\"" => ~IsWordAt(name, k - 1) \/ ~IsWordAt(name, k + 1)
        named == TablesNamed(StatementHere(d.text, d.cursor))
        whose == CASE Len(read) > 1 -> named \cup ToSet(ResolveParts(SubSeq(read, Max({1, Len(read) - 2}), Len(read) - 1)))
                   [] Len(read) = 1 /\ named = {} -> {Tables[tql.at]}
                   [] OTHER -> named
    IN /\ SubSeq(d.text, d.offered.start + 1, d.offered.end) = d.offered.word /\ d.offered.end = d.cursor
       /\ stands /\ item.kind \in {"table", "column", "schema"} => Last(read) = item.label
       /\ stands /\ item.kind = "table" => \E n \in DOMAIN Tables : Tables[n].name = Last(read) /\ (item.note = <<>> \/ <<item.note, item.label>> = read)
       /\ stands /\ item.kind = "column" => \E table \in whose : item.label \in ToSet(Columns[table])

\* The text is drawn whole, no row is wider than the pane, the cursor is in view, and a click on it
\* leads back to it (layout, pane, position_at).
DrawnWhole(lines, rows, width) ==
  /\ \A l \in DOMAIN lines : FlattenSeq([i \in DOMAIN rows |-> IF rows[i].line = l THEN DrawnOn(lines, rows[i]) ELSE <<>>]) = lines[l]
  /\ \A i \in DOMAIN rows : WidthOf(DrawnOn(lines, rows[i])) <= width \/ rows[i].to = rows[i].from + 1
CursorInView(pane, size) ==
  /\ pane.cursor[1] < size[2] /\ pane.cursor[2] < size[1]
  /\ PositionAt(tql.text, pane, pane.cursor[1], pane.cursor[2]) = tql.cursor
PaneIsTrue ==
  \A size \in Panes :
    /\ DrawnWhole(LinesOf(tql.text), RowsOf(tql.text, tql.cursor, size[1]), size[1])
    /\ CursorInView(Pane(tql.text, tql.cursor, size), size)

StatementsAreTrue == RunsOneStatement /\ ReadsOnly /\ SortIsKept /\ FollowsTheTable /\ CompletesTheWord /\ PaneIsTrue
=============================================================================
