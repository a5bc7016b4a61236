------------------------------- MODULE Config -------------------------------
(***************************************************************************)
(* The settings (src/app/config_file/, src/app/settings.rs,                 *)
(* src/app/tui/settings_modal/, src/app/tui/keymap/): config.toml is the    *)
(* user's and tql's.  tql adds what is new, the settings modal changes one  *)
(* line, `tql config --tidy` puts it in order; each reads the whole file    *)
(* and writes it back, with several tqls at once.  A line is a record, and  *)
(* a value a sequence: one word, or the words of a list.                    *)
(***************************************************************************)
EXTENDS Naturals, Sequences, SequencesExt, FiniteSets, TLC

CONSTANTS
  Procs, Roles,  \* the tqls, and what each is started for
  Settings,  \* in order: section, key, default, since, kind, choices, env (how the environment sets it)
  Version,   \* of this tql
  Bindings,  \* the keys at first: name, keys, rebindable
  Files,     \* what config.toml may be at first
  Environment, \* of the settings it sets: to what
  Typed,     \* what is typed for a value
  Rooms      \* how many moves, keys and starts

VARIABLES
  file,   \* its lines, or none yet
  procs,  \* of each tql what it does
  kept,   \* of each setting saved its value, until another hand changes it
  so      \* how many starts, moves and keys so far, and whether two wrote at once

configVars == <<file, procs, kept, so>>

NoFile == <<[is |-> "no file", name |-> "", value |-> <<>>]>>
Overflow == <<[is |-> "overflow", name |-> "", value |-> <<>>]>>
Line(is, name, value) == [is |-> is, name |-> name, value |-> value]
Blank == Line("blank", "", <<>>)
Comment(name) == Line("comment", name, <<>>)
Header(section) == Line("header", section, <<>>)
Assign(key, value) == Line("set", key, value)
Stamp(version) == Line("stamp", "", <<version>>)

-----------------------------------------------------------------------------
\* The template

Sections == FoldLeft(LAMBDA known, s : IF s.section \in Range(known) THEN known ELSE Append(known, s.section), <<>>, Settings)
Block(s) == <<Comment(s.key), Assign(s.key, s.default)>>
Render ==
  <<Stamp(Version)>> \o FlattenSeq([i \in DOMAIN Sections |->
    LET of == SelectSeq(Settings, LAMBDA s : s.section = Sections[i])
    IN <<Blank, Header(Sections[i])>> \o FlattenSeq([j \in DOMAIN of |-> <<Blank>> \o Block(of[j])])]) \o <<Blank>>
SectionOf(key) == LET i == SelectInSeq(Settings, LAMBDA s : s.key = key) IN IF i = 0 THEN "" ELSE Settings[i].section

-----------------------------------------------------------------------------
\* What a file says, as TOML has it: of each place its value, or an error.  A list goes on from
\* "[" to "]" over lines, blanks and comments.

Reading == [table |-> << >>, section |-> "", seen |-> {}, list |-> "", error |-> FALSE]
Put(t, place, value) == [p \in DOMAIN t \cup {place} |-> IF p = place THEN value ELSE t[p]]
ReadLine(r, l) ==
  LET place == <<r.section, l.name>>
  IN IF r.error \/ l.is \in {"blank", "comment", "stamp"} THEN r
     ELSE IF r.list # ""
     THEN IF l.is # "more" THEN [r EXCEPT !.error = TRUE]
          ELSE IF l.name = "]" THEN [r EXCEPT !.list = ""]
          ELSE [r EXCEPT !.table[<<r.section, r.list>>] = Append(@, l.name)]
     ELSE CASE l.is \in {"header", "noted"} ->
                 [r EXCEPT !.section = l.name, !.seen = @ \cup {l.name}, !.error = l.name \in r.seen]
            [] l.is = "set" ->
                 [r EXCEPT !.table = Put(@, place, IF l.value = <<"[">> THEN <<>> ELSE l.value),
                           !.list = IF l.value = <<"[">> THEN l.name ELSE "", !.error = place \in DOMAIN r.table]
            [] OTHER -> [r EXCEPT !.error = TRUE]
Ended(r) == [table |-> r.table, error |-> r.error \/ r.list # ""]
Toml(lines) == Ended(FoldLeft(ReadLine, Reading, lines))

\* A setting above the first section is taken for one of its own section
Hoisted(t) ==
  LET moved == {s \in Range(Settings) : <<"", s.key>> \in DOMAIN t}
      kept_ == DOMAIN t \ {<<"", s.key>> : s \in moved}
      added == {<<s.section, s.key>> : s \in moved} \ kept_
  IN [table |-> [p \in kept_ \cup added |-> IF p \in kept_ THEN t[p] ELSE t[<<"", p[2]>>]], moved |-> added]

-----------------------------------------------------------------------------
\* Writing into a file

WrittenFor(lines) ==
  LET i == SelectInSeq(lines, LAMBDA l : l.is = "stamp" /\ l.value # <<0>>) IN IF i = 0 THEN 0 ELSE lines[i].value[1]
Newer(version, than) == version > than

Stamped(lines) ==
  LET i == SelectInSeq(lines, LAMBDA l : l.is = "stamp")
  IN IF i = 0 THEN <<Stamp(Version)>> \o lines ELSE [lines EXCEPT ![i] = Stamp(Version)]

Assigns(l, key) == l.is = "set" /\ l.name = key
Has(lines, key) == \E i \in DOMAIN lines : Assigns(lines[i], key)
HeaderAt(lines, section) == SelectInSeq(lines, LAMBDA l : l = Header(section))
FirstAfter(lines, at, Test(_)) ==
  LET found == {i \in DOMAIN lines : i > at /\ Test(lines[i])} IN IF found = {} THEN 0 ELSE CHOOSE i \in found : \A j \in found : i <= j

\* Behind the nearest of the settings that come before it and are there
AfterLast(lines, at, places) == IF places = <<>> THEN 0 ELSE Last(places) + 1
AfterPrevious(lines, s, at) ==
  LET places == [i \in DOMAIN Settings |->
        IF Settings[i].section = s.section THEN FirstAfter(lines, at, LAMBDA l : Assigns(l, Settings[i].key)) ELSE 0]
      mine == SelectInSeq(Settings, LAMBDA x : x.key = s.key)
  IN AfterLast(lines, at, SelectSeq(SubSeq(places, 1, mine - 1), LAMBDA i : i # 0))
AfterHeader(lines, at) ==
  LET i == FirstAfter(lines, at, LAMBDA l : l.is \notin {"comment", "stamp"}) IN IF i = 0 THEN Len(lines) + 1 ELSE i

TrimEnd(lines) ==
  LET filled == SelectLastInSeq(lines, LAMBDA l : l # Blank) IN SubSeq(lines, 1, filled)

Spliced(lines, s, at) == SubSeq(lines, 1, at - 1) \o <<Blank>> \o Block(s) \o SubSeq(lines, at, Len(lines))
InsertBehind(lines, s, header, previous) == Spliced(lines, s, IF previous # 0 THEN previous ELSE AfterHeader(lines, header))
InsertUnder(lines, s, header) ==
  IF header = 0 THEN TrimEnd(lines) \o <<Blank, Header(s.section), Blank>> \o Block(s) \o <<Blank>>
  ELSE InsertBehind(lines, s, header, AfterPrevious(lines, s, header))
Insert(lines, s) == InsertUnder(lines, s, HeaderAt(lines, s.section))

\* Its line: in its section, or else above all of them
IsHeader(l) == l.is \in {"header", "noted"}
InSectionAt(header, next, mine) == IF header # 0 /\ mine # 0 /\ (next = 0 \/ mine < next) THEN mine ELSE 0
AtTheTop(first, top) == IF first = 0 \/ top < first THEN top ELSE 0
Either(i, j) == IF i # 0 THEN i ELSE j
LineUnder(lines, s, header) ==
  Either(InSectionAt(header, FirstAfter(lines, header, IsHeader), FirstAfter(lines, header, LAMBDA l : Assigns(l, s.key))),
         AtTheTop(FirstAfter(lines, 0, IsHeader), FirstAfter(lines, 0, LAMBDA l : Assigns(l, s.key))))
LineOf(lines, s) == LineUnder(lines, s, HeaderAt(lines, s.section))

\* Inserted first when it is not there.  Where it is inserted behind a setting that stands in
\* another section it is never found, and is inserted without end.
SetAt(lines, s, value, at) == IF at = 0 THEN Overflow ELSE [lines EXCEPT ![at] = Assign(s.key, value)]
SetInserted(lines, s, value) == SetAt(lines, s, value, LineOf(lines, s))
SetOrInsert(lines, s, value, at) == IF at # 0 THEN SetAt(lines, s, value, at) ELSE SetInserted(Insert(lines, s), s, value)
Set(lines, s, value) == SetOrInsert(lines, s, value, LineOf(lines, s))

\* A mutant of TopUp: whatever is not there is added
TopUpAll(lines) ==
  Stamped(FoldLeft(LAMBDA c, s : IF Has(c, s.key) THEN c ELSE Insert(c, s), lines, Settings))

\* What is new since the version it was written for
Added(lines, since) ==
  FoldLeft(LAMBDA c, s : IF Has(c, s.key) \/ (since # 0 /\ ~Newer(s.since, since)) THEN c ELSE Insert(c, s), lines, Settings)
ToppedUp(lines, since) == IF since # 0 /\ ~Newer(Version, since) THEN lines ELSE Stamped(Added(lines, since))
TopUp(lines) == ToppedUp(lines, WrittenFor(lines))

-----------------------------------------------------------------------------
\* Tidying: the file is taken apart into sections of entries, each with the comments above it

NoSection(name) == [name |-> name, above |-> <<>>, notes |-> <<>>, entries |-> <<>>]
NoEntry == [belongs |-> "", key |-> "", lines |-> <<>>]
Parsing == [preamble |-> <<>>, root |-> <<>>, sections |-> <<>>, current |-> "", pending |-> <<>>, open |-> NoEntry]

InSection(f, name, Change(_)) ==
  LET i == SelectInSeq(f.sections, LAMBDA x : x.name = name)
  IN IF i # 0 THEN [f EXCEPT !.sections[i] = Change(@)] ELSE [f EXCEPT !.sections = Append(@, Change(NoSection(name)))]
SetAside(f, comments) ==
  IF f.current = "" THEN [f EXCEPT !.preamble = @ \o comments]
  ELSE InSection(f, f.current, LAMBDA x : [x EXCEPT !.notes = @ \o comments])
Keep(f) ==
  LET e == f.open
      closed == [f EXCEPT !.open = NoEntry]
  IN IF e = NoEntry THEN f
     ELSE IF e.belongs = "" THEN [closed EXCEPT !.root = Append(@, e)]
     ELSE InSection(closed, e.belongs, LAMBDA x : [x EXCEPT !.entries = Append(@, e)])

\* A line that is none of these goes on with the entry above it, or nowhere
ParseLine(f, l) ==
  LET k == Keep(f)
      belongs == IF f.current # "" THEN f.current ELSE SectionOf(l.name)
  IN CASE l.is = "header" ->
            [InSection(k, l.name, LAMBDA x : [x EXCEPT !.above = @ \o f.pending]) EXCEPT !.pending = <<>>, !.current = l.name]
       [] l.is = "blank" -> SetAside([k EXCEPT !.pending = <<>>], f.pending)
       [] l.is = "stamp" /\ f.current = "" -> [k EXCEPT !.preamble = Append(@, l)]
       [] l.is = "comment" \/ (l.is = "stamp" /\ f.current # "") -> [k EXCEPT !.pending = Append(@, l)]
       [] l.is = "set" -> [k EXCEPT !.pending = <<>>, !.open = [belongs |-> belongs, key |-> l.name, lines |-> Append(f.pending, l)]]
       [] OTHER -> IF f.open = NoEntry THEN f ELSE [f EXCEPT !.open.lines = Append(@, l)]
Parsed(f) == SetAside([Keep(f) EXCEPT !.pending = <<>>], f.pending)
Parse(lines) == Parsed(FoldLeft(ParseLine, Parsing, lines))

\* The sections of the template in its order, then the others
Ordered(sections) ==
  LET known == SelectSeq([i \in DOMAIN Sections |-> SelectInSeq(sections, LAMBDA x : x.name = Sections[i])], LAMBDA i : i # 0)
  IN [i \in DOMAIN known |-> sections[known[i]]] \o SelectSeq(sections, LAMBDA x : x.name \notin Range(Sections))

\* A mutant of Sorted: what tql does not know is dropped
SortedKnown(section) ==
  LET known == SelectSeq(Settings, LAMBDA s : s.section = section.name)
  IN FlattenSeq([i \in DOMAIN known |-> SelectSeq(section.entries, LAMBDA e : e.key = known[i].key)])

Sorted(section) ==
  LET known == SelectSeq(Settings, LAMBDA s : s.section = section.name)
      of(key) == SelectSeq(section.entries, LAMBDA e : e.key = key)
      unknown == SelectSeq(section.entries, LAMBDA e : SectionOf(e.key) # section.name)
  IN FlattenSeq([i \in DOMAIN known |-> IF of(known[i].key) = <<>> THEN <<>> ELSE <<Last(of(known[i].key))>>]) \o unknown
Entries(entries) == FlattenSeq([i \in DOMAIN entries |-> <<Blank>> \o entries[i].lines])

Section(x) == <<Blank>> \o x.above \o <<Header(x.name)>> \o x.notes \o Entries(Sorted(x))
Joined(f, sections) ==
  TrimEnd(f.preamble) \o Entries(f.root) \o FlattenSeq([i \in DOMAIN sections |-> Section(sections[i])]) \o <<Blank>>
Unparsed(f) == Joined(f, Ordered(f.sections))
Tidied(lines) == Unparsed(Parse(lines))

-----------------------------------------------------------------------------
\* What tql takes from it

\* A key's name; a few are bytes that a terminal sends for other keys
ParseKey(name) ==
  CASE name = "ctrl+i" -> <<"tab">> [] name \in {"ctrl+j", "ctrl+m"} -> <<"enter">> [] name = "ctrl+h" -> <<"backspace">>
    [] name = "esc" -> <<"escape">> [] name = "bad" -> <<>> [] OTHER -> <<name>>

Rebind(bindings, name, value) ==
  LET keys == FlattenSeq([i \in DOMAIN value |-> ParseKey(value[i])])
  IN [i \in DOMAIN bindings |->
       IF bindings[i].name = name /\ bindings[i].rebindable /\ keys # <<>> THEN [bindings[i] EXCEPT !.keys = keys] ELSE bindings[i]]
Keymap(t) ==
  FoldLeft(LAMBDA b, name : IF <<"keys", name>> \in DOMAIN t THEN Rebind(b, name, t[<<"keys", name>>]) ELSE b,
           Bindings, [i \in DOMAIN Bindings |-> Bindings[i].name])
ActionOf(keymap, key) ==
  LET i == SelectInSeq(keymap, LAMBDA b : key \in Range(b.keys)) IN IF i = 0 THEN "" ELSE keymap[i].name
\* A mutant of Clashes: only the keys that can be changed are compared
ClashesRebound(keymap) ==
  {<<key, i, j>> \in (UNION {Range(b.keys) : b \in Range(keymap)}) \X (DOMAIN keymap) \X (DOMAIN keymap) :
     i < j /\ keymap[i].rebindable /\ key \in Range(keymap[i].keys) /\ key \in Range(keymap[j].keys)}

Clashes(keymap) ==
  {<<key, i, j>> \in (UNION {Range(b.keys) : b \in Range(keymap)}) \X (DOMAIN keymap) \X (DOMAIN keymap) :
     i < j /\ key \in Range(keymap[i].keys) /\ key \in Range(keymap[j].keys)}

\* A value that is not of its kind is none; some kinds have a least and a most
Taken(s, value) ==
  CASE s.kind = "flag" -> IF value = <<"true">> THEN value ELSE <<"false">>
    [] s.kind = "whole" -> IF value[1] \in Range(s.choices) THEN value ELSE <<s.choices[1]>>
    [] OTHER -> value
SettingsFrom(t) ==
  [s \in Range(Settings) |->
     IF s.env = "wins" /\ s.key \in DOMAIN Environment THEN Environment[s.key]
     ELSE IF <<s.section, s.key>> \in DOMAIN t THEN Taken(s, t[<<s.section, s.key>>])
     ELSE IF s.env = "loses" /\ s.key \in DOMAIN Environment THEN Environment[s.key] ELSE s.default]

\* A file that cannot be read is as good as none, and tql says so
Defaults(error) ==
  [settings |-> [s \in Range(Settings) |-> s.default], keymap |-> Bindings, values |-> << >>, notice |-> "", error |-> error]
Noticed(loaded, moved) ==
  [loaded EXCEPT !.notice = IF moved # {} THEN "moved" ELSE IF Clashes(loaded.keymap) # {} THEN "clashes" ELSE ""]
From(hoisted) ==
  Noticed([settings |-> SettingsFrom(hoisted.table), keymap |-> Keymap(hoisted.table), values |-> hoisted.table, error |-> FALSE,
           notice |-> ""], hoisted.moved)
LoadToml(toml) == IF toml.error THEN Defaults(TRUE) ELSE From(Hoisted(toml.table))
Load(lines) == IF lines = NoFile THEN Defaults(FALSE) ELSE LoadToml(Toml(lines))

-----------------------------------------------------------------------------
\* What a tql does: prepares the file, then shows the settings or tidies.  A write empties the
\* file and then fills it.

NoModal == [values |-> << >>, folded |-> {}, index |-> 1, filter |-> "", finding |-> FALSE, editing |-> 0, said |-> <<>>, failed |-> FALSE]
Off == [at |-> "off", does |-> "", read |-> <<>>, write |-> <<>>, saves |-> <<>>, modal |-> NoModal, loaded |-> Defaults(FALSE)]

Init ==
  /\ file \in Files
  /\ procs = [p \in Procs |-> Off]
  /\ kept = << >>
  /\ so \in [room : Rooms, starts : {0}, moves : {0}, keys : {0}, raced : {FALSE}]

\* Another is between its reading and the end of its writing
Others(p) == \E q \in Procs \ {p} : procs[q].at \in {"read", "emptied"}
Touching(p, n, k) == so' = [so EXCEPT !.starts = @ + n, !.keys = @ + k, !.raced = @ \/ Others(p)]
Writing(p, does, lines, saves) ==
  [procs[p] EXCEPT !.at = "read", !.does = does, !.read = file, !.write = lines, !.saves = saves]

Opened(does, loaded) == [Off EXCEPT !.at = "open", !.does = does, !.loaded = loaded, !.modal = [NoModal EXCEPT !.values = loaded.values]]
Prepared(does) == IF does = "tidy" THEN [Off EXCEPT !.at = "tidying", !.does = does] ELSE Opened(does, Load(file))

\* A tql starts: the file is written if there is none, and topped up
WriteUnlessSame(p, does, lines, otherwise) == IF lines # file THEN Writing(p, does, lines, <<>>) ELSE otherwise
Ensure(p, does) ==
  /\ procs[p].at = "off" /\ so.starts < so.room.starts /\ Touching(p, 1, 0)
  /\ procs' = [procs EXCEPT ![p] = WriteUnlessSame(p, does, IF file = NoFile THEN Render ELSE TopUp(file), Prepared(does))]
  /\ UNCHANGED <<file, kept>>

\* `tql config --tidy`: nothing is written when it is in order
Tidy(p) ==
  /\ procs[p].at = "tidying" /\ Touching(p, 0, 0)
  /\ procs' = [procs EXCEPT ![p] = WriteUnlessSame(p, "tidied", Tidied(file), Off)]
  /\ UNCHANGED <<file, kept>>

Empty(p) ==
  /\ procs[p].at = "read" /\ Touching(p, 0, 0)
  /\ file' = <<Blank>> /\ procs' = [procs EXCEPT ![p].at = "emptied"] /\ UNCHANGED kept

\* What is filled in lies over what another may have filled in since
Filled(p) == LET w == procs[p].write IN w \o SubSeq(file, Len(w) + 1, Len(file))

\* A setting that was written is read again with all the others, and used from now on
SavedUnread(p, loaded) == [procs[p] EXCEPT !.at = "open", !.modal.said = procs[p].saves]  \* A mutant of Saved: it is not read again
Saved(p, loaded) ==
  LET reread == [procs[p].modal EXCEPT !.values = loaded.values, !.failed = loaded.error]
  IN IF loaded.error THEN [procs[p] EXCEPT !.at = "open", !.modal = [reread EXCEPT !.said = <<>>]]
     ELSE [procs[p] EXCEPT !.at = "open", !.loaded = loaded, !.modal = [reread EXCEPT !.said = procs[p].saves]]

Fill(p) ==
  LET does == procs[p].does
  IN /\ procs[p].at = "emptied" /\ Touching(p, 0, 0) /\ file' = Filled(p)
     /\ procs' = [procs EXCEPT ![p] =
          CASE does = "save" -> Saved(p, Load(Filled(p)))
            [] does = "tidied" -> Off
            [] OTHER -> [Off EXCEPT !.at = "prepared", !.does = does]]
     /\ kept' = IF does = "save" THEN Put(kept, <<procs[p].saves[1].section, procs[p].saves[1].key>>, procs[p].saves[2]) ELSE kept

Loads(p) ==
  /\ procs[p].at = "prepared" /\ Touching(p, 0, 0)
  /\ procs' = [procs EXCEPT ![p] = Prepared(procs[p].does)]
  /\ UNCHANGED <<file, kept>>

-----------------------------------------------------------------------------
\* The settings modal

Rows(m) ==
  LET matching(section) == SelectSeq(Settings, LAMBDA s : s.section = section /\ (m.filter = "" \/ m.filter \in s.letters))
      of(section) == IF m.filter = "" /\ section \in m.folded THEN <<>>
                     ELSE [i \in DOMAIN matching(section) |-> <<section, matching(section)[i].key>>]
      shown == SelectSeq(Sections, LAMBDA section : matching(section) # <<>>)
  IN FlattenSeq([i \in DOMAIN shown |-> <<<<shown[i], "">>>> \o of(shown[i])])
IsSetting(row) == row[2] # ""
SettingOf(row) == CHOOSE s \in Range(Settings) : s.section = row[1] /\ s.key = row[2]
Value(m, s) == IF <<s.section, s.key>> \in DOMAIN m.values THEN m.values[<<s.section, s.key>>] ELSE s.default

\* The value is typed in a field of its own; what is not of its kind is refused
Read(s, typed) == s.kind # "whole" \/ typed \in Range(s.choices)

SaveLines(p, m, lines, saves) ==
  IF lines = Overflow THEN Off ELSE [Writing(p, "save", lines, saves) EXCEPT !.modal = [m EXCEPT !.editing = 0]]
\* What a key comes to: the modal as it is then, and what is to be saved
Save(p, to) ==
  IF to.closes THEN Off ELSE IF to.saves = <<>> THEN [procs[p] EXCEPT !.modal = to.modal]
  ELSE SaveLines(p, to.modal, Set(IF file = NoFile THEN Render ELSE file, to.saves[1], to.saves[2]), to.saves)

Fold(m, section, folded) ==
  LET n == [m EXCEPT !.folded = IF folded THEN @ \cup {section} ELSE @ \ {section}]
  IN IF m.filter # "" THEN m ELSE [n EXCEPT !.index = SelectInSeq(Rows(n), LAMBDA row : row = <<section, "">>)]

Step(m, s, forward) ==
  LET n == Len(s.choices)
      at == SelectInSeq(s.choices, LAMBDA choice : <<choice>> = Value(m, s))
  IN <<s.choices[IF at = 0 THEN 1 ELSE IF forward THEN (at % n) + 1 ELSE ((at + n - 2) % n) + 1]>>

AtRow(m, i) == [m EXCEPT !.index = IF i = 0 THEN 1 ELSE i]
TypeIntoFilter(m, key) ==
  LET n == CASE key = "escape" -> [m EXCEPT !.finding = FALSE, !.filter = ""]
             [] key = "enter" -> [m EXCEPT !.finding = FALSE]
             [] key = "backspace" -> IF m.filter = "" THEN [m EXCEPT !.finding = FALSE] ELSE [m EXCEPT !.filter = ""]
             [] OTHER -> [m EXCEPT !.filter = key]
  IN AtRow(n, SelectInSeq(Rows(n), IsSetting))

Move(m, key, last) ==
  CASE key = "up" -> [m EXCEPT !.index = IF @ > 1 THEN @ - 1 ELSE 1]
    [] key = "down" -> AtRow(m, IF m.index < last THEN m.index + 1 ELSE last)
    [] key = "/" -> [m EXCEPT !.finding = TRUE, !.said = <<>>, !.failed = FALSE]
    [] OTHER -> [m EXCEPT !.filter = "", !.index = 1]

To(m, saves) == [modal |-> m, saves |-> saves, closes |-> FALSE]
OnHeader(m, section, key) ==
  IF key \in {"enter", "left", "right"} /\ section # ""
  THEN To(Fold(m, section, IF key = "enter" THEN section \notin m.folded ELSE key = "left"), <<>>) ELSE To(m, <<>>)
OnSetting(m, s, key) ==
  CASE key = "x" -> To(m, <<s, s.default>>)
    [] key = "enter" /\ s.kind = "flag" -> To(m, <<s, IF Value(m, s) = <<"true">> THEN <<"false">> ELSE <<"true">>>>)
    [] key \in {"enter", "left", "right"} /\ s.kind = "choice" -> To(m, <<s, Step(m, s, key # "left")>>)
    [] key = "enter" /\ s.kind \notin {"flag", "choice"} -> To([m EXCEPT !.editing = m.index, !.said = <<>>, !.failed = FALSE], <<>>)
    [] OTHER -> To(m, <<>>)
OnRow(m, row, key) == IF IsSetting(row) THEN OnSetting(m, SettingOf(row), key) ELSE OnHeader(m, row[1], key)
OnRows(m, rows, key) ==
  IF key \in {"up", "down", "/", "escape"} THEN To(Move(m, key, Len(rows)), <<>>)
  ELSE OnRow(m, IF m.index <= Len(rows) THEN rows[m.index] ELSE <<"", "">>, key)
OnKey(m, key) ==
  IF m.finding THEN To(TypeIntoFilter(m, key), <<>>)
  ELSE [OnRows(m, Rows(m), key) EXCEPT !.closes = key = "escape" /\ m.filter = ""]

\* Enter takes what was typed for the setting under the cursor, escape drops it
TypeIntoValue(m, s, typed) ==
  IF typed = "escape" THEN To([m EXCEPT !.editing = 0], <<>>)
  ELSE IF Read(s, typed) THEN To(m, <<s, <<typed>>>>) ELSE To([m EXCEPT !.failed = TRUE], <<>>)

\* What is pressed, or typed and entered
Press(p, key) ==
  LET m == procs[p].modal
  IN /\ procs[p].at = "open" /\ IF key \in {"up", "down"} THEN so.moves < so.room.moves ELSE so.keys < so.room.keys
     /\ m.editing = 0 => key \notin Typed
     /\ m.editing # 0 => key \in Typed \cup {"escape"}
     /\ procs' = [procs EXCEPT ![p] =
          Save(p, IF m.editing = 0 THEN OnKey(m, key) ELSE TypeIntoValue(m, SettingOf(Rows(m)[m.index]), key))]
     /\ IF procs'[p].at = "read" THEN Touching(p, 0, 1)
        ELSE so' = IF key \in {"up", "down"} THEN [so EXCEPT !.moves = @ + 1] ELSE [so EXCEPT !.keys = @ + 1]
     /\ UNCHANGED <<file, kept>>

\* A tql is killed
Crash(p) ==
  /\ procs[p].at \in {"read", "emptied"} /\ procs' = [procs EXCEPT ![p] = Off]
  /\ so' = [so EXCEPT !.raced = @ \/ procs[p].at = "emptied"] /\ UNCHANGED <<file, kept>>

\* The user deletes a setting from the file
UserDeletes ==
  /\ \A p \in Procs : procs[p].at \notin {"read", "emptied"}
  /\ so.starts > 0 /\ so.keys < so.room.keys /\ so' = [so EXCEPT !.keys = @ + 1]
  /\ \E i \in DOMAIN file :
       /\ file[i].is = "set" /\ file[i].value # <<"[">>
       /\ file' = SubSeq(file, 1, i - 1) \o SubSeq(file, i + 1, Len(file))
       /\ kept' = [place \in {k \in DOMAIN kept : k[2] # file[i].name} |-> kept[place]]
  /\ UNCHANGED procs

\* After two wrote at once, or one died while the file was empty, nothing is said of it
Next ==
  /\ ~so.raced
  /\ \/ UserDeletes
     \/ \E p \in Procs :
       \/ \E does \in Roles[p] : Ensure(p, does)
       \/ Tidy(p) \/ Empty(p) \/ Fill(p) \/ Loads(p) \/ Crash(p)
       \/ \E key \in {"up", "down", "/", "escape", "x", "enter", "left", "right", "backspace", "a"} \cup Typed : Press(p, key)

Spec == Init /\ [][Next]_configVars

-----------------------------------------------------------------------------
\* A file in the shapes tql writes: it can be read, each setting is in its section or above all of
\* them, nothing stands behind a header, and a list is not interrupted
Plain(lines) ==
  /\ ~Toml(lines).error /\ \A i \in DOMAIN lines : lines[i].is # "noted"
  /\ \A i \in DOMAIN lines : lines[i].is = "more" => i > 1 /\ (lines[i - 1].is = "more" \/ lines[i - 1].value = <<"[">>)
  /\ \A place \in DOMAIN Toml(lines).table : SectionOf(place[2]) \in {"", place[1]} \/ place[1] = ""

Says(lines) == Hoisted(Toml(lines).table).table
CommentsOf(lines) == [c \in Range(SelectSeq(lines, LAMBDA l : l.is = "comment")) |-> Cardinality({i \in DOMAIN lines : lines[i] = c})]

\* A setting that is saved changes in the file and nothing else does
Puts(before, after, s, value) == after = Put(before, <<s.section, s.key>>, value)
SavesOneLine ==
  \A p \in Procs : procs[p].at = "read" /\ procs[p].does = "save" /\ Plain(procs[p].read) =>
    /\ ~Toml(procs[p].write).error
    /\ Puts(Says(procs[p].read), Says(procs[p].write), procs[p].saves[1], procs[p].saves[2])
    /\ \A l \in Range(procs[p].read) : l.name # procs[p].saves[1].key => l \in Range(procs[p].write)

\* What is new is added, what was there stays as it was, and what was deleted stays deleted
NewSince(version) == {<<s.section, s.key>> : s \in {t \in Range(Settings) : Newer(t.since, version)}}
Adds(before, after, new) == DOMAIN after = DOMAIN before \cup new /\ \A place \in DOMAIN before : after[place] = before[place]
TopsUpWhatIsNew ==
  \A p \in Procs : procs[p].at = "read" /\ procs[p].does \in {"settings", "tidy"} /\ procs[p].read # NoFile /\ Plain(procs[p].read) =>
    /\ ~Toml(procs[p].write).error /\ WrittenFor(procs[p].write) = Version
    /\ Adds(Says(procs[p].read), Says(procs[p].write), NewSince(WrittenFor(procs[p].read)))

\* Tidying keeps every value and every comment, and a file once tidied is in order
TidyKeeps ==
  \A p \in Procs : procs[p].at = "read" /\ procs[p].does = "tidied" /\ Plain(procs[p].read) =>
    /\ ~Toml(procs[p].write).error /\ Says(procs[p].write) = Says(procs[p].read)
    /\ CommentsOf(procs[p].write) = CommentsOf(procs[p].read) /\ Tidied(procs[p].write) = procs[p].write

\* A saved setting stays in the file, whatever other tqls do after it
SavedStays ==
  ~so.raced /\ (\A p \in Procs : procs[p].at # "emptied") /\ ~Toml(file).error =>
    \A place \in DOMAIN kept : place \in DOMAIN Says(file) /\ Says(file)[place] = kept[place]

\* What tql says a setting is now, it is, unless the environment has the last word
SaidIsUsed ==
  \A p \in Procs : procs[p].at = "open" /\ procs[p].modal.said # <<>> /\ ~so.raced =>
    LET s == procs[p].modal.said[1]
    IN /\ Value(procs[p].modal, s) = procs[p].modal.said[2]
       /\ (s.env = "wins" /\ s.key \in DOMAIN Environment) \/ procs[p].loaded.settings[s] = Taken(s, procs[p].modal.said[2])

\* The cursor is on a row, and stays on the setting whose value is typed
OnOne(m, rows) ==
  /\ m.index \in 1..Len(rows) \/ (rows = <<>> /\ m.index = 1)
  /\ m.editing # 0 => m.editing = m.index /\ IsSetting(rows[m.index])
CursorIsOnARow == \A p \in Procs : procs[p].at = "open" => OnOne(procs[p].modal, Rows(procs[p].modal))

\* A key does what its action says, or tql says that it does not: no key of two actions is left unsaid
ClashesAreTold ==
  \A p \in Procs : procs[p].at = "open" /\ ~procs[p].loaded.error /\ procs[p].loaded.notice = "" =>
    \A b \in Range(procs[p].loaded.keymap) : \A key \in Range(b.keys) : ActionOf(procs[p].loaded.keymap, key) = b.name

SettingsAreTrue ==
  /\ SavesOneLine /\ TopsUpWhatIsNew /\ TidyKeeps /\ SavedStays
  /\ SaidIsUsed /\ CursorIsOnARow /\ ClashesAreTold
=============================================================================
