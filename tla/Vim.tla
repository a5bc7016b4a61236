-------------------------------- MODULE Vim --------------------------------
(***************************************************************************)
(* The SQL editor: a text with a cursor and two stacks of what it was       *)
(* before (editor.rs), the Vim keys over it (tui/vim), and what the browser *)
(* does to it: plain keys, completions, pastes, statements put there by the *)
(* history, a table that loads, or an agent (browser/query.rs, vim.rs).     *)
(* A text is a sequence of characters, offsets count from 0, and a key is   *)
(* the character it types or its name.                                      *)
(***************************************************************************)
EXTENDS Integers, Sequences, FiniteSets, SequencesExt

CONSTANTS
  Starts,      \* the texts the editor starts with
  Commands,    \* what is typed with Vim, each a sequence of keys
  PlainKeys,   \* the keys typed without it
  Words,       \* the texts pasted, completed and put there by others
  MaxSteps     \* how many steps are taken

VARIABLES sql, past

vars == <<sql, past>>

NL == "nl"
Letters == {"a", "b", "A", "B", "_"}
Blanks == {" ", "tab", NL, ""}
Characters == Letters \cup {" ", "(", ")", "'", "."}
None == -1
Far == 1000
Nowhere == [to |-> None, reach |-> "none"]

Lesser(a, b) == IF a < b THEN a ELSE b
Greater(a, b) == IF a > b THEN a ELSE b
Less(a, b) == Greater(a - b, 0)
UpTo(n) == [i \in 1..n |-> i]
Repeated(w, n) == FlattenSeq([i \in 1..n |-> w])

-----------------------------------------------------------------------------
(* Text: where lines start and end *)

At(t, i) == IF i \in 0 .. Len(t) - 1 THEN t[i + 1] ELSE ""
Slice(t, a, b) == IF a < Lesser(b, Len(t)) THEN SubSeq(t, a + 1, Lesser(b, Len(t))) ELSE <<>>
LineStart(t, i) == Max({0} \cup {j \in 1 .. Lesser(i, Len(t)) : t[j] = NL})
LineEnd(t, i) ==
  IF i >= Len(t) THEN i ELSE Min({Len(t)} \cup {j \in i .. Len(t) - 1 : At(t, j) = NL})
LineOf(t, i) == Cardinality({j \in 1 .. Lesser(i, Len(t)) : t[j] = NL})
LineCount(t) == LineOf(t, Len(t)) + 1
StartOfLine(t, l) ==
  IF l = 0 THEN 0 ELSE Min({Len(t)} \cup {j \in 1 .. Len(t) : t[j] = NL /\ LineOf(t, j) = l})
IsBlankLine(t, i) == LineStart(t, i) = LineEnd(t, i)
BlankAt(t, l) == IsBlankLine(t, StartOfLine(t, l))

Span(from, to) == [start |-> Lesser(from, to), end |-> Greater(from, to), lines |-> FALSE]
Lines(from, to) == [Span(from, to) EXCEPT !.lines = TRUE]

Kind(c, big) == IF c \in Blanks THEN 0 ELSE IF big \/ c \in Letters THEN 1 ELSE 2
KindAt(t, i, big) == Kind(At(t, i), big)

-----------------------------------------------------------------------------
(* The editor (editor.rs) *)

Snapshot(s) == [text |-> s.text, cursor |-> s.cursor]
MoveTo(s, i) == [s EXCEPT !.cursor = Lesser(i, Len(s.text))]
Replace(s, a, b, w) ==
  [s EXCEPT !.text = SubSeq(@, 1, a) \o w \o SubSeq(@, b + 1, Len(@)), !.cursor = a + Len(w)]
Set(s, w) == [s EXCEPT !.text = w, !.cursor = Len(w)]
TypedIn(s, w) == Replace(s, s.cursor, s.cursor, w)

\* A mutant of Checkpoint: the text an insertion starts from takes the place of the one before its operator
CheckpointAgain(s) == [s EXCEPT !.pending = <<Snapshot(s)>>]

Checkpoint(s) == IF s.pending = <<>> THEN [s EXCEPT !.pending = <<Snapshot(s)>>] ELSE s
Commit(s) ==
  IF s.pending # <<>> /\ s.pending[1].text # s.text
  THEN [s EXCEPT !.undone = Append(@, s.pending[1]), !.redone = <<>>, !.pending = <<>>]
  ELSE [s EXCEPT !.pending = <<>>]

\* The last snapshot of a stack that differs from the text: those above it are dropped
Differing(stack, text) == Max({0} \cup {i \in DOMAIN stack : stack[i].text # text})
Undo(s0) ==
  LET s == Commit(s0) n == Differing(s.undone, s.text) IN
  IF n = 0 THEN [s EXCEPT !.undone = <<>>]
  ELSE [s EXCEPT !.undone = SubSeq(@, 1, n - 1), !.redone = Append(@, Snapshot(s)),
                 !.text = s.undone[n].text, !.cursor = s.undone[n].cursor]
Redo(s0) ==
  LET s == Commit(s0) n == Differing(s.redone, s.text) IN
  IF n = 0 THEN [s EXCEPT !.redone = <<>>]
  ELSE [s EXCEPT !.redone = SubSeq(@, 1, n - 1), !.undone = Append(@, Snapshot(s)),
                 !.text = s.redone[n].text, !.cursor = s.redone[n].cursor]

Column(s) == s.cursor - LineStart(s.text, s.cursor)
MoveToLineColumn(s, line, column) ==
  LET start == StartOfLine(s.text, Lesser(line, LineCount(s.text) - 1)) IN
  [s EXCEPT !.cursor = start + Lesser(column, LineEnd(s.text, start) - start)]
MoveLine(s, line) ==
  IF line \notin 0 .. LineCount(s.text) - 1 THEN s ELSE MoveToLineColumn(s, line, Column(s))

FirstNonBlank(t, i) ==
  LET start == LineStart(t, i) end == LineEnd(t, start) IN
  Min({j \in start..end : j = end \/ At(t, j) \notin {" ", "tab"}})
Indentation(s) ==
  IF ~s.autoindent THEN <<>>
  ELSE Slice(s.text, LineStart(s.text, s.cursor), FirstNonBlank(s.text, s.cursor))

Newline(s) == TypedIn(s, <<NL>> \o Slice(Indentation(s), 0, Column(s)))
OpenLine(s, above) ==
  IF above
  THEN LET put == TypedIn(MoveTo(s, LineStart(s.text, s.cursor)), Indentation(s) \o <<NL>>)
       IN  [put EXCEPT !.cursor = @ - 1]
  ELSE TypedIn(MoveTo(s, LineEnd(s.text, s.cursor)), <<NL>> \o Indentation(s))
\* Up to two spaces at the start of a line
Spaces(t, start) == Max({n \in 0..2 : \A i \in 0 .. n - 1 : At(t, start + i) = " "})
Outdent(s) ==
  LET start == LineStart(s.text, s.cursor) n == Spaces(s.text, start) IN
  IF n = 0 THEN s ELSE MoveTo(Replace(s, start, start + n, <<>>), start + Less(Column(s), n))

Handle(s, key) ==
  CASE key = "Enter" -> Newline(s)
    [] key = "Backspace" -> IF s.cursor = 0 THEN s ELSE Replace(s, s.cursor - 1, s.cursor, <<>>)
    [] key = "Delete" -> Replace(s, s.cursor, s.cursor + 1, <<>>)
    [] key = "Left" -> MoveTo(s, Less(s.cursor, 1))
    [] key = "Right" -> MoveTo(s, s.cursor + 1)
    [] key = "Up" -> MoveLine(s, LineOf(s.text, s.cursor) - 1)
    [] key = "Down" -> MoveLine(s, LineOf(s.text, s.cursor) + 1)
    [] key = "Home" -> MoveTo(s, LineStart(s.text, s.cursor))
    [] key = "End" -> MoveTo(s, LineEnd(s.text, s.cursor))
    [] key = "Tab" -> TypedIn(s, <<" ", " ">>)
    [] key = "BackTab" -> Outdent(s)
    [] key \in Characters -> TypedIn(s, <<key>>)
    [] OTHER -> s

-----------------------------------------------------------------------------
(* Motions (vim/motions.rs) *)

NextWordStart(t, i, big) ==
  LET first == KindAt(t, i, big)
      after == IF first = 0 THEN i ELSE Min({j \in i .. Len(t) : j = Len(t) \/ KindAt(t, j, big) # first})
  IN  IF i >= Len(t) THEN Len(t)
      ELSE Min({j \in after .. Len(t) : \/ j = Len(t) \/ KindAt(t, j, big) # 0
                                        \/ j > after /\ At(t, j - 1) = NL /\ At(t, j) = NL})
PreviousWordStart(t, i, big) ==
  LET on == Max({j \in 0 .. i - 1 : \/ j = 0 \/ KindAt(t, j, big) # 0
                                    \/ At(t, j) = NL /\ At(t, j - 1) = NL})
  IN  IF i = 0 THEN 0 ELSE IF KindAt(t, on, big) = 0 THEN on
      ELSE Min({j \in 0..on : \A k \in j..on : KindAt(t, k, big) = KindAt(t, on, big)})
NextWordEnd(t, i, big) ==
  LET on == Min({j \in i + 1 .. Len(t) - 1 : j = Len(t) - 1 \/ KindAt(t, j, big) # 0}) IN
  IF i + 1 >= Len(t) THEN Less(Len(t), 1)
  ELSE Max({j \in on .. Len(t) - 1 : \A k \in on..j : KindAt(t, k, big) = KindAt(t, on, big)})

\* The count-th of a set of offsets, from its start or from its end
Nth(offsets, count, forward) ==
  {o \in offsets : Cardinality({p \in offsets : IF forward THEN p <= o ELSE p >= o}) = count}
FindInLine(t, i, find, wanted, count) ==
  LET forward == find \in {"f", "t"}
      found == Nth({o \in (IF forward THEN i + 1 .. LineEnd(t, i) - 1 ELSE LineStart(t, i) .. i - 1) :
                      At(t, o) = wanted}, count, forward)
      till == IF find = "t" THEN -1 ELSE IF find = "T" THEN 1 ELSE 0
  IN  IF wanted \notin Characters \/ found = {} THEN Nowhere
      ELSE [to |-> CHOOSE o \in {f + till : f \in found} : TRUE,
            reach |-> IF forward THEN "inclusive" ELSE "exclusive"]

HowMany(t, from, to, c) == Cardinality({i \in from..to : At(t, i) = c})
CloserFor(t, i, open, close) ==
  {j \in i + 1 .. Len(t) - 1 : At(t, j) = close /\ HowMany(t, i + 1, j - 1, open) = HowMany(t, i + 1, j - 1, close)}
OpenerFor(t, i, open, close) ==
  {j \in 0 .. i - 1 : At(t, j) = open /\ HowMany(t, j + 1, i - 1, open) = HowMany(t, j + 1, i - 1, close)}
MatchingBracket(t, i) ==
  LET brackets == {j \in i .. LineEnd(t, i) - 1 : At(t, j) \in {"(", ")"}}
      at == Min(brackets)
      match == IF At(t, at) = "(" THEN CloserFor(t, at, "(", ")") ELSE OpenerFor(t, at, "(", ")")
  IN  IF brackets = {} \/ match = {} THEN Nowhere
      ELSE [to |-> IF At(t, at) = "(" THEN Min(match) ELSE Max(match), reach |-> "inclusive"]

Paragraph(t, line, step) ==
  LET edge == IF step = 1 THEN LineCount(t) - 1 ELSE 0
      Past(from, blank) ==
        LET ahead == {l \in 0 .. LineCount(t) - 1 :
                        step * l >= step * from /\ (l = edge \/ BlankAt(t, l) # blank)}
        IN  IF step = 1 THEN Min(ahead) ELSE Max(ahead)
  IN  Past(Past(line, TRUE), FALSE)
ParagraphForward(t, i, count) ==
  LET line == FoldLeft(LAMBDA l, n : Paragraph(t, l, 1), LineOf(t, i), UpTo(count)) IN
  IF line = LineCount(t) - 1 /\ ~BlankAt(t, line) THEN Less(Len(t), 1) ELSE StartOfLine(t, line)
ParagraphBackward(t, i, count) ==
  StartOfLine(t, FoldLeft(LAMBDA l, n : Paragraph(t, l, -1), LineOf(t, i), UpTo(count)))

Vertical(t, i, by, column) ==
  LET line == LineOf(t, i)
      target == Greater(0, Lesser(line + by, LineCount(t) - 1))
      start == StartOfLine(t, target)
  IN  IF target = line THEN None ELSE start + Lesser(column, Less(LineEnd(t, start) - start, 1))
LastCharacter(t, i, count) ==
  LET start == StartOfLine(t, Lesser(LineCount(t) - 1, LineOf(t, i) + count - 1))
  IN  Greater(start, LineEnd(t, start) - 1)
LineMotion(t, line) == FirstNonBlank(t, StartOfLine(t, Lesser(line, LineCount(t) - 1)))

\* The motion a key stands for (keys.rs)
MotionOf ==
  [k \in {"h", "Left", "Backspace"} |-> "left"] @@ [k \in {"l", " ", "Right"} |-> "right"]
  @@ [k \in {"j", "Down"} |-> "down"] @@ [k \in {"k", "Up"} |-> "up"] @@ [k \in {"Enter"} |-> "next"]
  @@ [k \in {"0", "^", "$", "w", "W", "b", "B", "e", "E", "G", ";", ",", "%", "}", "{"} |-> k]

\* What looking for a motion's end leaves behind, found or not (resolve.rs)
SetOff(s, m) ==
  [s EXCEPT !.column = CASE m[1] \in {"down", "up"} -> IF @ = None THEN Column(s) ELSE @
                         [] m[1] = "$" -> Far
                         [] OTHER -> None,
            !.find = IF Len(m) = 2 /\ m[1] # "g" THEN m ELSE @]
Reversed == [f |-> "F", F |-> "f", t |-> "T", T |-> "t"]

Resolve(s, m, count, counted) ==
  LET t == s.text i == s.cursor
      column == IF s.column = None THEN Column(s) ELSE s.column
      To(n) == [to |-> n, reach |-> "exclusive"]
      Onto(n) == [to |-> n, reach |-> "inclusive"]
      Whole(n) == IF n = None THEN Nowhere ELSE [to |-> n, reach |-> "lines"]
      Stepping(Step(_, _, _), big) == FoldLeft(LAMBDA at, n : Step(t, at, big), i, UpTo(count))
  IN  CASE Len(m) = 2 /\ m[1] # "g" -> FindInLine(t, i, m[1], m[2], count)
        [] m[1] = "left" -> To(Greater(LineStart(t, i), i - count))
        [] m[1] = "right" -> To(Lesser(LineEnd(t, i), i + count))
        [] m[1] = "down" -> Whole(Vertical(t, i, count, column))
        [] m[1] = "up" -> Whole(Vertical(t, i, -count, column))
        [] m[1] = "next" -> LET to == Vertical(t, i, count, 0)
                            IN  Whole(IF to = None THEN None ELSE FirstNonBlank(t, to))
        [] m[1] = "0" -> To(LineStart(t, i))
        [] m[1] = "^" -> To(FirstNonBlank(t, i))
        [] m[1] = "$" -> Onto(LastCharacter(t, i, count))
        [] m[1] \in {"w", "W"} -> To(Stepping(NextWordStart, m[1] = "W"))
        [] m[1] \in {"b", "B"} -> To(Stepping(PreviousWordStart, m[1] = "B"))
        [] m[1] \in {"e", "E"} -> Onto(Stepping(NextWordEnd, m[1] = "E"))
        [] m[1] = "G" -> Whole(LineMotion(t, IF counted THEN count - 1 ELSE LineCount(t) - 1))
        [] m[1] = "g" -> Whole(LineMotion(t, IF counted THEN count - 1 ELSE 0))
        [] m[1] \in {";", ","} ->
             IF s.find = <<>> THEN Nowhere
             ELSE FindInLine(t, i, IF m[1] = "," THEN Reversed[s.find[1]] ELSE s.find[1], s.find[2], count)
        [] m[1] = "%" -> MatchingBracket(t, i)
        [] m[1] = "}" -> To(ParagraphForward(t, i, count))
        [] m[1] = "{" -> To(ParagraphBackward(t, i, count))

Reach(s, goal) == IF goal = Nowhere THEN s ELSE MoveTo(s, goal.to)
MoveCursor(s, m, count, counted) == Reach(SetOff(s, m), Resolve(s, m, count, counted))

-----------------------------------------------------------------------------
(* What an operator works on: nothing, or one range (resolve.rs, text_objects.rs) *)

EndOfLastWord(t, i, to) ==
  IF LineOf(t, to) = LineOf(t, i) \/ to >= Len(t) THEN to
  ELSE Max({e \in i..to : e = i \/ KindAt(t, e - 1, FALSE) # 0})

\* `cw` ends with the word, as `ce` does
Changed(s, op, m) ==
  IF m[1] \in {"w", "W"} /\ op = "c" /\ KindAt(s.text, s.cursor, FALSE) # 0
  THEN IF m[1] = "w" THEN <<"e">> ELSE <<"E">> ELSE m
RangeTo(s, m, goal) ==
  LET t == s.text i == s.cursor
      last == Greater(i, goal.to)
  IN  CASE goal = Nowhere -> {}
        [] goal.reach = "lines" -> {Lines(i, goal.to)}
        [] goal.reach = "inclusive" ->
             {Span(Lesser(i, goal.to), IF At(t, last) \in {NL, ""} THEN last ELSE last + 1)}
        [] m[1] \in {"w", "W"} /\ goal.to > i -> {Span(i, EndOfLastWord(t, i, goal.to))}
        [] OTHER -> {Span(i, goal.to)}
MotionRange(s, m, count, counted) == RangeTo(s, m, Resolve(s, m, count, counted))

ExtendBack(t, i, limit, kind, big) == Min({j \in limit..i : \A k \in j .. i - 1 : KindAt(t, k, big) = kind})
ExtendForward(t, i, limit, kind, big) ==
  Max({j \in i .. Greater(i, limit) : \A k \in i .. j - 1 : KindAt(t, k, big) = kind})
WordObject(t, cursor, around, big) ==
  LET first == LineStart(t, cursor) last == LineEnd(t, cursor)
      i == Lesser(cursor, last - 1)
      under == KindAt(t, i, big)
      start == ExtendBack(t, i, first, under, big)
      end == ExtendForward(t, i + 1, last, under, big)
      trailing == ExtendForward(t, end, last, 0, big)
  IN  CASE first = last -> Span(cursor, cursor)
        [] ~around -> Span(start, end)
        [] under = 0 -> Span(start, ExtendForward(t, end, last, KindAt(t, end, big), big))
        [] trailing > end -> Span(start, trailing)
        [] OTHER -> Span(ExtendBack(t, start, first, 0, big), end)
BracketObject(t, i, around) ==
  LET openers == IF At(t, i) = "(" THEN {i} ELSE OpenerFor(t, i, "(", ")")
      closers == CloserFor(t, Max(openers), "(", ")")
  IN  IF openers = {} \/ closers = {} THEN {}
      ELSE {IF around THEN Span(Max(openers), Min(closers) + 1) ELSE Span(Max(openers) + 1, Min(closers))}
QuoteObject(t, i, around) ==
  LET first == LineStart(t, i) last == LineEnd(t, i)
      marks == {o \in first .. last - 1 : At(t, o) = "'"}
      Rank(o) == Cardinality({p \in marks : p <= o})
      pairs == {p \in marks \X marks : Rank(p[1]) % 2 = 1 /\ Rank(p[2]) = Rank(p[1]) + 1}
      chosen == {p \in pairs : /\ i <= p[2]
                               /\ ~\E q \in pairs : i <= q[2] /\ q[1] < p[1]}
      Spaced(a, b) == \A k \in a .. b - 1 : At(t, k) \in {" ", "tab"}
  IN  {LET end == Max({e \in p[2] + 1 .. last : Spaced(p[2] + 1, e)})
           start == Min({b \in first .. p[1] : Spaced(b, p[1])})
       IN  CASE ~around -> Span(p[1] + 1, p[2])
             [] end > p[2] + 1 -> Span(p[1], end)
             [] OTHER -> Span(start, end) : p \in chosen}
ParagraphObject(t, i, around) ==
  LET line == LineOf(t, i) last == LineCount(t) - 1
      blank == BlankAt(t, line)
      Alike(a, b, as) == \A l \in a..b : BlankAt(t, l) = as
      first == Min({l \in 0..line : Alike(l, line, blank)})
      finale == Max({l \in line..last : Alike(line, l, blank)})
      further == Max({l \in finale..last : Alike(finale + 1, l, ~blank)})
      earlier == Min({l \in 0..first : Alike(l, first - 1, ~blank)})
  IN  Lines(StartOfLine(t, IF around /\ further = finale THEN earlier ELSE first),
            LineEnd(t, StartOfLine(t, IF around THEN further ELSE finale)))

ResolveObject(s, object) ==
  LET around == object[1] = "a" IN
  CASE object[2] \in {"w", "W"} -> {WordObject(s.text, s.cursor, around, object[2] = "W")}
    [] object[2] \in {"(", ")"} -> BracketObject(s.text, s.cursor, around)
    [] object[2] = "'" -> QuoteObject(s.text, s.cursor, around)
    [] object[2] = "p" -> {ParagraphObject(s.text, s.cursor, around)}

-----------------------------------------------------------------------------
(* Operators (operators.rs) *)

\* A mutant of Store: what is in the register already stays
StoreFirst(s, taken, lines) == IF s.register = <<>> THEN [s EXCEPT !.register = taken, !.whole = lines] ELSE s
Store(s, taken, lines) == [s EXCEPT !.register = taken, !.whole = lines]
EnterInsert(s) == [Checkpoint(s) EXCEPT !.mode = "insert", !.anchor = None]
Swapped == [c \in Characters \cup {NL, "tab"} |->
  CASE c = "a" -> "A" [] c = "A" -> "a" [] c = "b" -> "B" [] c = "B" -> "b" [] OTHER -> c]
SwapCase(s, a, b) ==
  MoveTo(Replace(s, a, b, [i \in 1 .. Len(Slice(s.text, a, b)) |-> Swapped[Slice(s.text, a, b)[i]]]), a)

\* Lines first to last, each shifted two spaces one way or the other
Indent(s, first, last, right) ==
  LET Shifted(t, line) ==
        LET start == StartOfLine(t, line)
            cut == IF right THEN 0 ELSE Spaces(t, start)
            added == IF right /\ ~IsBlankLine(t, start) THEN <<" ", " ">> ELSE <<>>
        IN  SubSeq(t, 1, start) \o added \o SubSeq(t, start + cut + 1, Len(t))
      text == FoldLeft(Shifted, s.text, [i \in 1 .. last - first + 1 |-> first + i - 1])
  IN  MoveTo(Set(s, text), FirstNonBlank(text, StartOfLine(text, first)))

JoinLines(s, first, last) ==
  LET Joined(u, n) ==
        LET t == u.text
            end == LineEnd(t, StartOfLine(t, first))
            next == Min({j \in end + 1 .. Len(t) : j = Len(t) \/ At(t, j) \notin {" ", "tab"}})
            glued == next >= Len(t) \/ At(t, next) \in {NL, ")"} \/ end = LineStart(t, end)
        IN  IF first + 1 >= LineCount(t) THEN u
            ELSE MoveTo(Replace(u, end, next, IF glued THEN <<>> ELSE <<" ">>), end)
  IN  FoldLeft(Joined, s, UpTo(Greater(last, first + 1) - first))

DeleteLines(s, start, end) ==
  LET from == IF end >= Len(s.text) /\ start > 0 THEN start - 1 ELSE start
      to == IF end < Len(s.text) THEN end + 1 ELSE end
      cut == Replace(s, from, to, <<>>)
  IN  MoveTo(cut, FirstNonBlank(cut.text, IF from = start THEN start ELSE LineStart(cut.text, from)))
YankLines(s, first) ==
  LET start == StartOfLine(s.text, first) IN
  IF LineOf(s.text, s.cursor) = first THEN s
  ELSE MoveTo(s, start + Lesser(Column(s), Less(LineEnd(s.text, start) - start, 1)))

ApplyToLines(s, op, range) ==
  LET t == s.text
      first == LineOf(t, range.start)
      last == LineOf(t, range.end)
      start == StartOfLine(t, first)
      end == LineEnd(t, StartOfLine(t, last))
      kept == Store(s, Slice(t, start, end) \o <<NL>>, TRUE)
  IN  CASE op = "d" -> DeleteLines(kept, start, end)
        [] op = "c" -> EnterInsert(Replace(MoveTo(kept, start), start, end, Indentation(MoveTo(s, start))))
        [] op = "y" -> YankLines(kept, first)
        [] op \in {">", "<"} -> Indent(s, first, last, op = ">")
        [] op = "~" -> SwapCase(s, start, end)
        [] op = "J" -> JoinLines(s, first, last)
Apply(s, op, range) ==
  LET kept == Store(s, Slice(s.text, range.start, range.end), FALSE)
      cut == Replace(kept, range.start, range.end, <<>>)
  IN  CASE range.lines -> ApplyToLines(s, op, range)
        [] op = "d" -> cut
        [] op = "c" -> EnterInsert(cut)
        [] op = "y" -> MoveTo(kept, range.start)
        [] op = "~" -> SwapCase(s, range.start, range.end)
        [] OTHER -> ApplyToLines(s, op, Lines(range.start, Greater(range.start, Less(range.end, 1))))

\* An operator on one range, as one change unless it goes on with typing
Finished(s) == IF s.mode = "insert" THEN s ELSE Commit(s)
Operated(s, op, ranges) ==
  IF ranges = {} THEN s ELSE Finished(Apply(Checkpoint(s), op, CHOOSE r \in ranges : TRUE))
CurrentLines(t, i, count) ==
  Lines(StartOfLine(t, LineOf(t, i)), StartOfLine(t, Lesser(LineCount(t) - 1, LineOf(t, i) + count - 1)))
IsObject(operand) == operand[1] \in {"i", "a"}
OperateOver(s, op, operand, count, counted) ==
  CASE operand = <<"lines">> -> {CurrentLines(s.text, s.cursor, count)}
    [] IsObject(operand) -> ResolveObject(s, operand)
    [] OTHER -> MotionRange(s, Changed(s, op, operand), count, counted)
Operate(s, op, operand, count, counted) ==
  Operated(IF operand = <<"lines">> \/ IsObject(operand) THEN s ELSE SetOff(s, Changed(s, op, operand)),
           op, OperateOver(s, op, operand, count, counted))

-----------------------------------------------------------------------------
(* Keys that act on their own (normal.rs, insert.rs) *)

ShortFor ==
  [x |-> <<"d", "right">>, X |-> <<"d", "left">>, D |-> <<"d", "$">>, C |-> <<"c", "$">>,
   s |-> <<"c", "right">>, S |-> <<"c", "lines">>, Y |-> <<"y", "lines">>]
Operates(c) == c.order = "operate" \/ (c.order = "act" /\ c.op \in DOMAIN ShortFor)
OperateWith(s, c) ==
  LET short == IF c.order = "operate" THEN <<c.op, c.target>> ELSE <<ShortFor[c.op][1], <<ShortFor[c.op][2]>>>>
  IN  IF c.order = "act" /\ IsBlankLine(s.text, s.cursor) /\ short[2] \in {<<"left">>, <<"right">>}
      THEN IF c.op = "s" THEN EnterInsert(s) ELSE s
      ELSE Operate(s, short[1], short[2], c.count, IF c.order = "operate" THEN c.counted ELSE short[2] # <<"lines">>)
ReplaceCharacters(s, character, count) ==
  IF character \notin Characters \/ s.cursor + count > LineEnd(s.text, s.cursor) THEN s
  ELSE Commit(MoveTo(Replace(Checkpoint(s), s.cursor, s.cursor + count, Repeated(<<character>>, count)),
                     s.cursor + count - 1))
SwapCaseUnder(s, count) ==
  LET end == Lesser(LineEnd(s.text, s.cursor), s.cursor + count) IN
  IF end <= s.cursor THEN s ELSE Commit(MoveTo(SwapCase(Checkpoint(s), s.cursor, end), end))
Join(s, count) ==
  LET line == LineOf(s.text, s.cursor)
  IN  Commit(JoinLines(Checkpoint(s), line, line + Greater(Less(count, 1), 1)))
Put(s, after, count) ==
  LET t == s.text i == s.cursor
      put == Repeated(s.register, count)
      below == LineEnd(t, i)
      above == LineStart(t, i)
      Placed(u, at) == MoveTo(u, FirstNonBlank(u.text, at))
      at == IF after /\ ~IsBlankLine(t, i) THEN Lesser(i + 1, LineEnd(t, i)) ELSE i
      ends == Max({0} \cup {j \in DOMAIN put : put[j] # NL})
  IN  CASE s.register = <<>> -> s
        [] s.whole /\ after ->
             Commit(Placed(Replace(Checkpoint(s), below, below, <<NL>> \o SubSeq(put, 1, ends)), below + 1))
        [] s.whole -> Commit(Placed(Replace(Checkpoint(s), above, above, put), above))
        [] OTHER -> Commit(MoveTo(Replace(Checkpoint(s), at, at, put), Less(at + Len(put), 1)))
EnterAt(s, entry) ==
  LET entered == EnterInsert(s) t == s.text i == s.cursor IN
  CASE entry = "a" -> MoveTo(entered, Lesser(i + 1, LineEnd(t, i)))
    [] entry = "I" -> MoveTo(entered, FirstNonBlank(t, i))
    [] entry = "A" -> MoveTo(entered, LineEnd(t, i))
    [] entry \in {"o", "O"} -> OpenLine(entered, entry = "O")
    [] OTHER -> entered

\* `.` is left to Press: what it replays never holds another
Act(s, key, character, count) ==
  CASE key = "r" -> ReplaceCharacters(s, character, count)
    [] key = "J" -> Join(s, count)
    [] key = "~" -> SwapCaseUnder(s, count)
    [] key \in {"p", "P"} -> Put(s, key = "p", count)
    [] key = "u" -> FoldLeft(LAMBDA u, n : Undo(u), s, UpTo(count))
    [] key = "Ctrl-r" -> FoldLeft(LAMBDA u, n : Redo(u), s, UpTo(count))
    [] key \in {"i", "a", "I", "A", "o", "O"} -> EnterAt(s, key)
    [] key = "v" -> [s EXCEPT !.mode = "visual", !.anchor = s.cursor]
    [] key = "V" -> [s EXCEPT !.mode = "visual lines", !.anchor = s.cursor]
    [] OTHER -> s
IsChange(key) == key \in {"x", "X", "D", "C", "s", "S", "r", "J", "~", "p", "P", "i", "a", "I", "A", "o", "O"}

DeleteWordBefore(s) ==
  LET t == s.text first == LineStart(t, s.cursor)
      start == Min({j \in first .. s.cursor : \A k \in j .. s.cursor - 1 : KindAt(t, k, FALSE) = 0})
      word == KindAt(t, start - 1, FALSE)
      from == IF word = 0 THEN start ELSE ExtendBack(t, start, first, word, FALSE)
  IN  IF s.cursor = first THEN Handle(s, "Backspace") ELSE Replace(s, from, s.cursor, <<>>)
LeaveInsert(s) ==
  LET left == Commit(s) IN
  [left EXCEPT !.mode = "normal",
     !.cursor = IF @ > LineStart(s.text, @) THEN @ - 1 ELSE @,
     !.recording = <<>>,
     !.change = IF ~s.replaying /\ s.recording # <<>> THEN s.recording ELSE @]
PressInInsert(s0, key) ==
  LET s == IF s0.recording = <<>> THEN s0 ELSE [s0 EXCEPT !.recording = Append(@, key)] IN
  CASE key = "Escape" -> LeaveInsert(s)
    [] key \in {"Left", "Right", "Up", "Down"} -> Checkpoint(Handle(Commit(s), key))
    [] key = "Ctrl-w" -> DeleteWordBefore(s)
    [] key = "Ctrl-u" -> Replace(s, LineStart(s.text, s.cursor), s.cursor, <<>>)
    [] key = "Ctrl-r" -> s
    [] OTHER -> Handle(s, key)
KeepOnCharacter(s) ==
  LET end == LineEnd(s.text, s.cursor) IN
  IF s.cursor >= end /\ end > LineStart(s.text, s.cursor) THEN MoveTo(s, end - 1) ELSE s

-----------------------------------------------------------------------------
(* Keys into commands (keys.rs) *)

Digits == <<"1", "2", "3", "4", "5", "6", "7", "8", "9", "0">>
IsDigit(k) == k \in ToSet(Digits)
ValueOf(k) == (CHOOSE i \in 1..10 : Digits[i] = k) % 10
MOST_REPEATS == 9999
DigitsOf(n) ==
  LET places == <<n \div 1000, (n \div 100) % 10, (n \div 10) % 10, n % 10>>
      first == Min({p \in 1..4 : places[p] # 0})
  IN  [i \in 1 .. 5 - first |-> Digits[IF places[first + i - 1] = 0 THEN 10 ELSE places[first + i - 1]]]
\* How many of the keys from `at` are a count, and the count
CountLength(keys, at) ==
  IF at > Len(keys) \/ keys[Lesser(at, Len(keys))] = "0" THEN 0
  ELSE Max({n \in 0 .. Len(keys) - at + 1 : \A i \in at .. at + n - 1 : IsDigit(keys[i])})
CountAt(keys, at) ==
  FoldLeft(LAMBDA n, k : Lesser(n * 10 + ValueOf(k), MOST_REPEATS), 0,
           SubSeq(keys, at, at + CountLength(keys, at) - 1))

Objects == {"w", "W", "(", ")", "'", "p"}
Waiting == [order |-> "waiting"]
Invalid == [order |-> "invalid"]
\* A motion or an object as far as the keys from `at` go
ParseTarget(keys, at, objects) ==
  LET key == keys[at] next == IF at < Len(keys) THEN keys[at + 1] ELSE "" IN
  CASE key \in {"f", "t", "F", "T", "g"} /\ next = "" -> <<"waiting">>
    [] key \in {"f", "t", "F", "T"} -> <<key, next>>
    [] key = "g" -> IF next = "g" THEN <<"g", "g">> ELSE <<"invalid">>
    [] key \in {"i", "a"} /\ objects ->
         IF next = "" THEN <<"waiting">> ELSE IF next \in Objects THEN <<key, next>> ELSE <<"invalid">>
    [] key \in DOMAIN MotionOf -> <<MotionOf[key]>>
    [] OTHER -> <<"invalid">>
Ready(order, op, target, count, counted, body) ==
  [order |-> order, op |-> op, target |-> target, count |-> count, counted |-> counted, body |-> body]
ParseOperator(keys, at, op, n, counted) ==
  LET more == CountLength(keys, at)
      on == at + more
      target == ParseTarget(keys, on, TRUE)
      both == Lesser(n * (IF more = 0 THEN 1 ELSE CountAt(keys, at)), MOST_REPEATS)
  IN  CASE at > Len(keys) -> Waiting
        [] keys[at] = op -> Ready("operate", op, <<"lines">>, n, counted, <<op, op>>)
        [] on > Len(keys) -> Waiting
        [] target = <<"waiting">> -> Waiting
        [] target = <<"invalid">> -> Invalid
        [] OTHER -> Ready("operate", op, target, both, counted \/ more > 0, <<op>> \o SubSeq(keys, on, Len(keys)))
Parse(keys, operators, objects) ==
  LET at == CountLength(keys, 1) + 1
      counted == at > 1
      n == IF counted THEN CountAt(keys, 1) ELSE 1
      key == keys[at]
      body == SubSeq(keys, at, Len(keys))
      target == ParseTarget(keys, at, objects)
  IN  CASE at > Len(keys) -> Waiting
        [] operators /\ key \in {"d", "c", "y", ">", "<"} -> ParseOperator(keys, at + 1, key, n, counted)
        [] target = <<"waiting">> -> Waiting
        [] target # <<"invalid">> -> Ready("go", "", target, n, counted, body)
        [] ~operators -> Invalid
        [] key = "r" /\ Len(body) = 1 -> Waiting
        [] OTHER -> Ready("act", key, Slice(body, 1, 2), n, counted, body)

-----------------------------------------------------------------------------
(* A key in each mode (mod.rs, normal.rs, visual.rs) *)

\* A mutant of Remember: the count is left out
RememberUncounted(s, command) ==
  CASE s.replaying \/ (command.order = "operate" /\ command.op = "y") -> s
    [] s.mode = "insert" -> [s EXCEPT !.recording = command.body]
    [] OTHER -> [s EXCEPT !.change = command.body]
Remember(s, command) ==
  LET keys == (IF command.counted THEN DigitsOf(command.count) ELSE <<>>) \o command.body IN
  CASE s.replaying \/ (command.order = "operate" /\ command.op = "y") -> s
    [] s.mode = "insert" -> [s EXCEPT !.recording = keys]
    [] OTHER -> [s EXCEPT !.change = keys]
RememberChange(s, c) == IF c.order = "operate" \/ IsChange(c.op) THEN Remember(s, c) ELSE s
Run(s, c) ==
  CASE c.order = "go" -> MoveCursor(s, c.target, c.count, c.counted)
    [] Operates(c) -> RememberChange(OperateWith(s, c), c)
    [] OTHER -> RememberChange(Act(s, c.op, IF c.target = <<>> THEN "" ELSE c.target[1], c.count), c)
PressInNormal(s, key) ==
  LET keys == Append(s.keys, key)
      command == Parse(keys, TRUE, FALSE)
  IN  CASE s.keys = <<>> /\ key \in {"Escape", "Tab", "BackTab", ":"} -> s
        [] key = "Escape" \/ command = Invalid -> [s EXCEPT !.keys = <<>>]
        [] command = Waiting -> [s EXCEPT !.keys = keys]
        [] OTHER -> Run([s EXCEPT !.keys = <<>>], command)

Selection(s) ==
  LET from == Lesser(s.anchor, s.cursor) to == Greater(s.anchor, s.cursor) IN
  CASE s.anchor = None -> {}
    [] s.mode = "visual lines" -> {Lines(LineStart(s.text, from), LineEnd(s.text, to))}
    [] OTHER -> {Span(from, Lesser(Len(s.text), to + 1))}
LeaveVisual(s) == IF s.anchor = None THEN s ELSE [s EXCEPT !.anchor = None, !.mode = "normal"]
SwitchVisual(s, mode) == IF s.mode = mode THEN LeaveVisual(s) ELSE [s EXCEPT !.mode = mode]
VisualKeys == {"Escape", ":", "o", "v", "V", "d", "x", "y", "c", ">", "<", "~", "J"}
VisualKey(s, key) ==
  CASE key = "Escape" -> LeaveVisual(s)
    [] key = ":" -> s
    [] key = "o" -> [MoveTo(s, IF s.anchor = None THEN s.cursor ELSE s.anchor) EXCEPT !.anchor = s.cursor]
    [] key = "v" -> SwitchVisual(s, "visual")
    [] key = "V" -> SwitchVisual(s, "visual lines")
    [] OTHER -> Operated([s EXCEPT !.anchor = None, !.mode = "normal"], IF key = "x" THEN "d" ELSE key, Selection(s))
Selected(s, ranges) ==
  IF ranges = {} THEN s
  ELSE LET range == CHOOSE r \in ranges : TRUE IN [MoveTo(s, range.end - 1) EXCEPT !.anchor = range.start]
PressInVisual(s, key) ==
  LET keys == Append(s.keys, key)
      command == Parse(keys, FALSE, TRUE)
      clear == [s EXCEPT !.keys = <<>>]
  IN  CASE s.keys = <<>> /\ key \in VisualKeys -> VisualKey(s, key)
        [] key = "Escape" \/ command = Invalid -> clear
        [] command = Waiting -> [s EXCEPT !.keys = keys]
        [] command.target[1] \notin {"i", "a"} -> MoveCursor(clear, command.target, command.count, command.counted)
        [] OTHER -> Selected(clear, {r \in ResolveObject(s, command.target) : r.end > r.start})

Settled(before, s) == IF before.mode = "insert" \/ s.mode = "insert" THEN s ELSE KeepOnCharacter(s)
PressOnce(s, key) ==
  Settled(s, IF s.mode = "insert" THEN PressInInsert(s, key)
             ELSE IF s.mode = "normal" THEN PressInNormal(s, key) ELSE PressInVisual(s, key))

\* `.`, alone or after a count, which replaces the count that was recorded
IsRepeat(s, key) == s.mode = "normal" /\ key = "." /\ CountLength(s.keys, 1) = Len(s.keys)
Repeat(s) ==
  IF s.keys = <<>> THEN s.change
  ELSE DigitsOf(CountAt(s.keys, 1)) \o SubSeq(s.change, CountLength(s.change, 1) + 1, Len(s.change))
Played(again, s) == IF again THEN KeepOnCharacter([s EXCEPT !.replaying = FALSE]) ELSE s
Press(s, key) ==
  Played(IsRepeat(s, key),
            FoldLeft(PressOnce, IF IsRepeat(s, key) THEN [s EXCEPT !.keys = <<>>, !.replaying = TRUE] ELSE s,
                     IF IsRepeat(s, key) THEN Repeat(s) ELSE <<key>>))
Typed(s, keys) == FoldLeft(Press, s, keys)

-----------------------------------------------------------------------------
(* What the browser does with the editor (browser/query.rs, vim.rs, agent.rs) *)

EnterQueryMode(q) ==
  IF q.focused THEN q
  ELSE [q EXCEPT !.focused = TRUE, !.mode = "normal", !.keys = <<>>, !.anchor = None, !.recording = <<>>]
LeaveQuery(q) == [Commit(q) EXCEPT !.lastEdit = "", !.focused = FALSE]
EditKind(key) ==
  CASE key = "Enter" -> "newline" [] key \in {"Backspace", "Delete"} -> "delete"
    [] key \in Characters \cup {"Tab"} -> "type" [] OTHER -> "other"
EditWithUndo(q, key) ==
  LET broken == IF EditKind(key) # q.lastEdit \/ key \in {"Enter", " "} THEN Commit(q) ELSE q
  IN  Handle(Checkpoint([broken EXCEPT !.lastEdit = EditKind(key)]), key)
PressPlain(q, key) ==
  CASE key = "Escape" -> LeaveQuery(q)
    [] key = "Ctrl-z" -> [Undo(q) EXCEPT !.lastEdit = ""]
    [] key = "Ctrl-y" -> [Redo(q) EXCEPT !.lastEdit = ""]
    [] OTHER -> EditWithUndo(q, key)
\* One change of its own, whatever was being typed
AsOneChange(q, start, end, w) ==
  [Commit(Replace(Checkpoint(Commit(q)), start, end, w)) EXCEPT !.lastEdit = ""]
ReplaceQuery(q, w) == AsOneChange(q, 0, Len(q.text), w)
WriteFromAgent(q, w, busy) ==
  LET entered == IF busy THEN ReplaceQuery(q, w) ELSE EnterQueryMode(ReplaceQuery(q, w))
  IN  IF entered.vim /\ entered.mode # "insert" THEN KeepOnCharacter(entered) ELSE entered
PasteIntoQuery(q, w) ==
  IF ~q.vim THEN AsOneChange(q, q.cursor, q.cursor, w)
  ELSE IF q.mode = "insert" THEN TypedIn(q, w) ELSE q
CompleteWith(q, n, w) ==
  IF q.vim THEN FoldLeft(PressInInsert, q, [i \in 1..n |-> "Backspace"] \o w)
  ELSE AsOneChange(q, q.cursor - n, q.cursor, w)

-----------------------------------------------------------------------------
(* The state and its steps. `past` is what the properties need of what was done: *)
(* the text before the last change and the text it began with, the keys of the   *)
(* last command, and whether the text or the cursor was set from outside.        *)

Init ==
  /\ \E t \in Starts, auto \in BOOLEAN, vim \in BOOLEAN, i \in 0..1 :
       /\ i <= Len(t)
       /\ sql = [text |-> t, cursor |-> i, autoindent |-> auto, undone |-> <<>>, redone |-> <<>>,
                 pending |-> <<>>, mode |-> "normal", register |-> <<>>, whole |-> FALSE, keys |-> <<>>,
                 anchor |-> None, column |-> None, find |-> <<>>, change |-> <<>>, recording |-> <<>>,
                 replaying |-> FALSE, vim |-> vim, focused |-> TRUE, lastEdit |-> ""]
       /\ past = [first |-> t, before |-> <<>>, typed |-> <<>>, set |-> FALSE, moved |-> TRUE,
                  left |-> FALSE, taken |-> <<>>, steps |-> 0]

Step == past.steps < MaxSteps
Forgotten == [past EXCEPT !.steps = @ + 1, !.before = <<>>, !.typed = <<>>, !.taken = <<>>]
\* A change that one undo should take back
Changes(q) == IF q.text # sql.text THEN <<sql.text>> ELSE <<>>

\* A command typed with Vim: one change, unless the arrows divide it
Type(keys) ==
  /\ Step /\ sql.focused /\ sql.vim
  /\ sql' = Typed(sql, keys)
  /\ past' = [Forgotten EXCEPT !.moved = FALSE,
       !.before = IF sql.mode = "normal" /\ sql.keys = <<>> /\ sql.pending = <<>>
                     /\ sql'.mode # "insert" /\ keys[Len(keys)] \notin {"u", "Ctrl-r"}
                     /\ ToSet(keys \o sql.change) \cap {"Left", "Right", "Up", "Down"} = {}
                  THEN Changes(sql') ELSE <<>>,
       !.typed = IF sql.mode = "normal" /\ sql.keys = <<>> /\ sql'.mode = "normal" /\ sql'.keys = <<>>
                    /\ sql'.change # <<>> /\ sql'.change # sql.change THEN keys ELSE <<>>,
       !.taken = IF sql.mode = "normal" /\ sql.keys = <<>> /\ keys[1] \in {"d", "c", "x", "X", "D", "C", "s", "S"}
                    /\ sql'.register # <<>> /\ sql'.text # sql.text /\ "Escape" \notin ToSet(keys)
                    /\ sql'.keys = <<>> THEN <<sql.text>> ELSE <<>>]

\* A key without Vim
TypePlain(key) ==
  /\ Step /\ sql.focused /\ ~sql.vim
  /\ sql' = PressPlain(sql, key)
  /\ past' = [Forgotten EXCEPT !.moved = TRUE]

\* A completion offered for the last n characters is taken
Complete(n, w) ==
  /\ Step /\ sql.focused /\ n <= Column(sql) /\ (sql.vim => sql.mode = "insert")
  /\ sql' = CompleteWith(sql, n, w)
  /\ past' = Forgotten

Paste(w) ==
  /\ Step /\ sql.focused
  /\ sql' = PasteIntoQuery(sql, w)
  /\ past' = [Forgotten EXCEPT !.before = IF sql.vim THEN <<>> ELSE Changes(sql')]

\* An agent, or the AI asked, puts a statement in place of what is there
AgentWrites(w, busy) ==
  /\ Step
  /\ sql' = WriteFromAgent(sql, w, busy)
  /\ past' = [Forgotten EXCEPT !.before = Changes(sql'), !.moved = @ \/ sql'.mode = "insert"]

\* A statement of the history, the table that loaded, or one sorted: set as it is
UseStatement(w) ==
  /\ Step
  /\ sql' = Set(EnterQueryMode(sql), w)
  /\ past' = [Forgotten EXCEPT !.set = TRUE, !.moved = TRUE]
OpenQuery(w) ==
  /\ Step /\ ~sql.focused
  /\ LET entered == EnterQueryMode(sql) IN
     sql' = IF \A i \in DOMAIN sql.text : sql.text[i] \in Blanks THEN Set(entered, w) ELSE entered
  /\ past' = [Forgotten EXCEPT !.set = @ \/ sql'.text # sql.text, !.moved = TRUE]
TableLoads(w) ==
  /\ Step /\ ~sql.focused
  /\ sql' = Set(sql, w)
  /\ past' = [Forgotten EXCEPT !.set = TRUE, !.moved = TRUE]

ClickEditor(line, column) ==
  /\ Step
  /\ sql' = MoveToLineColumn(EnterQueryMode(sql), line, column)
  /\ past' = [Forgotten EXCEPT !.moved = TRUE]

\* Another pane takes the keys: nothing is committed
FocusAway ==
  /\ Step /\ sql.focused
  /\ sql' = [sql EXCEPT !.focused = FALSE]
  /\ past' = Forgotten
Leave ==
  /\ Step /\ sql.focused /\ sql.vim /\ sql.mode = "normal" /\ sql.keys = <<>>
  /\ sql' = LeaveQuery(sql)
  /\ past' = Forgotten

Next ==
  \/ \E keys \in Commands : Type(keys)
  \/ \E key \in PlainKeys : TypePlain(key)
  \/ \E w \in Words :
       \/ \E n \in 0..1 : Complete(n, w)
       \/ \E busy \in BOOLEAN : AgentWrites(w, busy)
       \/ Paste(w) \/ UseStatement(w) \/ OpenQuery(w) \/ TableLoads(w)
  \/ \E line \in 0..1, column \in {0, Far} : ClickEditor(line, column)
  \/ FocusAway \/ Leave

Spec == Init /\ [][Next]_vars

-----------------------------------------------------------------------------
(* What should hold of it *)

\* The cursor is in the text, and on a character unless Vim inserts or it was put elsewhere
CursorOnText ==
  /\ sql.cursor \in 0 .. Len(sql.text)
  /\ sql.vim /\ sql.mode # "insert" /\ ~past.moved => KeepOnCharacter(sql) = sql
  /\ ~sql.replaying /\ (sql.mode \in {"visual", "visual lines"} <=> sql.anchor # None)

\* One undo takes back the last change, whoever made it, and a redo makes it again
UndoTakesBack ==
  /\ past.before # <<>> =>
       /\ Undo(sql).text = past.before[1]
       /\ Redo(Undo(sql)).text = sql.text
  /\ ~past.set => FoldLeft(LAMBDA q, n : Undo(q), sql, UpTo(MaxSteps * 9)).text = past.first

\* What is seen of the editor, and what `.` would do
Seen(q) == <<q.text, q.cursor, q.change>>
\* `.` does again what was typed, insertion and all
RepeatsWhatWasTyped ==
  past.typed # <<>> =>
    Cardinality({Seen(Typed(sql, keys)) : keys \in {<<".">>, past.typed}}) = 1

\* What an operator takes out of the text is what the register holds
TakenIsKept ==
  past.taken # <<>> =>
    LET Ended(t) == IF sql.whole THEN Append(t, NL) ELSE t
        after == Ended(sql.text)
    IN  \E i, j \in 0 .. Len(after) :
          /\ i = j \/ (sql.whole /\ \A k \in i + 1 .. j : after[k] \in Blanks)
          /\ Ended(past.taken[1]) = SubSeq(after, 1, i) \o sql.register \o SubSeq(after, j + 1, Len(after))

EditorIsTrue == CursorOnText /\ UndoTakesBack /\ RepeatsWhatWasTyped /\ TakenIsKept
=============================================================================
