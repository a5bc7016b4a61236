------------------------------ MODULE KeyEdits ------------------------------
(***************************************************************************)
(* Changes to the values of a Redis server (src/app/tui/keys/edit.rs and    *)
(* the writes of src/app/keystore/redis.rs): what tql shows of a key, the   *)
(* changes that wait for :w, and :w, which watches the keys, checks them    *)
(* and writes all changes in one MULTI, while other clients write too.      *)
(*                                                                          *)
(* The items of a key are pairs <<name, value>>: field and value, member    *)
(* and score, index and item, or a member twice.  A prompt is modal, so the *)
(* key that opens it and the one that ends it are one action.               *)
(***************************************************************************)
EXTENDS Naturals, Sequences, SequencesExt

CONSTANTS
  Keys, Kinds, Words,        \* names of keys, their kinds, and what may be typed
  First, StartingWith,       \* the first key, and its items by kind
  MaxPending, MaxOthers,     \* changes that wait, and writes of others: bound the model
  MaxWrites,                 \* how often :w and R are asked for: bounds the model
  MayBreak                   \* whether the connection may break

\* The key shown at first is one of the server's
FirstFits == First \in Keys

VARIABLES
  server,  \* what the server holds: of each key its kind and items
  shown,   \* the key that is shown, with the items as they were read
  pending, \* the changes that wait for :w
  writing, \* how far :w is, whether its WATCH stands, and whether a watched key changed
  others,  \* how many writes of other clients there were
  asked    \* how often :w and R were asked for

keyEditVars == <<server, shown, pending, writing, others, asked>>

None == [kind |-> "none", items |-> <<>>]
Index == <<"0", "1", "2", "3", "4">>
Listed(values) == [i \in 1..Len(values) |-> <<Index[i], values[i]>>]
Values(items) == [i \in 1..Len(items) |-> items[i][2]]
Idle == [at |-> "idle", watched |-> FALSE, dirty |-> FALSE]

Init ==
  /\ \E kind \in Kinds :
       /\ server = [k \in Keys |-> IF k = First THEN [kind |-> kind, items |-> StartingWith[kind]] ELSE None]
       /\ shown = [key |-> First, kind |-> kind, items |-> StartingWith[kind]]
  /\ pending = <<>> /\ writing = Idle /\ others = 0 /\ asked = 0

-----------------------------------------------------------------------------
\* What a server makes of one change

Without(items, name) == SelectSeq(items, LAMBDA item : item[1] # name)
Holding(items, name, value) ==
  IF \E i \in DOMAIN items : items[i][1] = name
  THEN [i \in DOMAIN items |-> IF items[i][1] = name THEN <<name, value>> ELSE items[i]]
  ELSE Append(items, <<name, value>>)

Command(items, change) ==
  CASE change.op \in {"set", "add", "new"} -> Holding(items, change.name, change.value)
    [] change.op = "push"    -> Listed(Append(Values(items), change.value))
    [] change.op = "replace" -> Holding(Without(items, change.was), change.value, change.value)
    [] change.op = "delete"  -> Without(items, change.name)
    [] change.op = "delkey"  -> <<>>

\* As each change was asked for, one after the other
WrittenInOrder(items, changes) ==
  LET one(row, c) ==
        CASE c.op = "setitem" -> Holding(row, c.name, c.value)
          [] c.op = "removeitem" -> Listed(Values(Without(row, c.name)))
          [] OTHER -> Command(row, c)
  IN FoldLeft(one, items, changes)

\* The changes of a key, in the order of the pipe: items are set, then those that go are
\* marked and the marks removed, then the rest as it was asked for
Written(items, changes) ==
  LET is(op) == SelectSeq(changes, LAMBDA c : c.op = op)
      set == FoldLeft(LAMBDA row, c : Holding(row, c.name, c.value), items, is("setitem"))
      gone == {is("removeitem")[i].name : i \in DOMAIN is("removeitem")}
      kept == SelectSeq(set, LAMBDA item : item[1] \notin gone)
      rest == SelectSeq(changes, LAMBDA c : c.op \notin {"setitem", "removeitem"})
  IN FoldLeft(Command, IF gone = {} THEN kept ELSE Listed(Values(kept)), rest)

Of(changes, key) == SelectSeq(changes, LAMBDA c : c.key = key)

AfterWrite(key) ==
  LET changes == Of(pending, key)
      items == Written(server[key].items, changes)
      made == SelectSeq(changes, LAMBDA c : c.op = "new")
  IN IF changes = <<>> THEN server[key]
     ELSE IF items = <<>> THEN None
     ELSE [kind |-> IF made # <<>> THEN made[1].kind ELSE server[key].kind, items |-> items]

-----------------------------------------------------------------------------
\* What tql shows: the items that were read, and on top of them the changes that wait

Place(rows, name) == SelectInSeq(rows, LAMBDA row : row.name = name)
Toned(rows, at, tone) == IF at = 0 THEN rows ELSE [rows EXCEPT ![at].tone = tone]
Edited(rows, at, name, value) ==
  IF at = 0 THEN rows ELSE [rows EXCEPT ![at] = [name |-> name, value |-> value, tone |-> "edited"]]
Added(rows, name, value) == Append(rows, [name |-> name, value |-> value, tone |-> "added"])

Overlay(rows, change) ==
  CASE change.op = "set" /\ Place(rows, change.name) = 0 -> Added(rows, change.name, change.value)
    [] change.op \in {"set", "setitem"} ->
         Edited(rows, Place(rows, change.name), change.name, change.value)
    [] change.op \in {"delete", "removeitem"} -> Toned(rows, Place(rows, change.name), "marked")
    [] change.op = "push"    -> Added(rows, "+", change.value)
    [] change.op = "add"     -> Added(rows, change.name, change.value)
    [] change.op = "replace" -> Edited(rows, Place(rows, change.was), change.value, change.value)
    [] change.op = "delkey"  -> [i \in DOMAIN rows |-> [rows[i] EXCEPT !.tone = "marked"]]
    [] change.op = "new"     -> rows

Overlaid ==
  FoldLeft(Overlay,
           [i \in DOMAIN shown.items |->
              [name |-> shown.items[i][1], value |-> shown.items[i][2], tone |-> "plain"]],
           Of(pending, shown.key))

-----------------------------------------------------------------------------
\* The changes a key asks for

Change(op, key, name, value, was) ==
  [op |-> op, key |-> key, kind |-> shown.kind, name |-> name, value |-> value, was |-> was]

Ready == writing.at = "idle"
Push(change) ==
  /\ Len(pending) < MaxPending /\ asked < MaxWrites /\ pending' = Append(pending, change)
  /\ UNCHANGED <<server, shown, writing, others, asked>>

\* e on a value: an item that was added to a list has no place yet, and is not edited
EditHere(at, word) ==
  /\ Ready /\ shown.items # <<>> /\ at \in DOMAIN Overlaid
  /\ LET row == Overlaid[at] key == shown.key IN
     \/ shown.kind \in {"string", "hash", "zset"} /\ Push(Change("set", key, row.name, word, ""))
     \/ /\ shown.kind = "list" /\ at \in DOMAIN shown.items /\ row.name # "+"
        /\ Push(Change("setitem", key, row.name, word, shown.items[at][2]))
     \/ shown.kind = "set" /\ Push(Change("replace", key, word, word, row.name))

\* N on a value
AddHere(name, word) ==
  /\ Ready /\ shown.items # <<>>
  /\ LET key == shown.key IN
     \/ shown.kind = "hash" /\ Push(Change("set", key, name, word, ""))
     \/ shown.kind = "list" /\ Push(Change("push", key, "+", word, ""))
     \/ shown.kind = "set"  /\ Push(Change("add", key, word, word, ""))
     \/ shown.kind = "zset" /\ Push(Change("add", key, name, word, ""))

\* The same mark twice is no mark
Toggle(change) ==
  /\ Ready
  /\ \/ \E at \in DOMAIN pending :
          /\ pending[at] = change /\ \A i \in 1..(at - 1) : pending[i] # change
          /\ pending' = RemoveAt(pending, at)
     \/ /\ change \notin ToSet(pending) /\ Len(pending) < MaxPending /\ asked < MaxWrites
        /\ pending' = Append(pending, change)
  /\ UNCHANGED <<server, shown, writing, others, asked>>

\* d on a value marks the row that was read, whatever is shown in its place
MarkHere(at) ==
  /\ shown.kind # "string" /\ at \in DOMAIN shown.items
  /\ LET item == shown.items[at] IN
     IF shown.kind = "list" THEN Toggle(Change("removeitem", shown.key, item[1], "", item[2]))
     ELSE Toggle(Change("delete", shown.key, item[1], "", ""))

MarkKey(key) ==
  /\ server[key].kind # "none" \/ \E i \in DOMAIN pending : pending[i].key = key
  /\ Toggle([Change("delkey", key, "", "", "") EXCEPT !.kind = "none"])

\* N on the keys: the name must be none that the scan found; its kind and first value follow
NewKey(key, kind, word) ==
  /\ Ready /\ server[key].kind = "none" /\ key # shown.key
  /\ Push([op |-> "new", key |-> key, kind |-> kind, value |-> word, was |-> "",
           name |-> CASE kind = "list" -> "0" [] kind = "set" -> word [] OTHER -> "a"])

DropPending == Ready /\ pending # <<>> /\ pending' = <<>> /\ UNCHANGED <<server, shown, writing, others, asked>>

\* The value is read: opened, or shown again after a write
Nothing == [key |-> "", kind |-> "none", items |-> <<>>]
ReadOf(key, from) ==
  IF key \in Keys THEN [key |-> key, kind |-> from[key].kind, items |-> from[key].items] ELSE Nothing
Load(key) ==
  /\ Ready /\ server[key].kind # "none"
  /\ shown' = ReadOf(key, server)
  /\ UNCHANGED <<server, pending, writing, others, asked>>

\* R: refused while changes of either key wait, and to a name the server holds; the value closes
RenameAnyway(key, to) ==
  /\ Ready /\ server[key].kind # "none" /\ server[to].kind = "none"
  /\ server' = [server EXCEPT ![to] = server[key], ![key] = None]
  /\ shown' = Nothing
  /\ asked < MaxWrites /\ asked' = asked + 1
  /\ UNCHANGED <<pending, writing, others>>

Rename(key, to) ==
  /\ Ready /\ server[key].kind # "none" /\ server[to].kind = "none"
  /\ \A i \in DOMAIN pending : pending[i].key \notin {key, to}
  /\ server' = [server EXCEPT ![to] = server[key], ![key] = None]
  /\ shown' = Nothing
  /\ asked < MaxWrites /\ asked' = asked + 1
  /\ UNCHANGED <<pending, writing, others>>

-----------------------------------------------------------------------------
\* :w

Fits(change) ==
  CASE change.op \in {"setitem", "removeitem"} -> {"list"}
    [] change.op = "new" -> {"none"}
    [] change.op = "push" -> {"list", "none"}
    [] change.op \in {"add", "replace", "delete", "set"} -> {change.kind, "none"}
    [] change.op = "delkey" -> Kinds \cup {"none"}

\* A key is of the kind its changes are for, or was deleted by one before; and a list item
\* that is set or removed is still where it was
Checked ==
  /\ \A i \in DOMAIN pending :
       \/ server[pending[i].key].kind \in Fits(pending[i])
       \/ /\ pending[i].op = "new"
          /\ \E j \in 1..(i - 1) : pending[j].op = "delkey" /\ pending[j].key = pending[i].key
  /\ \A i \in DOMAIN pending : pending[i].op \in {"setitem", "removeitem"} =>
       <<pending[i].name, pending[i].was>> \in ToSet(server[pending[i].key].items)

Watch ==
  /\ Ready /\ pending # <<>> /\ asked < MaxWrites /\ asked' = asked + 1
  /\ writing' = [at |-> "watching", watched |-> TRUE, dirty |-> FALSE]
  /\ UNCHANGED <<server, shown, pending, others>>

\* ask: a command that finds the connection broken is asked again on a new one, which
\* watches nothing
Reconnect ==
  /\ MayBreak /\ writing.at = "watching" /\ writing.watched
  /\ writing' = [writing EXCEPT !.watched = FALSE]
  /\ UNCHANGED <<server, shown, pending, others, asked>>

CheckedNothing ==
  /\ writing.at = "watching"
  /\ writing' = [writing EXCEPT !.at = "checked"]
  /\ UNCHANGED <<server, shown, pending, others, asked>>

Check ==
  /\ writing.at = "watching"
  /\ writing' = IF Checked THEN [writing EXCEPT !.at = "checked"] ELSE Idle
  /\ UNCHANGED <<server, shown, pending, others, asked>>

Refused == writing.watched /\ writing.dirty

\* EXEC does nothing when a watched key changed: the changes stay pending
Exec ==
  /\ writing.at = "checked" /\ writing' = Idle
  /\ IF Refused THEN UNCHANGED <<server, pending, shown>>
     ELSE /\ server' = [k \in Keys |-> AfterWrite(k)]
          /\ pending' = <<>> /\ shown' = ReadOf(shown.key, server')
  /\ UNCHANGED <<others, asked>>

\* No answer to EXEC: it ran or it did not; the changes are dropped and what is there is shown
ExecUnanswered ==
  /\ MayBreak /\ writing.at = "checked" /\ writing' = Idle
  /\ server' = server \/ (~Refused /\ server' = [k \in Keys |-> AfterWrite(k)])
  /\ pending' = <<>> /\ shown' = ReadOf(shown.key, server')
  /\ UNCHANGED <<others, asked>>

\* Another client adds an item at the front of a key, or deletes it
OthersWrite(key) ==
  /\ others < MaxOthers /\ others' = others + 1
  /\ server[key].kind # "none"
  /\ \/ server' = [server EXCEPT ![key] = None]
     \/ \E word \in Words :
          /\ server[key].kind # "string"
          /\ server' = [server EXCEPT ![key].items =
               IF server[key].kind = "list" THEN Listed(<<word>> \o Values(@))
               ELSE Holding(@, word, IF server[key].kind = "set" THEN word ELSE "c")]
  /\ writing' = [writing EXCEPT !.dirty = @ \/ (~Ready /\ \E i \in DOMAIN pending : pending[i].key = key)]
  /\ UNCHANGED <<shown, pending, asked>>

Next ==
  \/ \E at \in 1..4 : MarkHere(at) \/ \E word \in Words : EditHere(at, word)
  \/ \E name \in Words, word \in Words : AddHere(name, word)
  \/ \E key \in Keys : MarkKey(key) \/ Load(key) \/ OthersWrite(key)
  \/ \E key \in Keys, kind \in Kinds, word \in Words : NewKey(key, kind, word)
  \/ \E key, to \in Keys : Rename(key, to)
  \/ DropPending \/ Watch \/ Reconnect \/ Check \/ Exec \/ ExecUnanswered

Spec == Init /\ [][Next]_keyEditVars

-----------------------------------------------------------------------------
Left(rows) == SelectSeq(rows, LAMBDA row : row.tone # "marked")
SetAndRemoved == \E i, j \in DOMAIN pending :
  /\ pending[i].op \in {"removeitem", "delkey"} /\ pending[j].op = "setitem"
  /\ pending[i].key = pending[j].key /\ (pending[i].name = pending[j].name \/ pending[i].op = "delkey")
TypedAgain == shown.kind # "list" /\ \E i \in DOMAIN pending :
  /\ pending[i].key = shown.key /\ pending[i].op \in {"add", "replace"}
  /\ \/ \E k \in DOMAIN shown.items : shown.items[k][1] = pending[i].name
     \/ \E j \in DOMAIN pending : j # i /\ pending[j].key = shown.key /\ pending[j].name = pending[i].name
Agree ==
  LET left == Left(Overlaid) after == AfterWrite(shown.key).items IN
  IF shown.kind = "list" THEN [i \in DOMAIN left |-> left[i].value] = Values(after)
  ELSE {left[i].name : i \in DOMAIN left} = {after[i][1] : i \in DOMAIN after}

\* What tql shows of a key, less the rows that are marked, is what :w will make of it, as
\* long as nobody else changes the key; but for a list item both marked and edited, and for
\* a member whose name was typed though another row or change had it
ShownIsWritten ==
  shown.key \in Keys /\ shown = ReadOf(shown.key, server) /\ ~SetAndRemoved /\ ~TypedAgain => Agree

\* The same without the exception: what the marks and the colors promise
MarksAreKept == shown.key \in Keys /\ shown = ReadOf(shown.key, server) => Agree

\* A list item is only written over, or removed, while it is the one that was seen, however
\* others shift the list while :w runs, as long as the connection that watches it stands
SeenStep ==
  server' # server /\ others' = others /\ pending' = <<>> /\ writing.watched =>
    \A i \in DOMAIN pending : pending[i].op \in {"setitem", "removeitem"} =>
      <<pending[i].name, pending[i].was>> \in ToSet(server[pending[i].key].items)
WritesWhatWasSeen == [][SeenStep]_keyEditVars
=============================================================================
