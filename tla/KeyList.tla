------------------------------ MODULE KeyList ------------------------------
(***************************************************************************)
(* The list of a Redis server's keys (src/app/tui/keys/mod.rs, tree.rs):    *)
(* a thread with a connection of its own scans, pages of keys come over a   *)
(* channel, and b, /, r and :w start the scan anew while it runs.  Other    *)
(* clients add and delete keys, and connections break and are made again.   *)
(***************************************************************************)
EXTENDS Naturals, Sequences, FiniteSets, SequencesExt

CONSTANTS
  Databases,    \* numbers of databases
  First,        \* that of the saved connection
  Tree,         \* every row there may be, in the order of the tree
  Space,        \* of each key the name of its space, or "" for one at the top
  Patterns,     \* what may be typed after /: for each the keys it matches, "" matching all
  Limit,        \* LIMIT, keys that are listed at most
  FoldedOver,   \* FOLDED_OVER, keys up to which spaces are open
  MaxScans, MaxOthers, \* scans and writes of others: bound the model
  MayFailToFork \* whether the connection for a scan may be refused

VARIABLES
  server,  \* the keys of each database
  conn,    \* the database the connection for everything but scans has selected
  tql,     \* the key list
  scans,   \* the threads that scan, oldest first
  others   \* how many writes of other clients there were

keyListVars == <<server, conn, tql, scans, others>>

AllKeys == DOMAIN Space
Matches(pattern) == IF pattern = "" THEN AllKeys ELSE Patterns[pattern]

\* A database holds finitely many keys, and tql begins in one of the databases
KeysFit == First \in Databases /\ IsFiniteSet(AllKeys) /\ Limit \in Nat

\* Rows of the tree: a space while it holds a listed key, a key while its space is open
IsOpen(space) ==
  space \notin tql.closed /\ (space \in tql.opened \/ tql.count <= FoldedOver)
Visible(row) ==
  IF row \in AllKeys THEN row \in tql.keys /\ (Space[row] = "" \/ IsOpen(Space[row]))
  ELSE \E key \in tql.keys : Space[key] = row
Rows == SelectSeq(Tree, Visible)
Current == IF tql.index \in DOMAIN Rows THEN Rows[tql.index] ELSE ""

Blank == [database |-> 0, pattern |-> "", keys |-> {}, count |-> 0, capped |-> FALSE, index |-> 1,
          opened |-> {}, closed |-> {}, scan |-> 0, marked |-> {}]
ScanOf(held, database, pattern) ==
  [database |-> database, pattern |-> pattern, steady |-> held[database] \cap Matches(pattern),
   seen |-> {}, count |-> 0, sent |-> <<>>, done |-> FALSE, failed |-> FALSE]
Over == [database |-> 0, pattern |-> "", steady |-> {}, seen |-> {}, count |-> 0, sent |-> <<>>,
         done |-> TRUE, failed |-> TRUE]

Init ==
  /\ \E held \in SUBSET AllKeys : server = [d \in Databases |-> IF d = First THEN held ELSE AllKeys]
  /\ conn = First /\ others = 0
  /\ tql = [Blank EXCEPT !.scan = 1, !.database = First] /\ scans = <<ScanOf(server, First, "")>>

-----------------------------------------------------------------------------
\* The thread that scans

\* A page: keys that are there, some again, and with the last of them every key that was there all the
\* while.  No more are taken than there is room for, and it ends at the limit
ScanPage(i) ==
  LET scan == scans[i]
      found == server[scan.database] \cap Matches(scan.pattern)
  IN /\ ~scan.done /\ tql.scan = i
     /\ \E page \in SUBSET found, last \in BOOLEAN, taken \in SUBSET found :
          /\ last => scan.steady \subseteq scan.seen \cup page
          /\ ~last => page # {}
          /\ taken \subseteq page
          /\ LET room == Limit - scan.count
                 count == scan.count + Cardinality(taken)
             IN /\ Cardinality(taken) = IF Cardinality(page) <= room THEN Cardinality(page) ELSE room
                /\ LET batch == [kind |-> "keys", keys |-> taken]
                       end == [kind |-> "done", capped |-> ~last]
                       over == last \/ count >= Limit
                       sent == Append(scan.sent, batch)
                   IN scans' = [scans EXCEPT ![i] = [scan EXCEPT
                        !.seen = scan.seen \cup taken, !.count = count, !.done = over,
                        !.sent = IF over THEN Append(sent, end) ELSE sent]]
  /\ UNCHANGED <<server, conn, tql, others>>

\* SCAN is refused, or its answer does not come: the list keeps what it has
ScanFails(i) ==
  /\ ~scans[i].done /\ tql.scan = i
  /\ scans' = [scans EXCEPT ![i] = [scans[i] EXCEPT !.done = TRUE, !.failed = TRUE,
                                                    !.sent = Append(scans[i].sent, [kind |-> "failed"])]]
  /\ UNCHANGED <<server, conn, tql, others>>

\* A thread whose list has a newer scan finds nobody to send to
ScanUnheard(i) ==
  /\ ~scans[i].done /\ tql.scan # i
  /\ scans' = [scans EXCEPT ![i] = Over]
  /\ UNCHANGED <<server, conn, tql, others>>

-----------------------------------------------------------------------------
\* The key list

\* idle hears what has come
HearFromScan ==
  /\ tql.scan # 0 /\ scans[tql.scan].sent # <<>>
  /\ LET batch == Head(scans[tql.scan].sent) IN
     tql' = CASE batch.kind = "keys" -> [tql EXCEPT !.keys = @ \cup batch.keys, !.count = @ + Cardinality(batch.keys)]
              [] batch.kind = "done" -> [tql EXCEPT !.capped = batch.capped, !.scan = 0]
              [] OTHER -> [tql EXCEPT !.scan = 0]
  /\ scans' = [scans EXCEPT ![tql.scan].sent = Tail(@)]
  /\ UNCHANGED <<server, conn, others>>

\* rescan: the list is emptied, and unless the new connection is refused a thread starts; when
\* it is refused the scan before goes on
RescanKeeping(next) ==
  /\ scans' = Append(scans, ScanOf(server', next.database, next.pattern))
  /\ tql' = [next EXCEPT !.scan = Len(scans) + 1, !.index = 1]

Rescan(next) ==
  /\ Len(scans) < MaxScans
  /\ LET emptied == [next EXCEPT !.keys = {}, !.count = 0, !.capped = FALSE, !.index = 1] IN
     \/ /\ scans' = Append([i \in DOMAIN scans |-> IF scans[i].done THEN Over ELSE scans[i]],
                          ScanOf(server', next.database, next.pattern))
        /\ tql' = [emptied EXCEPT !.scan = Len(scans) + 1]
     \/ MayFailToFork /\ tql' = emptied /\ UNCHANGED scans

UseDatabase(number) ==
  /\ tql.marked = {} /\ number # tql.database
  /\ conn' = number /\ UNCHANGED <<server, others>>
  /\ Rescan([tql EXCEPT !.database = number, !.opened = {}, !.closed = {}])

Filter(pattern) ==
  /\ UNCHANGED <<server, conn, others>>
  /\ Rescan([tql EXCEPT !.pattern = pattern])

ScanAgain == UNCHANGED <<server, conn, others>> /\ Rescan(tql)

MoveBy(to) ==
  /\ to \in DOMAIN Rows /\ to \in {tql.index - 1, tql.index + 1}
  /\ tql' = [tql EXCEPT !.index = to]
  /\ UNCHANGED <<server, conn, scans, others>>

\* fold: a space opens or closes; h on a key closes its space and moves onto it
Opened(space) == [tql EXCEPT !.closed = @ \ {space}, !.opened = @ \cup {space}]
Closed(space) == [tql EXCEPT !.opened = @ \ {space}, !.closed = @ \cup {space}]
Fold(open) ==
  /\ Current # ""
  /\ \/ /\ Current \notin AllKeys
        /\ tql' = IF open THEN Opened(Current) ELSE Closed(Current)
     \/ /\ Current \in AllKeys /\ ~open /\ Space[Current] # ""
        /\ tql' = [Closed(Space[Current]) EXCEPT !.index =
             CHOOSE at \in DOMAIN Rows : Rows[at] = Space[Current]]
  /\ UNCHANGED <<server, conn, scans, others>>

\* Twice d is no mark; each mark is kept with the database it was made in
MarkKey ==
  /\ Current \in AllKeys
  /\ LET mark == <<Current, tql.database>> IN
     tql' = [tql EXCEPT !.marked = IF mark \in @ THEN @ \ {mark} ELSE @ \cup {mark}]
  /\ UNCHANGED <<server, conn, scans, others>>

DropPending == tql.marked # {} /\ tql' = [tql EXCEPT !.marked = {}] /\ UNCHANGED <<server, conn, scans, others>>

\* :w deletes the marked keys in the database of the connection, and scans again
Write ==
  /\ tql.marked # {}
  /\ server' = [server EXCEPT ![conn] = @ \ {mark[1] : mark \in tql.marked}]
  /\ Rescan([tql EXCEPT !.marked = {}])
  /\ UNCHANGED <<conn, others>>

\* The connection is broken, and the new one selects the database again; until then nothing is
\* asked of it
ReconnectPlain == conn' = 0 /\ conn # 0 /\ UNCHANGED <<server, tql, scans, others>>
Reconnect == conn' = tql.database /\ UNCHANGED <<server, tql, scans, others>>

OthersWrite(database, key) ==
  /\ others < MaxOthers /\ others' = others + 1
  /\ server' = [server EXCEPT ![database] = IF key \in @ THEN @ \ {key} ELSE @ \cup {key}]
  /\ scans' = [i \in DOMAIN scans |->
       IF scans[i].database = database THEN [scans[i] EXCEPT !.steady = @ \ {key}] ELSE scans[i]]
  /\ UNCHANGED <<conn, tql>>

Next ==
  \/ \E i \in DOMAIN scans : ScanPage(i) \/ ScanFails(i) \/ ScanUnheard(i)
  \/ HearFromScan \/ ScanAgain \/ MarkKey \/ DropPending \/ Write \/ Reconnect
  \/ \E number \in Databases : UseDatabase(number)
  \/ \E pattern \in {""} \cup DOMAIN Patterns : Filter(pattern)
  \/ \E to \in 1..Len(Tree) : MoveBy(to)
  \/ \E open \in BOOLEAN : Fold(open)
  \/ \E database \in Databases, key \in AllKeys : OthersWrite(database, key)

Spec == Init /\ [][Next]_keyListVars

-----------------------------------------------------------------------------
\* The keys listed are keys of the database and the pattern the header names: a scan that a
\* newer one replaced adds none, whatever of it is still in the channel
ListFollows ==
  /\ tql.keys \subseteq Matches(tql.pattern)
  /\ tql.scan # 0 =>
       scans[tql.scan].database = tql.database /\ scans[tql.scan].pattern = tql.pattern

\* When the last scan came to its end below the limit and said so, every key that was there
\* since it began is listed (at the limit a last page may be cut short without a word)
ListIsWhole ==
  LET last == scans[Len(scans)] IN
  /\ tql.scan = 0 /\ ~tql.capped /\ tql.count < Limit
  /\ last.done /\ ~last.failed
  => last.steady \subseteq tql.keys

\* :w deletes a key only in the database it was marked in
MarkedStep ==
  others' = others => \A d \in Databases : \A key \in server[d] \ server'[d] : <<key, d>> \in tql.marked
DeletesWhatWasMarked == [][MarkedStep]_keyListVars
=============================================================================
