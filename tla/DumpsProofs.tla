----------------------------- MODULE DumpsProofs -----------------------------
(***************************************************************************)
(* Proofs about dumps, loads, syncs and exports, for any connections,       *)
(* databases, folders and commands: what a command says it did is so where  *)
(* nobody else writes, only its target is written, a load without --drop    *)
(* loses nothing, a manifest is of a whole dump, no secret is left, and a   *)
(* sync has two ends.  The invariant is DumpsInv, what is true of the       *)
(* command under way and its folders whoever writes, with ToldInv, what it  *)
(* has copied so far, while nobody else does.  The second part is about     *)
(* asking for SQL.                                                          *)
(***************************************************************************)
EXTENDS Dumps, SequenceTheorems, FiniteSetTheorems, TLAPS

IsCommand(t) ==
  t \in [at : {t.at}, c : {t.c}, from : {t.from}, to : {t.to}, path : {t.path}, engine : {t.engine}, left : {t.left},
         secrets : {t.secrets}, tunnel : {t.tunnel}, handler : {t.handler}, open : {t.open}, ran : {t.ran},
         said : {t.said}, unanswered : {t.unanswered}, early : {t.early}, before : {t.before}, dumped : {t.dumped}]

LEMMA RestIs == IsCommand(Rest) /\ Rest.at = "rest"
  BY DEF Rest, IsCommand

LEMMA BeganIs ==
  ASSUME NEW c
  PROVE  /\ IsCommand(Began(c)) /\ Began(c).c = c /\ Began(c).before = data /\ Began(c).said = None
         /\ Began(c).early = FALSE /\ Began(c).unanswered = FALSE /\ Began(c).secrets = 0 /\ Began(c).tunnel = FALSE
         /\ Began(c).to = NoConnection /\ Began(c).dumped = None
  BY RestIs DEF Began, Rest, IsCommand

\* What a command is asked to do, and with which databases, stays.
AsAsked(t, u) ==
  u.c = t.c /\ u.from = t.from /\ u.to = t.to /\ u.path = t.path /\ u.engine = t.engine /\ u.before = t.before
Stays(t, u) ==
  /\ AsAsked(t, u)
  /\ u.early = t.early /\ u.unanswered = t.unanswered /\ u.dumped = t.dumped

\* A command that ends leaves no secrets and no tunnel.
SaidBy(t, u, what) ==
  /\ IsCommand(u) /\ u.at = "ended" /\ u.said = what /\ u.secrets = 0 /\ u.tunnel = FALSE
  /\ Stays(t, u)

LEMMA SaysIs == ASSUME NEW t, IsCommand(t), NEW what PROVE SaidBy(t, Says(t, what), what)
<1>1. /\ IsCommand(Forgotten(t)) /\ Forgotten(t).secrets = 0 /\ Forgotten(t).tunnel = FALSE
      /\ Stays(t, Forgotten(t))
  BY DEF Forgotten, IsCommand, Stays, AsAsked
<1>2. Says(t, what) = [Forgotten(t) EXCEPT !.at = "ended", !.said = what]
  BY Zenon DEF Says
<1> QED
  BY <1>1, <1>2 DEF IsCommand, Stays, AsAsked, SaidBy

-----------------------------------------------------------------------------
(* Texts, sets and functions                                               *)

\* Every table is in the list once.
IsListOf(s, S) == s \in Seq(S) /\ \A i, j \in DOMAIN s : s[i] = s[j] => i = j

LEMMA SeqIs == \A n \in Nat : \A S, s : s \in [1 .. n -> S] => s \in Seq(S)
  BY SeqDef

LEMMA ListIs ==
  ASSUME NEW S, IsFiniteSet(S)
  PROVE  IsListOf(SetToSeq(S), S) /\ Range(SetToSeq(S)) = S
<1> DEFINE n == Cardinality(S)
<1>1. n \in Nat /\ ExistsBijection(1 .. n, S)
  BY FS_CardinalityType
<1>2. PICK f \in [1 .. n -> S] : \A a, b \in 1 .. n : f[a] = f[b] => a = b
  BY <1>1 DEF ExistsBijection, Bijection, Injection, IsInjective
<1>3. f \in [1 .. n -> S] /\ IsInjective(f)
  BY <1>2 DEF IsInjective
<1>4. SetToSeq(S) \in [1 .. n -> S] /\ IsInjective(SetToSeq(S))
  BY <1>3, Zenon DEF SetToSeq
<1> DEFINE s == SetToSeq(S)
<1> HIDE DEF s
<1>5. s \in Injection(1 .. n, S)
  BY <1>4 DEF Injection, IsInjective, s
<1>6. Cardinality(1 .. n) = n /\ IsFiniteSet(1 .. n)
  BY <1>1, FS_Interval
<1>7. s \in Surjection(1 .. n, S)
  BY <1>5, <1>6, FS_Injection
<1>8. IsListOf(s, S)
  BY <1>1, <1>4, SeqIs DEF IsListOf, IsInjective, s
<1>9. Range(s) = S
  BY <1>7 DEF Surjection, Range
<1> QED
  BY <1>8, <1>9 DEF s

LEMMA TailIs ==
  ASSUME NEW S, NEW s, IsListOf(s, S), s # <<>>
  PROVE  IsListOf(Tail(s), S) /\ Head(s) \in S /\ Range(Tail(s)) = Range(s) \ {Head(s)}
<1>1. /\ s \in Seq(S) /\ Head(s) = s[1] /\ Head(s) \in S /\ Tail(s) \in Seq(S) /\ Len(s) \in Nat /\ Len(s) >= 1
      /\ Len(Tail(s)) = Len(s) - 1 /\ \A i \in 1 .. Len(s) - 1 : Tail(s)[i] = s[i + 1]
      /\ DOMAIN s = 1 .. Len(s) /\ DOMAIN Tail(s) = 1 .. Len(s) - 1
  BY HeadTailProperties, EmptySeq, LenProperties DEF IsListOf
<1>2. IsListOf(Tail(s), S)
  BY <1>1 DEF IsListOf
<1>3. \A x : x \in Range(Tail(s)) <=> x \in Range(s) \ {Head(s)}
  <2>1. \A x \in Range(Tail(s)) : x \in Range(s) \ {Head(s)}
    BY <1>1 DEF Range, IsListOf
  <2>2. ASSUME NEW i \in 2 .. Len(s) PROVE s[i] \in Range(Tail(s))
    <3>1. i - 1 \in 1 .. Len(s) - 1 /\ Tail(s)[i - 1] = s[i]
      BY <1>1
    <3>2. s[i] \in {Tail(s)[j] : j \in DOMAIN Tail(s)}
      BY <1>1, <3>1
    <3> QED
      BY <3>2, Zenon DEF Range
  <2>3. \A i \in DOMAIN s : i = 1 \/ i \in 2 .. Len(s)
    BY <1>1
  <2>4. \A x \in Range(s) : \E i \in DOMAIN s : x = s[i]
    BY DEF Range
  <2> QED
    BY <1>1, <2>1, <2>2, <2>3, <2>4
<1> QED
  BY <1>1, <1>2, <1>3

LEMMA NoneLeft == \A s : s = <<>> => Range(s) = {}
  BY DEF Range

-----------------------------------------------------------------------------
(* The invariant                                                           *)

Working == {"built", "dumping", "dumped", "dump failed", "loading", "load failed"}

CommandInv ==
  /\ IsCommand(tql)
  /\ tql.at \in Working \cup {"rest", "replaying", "ended"}
  /\ tql.at \in Working => tql.c.does \in {"dump", "load", "sync"}
  /\ tql.at \in {"dumping", "dumped", "dump failed"} => tql.c.does \in {"dump", "sync"}
  /\ tql.at \in {"loading", "load failed"} => tql.c.does \in {"load", "sync"}
  /\ tql.at = "replaying" => tql.c.does = "load" /\ ~tql.c.drop
  /\ tql.at \notin {"rest", "built", "ended"} => ~tql.c.dryRun
  /\ tql.at \in Working \cup {"replaying"} =>
       tql.c \in Commands /\ tql.said = None /\ tql.unanswered = FALSE /\ tql.early = FALSE
  /\ NothingLeft

\* A command under way writes to a database that may be written to, and reads from one that is there.
PlacesInv ==
  tql.at \in Working \cup {"replaying"} =>
    /\ tql.c.does \in {"load", "sync"} => tql.to # NoConnection /\ ~tql.to.readOnly
    /\ tql.c.does \in {"dump", "sync"} => Reached(tql.from) \in DOMAIN data

\* A load into a SQLite file that must not be replaced is into none that is there.
FileInv ==
  /\ tql.c.does = "load" /\ tql.engine = "sqlite" /\ ~tql.c.drop
  /\ tql.at = "built" \/ (tql.at = "loading" /\ tql.left # <<>>)
  => Target \notin DOMAIN data

Folder == folders[tql.path]

TypesInv ==
  /\ \A place \in DOMAIN data : IsFiniteSet(DOMAIN data[place])
  /\ \A path \in DOMAIN folders : FolderFits(folders[path])

\* The tables of a folder are those the command has read, or was given, and each is to be loaded once.
FoldersInv ==
  /\ tql.at = "dumped" =>
       tql.path \in DOMAIN folders /\ Folder = Whole([t \in Named(tql.c, tql.dumped) |-> tql.dumped[t]])
  /\ tql.at = "loading" /\ tql.c.does = "sync" =>
       /\ tql.path \in DOMAIN folders /\ Folder.kind # "file"
       /\ Folder.tables = [t \in Named(tql.c, tql.dumped) |-> tql.dumped[t]] /\ ~Folder.dataOnly
  /\ tql.at \in {"built", "loading"} /\ tql.c.does = "load" => tql.path \in DOMAIN folders /\ Folder.kind # "file"
  /\ tql.at = "replaying" => tql.path \in DOMAIN folders /\ Folder.kind = "file"
  /\ tql.at = "loading" => IsListOf(tql.left, DOMAIN Folder.tables)

DumpsInv == CommandInv /\ PlacesInv /\ FileInv /\ TypesInv /\ FoldersInv

-----------------------------------------------------------------------------
(* What stays as it was, where nobody else writes                          *)

Source == tql.before[Reached(tql.from)]
HeldIn(d, t) == Target \in DOMAIN d /\ t \in DOMAIN d[Target]
Kept(t) ==
  /\ HeldIn(data, t) <=> HeldIn(tql.before, t)
  /\ HeldIn(data, t) => data[Target][t] = tql.before[Target][t]
Brought(t, rows) == HeldIn(data, t) /\ data[Target][t] = rows
OthersKept ==
  \A place : place # Target =>
    /\ place \in DOMAIN data <=> place \in DOMAIN tql.before
    /\ place \in DOMAIN data => data[place] = tql.before[place]

\* What a load makes of a table that is in its folder
Loaded(t) ==
  Brought(t, IF Folder.dataOnly /\ tql.engine # "sqlite" THEN tql.before[Target][t] \o Folder.tables[t] ELSE Folder.tables[t])
RestKept(names) == tql.engine # "sqlite" => \A t : t \notin names => Kept(t)

\* What a command said at its end is so.
SaidIsDone ==
  /\ tql.said \in {"refused", "would", "dumped", "incomplete", "not touched", "exported"} \/
     (tql.said = "nothing" /\ ~tql.unanswered) \/ (tql.to # NoConnection /\ tql.to.readOnly) => data = tql.before
  /\ tql.said = "synced" =>
       (\A t \in Named(tql.c, Source) : Brought(t, Source[t])) /\ RestKept(Named(tql.c, Source))
  /\ tql.said = "loaded" /\ Folder.kind # "file" =>
       (\A t \in DOMAIN Folder.tables : Loaded(t)) /\ RestKept(DOMAIN Folder.tables)

Told ==
  /\ OthersKept
  /\ tql.at \in {"built", "dumping", "dumped", "dump failed"} => data = tql.before
  /\ tql.at = "replaying" /\ Atomic(tql.to) => data = tql.before
  /\ tql.at \in {"dumped", "loading"} /\ tql.c.does = "sync" => tql.dumped = Source
  /\ tql.at = "loading" =>
       /\ \A t \in DOMAIN Folder.tables : IF t \in Range(tql.left) THEN Kept(t) ELSE Loaded(t)
       /\ RestKept(DOMAIN Folder.tables)
  /\ tql.at = "ended" => SaidIsDone

ToldInv == steps.others = 0 /\ tql.at # "rest" => Told

-----------------------------------------------------------------------------
(* How a command starts                                                    *)

Ready(t) ==
  /\ t.at \in {"built", "replaying"} /\ t.said = None
  /\ t.at = "built" => t.c.does \in {"dump", "load", "sync"}
  /\ t.at = "replaying" => t.c.does = "load" /\ ~t.c.drop /\ ~t.c.dryRun
  /\ t.c.does \in {"load", "sync"} => t.to # NoConnection /\ ~t.to.readOnly
  /\ t.c.does \in {"dump", "sync"} => Reached(t.from) \in DOMAIN data
  /\ t.c.does = "load" => t.path \in DOMAIN folders /\ (folders[t.path].kind = "file" <=> t.at = "replaying")
  /\ t.c.does = "load" /\ t.engine = "sqlite" /\ ~t.c.drop /\ t.at = "built" => Reached(t.to) \notin DOMAIN data
Over(t) ==
  t.at = "ended" /\ t.said \in {"refused", "would", "exported"} /\ t.secrets = 0 /\ t.tunnel = FALSE

Starts(t, c) ==
  /\ IsCommand(t) /\ t.c = c /\ t.before = data /\ t.early = FALSE /\ t.unanswered = FALSE
  /\ Ready(t) \/ Over(t)

LEMMA SettledIs ==
  ASSUME NEW k, IsConnection(k), NEW c
  PROVE  /\ IsConnection(Settled(k, c)) /\ Settled(k, c).driver = k.driver
         /\ ~IsServer(k.driver) => Settled(k, c) = k
  BY DEF Settled, IsConnection

LEMMA NoneIs == \A k : IsConnection(k) => k # NoConnection
<1> TAKE k
<1>1. IsConnection(k) => "host" \in DOMAIN k
  BY DEF IsConnection
<1>2. "host" \notin DOMAIN NoConnection
  BY DEF NoConnection
<1> QED
  BY <1>1, <1>2

\* A connection that answers leads to a database that is there.
LEMMA AnswersIs ==
  ASSUME NEW k, NEW e, Answers(k, e), IsSettled(k), k.driver = "sqlite" => k.database # "",
         EngineFor(k.driver) # None
  PROVE  Reached(k) \in DOMAIN data
<1>1. IsServer(k.driver) => k.database # ""
  BY DEF IsSettled
<1>2. k.driver \in {"mysql", "pgsql", "sqlite"}
  BY DEF EngineFor
<1> QED
  BY <1>1, <1>2 DEF Answers, IsServer

\* A command that is asked for is refused, or it is ready.
AskedOf(t, c) ==
  /\ IsCommand(t) /\ t.c = c /\ t.before = data /\ t.early = FALSE /\ t.unanswered = FALSE

Built(t, secrets, tunnel) == [t EXCEPT !.at = "built", !.secrets = secrets, !.tunnel = tunnel]
BuiltOf(t, u) == IsCommand(u) /\ u.at = "built" /\ u.said = t.said /\ Stays(t, u)

LEMMA BuiltIs == ASSUME NEW t, IsCommand(t), NEW secrets, NEW tunnel PROVE BuiltOf(t, Built(t, secrets, tunnel))
  BY DEF IsCommand, Built, BuiltOf, Stays, AsAsked

LEMMA RefusedIs ==
  ASSUME NEW t, NEW c, AskedOf(t, c), NEW said \in {"refused", "would", "exported"}
  PROVE  Starts(Says(t, said), c)
<1> DEFINE u == Says(t, said)
<1>1. SaidBy(t, u, said)
  BY SaysIs DEF AskedOf
<1> HIDE DEF u
<1>2. Starts(u, c)
  BY <1>1, Zenon DEF Starts, Over, SaidBy, AskedOf, Stays, AsAsked
<1> QED
  BY <1>2 DEF u

LEMMA DumpStarts ==
  ASSUME DumpsFit, NEW c \in Commands, NEW e, Dump(c, e)
  PROVE  Starts(tql', c)
<1> DEFINE k == Settled(Connections[c.from], c)
           engine == EngineFor(k.driver)
           began == [Began(c) EXCEPT !.from = k, !.path = DumpFolder(c), !.engine = engine]
           written == Writing(0, k)
           built == Built(began, written.secrets, written.tunnel)
<1>1. c.does = "dump" /\ IsConnection(Connections[c.from])
      /\ (Connections[c.from].driver = "sqlite" => Connections[c.from].database # "")
  BY DEF Dump, DumpsFit
<1>2. IsConnection(k) /\ (k.driver = "sqlite" => k.database # "")
  BY <1>1, SettledIs DEF IsServer
<1>3. AskedOf(began, c) /\ began.said = None /\ began.from = k
  BY BeganIs DEF IsCommand, AskedOf
<1>4. tql' = Says(began, "refused") \/ (tql' = built /\ IsSettled(k) /\ engine # None /\ Answers(k, e))
  BY Zenon DEF Dump, Built
<1> HIDE DEF began, engine
<1>5. BuiltOf(began, built)
  BY <1>3, BuiltIs DEF AskedOf
<1> HIDE DEF built, k
<1>6. CASE tql' = Says(began, "refused")
  BY <1>3, <1>6, RefusedIs
<1>7. CASE tql' = built /\ IsSettled(k) /\ engine # None /\ Answers(k, e)
  <2>1. Reached(k) \in DOMAIN data
    BY <1>2, <1>7, AnswersIs DEF engine
  <2>2. AskedOf(built, c) /\ built.from = k /\ built.at = "built" /\ built.said = None
    BY <1>3, <1>5, Zenon DEF AskedOf, BuiltOf, Stays, AsAsked
  <2>3. Ready(built)
    BY <1>1, <2>1, <2>2 DEF Ready, AskedOf
  <2> QED
    BY <1>7, <2>2, <2>3, Zenon DEF Starts, AskedOf
<1> QED
  BY <1>4, <1>6, <1>7

LEMMA TargetIs ==
  ASSUME NEW k, IsConnection(k), NEW source, NEW c PROVE IsConnection(TargetOf(k, source, c))
<1>1. \A name : IsConnection([k EXCEPT !.database = name])
  BY DEF IsConnection
<1>2. TargetOf(k, source, c) = k \/ \E name : TargetOf(k, source, c) = [k EXCEPT !.database = name]
  BY Zenon DEF TargetOf
<1> QED
  BY <1>1, <1>2

LEMMA SyncStarts ==
  ASSUME DumpsFit, NEW c \in Commands, NEW e, Sync(c, e)
  PROVE  Starts(tql', c)
<1> DEFINE source == Settled(Connections[c.from], c)
           target == TargetOf(Connections[c.to], source, c)
           engine == EngineFor(source.driver)
           began == [Began(c) EXCEPT !.from = source, !.to = target, !.path = SyncFolder(c), !.engine = engine]
           out == Writing(0, source)
           both == Writing(out.secrets, target)
           built == Built(began, both.secrets, out.tunnel \/ both.tunnel)
<1>1. /\ c.does = "sync" /\ IsConnection(Connections[c.from]) /\ IsConnection(Connections[c.to])
      /\ (Connections[c.from].driver = "sqlite" => Connections[c.from].database # "")
  BY DEF Sync, DumpsFit
<1>2. IsConnection(source) /\ (source.driver = "sqlite" => source.database # "") /\ target # NoConnection
  BY <1>1, SettledIs, TargetIs, NoneIs DEF IsServer
<1>3. AskedOf(began, c) /\ began.said = None /\ began.from = source /\ began.to = target
  <2> HIDE DEF source, target
  <2> QED
    BY BeganIs DEF IsCommand, AskedOf
<1>4. \/ tql' = Says(began, "refused")
      \/ tql' = built /\ IsSettled(source) /\ engine # None /\ Answers(source, e) /\ MayWriteTo(target, c, e)
  BY Zenon DEF Sync, Built
<1> HIDE DEF began, engine
<1>5. BuiltOf(began, built)
  <2> DEFINE tunnel == out.tunnel \/ both.tunnel
  <2> HIDE DEF tunnel
  <2>1. BuiltOf(began, Built(began, both.secrets, tunnel))
    BY <1>3, BuiltIs DEF AskedOf
  <2> QED
    BY <2>1, Zenon DEF tunnel
<1> HIDE DEF built, source, target
<1>6. CASE tql' = Says(began, "refused")
  BY <1>3, <1>6, RefusedIs
<1>7. CASE tql' = built /\ IsSettled(source) /\ engine # None /\ Answers(source, e) /\ MayWriteTo(target, c, e)
  <2>1. Reached(source) \in DOMAIN data /\ ~target.readOnly
    BY <1>2, <1>7, AnswersIs DEF engine, MayWriteTo
  <2>2. AskedOf(built, c) /\ built.from = source /\ built.to = target /\ built.at = "built" /\ built.said = None
    BY <1>3, <1>5, Zenon DEF AskedOf, BuiltOf, Stays, AsAsked
  <2>3. Ready(built)
    BY <1>1, <1>2, <2>1, <2>2 DEF Ready, AskedOf
  <2> QED
    BY <1>7, <2>2, <2>3, Zenon DEF Starts, AskedOf
<1> QED
  BY <1>4, <1>6, <1>7

LEMMA RestoreStarts ==
  ASSUME DumpsFit, NEW c \in Commands, NEW e, Restore(c, e)
  PROVE  Starts(tql', c)
<1> DEFINE k == Settled(Connections[c.to], c)
           engine == EngineFor(k.driver)
           began == [Began(c) EXCEPT !.to = k, !.path = c.path, !.engine = engine]
           written == Writing(0, k)
           built == Built(began, written.secrets, written.tunnel)
           occupied == k.driver = "sqlite" /\ Reached(k) \in DOMAIN data
<1>1. /\ c.does = "load" /\ IsConnection(Connections[c.to])
      /\ c.path \in DOMAIN folders /\ folders[c.path].kind # "file"
  BY DEF Restore, DumpsFit
<1>2. IsConnection(k) /\ k # NoConnection
  BY <1>1, SettledIs, NoneIs
<1>3. /\ AskedOf(began, c) /\ began.said = None /\ began.to = k /\ began.path = c.path /\ began.engine = engine
  <2> HIDE DEF k, engine
  <2> QED
    BY BeganIs DEF IsCommand, AskedOf
<1>4. \/ tql' = Says(began, "refused")
      \/ tql' = built /\ MayLoad(k, c, e) /\ (~occupied \/ c.drop)
  BY Zenon DEF Restore, Built
<1>5. engine = "sqlite" => k.driver = "sqlite"
  BY DEF EngineFor, None
<1> HIDE DEF began, engine
<1>6. BuiltOf(began, built)
  BY <1>3, BuiltIs DEF AskedOf
<1> HIDE DEF built, k
<1>7. CASE tql' = Says(began, "refused")
  BY <1>3, <1>7, RefusedIs
<1>8. CASE tql' = built /\ MayLoad(k, c, e) /\ (~occupied \/ c.drop)
  <2>1. ~k.readOnly
    BY <1>8 DEF MayLoad, MayWriteTo
  <2>2. /\ AskedOf(built, c) /\ built.to = k /\ built.path = c.path /\ built.engine = engine /\ built.at = "built"
        /\ built.said = None
    BY <1>3, <1>6, Zenon DEF AskedOf, BuiltOf, Stays, AsAsked
  <2>3. Ready(built)
    BY <1>1, <1>2, <1>5, <1>8, <2>1, <2>2 DEF Ready, AskedOf
  <2> QED
    BY <1>8, <2>2, <2>3, Zenon DEF Starts, AskedOf
<1> QED
  BY <1>4, <1>7, <1>8

LEMMA ReplayStarts ==
  ASSUME DumpsFit, NEW c \in Commands, NEW e, Replay(c, e)
  PROVE  Starts(tql', c)
<1> DEFINE k == Settled(Connections[c.to], c)
           began == [Began(c) EXCEPT !.to = k, !.path = c.path]
           put(left, open, tunnel) == [began EXCEPT !.at = "replaying", !.left = left, !.open = open, !.tunnel = tunnel]
           built == put(Statements(k.driver, folders[c.path].text), data[Reached(k)], UsesSsh(k))
<1>1. /\ c.does = "load" /\ IsConnection(Connections[c.to])
      /\ c.path \in DOMAIN folders /\ folders[c.path].kind = "file"
  BY DEF Replay, DumpsFit
<1>2. IsConnection(k) /\ k # NoConnection
  BY <1>1, SettledIs, NoneIs
<1>3. AskedOf(began, c) /\ began.said = None /\ began.to = k /\ began.path = c.path
  <2> HIDE DEF k
  <2> QED
    BY BeganIs DEF IsCommand, AskedOf
<1>4. \/ tql' = Says(began, "refused") \/ tql' = Says(began, "would")
      \/ tql' = built /\ MayLoad(k, c, e) /\ ~c.drop /\ ~c.dryRun
  BY Zenon DEF Replay
<1> HIDE DEF began
<1> DEFINE same(u) == IsCommand(u) /\ u.at = "replaying" /\ u.said = began.said /\ Stays(began, u)
<1>5. \A left, open, tunnel : same(put(left, open, tunnel))
  <2> TAKE left, open, tunnel
  <2> QED
    BY <1>3 DEF IsCommand, AskedOf, Stays, AsAsked
<1>6. same(built)
  <2> HIDE DEF same, put
  <2> QED
    BY <1>5, Zenon
<1> HIDE DEF built, k
<1>7. CASE tql' \in {Says(began, "refused"), Says(began, "would")}
  BY <1>3, <1>7, RefusedIs
<1>8. CASE tql' = built /\ MayLoad(k, c, e) /\ ~c.drop /\ ~c.dryRun
  <2>1. ~k.readOnly
    BY <1>8 DEF MayLoad, MayWriteTo
  <2>2. AskedOf(built, c) /\ built.to = k /\ built.path = c.path /\ built.at = "replaying" /\ built.said = None
    BY <1>3, <1>6, Zenon DEF AskedOf, Stays, AsAsked
  <2>3. Ready(built)
    BY <1>1, <1>2, <1>8, <2>1, <2>2 DEF Ready, AskedOf
  <2> QED
    BY <1>8, <2>2, <2>3, Zenon DEF Starts, AskedOf
<1> QED
  BY <1>4, <1>7, <1>8

\* An export writes a file, and nothing else changes.
FileOf(folder) == folder.kind = "file"

LEMMA ExportStarts ==
  ASSUME NEW c \in Commands, NEW e, Export(c, e)
  PROVE  /\ Starts(tql', c) /\ tql'.at = "ended"
         /\ UNCHANGED folders \/ \E folder : FileOf(folder) /\ Put(c.path, folder)
<1> DEFINE k == ExportFrom(c)
           began == [Began(c) EXCEPT !.from = k, !.path = c.path]
           file(driver, text, rows, tables) == [kind |-> "file", driver |-> driver, text |-> text, rows |-> rows, tables |-> tables]
<1>1. \A driver, text, rows, tables : FileOf(file(driver, text, rows, tables))
  BY DEF FileOf
<1>2. AskedOf(began, c)
  <2> HIDE DEF k
  <2> QED
    BY BeganIs DEF IsCommand, AskedOf
<1>3. \/ tql' = Says(began, "refused") /\ UNCHANGED folders
      \/ tql' = Says(began, "exported") /\ \E driver, text, rows, tables : Put(c.path, file(driver, text, rows, tables))
  BY Zenon DEF Export
<1> HIDE DEF began, file
<1>4. PICK said \in {"refused", "would", "exported"} : tql' = Says(began, said)
  BY <1>3
<1>5. Starts(tql', c)
  BY <1>2, <1>4, RefusedIs
<1>6. tql'.at = "ended"
  BY <1>2, <1>4, SaysIs DEF AskedOf, SaidBy
<1> QED
  BY <1>1, <1>3, <1>5, <1>6

LEMMA StartIs ==
  ASSUME DumpsFit, Start
  PROVE  /\ tql.at = "rest" /\ UNCHANGED data /\ steps'.others = steps.others
         /\ \E c \in Commands : Starts(tql', c)
         /\ \/ UNCHANGED folders
            \/ tql'.at = "ended" /\ \E path, folder : FileOf(folder) /\ Put(path, folder)
<1>1. PICK c \in Commands, e \in Chances :
        /\ tql.at = "rest" /\ steps' = [steps EXCEPT !.commands = @ + 1]
        /\ \/ Export(c, e)
           \/ /\ Dump(c, e) \/ Sync(c, e) \/ Restore(c, e) \/ Replay(c, e)
                 \/ (c.does = "load" /\ c.path \notin DOMAIN folders /\ tql' = Says(Began(c), "refused"))
              /\ UNCHANGED folders
        /\ UNCHANGED data
  BY Zenon DEF Start
<1>2. steps'.others = steps.others
  BY <1>1
<1>3. CASE Export(c, e)
  BY <1>1, <1>2, <1>3, ExportStarts
<1>4. CASE tql' = Says(Began(c), "refused") /\ UNCHANGED folders
  <2>1. AskedOf(Began(c), c)
    BY BeganIs DEF AskedOf
  <2> QED
    BY <1>1, <1>2, <1>4, <2>1, RefusedIs
<1> QED
  BY <1>1, <1>2, <1>3, <1>4, DumpStarts, SyncStarts, RestoreStarts, ReplayStarts

-----------------------------------------------------------------------------
(* The steps                                                               *)

\* Of a command that has ended, or is none, little is told.
LEMMA EndedFits ==
  ASSUME IsCommand(tql'), tql'.at \in {"rest", "ended"}, TypesInv', NothingLeft'
  PROVE  DumpsInv'
<1>1. tql'.at \notin Working \cup {"replaying"}
  BY DEF Working
<1>2. CommandInv' /\ PlacesInv'
  BY <1>1 DEF CommandInv, PlacesInv, Working
<1>3. FileInv' /\ FoldersInv'
  BY DEF FileInv, FoldersInv
<1> QED
  BY <1>2, <1>3 DEF DumpsInv

LEMMA StartKeeps ==
  ASSUME DumpsFit, DumpsInv, ToldInv, Start
  PROVE  DumpsInv' /\ ToldInv'
<1>1. /\ UNCHANGED data
      /\ UNCHANGED folders \/ (tql'.at = "ended" /\ \E path, folder : FileOf(folder) /\ Put(path, folder))
  BY StartIs
<1>2. PICK c \in Commands : Starts(tql', c)
  BY StartIs
<1>3. IsCommand(tql') /\ tql'.c = c /\ tql'.before = data /\ tql'.early = FALSE /\ tql'.unanswered = FALSE
  BY <1>2, Zenon DEF Starts
<1>4. TypesInv'
  <2>1. \A folder : FileOf(folder) => FolderFits(folder)
    BY DEF FileOf, FolderFits
  <2>2. ASSUME NEW path, NEW folder, FileOf(folder), Put(path, folder)
        PROVE  \A q \in DOMAIN folders' : folders'[q] = folder \/ (q \in DOMAIN folders /\ folders'[q] = folders[q])
    BY <2>2 DEF Put, With
  <2>3. \A q \in DOMAIN folders' : FolderFits(folders'[q])
    BY <1>1, <2>1, <2>2 DEF DumpsInv, TypesInv
  <2> QED
    BY <1>1, <2>3 DEF DumpsInv, TypesInv
<1>5. DumpsInv'
  <2>1. CASE Over(tql')
    <3>1. tql'.at = "ended" /\ NothingLeft'
      BY <2>1, Zenon DEF Over, NothingLeft
    <3> QED
      BY <1>3, <1>4, <3>1, EndedFits
  <2>2. CASE Ready(tql')
    <3>1. UNCHANGED folders /\ tql'.at \in {"built", "replaying"}
      BY <1>1, <2>2 DEF Ready
    <3>2. CommandInv'
      BY <1>3, <2>2, <3>1 DEF CommandInv, Ready, NothingLeft, Working
    <3>3. PlacesInv'
      BY <1>1, <2>2 DEF PlacesInv, Ready
    <3>4. FileInv'
      BY <1>1, <2>2, <3>1 DEF FileInv, Ready, Target
    <3>5. FoldersInv'
      BY <2>2, <3>1 DEF FoldersInv, Ready, Folder
    <3> QED
      BY <1>4, <3>2, <3>3, <3>4, <3>5 DEF DumpsInv
  <2> QED
    BY <1>2, <2>1, <2>2 DEF Starts
<1>6. ToldInv'
  <2>1. data' = tql'.before
    BY <1>1, <1>3
  <2>2. OthersKept'
    BY <2>1 DEF OthersKept
  <2>3. tql'.at \notin {"dumped", "loading"} /\ (tql'.at = "ended" => SaidIsDone')
    BY <1>2, <2>1 DEF Starts, Ready, Over, SaidIsDone, None
  <2> QED
    BY <2>1, <2>2, <2>3 DEF ToldInv, Told
<1> QED
  BY <1>5, <1>6

\* A command ends and has brought nothing, or says so little of it.
LEMMA FinishKeeps ==
  ASSUME DumpsInv, ToldInv, tql.at \in Working \cup {"replaying"},
         IsCommand(tql'), AsAsked(tql, tql'), tql'.at = "ended", NothingLeft', TypesInv',
         UNCHANGED data, steps'.others = steps.others,
         \/ tql'.said \in {"failed", "interrupted", "some"}
         \/ tql'.said \in {"refused", "would", "dumped", "incomplete", "not touched"} /\ tql.at \in {"built", "dumped", "dump failed"}
         \/ tql'.said = "nothing" /\ tql.at = "replaying" /\ Atomic(tql.to)
  PROVE  DumpsInv' /\ ToldInv'
<1>1. DumpsInv'
  BY EndedFits
<1>2. ASSUME steps.others = 0 PROVE Told'
  <2>1. Told
    BY <1>2 DEF ToldInv, Working
  <2>2. OthersKept'
    BY <2>1 DEF Told, OthersKept, Target, AsAsked
  <2>3. tql.at \in {"built", "dumping", "dumped", "dump failed"} => data' = tql'.before
    BY <2>1 DEF Told, AsAsked
  <2>4. tql.at = "replaying" /\ Atomic(tql.to) => data' = tql'.before
    BY <2>1 DEF Told, AsAsked
  <2>5. tql.at \in {"loading", "load failed", "replaying"} => tql'.to # NoConnection /\ ~tql'.to.readOnly
    BY DEF DumpsInv, CommandInv, PlacesInv, AsAsked, Working
  <2>6. SaidIsDone'
    <3>1. data' = tql'.before \/ (tql'.said \in {"failed", "interrupted", "some"} /\ tql'.to # NoConnection /\ ~tql'.to.readOnly)
      BY <2>3, <2>4, <2>5 DEF Working
    <3> QED
      BY <3>1 DEF SaidIsDone
  <2> QED
    BY <2>2, <2>6 DEF Told
<1> QED
  BY <1>1, <1>2 DEF ToldInv

LEMMA SaysKeeps ==
  ASSUME DumpsInv, ToldInv, tql.at \in Working \cup {"replaying"}, TypesInv', UNCHANGED data, steps'.others = steps.others,
         NEW what, tql' = Says(tql, what),
         \/ what \in {"failed", "interrupted", "some"}
         \/ what \in {"refused", "would", "dumped", "incomplete", "not touched"} /\ tql.at \in {"built", "dumped", "dump failed"}
         \/ what = "nothing" /\ tql.at = "replaying" /\ Atomic(tql.to)
  PROVE  DumpsInv' /\ ToldInv'
<1>1. SaidBy(tql, tql', what)
  BY SaysIs DEF DumpsInv, CommandInv
<1>2. IsCommand(tql') /\ AsAsked(tql, tql') /\ tql'.at = "ended" /\ tql'.said = what
  BY <1>1, Zenon DEF SaidBy, Stays
<1>3. NothingLeft'
  BY <1>1, Zenon DEF SaidBy, NothingLeft
<1> QED
  BY <1>2, <1>3, FinishKeeps

\* What a command has of its databases and tables goes on as it is.
LEMMA GoesOn ==
  ASSUME IsCommand(tql), NEW at, NEW handler, NEW left,
         tql' = [tql EXCEPT !.at = at, !.handler = handler, !.left = left]
  PROVE  IsCommand(tql') /\ Stays(tql, tql') /\ tql'.at = at /\ tql'.left = left /\ tql'.said = tql.said
  BY DEF IsCommand, Stays, AsAsked

LEMMA GoKeeps ==
  ASSUME DumpsInv, ToldInv, NEW e, Go(e), UNCHANGED steps
  PROVE  DumpsInv' /\ ToldInv'
<1> DEFINE dumps == tql.c.does \in {"dump", "sync"}
           at == IF dumps THEN "dumping" ELSE "loading"
           left == IF dumps THEN <<>> ELSE SetToSeq(DOMAIN Folder.tables)
           handler == tql.engine # "sqlite"
<1>1. tql.at = "built" /\ UNCHANGED <<data, folders>> /\ TypesInv'
  BY DEF Go, DumpsInv, TypesInv
<1>2. \/ tql' = Says(tql, "refused") \/ tql' = Says(tql, "would")
      \/ tql' = [tql EXCEPT !.at = at, !.handler = handler, !.left = left] /\ ~tql.c.dryRun
  BY Zenon DEF Go, Folder
<1>3. CASE tql' = Says(tql, "refused") \/ tql' = Says(tql, "would")
  BY <1>1, <1>3, SaysKeeps DEF Working
<1>4. CASE tql' = [tql EXCEPT !.at = at, !.handler = handler, !.left = left] /\ ~tql.c.dryRun
  <2>1. IsCommand(tql') /\ Stays(tql, tql') /\ tql'.at = at /\ tql'.left = left /\ tql'.said = tql.said
    <3> HIDE DEF handler, at, left
    <3>1. IsCommand(tql)
      BY DEF DumpsInv, CommandInv
    <3> QED
      BY <1>4, <3>1, GoesOn
  <2>2. /\ tql.c.does \in {"dump", "load", "sync"} /\ tql.c \in Commands /\ tql.said = None
        /\ tql.unanswered = FALSE /\ tql.early = FALSE
    BY <1>1 DEF DumpsInv, CommandInv, Working
  <2>3. tql'.unanswered = FALSE /\ tql'.early = FALSE /\ tql'.c = tql.c
    BY <2>1, <2>2, Zenon DEF Stays, AsAsked
  <2>4. CommandInv'
    BY <1>4, <2>1, <2>2, <2>3 DEF CommandInv, Working, NothingLeft
  <2>5. PlacesInv'
    BY <1>1, <2>1 DEF DumpsInv, PlacesInv, Working, Stays, AsAsked
  <2>6. FileInv'
    BY <1>1, <2>1 DEF DumpsInv, FileInv, Working, Stays, AsAsked, Target
  <2>7. ~dumps => tql.path \in DOMAIN folders /\ Folder.kind # "file" /\ IsFiniteSet(DOMAIN Folder.tables)
    BY <1>1, <2>2 DEF DumpsInv, FoldersInv, TypesInv, FolderFits, Folder
  <2>8. ~dumps => IsListOf(left, DOMAIN Folder.tables) /\ Range(left) = DOMAIN Folder.tables
    BY <2>7, ListIs
  <2>9. Folder' = Folder /\ Target' = Target
    BY <1>1, <2>1 DEF Folder, Target, Stays, AsAsked
  <2>10. FoldersInv'
    <3> HIDE DEF left
    <3> QED
      BY <1>1, <2>1, <2>2, <2>3, <2>7, <2>8, <2>9 DEF FoldersInv, Stays, AsAsked
  <2>11. ASSUME steps.others = 0 PROVE Told'
    <3>1. data = tql.before /\ OthersKept
      BY <1>1, <2>11 DEF ToldInv, Told
    <3>2. data' = tql'.before /\ OthersKept'
      BY <1>1, <2>1, <2>9, <3>1 DEF OthersKept, Stays, AsAsked
    <3>3. \A t : Kept(t)'
      BY <3>2 DEF Kept, HeldIn
    <3>4. RestKept(DOMAIN Folder.tables)'
      BY <3>3 DEF RestKept
    <3> HIDE DEF left
    <3> QED
      BY <2>1, <2>2, <2>3, <2>8, <2>9, <3>2, <3>3, <3>4 DEF Told
  <2> QED
    BY <1>1, <2>4, <2>5, <2>6, <2>10, <2>11 DEF DumpsInv, ToldInv
<1> QED
  BY <1>2, <1>3, <1>4

LEMMA FoldersKeep ==
  ASSUME TypesInv, UNCHANGED data, NEW path, NEW folder, FolderFits(folder), Put(path, folder)
  PROVE  TypesInv' /\ path \in DOMAIN folders' /\ folders'[path] = folder
<1>1. DOMAIN folders' = DOMAIN folders \cup {path} /\ folders'[path] = folder
      /\ \A q \in DOMAIN folders : q # path => folders'[q] = folders[q]
  BY DEF Put, With
<1> QED
  BY <1>1 DEF TypesInv

LEMMA WholeIs ==
  \A tables : IsFiniteSet(DOMAIN tables) =>
    /\ FolderFits(Whole(tables)) /\ Whole(tables).tables = tables /\ Whole(tables).dataOnly = tql.c.dataOnly
    /\ FolderFits([Whole(tables) EXCEPT !.manifest = TRUE])
    /\ [Whole(tables) EXCEPT !.manifest = TRUE].tables = tables
    /\ [Whole(tables) EXCEPT !.manifest = TRUE].kind = "dump"
    /\ [Whole(tables) EXCEPT !.manifest = TRUE].dataOnly = tql.c.dataOnly
  BY DEF Whole, FolderFits

LEMMA PartIs == \A marker : FolderFits(Part(marker))
<1> DEFINE none == [t \in {} |-> <<>>]
<1>1. DOMAIN none = {}
  OBVIOUS
<1> HIDE DEF none
<1>2. \A marker : LET f == [Whole(none) EXCEPT !.marker = marker, !.whole = FALSE] IN f.kind = "dump" /\ f.manifest = FALSE /\ f.tables = none
  BY DEF Whole
<1>3. \A marker : FolderFits([Whole(none) EXCEPT !.marker = marker, !.whole = FALSE])
  BY <1>1, <1>2, FS_EmptySet DEF FolderFits
<1> QED
  BY <1>3, Zenon DEF Part, none

LEMMA CopyKeeps ==
  ASSUME DumpsInv, ToldInv, CopyOut, UNCHANGED steps
  PROVE  DumpsInv' /\ ToldInv'
<1> DEFINE tables == data[Reached(tql.from)]
           copied == [t \in Named(tql.c, tables) |-> tables[t]]
<1>1. tql.at = "dumping" /\ UNCHANGED data /\ tql.c.does \in {"dump", "sync"} /\ IsCommand(tql)
      /\ tql.c \in Commands /\ tql.said = None /\ tql.unanswered = FALSE /\ tql.early = FALSE /\ ~tql.c.dryRun
  BY DEF CopyOut, DumpsInv, CommandInv, Working
<1>2. IsFiniteSet(DOMAIN tables) /\ Reached(tql.from) \in DOMAIN data
  BY <1>1 DEF DumpsInv, PlacesInv, Working, TypesInv
<1>3. IsFiniteSet(Named(tql.c, tables))
  <2>1. Named(tql.c, tables) \in SUBSET DOMAIN tables
    BY DEF Named
  <2> QED
    BY <1>2, <2>1, FS_Subset
<1>4. DOMAIN copied = Named(tql.c, tables)
  OBVIOUS
<1>5. \/ Put(tql.path, Whole(copied)) /\ tql' = [tql EXCEPT !.at = "dumped", !.dumped = tables]
      \/ /\ tql' = [tql EXCEPT !.at = "dump failed"]
         /\ UNCHANGED folders \/ \E marker : Put(tql.path, Part(marker))
  BY DEF CopyOut
<1> HIDE DEF copied, tables
<1>6. FolderFits(Whole(copied))
  BY <1>3, <1>4, WholeIs
<1>7. TypesInv'
  <2>1. CASE UNCHANGED folders
    BY <1>1, <2>1 DEF DumpsInv, TypesInv
  <2> QED
    BY <1>1, <1>5, <1>6, <2>1, PartIs, FoldersKeep DEF DumpsInv
<1>8. /\ IsCommand(tql') /\ AsAsked(tql, tql') /\ tql'.said = None /\ tql'.unanswered = FALSE /\ tql'.early = FALSE
      /\ tql'.at \in {"dumped", "dump failed"}
      /\ tql'.at = "dumped" => tql'.dumped = tables
  <2>1. CASE tql' = [tql EXCEPT !.at = "dumped", !.dumped = tables]
    BY <1>1, <2>1 DEF IsCommand, AsAsked
  <2>2. CASE tql' = [tql EXCEPT !.at = "dump failed"]
    BY <1>1, <2>2 DEF IsCommand, AsAsked
  <2> QED
    BY <1>5, <2>1, <2>2
<1>9. CommandInv' /\ PlacesInv' /\ FileInv'
  <2>1. CommandInv'
    BY <1>1, <1>8 DEF CommandInv, Working, NothingLeft, AsAsked
  <2>2. PlacesInv'
    BY <1>1, <1>8 DEF DumpsInv, PlacesInv, Working, AsAsked
  <2>3. FileInv'
    BY <1>8 DEF FileInv
  <2> QED
    BY <2>1, <2>2, <2>3
<1>10. FoldersInv'
  <2>1. CASE tql'.at = "dump failed"
    BY <2>1 DEF FoldersInv
  <2>2. CASE tql'.at = "dumped"
    <3>1. tql' # [tql EXCEPT !.at = "dump failed"]
      BY <1>1, <2>2 DEF IsCommand
    <3>2. Put(tql.path, Whole(copied))
      BY <1>5, <3>1
    <3>3. Folder' = Whole(copied) /\ tql'.path \in DOMAIN folders'
      <4> DEFINE whole == Whole(copied)
      <4> HIDE DEF whole
      <4>1. FolderFits(whole) /\ Put(tql.path, whole) /\ TypesInv
        BY <1>6, <3>2 DEF whole, DumpsInv
      <4>2. tql.path \in DOMAIN folders' /\ folders'[tql.path] = whole
        BY <1>1, <4>1, FoldersKeep
      <4> QED
        BY <1>8, <4>2 DEF Folder, AsAsked, whole
    <3>4. Folder' = Whole([t \in Named(tql.c, tql.dumped) |-> tql.dumped[t]])'
      BY <1>8, <2>2, <3>3, Zenon DEF copied, AsAsked, Whole
    <3> QED
      BY <2>2, <3>3, <3>4 DEF FoldersInv
  <2> QED
    BY <1>8, <2>1, <2>2
<1>11. ASSUME steps.others = 0 PROVE Told'
  <2>1. data = tql.before /\ OthersKept
    BY <1>1, <1>11 DEF ToldInv, Told
  <2>2. data' = tql'.before /\ OthersKept' /\ Source' = tables
    BY <1>1, <1>8, <2>1 DEF OthersKept, AsAsked, Source, Target, tables
  <2> QED
    BY <1>8, <2>2 DEF Told
<1> QED
  BY <1>7, <1>9, <1>10, <1>11 DEF DumpsInv, ToldInv

LEMMA LoadFailsKeeps ==
  ASSUME DumpsInv, ToldInv, LoadFails, UNCHANGED steps
  PROVE  DumpsInv' /\ ToldInv'
<1>1. /\ tql.at = "loading" /\ UNCHANGED <<data, folders>> /\ tql' = [tql EXCEPT !.at = "load failed"]
      /\ IsCommand(tql) /\ tql.c.does \in {"load", "sync"} /\ TypesInv'
  BY DEF LoadFails, DumpsInv, CommandInv, TypesInv
<1>2. IsCommand(tql') /\ Stays(tql, tql') /\ tql'.at = "load failed" /\ tql'.said = tql.said
  BY <1>1 DEF IsCommand, Stays, AsAsked
<1>3. CommandInv'
  BY <1>1, <1>2 DEF DumpsInv, CommandInv, Working, NothingLeft, Stays, AsAsked
<1>4. PlacesInv' /\ FileInv' /\ FoldersInv'
  BY <1>1, <1>2 DEF DumpsInv, PlacesInv, FileInv, FoldersInv, Working, Stays, AsAsked
<1>5. ToldInv'
  BY <1>1, <1>2 DEF ToldInv, Told, OthersKept, Target, Stays, AsAsked
<1> QED
  BY <1>1, <1>3, <1>4, <1>5 DEF DumpsInv

LEMMA ManifestKeeps ==
  ASSUME DumpsInv, tql.at = "dumped", WriteManifest, UNCHANGED data
  PROVE  /\ TypesInv' /\ tql.path \in DOMAIN folders'
         /\ folders'[tql.path].tables = [t \in Named(tql.c, tql.dumped) |-> tql.dumped[t]]
         /\ folders'[tql.path].dataOnly = tql.c.dataOnly /\ folders'[tql.path].kind = "dump"
<1> DEFINE tables == [t \in Named(tql.c, tql.dumped) |-> tql.dumped[t]]
           whole == Whole(tables)
           new == [whole EXCEPT !.manifest = TRUE]
<1>1. tql.path \in DOMAIN folders /\ folders[tql.path] = whole /\ FolderFits(whole)
  BY DEF DumpsInv, FoldersInv, TypesInv, Folder
<1>2. Put(tql.path, new)
  BY <1>1 DEF WriteManifest
<1> HIDE DEF tables
<1>3. IsFiniteSet(DOMAIN tables)
  <2>1. whole.kind = "dump" /\ whole.tables = tables
    BY DEF Whole
  <2> HIDE DEF whole
  <2> QED
    BY <1>1, <2>1 DEF FolderFits
<1>4. FolderFits(new) /\ new.tables = tables /\ new.dataOnly = tql.c.dataOnly /\ new.kind = "dump"
  BY <1>3, WholeIs
<1> HIDE DEF new
<1>5. TypesInv' /\ tql.path \in DOMAIN folders' /\ folders'[tql.path] = new
  BY <1>2, <1>4, FoldersKeep DEF DumpsInv
<1> QED
  BY <1>4, <1>5 DEF tables

LEMMA DumpEndsKeeps ==
  ASSUME DumpsInv, ToldInv, DumpEnds, UNCHANGED steps
  PROVE  DumpsInv' /\ ToldInv'
<1>1. /\ UNCHANGED data /\ tql.at \in {"dumped", "dump failed"}
      /\ (tql.at = "dumped" /\ WriteManifest) \/ UNCHANGED folders
  BY DEF DumpEnds
<1>2. TypesInv'
  BY <1>1, ManifestKeeps DEF DumpsInv, TypesInv
<1>3. PICK what \in {"dumped", "failed", "incomplete"} : tql' = Says(tql, what)
  BY DEF DumpEnds
<1> QED
  BY <1>1, <1>2, <1>3, SaysKeeps DEF Working

LEMMA GoneKeeps == ASSUME TypesInv, UNCHANGED data, NEW path, Gone(path) PROVE TypesInv'
  BY DEF TypesInv, Gone

LEMMA SyncDumpedKeeps ==
  ASSUME DumpsFit, DumpsInv, ToldInv, SyncDumped, UNCHANGED steps
  PROVE  DumpsInv' /\ ToldInv'
<1> DEFINE tables == [t \in Named(tql.c, tql.dumped) |-> tql.dumped[t]]
           left == SetToSeq(DOMAIN folders[tql.path].tables)
<1>1. UNCHANGED data /\ tql.c.does = "sync" /\ tql.at \in {"dumped", "dump failed"} /\ IsCommand(tql)
      /\ tql.c \in Commands /\ tql.said = None /\ tql.unanswered = FALSE /\ tql.early = FALSE /\ ~tql.c.dryRun
  BY DEF SyncDumped, DumpsInv, CommandInv, Working
<1>2. \/ tql.at = "dumped" /\ WriteManifest /\ tql' = [tql EXCEPT !.at = "loading", !.left = left]
      \/ /\ tql' = Says(tql, "failed") \/ (tql' = Says(tql, "not touched") /\ tql.at = "dump failed")
         /\ UNCHANGED folders \/ Gone(tql.path)
  BY DEF SyncDumped
<1>3. CASE /\ tql' = Says(tql, "failed") \/ (tql' = Says(tql, "not touched") /\ tql.at = "dump failed")
           /\ UNCHANGED folders \/ Gone(tql.path)
  <2>1. TypesInv'
    BY <1>1, <1>3, GoneKeeps DEF DumpsInv, TypesInv
  <2> QED
    BY <1>1, <1>3, <2>1, SaysKeeps DEF Working
<1>4. CASE tql.at = "dumped" /\ WriteManifest /\ tql' = [tql EXCEPT !.at = "loading", !.left = left]
  <2>1. /\ TypesInv' /\ tql.path \in DOMAIN folders' /\ folders'[tql.path].tables = tables
        /\ folders'[tql.path].dataOnly = tql.c.dataOnly /\ ~tql.c.dataOnly /\ folders'[tql.path].kind = "dump"
    BY <1>1, <1>4, ManifestKeeps DEF DumpsFit
  <2>2. DOMAIN tables = DOMAIN folders[tql.path].tables /\ IsFiniteSet(DOMAIN folders[tql.path].tables)
    <3>1. folders[tql.path] = Whole(tables) /\ FolderFits(folders[tql.path])
      BY <1>4 DEF DumpsInv, FoldersInv, TypesInv, Folder
    <3> HIDE DEF tables
    <3>2. Whole(tables).kind = "dump" /\ Whole(tables).tables = tables
      BY DEF Whole
    <3> QED
      BY <3>1, <3>2 DEF FolderFits
  <2>3. IsListOf(left, DOMAIN tables) /\ Range(left) = DOMAIN tables
    BY <2>2, ListIs
  <2> HIDE DEF left, tables
  <2>4. IsCommand(tql') /\ Stays(tql, tql') /\ tql'.at = "loading" /\ tql'.left = left /\ tql'.said = None
    BY <1>1, <1>4 DEF IsCommand, Stays, AsAsked
  <2>5. tql'.unanswered = FALSE /\ tql'.early = FALSE /\ tql'.c = tql.c
    BY <1>1, <2>4, Zenon DEF Stays, AsAsked
  <2>6. CommandInv'
    BY <1>1, <2>4, <2>5 DEF CommandInv, Working, NothingLeft
  <2>7. PlacesInv' /\ FileInv'
    BY <1>1, <2>4 DEF DumpsInv, PlacesInv, FileInv, Working, Stays, AsAsked
  <2>8. Folder'.tables = tables /\ ~Folder'.dataOnly /\ Folder'.kind = "dump" /\ tql'.path \in DOMAIN folders' /\ tql'.dumped = tql.dumped
    BY <2>1, <2>4 DEF Folder, Stays, AsAsked
  <2>9. FoldersInv'
    BY <1>1, <2>3, <2>4, <2>5, <2>8 DEF FoldersInv, tables
  <2>10. ASSUME steps.others = 0 PROVE Told'
    <3>1. data = tql.before /\ OthersKept /\ tql.dumped = Source
      BY <1>1, <1>4, <2>10 DEF ToldInv, Told
    <3>2. data' = tql'.before /\ OthersKept' /\ tql'.dumped = Source'
      BY <1>1, <2>4, <3>1 DEF OthersKept, Stays, AsAsked, Source, Target
    <3>3. \A t : Kept(t)'
      BY <3>2 DEF Kept, HeldIn
    <3>4. RestKept(DOMAIN Folder.tables)'
      BY <3>3 DEF RestKept
    <3> QED
      BY <2>3, <2>4, <2>8, <3>2, <3>3, <3>4 DEF Told
  <2> QED
    BY <1>1, <2>1, <2>6, <2>7, <2>9, <2>10 DEF DumpsInv, ToldInv
<1> QED
  BY <1>2, <1>3, <1>4

\* The target of a command under way
LEMMA WritesTo ==
  ASSUME DumpsInv, tql.at \in {"loading", "load failed", "replaying"}
  PROVE  /\ Target = Reached(tql.to) /\ ~tql.to.readOnly /\ ~tql.c.dryRun /\ tql.c.does \in {"load", "sync"}
         /\ tql.c \in Commands /\ tql.said = None /\ tql.unanswered = FALSE /\ tql.early = FALSE /\ IsCommand(tql)
         /\ tql.at = "replaying" => tql.c.does = "load" /\ ~tql.c.drop
  BY DEF DumpsInv, CommandInv, PlacesInv, Working, Target

\* A table that is put in the target, and the others
LEMMA PlaceIs ==
  ASSUME TypesInv, UNCHANGED folders, Target = Reached(tql.to), NEW t, NEW rows, Place(tql.to, t, rows)
  PROVE  /\ TypesInv' /\ DOMAIN data' = DOMAIN data \cup {Target}
         /\ \A place \in DOMAIN data : place # Target => data'[place] = data[place]
         /\ HeldIn(data', t) /\ data'[Target][t] = rows
         /\ \A u : u # t => /\ HeldIn(data', u) <=> HeldIn(data, u)
                            /\ HeldIn(data, u) => data'[Target][u] = data[Target][u]
<1> DEFINE tables == IF Target \in DOMAIN data THEN data[Target] ELSE [u \in {} |-> <<>>]
           new == With(tables, t, rows)
<1>1. data' = With(data, Target, new)
  BY DEF Place
<1>2. IsFiniteSet(DOMAIN tables) /\ \A u : u \in DOMAIN tables <=> HeldIn(data, u)
  BY FS_EmptySet DEF TypesInv, HeldIn
<1>3. Target \in DOMAIN data => tables = data[Target]
  OBVIOUS
<1> HIDE DEF tables
<1>4. /\ DOMAIN new = DOMAIN tables \cup {t} /\ new[t] = rows /\ IsFiniteSet(DOMAIN new)
      /\ \A u \in DOMAIN tables : u # t => new[u] = tables[u]
  <2>1. IsFiniteSet(DOMAIN tables \cup {t})
    BY <1>2, FS_AddElement
  <2> QED
    BY <2>1 DEF With
<1> HIDE DEF new
<1>5. /\ DOMAIN data' = DOMAIN data \cup {Target} /\ data'[Target] = new
      /\ \A place \in DOMAIN data : place # Target => data'[place] = data[place]
  BY <1>1 DEF With
<1>6. TypesInv'
  BY <1>4, <1>5 DEF TypesInv
<1> QED
  BY <1>2, <1>3, <1>4, <1>5, <1>6 DEF HeldIn

\* What a table that is loaded has then
RowsLoaded(t) == IF Folder.dataOnly THEN data[Target][t] \o Folder.tables[t] ELSE Folder.tables[t]

LEMMA LoadTableIs ==
  ASSUME DumpsInv, LoadTable
  PROVE  /\ Target = Reached(tql.to) /\ Place(tql.to, Head(tql.left), RowsLoaded(Head(tql.left)))
         /\ IF Folder.dataOnly THEN HeldIn(data, Head(tql.left)) ELSE (Drops \/ ~HeldIn(data, Head(tql.left)))
         /\ tql.at = "loading" /\ tql.left # <<>> /\ tql.engine # "sqlite" /\ UNCHANGED folders
         /\ tql' = [tql EXCEPT !.left = Tail(@)]
<1>1. Target = Reached(tql.to)
  BY WritesTo DEF LoadTable
<1> QED
  BY <1>1 DEF LoadTable, RowsLoaded, Folder, HeldIn, Holds

LEMMA LoadTableKeeps ==
  ASSUME DumpsInv, ToldInv, LoadTable, UNCHANGED steps
  PROVE  DumpsInv' /\ ToldInv'
<1>0. PICK t : t = Head(tql.left)
  OBVIOUS
<1>1. /\ Target = Reached(tql.to) /\ Place(tql.to, t, RowsLoaded(t))
      /\ tql.at = "loading" /\ tql.left # <<>> /\ tql.engine # "sqlite" /\ UNCHANGED folders
      /\ tql' = [tql EXCEPT !.left = Tail(@)]
      /\ Folder.dataOnly => HeldIn(data, t)
  BY <1>0, LoadTableIs
<1>2. /\ IsListOf(tql.left, DOMAIN Folder.tables) /\ IsListOf(Tail(tql.left), DOMAIN Folder.tables)
      /\ t \in DOMAIN Folder.tables /\ Range(Tail(tql.left)) = Range(tql.left) \ {t} /\ t \in Range(tql.left)
  <2>1. IsListOf(tql.left, DOMAIN Folder.tables)
    BY <1>1 DEF DumpsInv, FoldersInv
  <2>2. t = tql.left[1] /\ 1 \in DOMAIN tql.left
    BY <1>0, <1>1, <2>1, EmptySeq, LenProperties, HeadTailProperties DEF IsListOf
  <2>3. t \in Range(tql.left)
    BY <2>2 DEF Range
  <2> QED
    BY <1>0, <1>1, <2>1, <2>3, TailIs
<1>3. /\ TypesInv' /\ DOMAIN data' = DOMAIN data \cup {Target}
      /\ \A place \in DOMAIN data : place # Target => data'[place] = data[place]
      /\ HeldIn(data', t) /\ data'[Target][t] = RowsLoaded(t)
      /\ \A u : u # t => /\ HeldIn(data', u) <=> HeldIn(data, u)
                         /\ HeldIn(data, u) => data'[Target][u] = data[Target][u]
  BY <1>1, PlaceIs DEF DumpsInv
<1>4. /\ ~tql.c.dryRun /\ tql.c.does \in {"load", "sync"} /\ tql.c \in Commands /\ tql.said = None
      /\ tql.unanswered = FALSE /\ tql.early = FALSE /\ IsCommand(tql)
  BY <1>1, WritesTo
<1>5. IsCommand(tql') /\ Stays(tql, tql') /\ tql'.at = "loading" /\ tql'.left = Tail(tql.left) /\ tql'.said = None
  BY <1>1, <1>4 DEF IsCommand, Stays, AsAsked
<1>6. tql'.unanswered = FALSE /\ tql'.early = FALSE /\ tql'.c = tql.c
  BY <1>4, <1>5, Zenon DEF Stays, AsAsked
<1>7. CommandInv'
  BY <1>4, <1>5, <1>6 DEF CommandInv, Working, NothingLeft
<1>8. PlacesInv' /\ FileInv'
  BY <1>1, <1>3, <1>5 DEF DumpsInv, PlacesInv, FileInv, Working, Stays, AsAsked
<1>9. Folder' = Folder /\ Target' = Target
  BY <1>1, <1>5 DEF Folder, Target, Stays, AsAsked
<1>10. FoldersInv'
  BY <1>1, <1>2, <1>5, <1>9 DEF DumpsInv, FoldersInv, Stays, AsAsked
<1>11. ASSUME steps.others = 0 PROVE Told'
  <2>1. Told
    BY <1>1, <1>11 DEF ToldInv
  <2>2. OthersKept'
    BY <1>3, <1>5, <1>9, <2>1 DEF Told, OthersKept, Stays, AsAsked
  <2>3. ASSUME NEW u, u # t PROVE (Kept(u) => Kept(u)') /\ (Loaded(u) => Loaded(u)')
    BY <1>3, <1>5, <1>9, <2>3 DEF Kept, Loaded, Brought, HeldIn, Stays, AsAsked
  <2>4. Loaded(t)'
    <3>1. Kept(t)
      BY <1>1, <1>2, <2>1 DEF Told
    <3>2. CASE Folder.dataOnly
      <4>1. data[Target][t] = tql.before[Target][t]
        BY <1>1, <3>1, <3>2 DEF Kept
      <4>2. data'[Target][t] = tql'.before[Target'][t] \o Folder'.tables[t]
        BY <1>3, <1>5, <1>9, <3>2, <4>1 DEF RowsLoaded, Stays, AsAsked
      <4> QED
        BY <1>1, <1>3, <1>5, <1>9, <3>2, <4>2 DEF Loaded, Brought, HeldIn, Stays, AsAsked
    <3>3. CASE ~Folder.dataOnly
      BY <1>3, <1>5, <1>9, <3>3 DEF Loaded, Brought, HeldIn, RowsLoaded, Stays, AsAsked
    <3> QED
      BY <3>2, <3>3
  <2>5. RestKept(DOMAIN Folder.tables)'
    BY <1>1, <1>2, <1>5, <1>9, <2>1, <2>3 DEF Told, RestKept, Stays, AsAsked
  <2>6. \A u \in DOMAIN Folder.tables : IF u \in Range(tql'.left) THEN Kept(u)' ELSE Loaded(u)'
    BY <1>1, <1>2, <1>5, <2>1, <2>3, <2>4 DEF Told
  <2>7. tql'.c.does = "sync" => tql'.dumped = Source'
    BY <1>1, <1>5, <2>1 DEF Told, Source, Stays, AsAsked
  <2> QED
    BY <1>5, <1>9, <2>2, <2>5, <2>6, <2>7 DEF Told
<1> QED
  BY <1>1, <1>3, <1>7, <1>8, <1>10, <1>11 DEF DumpsInv, ToldInv

LEMMA LoadFileIs ==
  ASSUME DumpsInv, LoadFile
  PROVE  /\ Target = Reached(tql.to) /\ data' = With(data, Target, Folder.tables) /\ tql.at = "loading" /\ tql.left # <<>>
         /\ tql.engine = "sqlite" /\ UNCHANGED folders /\ tql' = [tql EXCEPT !.left = <<>>]
         /\ DOMAIN data' = DOMAIN data \cup {Target} /\ data'[Target] = Folder.tables
         /\ \A place \in DOMAIN data : place # Target => data'[place] = data[place]
<1>1. Target = Reached(tql.to)
  BY WritesTo DEF LoadFile
<1> QED
  BY <1>1 DEF LoadFile, Folder, With

LEMMA LoadFileKeeps ==
  ASSUME DumpsInv, ToldInv, LoadFile, UNCHANGED steps
  PROVE  DumpsInv' /\ ToldInv'
<1>1. /\ tql.at = "loading" /\ tql.left # <<>>
      /\ tql.engine = "sqlite" /\ UNCHANGED folders /\ tql' = [tql EXCEPT !.left = <<>>]
      /\ DOMAIN data' = DOMAIN data \cup {Target} /\ data'[Target] = Folder.tables
      /\ \A place \in DOMAIN data : place # Target => data'[place] = data[place]
  BY LoadFileIs
<1>2. /\ ~tql.c.dryRun /\ tql.c.does \in {"load", "sync"} /\ tql.c \in Commands /\ tql.said = None
      /\ tql.unanswered = FALSE /\ tql.early = FALSE /\ IsCommand(tql)
  BY <1>1, WritesTo
<1>3. TypesInv'
  <2>1. FolderFits(Folder) /\ Folder.kind # "file"
    BY <1>1, <1>2 DEF DumpsInv, TypesInv, FoldersInv, Folder
  <2> QED
    BY <1>1, <2>1 DEF DumpsInv, TypesInv, FolderFits
<1>4. IsCommand(tql') /\ Stays(tql, tql') /\ tql'.at = "loading" /\ tql'.left = <<>> /\ tql'.said = None
  BY <1>1, <1>2 DEF IsCommand, Stays, AsAsked
<1>5. tql'.unanswered = FALSE /\ tql'.early = FALSE /\ tql'.c = tql.c
  BY <1>2, <1>4, Zenon DEF Stays, AsAsked
<1>6. CommandInv'
  BY <1>2, <1>4, <1>5 DEF CommandInv, Working, NothingLeft
<1>7. PlacesInv' /\ FileInv'
  BY <1>1, <1>4 DEF DumpsInv, PlacesInv, FileInv, Working, Stays, AsAsked
<1>8. Folder' = Folder /\ Target' = Target
  BY <1>1, <1>4 DEF Folder, Target, Stays, AsAsked
<1>9. IsListOf(tql'.left, DOMAIN Folder.tables) /\ Range(tql'.left) = {}
  BY <1>4, NoneLeft DEF IsListOf
<1>10. FoldersInv'
  BY <1>1, <1>4, <1>8, <1>9 DEF DumpsInv, FoldersInv, Stays, AsAsked
<1>11. ASSUME steps.others = 0 PROVE Told'
  <2>1. Told
    BY <1>1, <1>11 DEF ToldInv
  <2>2. OthersKept'
    BY <1>1, <1>4, <1>8, <2>1 DEF Told, OthersKept, Stays, AsAsked
  <2>3. \A t \in DOMAIN Folder.tables : Loaded(t)'
    <3>1. tql'.engine = "sqlite"
      BY <1>1, <1>4 DEF Stays, AsAsked
    <3> QED
      BY <1>1, <1>8, <3>1 DEF Loaded, Brought, HeldIn
  <2>4. RestKept(DOMAIN Folder.tables)'
    BY <1>1, <1>4 DEF RestKept, Stays, AsAsked
  <2>5. tql'.c.does = "sync" => tql'.dumped = Source'
    BY <1>1, <1>4, <2>1 DEF Told, Source, Stays, AsAsked
  <2> QED
    BY <1>4, <1>8, <1>9, <2>2, <2>3, <2>4, <2>5 DEF Told
<1> QED
  BY <1>3, <1>6, <1>7, <1>10, <1>11 DEF DumpsInv, ToldInv

\* A load or a sync that has loaded all says so.
LEMMA LoadedSays ==
  ASSUME DumpsInv, ToldInv, tql.at = "loading", tql.left = <<>>, UNCHANGED <<data, steps>>, TypesInv',
         \/ tql' = Says(tql, "loaded") /\ tql.c.does = "load" /\ UNCHANGED folders
         \/ tql' = Says(tql, "synced") /\ tql.c.does = "sync"
  PROVE  DumpsInv' /\ ToldInv'
<1>1. PICK what \in {"loaded", "synced"} : tql' = Says(tql, what)
  OBVIOUS
<1>2. SaidBy(tql, tql', what)
  BY <1>1, SaysIs DEF DumpsInv, CommandInv
<1>3. IsCommand(tql') /\ AsAsked(tql, tql') /\ tql'.at = "ended" /\ tql'.said = what
  BY <1>2, Zenon DEF SaidBy, Stays
<1>4. DumpsInv'
  <2>1. NothingLeft'
    BY <1>2, Zenon DEF SaidBy, NothingLeft
  <2> QED
    BY <1>3, <2>1, EndedFits
<1>5. Target' = Target /\ ~tql.to.readOnly
  BY <1>3, WritesTo DEF Target, AsAsked
<1>6. ASSUME steps.others = 0 PROVE Told'
  <2>1. Told
    BY <1>6 DEF ToldInv
  <2>2. OthersKept'
    BY <1>3, <1>5, <2>1 DEF Told, OthersKept, AsAsked
  <2>3. (\A t \in DOMAIN Folder.tables : Loaded(t)) /\ RestKept(DOMAIN Folder.tables)
    BY <2>1, NoneLeft DEF Told
  <2>4. \A names : RestKept(names) => RestKept(names)'
    BY <1>3, <1>5 DEF RestKept, Kept, HeldIn, AsAsked
  <2>5. \A t, rows : Brought(t, rows) => Brought(t, rows)'
    BY <1>5 DEF Brought, HeldIn
  <2>6. CASE tql' = Says(tql, "loaded") /\ tql.c.does = "load" /\ UNCHANGED folders
    <3>1. tql'.said = "loaded" /\ Folder' = Folder
      <4>1. SaidBy(tql, tql', "loaded")
        BY <2>6, SaysIs DEF DumpsInv, CommandInv
      <4> QED
        BY <1>3, <2>6, <4>1 DEF SaidBy, Folder, AsAsked
    <3>2. \A t \in DOMAIN Folder.tables : Loaded(t)'
      BY <1>3, <1>5, <2>3, <3>1 DEF Loaded, Brought, HeldIn, AsAsked
    <3>3. SaidIsDone'
      BY <1>3, <1>5, <2>3, <2>4, <3>1, <3>2 DEF SaidIsDone, AsAsked
    <3> QED
      BY <1>3, <2>2, <3>3 DEF Told
  <2>7. CASE tql' = Says(tql, "synced") /\ tql.c.does = "sync"
    <3>1. tql'.said = "synced"
      <4>1. SaidBy(tql, tql', "synced")
        BY <2>7, SaysIs DEF DumpsInv, CommandInv
      <4> QED
        BY <4>1 DEF SaidBy
    <3>2. /\ tql.dumped = Source /\ Folder.tables = [t \in Named(tql.c, Source) |-> Source[t]] /\ ~Folder.dataOnly
      BY <2>1, <2>7 DEF Told, DumpsInv, FoldersInv
    <3>3. DOMAIN Folder.tables = Named(tql.c, Source) /\ \A t \in Named(tql.c, Source) : Folder.tables[t] = Source[t]
      BY <3>2
    <3>4. \A t \in Named(tql.c, Source) : Brought(t, Source[t])
      BY <2>3, <3>2, <3>3 DEF Loaded
    <3>5. Source' = Source /\ Named(tql'.c, Source') = Named(tql.c, Source)
      BY <1>3 DEF Source, AsAsked
    <3>6. SaidIsDone'
      BY <1>3, <1>5, <2>3, <2>4, <2>5, <3>1, <3>3, <3>4, <3>5 DEF SaidIsDone, AsAsked
    <3> QED
      BY <1>3, <2>2, <3>6 DEF Told
  <2> QED
    BY <2>6, <2>7
<1> QED
  BY <1>4, <1>6 DEF ToldInv

LEMMA SyncLoadedKeeps ==
  ASSUME DumpsInv, ToldInv, SyncLoaded, UNCHANGED steps
  PROVE  DumpsInv' /\ ToldInv'
<1>1. UNCHANGED data /\ tql.c.does = "sync" /\ (UNCHANGED folders \/ Gone(tql.path))
  BY DEF SyncLoaded
<1>2. TypesInv'
  BY <1>1, GoneKeeps DEF DumpsInv, TypesInv, SyncLoaded
<1>3. \/ tql.at = "loading" /\ tql.left = <<>> /\ tql' = Says(tql, "synced")
      \/ tql.at = "load failed" /\ tql' = Says(tql, "failed")
  BY DEF SyncLoaded
<1> QED
  BY <1>1, <1>2, <1>3, LoadedSays, SaysKeeps DEF Working, SyncLoaded

LEMMA LoadEndsKeeps ==
  ASSUME DumpsInv, ToldInv, LoadEnds, UNCHANGED steps
  PROVE  DumpsInv' /\ ToldInv'
<1>1. TypesInv'
  BY DEF LoadEnds, DumpsInv, TypesInv
<1> QED
  BY <1>1, LoadedSays, SaysKeeps DEF LoadEnds, Working

\* What a statement adds stays in the tables that are there.
LEMMA InsertIs ==
  \A tables, read : /\ DOMAIN Insert(tables, read) = DOMAIN tables
                    /\ \A t \in DOMAIN tables : t # read.into => Insert(tables, read)[t] = tables[t]
                    /\ read.into \in DOMAIN tables => Insert(tables, read)[read.into] = tables[read.into] \o read.rows
  BY DEF Insert

\* While a file is replayed, or as it ends, only the rows of the target change.
LEMMA RowsChange ==
  ASSUME TypesInv, UNCHANGED folders, NEW tables, DOMAIN tables = DOMAIN data[Target],
         data' = data \/ data' = [data EXCEPT ![Target] = tables]
  PROVE  /\ TypesInv' /\ DOMAIN data' = DOMAIN data
         /\ \A place \in DOMAIN data : place # Target => data'[place] = data[place]
  BY DEF TypesInv

LEMMA RunStatementIs ==
  ASSUME DumpsInv, RunStatement
  PROVE  /\ tql.at = "replaying" /\ Target = Reached(tql.to) /\ UNCHANGED folders
         /\ IsCommand(tql') /\ Stays(tql, tql') /\ tql'.at = "replaying" /\ tql'.said = None
         /\ \E tables : /\ DOMAIN tables = DOMAIN data[Target]
                        /\ data' = data \/ data' = [data EXCEPT ![Target] = tables]
         /\ Atomic(tql.to) => data' = data
<1> DEFINE read == ServerReads(tql.to.driver, Head(tql.left))
           put(left, ran, open) == [tql EXCEPT !.left = left, !.ran = ran, !.open = open]
           into == Insert(data[Target], read)
<1>1. tql.at = "replaying" /\ UNCHANGED folders
  BY DEF RunStatement
<1>2. Target = Reached(tql.to) /\ IsCommand(tql) /\ tql.said = None
  BY <1>1, WritesTo
<1>3. \A left, ran, open : /\ IsCommand(put(left, ran, open)) /\ Stays(tql, put(left, ran, open))
                           /\ put(left, ran, open).at = "replaying" /\ put(left, ran, open).said = None
  <2> TAKE left, ran, open
  <2> QED
    BY <1>1, <1>2 DEF IsCommand, Stays, AsAsked
<1>4. \E left, ran, open : tql' = put(left, ran, open)
  BY Zenon DEF RunStatement
<1>5. \/ Atomic(tql.to) /\ data' = data
      \/ ~Atomic(tql.to) /\ data' = [data EXCEPT ![Reached(tql.to)] = Insert(@, read)]
  BY DEF RunStatement
<1>6. DOMAIN into = DOMAIN data[Target]
  BY InsertIs
<1>7. data' = data \/ data' = [data EXCEPT ![Target] = into]
  <2> HIDE DEF read
  <2> QED
    BY <1>2, <1>5
<1> HIDE DEF put, into, read
<1>8. /\ IsCommand(tql') /\ Stays(tql, tql') /\ tql'.at = "replaying" /\ tql'.said = None
  BY <1>3, <1>4, Zenon
<1> QED
  BY <1>1, <1>2, <1>5, <1>6, <1>7, <1>8

LEMMA RunStatementKeeps ==
  ASSUME DumpsInv, ToldInv, RunStatement, UNCHANGED steps
  PROVE  DumpsInv' /\ ToldInv'
<1>1. /\ tql.at = "replaying" /\ Target = Reached(tql.to) /\ UNCHANGED folders
      /\ IsCommand(tql') /\ Stays(tql, tql') /\ tql'.at = "replaying" /\ tql'.said = None
      /\ Atomic(tql.to) => data' = data
  BY RunStatementIs
<1>2. /\ TypesInv' /\ DOMAIN data' = DOMAIN data
      /\ \A place \in DOMAIN data : place # Target => data'[place] = data[place]
  BY RunStatementIs, RowsChange DEF DumpsInv
<1>3. /\ ~tql.c.dryRun /\ tql.c.does = "load" /\ ~tql.c.drop /\ tql.c \in Commands
      /\ tql.unanswered = FALSE /\ tql.early = FALSE
  BY <1>1, WritesTo
<1>4. tql'.unanswered = FALSE /\ tql'.early = FALSE /\ tql'.c = tql.c
  BY <1>1, <1>3, Zenon DEF Stays, AsAsked
<1>5. CommandInv'
  BY <1>1, <1>3, <1>4 DEF CommandInv, Working, NothingLeft
<1>6. PlacesInv' /\ FileInv'
  BY <1>1, <1>2, <1>3, <1>4 DEF DumpsInv, PlacesInv, FileInv, Working, Stays, AsAsked
<1>7. FoldersInv'
  BY <1>1 DEF DumpsInv, FoldersInv, Folder, Stays, AsAsked
<1>8. ASSUME steps.others = 0 PROVE Told'
  <2>1. Told
    BY <1>1, <1>8 DEF ToldInv
  <2>2. OthersKept'
    BY <1>1, <1>2, <2>1 DEF Told, OthersKept, Target, Stays, AsAsked
  <2> QED
    BY <1>1, <2>1, <2>2 DEF Told, Stays, AsAsked
<1> QED
  BY <1>2, <1>5, <1>6, <1>7, <1>8 DEF DumpsInv, ToldInv

LEMMA FinishReplayIs ==
  ASSUME DumpsInv, FinishReplay
  PROVE  /\ tql.at = "replaying" /\ Target = Reached(tql.to) /\ UNCHANGED folders
         /\ IsCommand(tql') /\ AsAsked(tql, tql') /\ tql'.at = "ended" /\ tql'.secrets = 0 /\ tql'.tunnel = FALSE
         /\ tql'.said = "loaded" \/ (tql'.said = "nothing" /\ tql'.unanswered = TRUE)
         /\ \E tables : /\ DOMAIN tables = DOMAIN data[Target]
                        /\ data' = data \/ data' = [data EXCEPT ![Target] = tables]
<1>1. tql.at = "replaying" /\ UNCHANGED folders
  BY DEF FinishReplay
<1>2. Target = Reached(tql.to) /\ IsCommand(tql)
  BY <1>1, WritesTo
<1> DEFINE tables == [t \in DOMAIN data[Target] |->
                       data[Target][t] \o SubSeq(tql.open[t], Len(tql.before[Target][t]) + 1, Len(tql.open[t]))]
<1>3. data' = data \/ data' = [data EXCEPT ![Target] = tables]
  BY <1>2 DEF FinishReplay, Committed
<1>4. DOMAIN tables = DOMAIN data[Target]
  OBVIOUS
<1> HIDE DEF tables
<1>5. tql' = Says(tql, "loaded") \/ tql' = [Says(tql, "nothing") EXCEPT !.unanswered = TRUE]
  BY DEF FinishReplay
<1>6. CASE tql' = Says(tql, "loaded")
  <2>1. SaidBy(tql, tql', "loaded")
    BY <1>2, <1>6, SaysIs
  <2>2. /\ IsCommand(tql') /\ AsAsked(tql, tql') /\ tql'.at = "ended" /\ tql'.secrets = 0 /\ tql'.tunnel = FALSE
        /\ tql'.said = "loaded"
    BY <2>1, Zenon DEF SaidBy, Stays
  <2> QED
    BY <1>1, <1>2, <1>3, <1>4, <2>2
<1>7. CASE tql' = [Says(tql, "nothing") EXCEPT !.unanswered = TRUE]
  <2> DEFINE u == Says(tql, "nothing")
  <2>1. SaidBy(tql, u, "nothing")
    BY <1>2, SaysIs
  <2> HIDE DEF u
  <2>2. IsCommand(u) /\ AsAsked(tql, u) /\ u.at = "ended" /\ u.secrets = 0 /\ u.tunnel = FALSE /\ u.said = "nothing"
    BY <2>1, Zenon DEF SaidBy, Stays
  <2>3. tql' = [u EXCEPT !.unanswered = TRUE]
    BY <1>7 DEF u
  <2>4. /\ IsCommand(tql') /\ AsAsked(tql, tql') /\ tql'.at = "ended" /\ tql'.secrets = 0 /\ tql'.tunnel = FALSE
        /\ tql'.said = "nothing" /\ tql'.unanswered = TRUE
    BY <2>2, <2>3 DEF IsCommand, AsAsked
  <2> QED
    BY <1>1, <1>2, <1>3, <1>4, <2>4
<1> QED
  BY <1>5, <1>6, <1>7

LEMMA FinishReplayKeeps ==
  ASSUME DumpsInv, ToldInv, FinishReplay, UNCHANGED steps
  PROVE  DumpsInv' /\ ToldInv'
<1>1. /\ tql.at = "replaying" /\ Target = Reached(tql.to) /\ UNCHANGED folders
      /\ IsCommand(tql') /\ AsAsked(tql, tql') /\ tql'.at = "ended" /\ tql'.secrets = 0 /\ tql'.tunnel = FALSE
      /\ tql'.said = "loaded" \/ (tql'.said = "nothing" /\ tql'.unanswered = TRUE)
  BY FinishReplayIs
<1>2. /\ TypesInv' /\ DOMAIN data' = DOMAIN data
      /\ \A place \in DOMAIN data : place # Target => data'[place] = data[place]
  BY FinishReplayIs, RowsChange DEF DumpsInv
<1>3. DumpsInv'
  <2>1. NothingLeft'
    BY <1>1, Zenon DEF NothingLeft
  <2> QED
    BY <1>1, <1>2, <2>1, EndedFits
<1>4. ASSUME steps.others = 0 PROVE Told'
  <2>1. OthersKept
    BY <1>1, <1>4 DEF ToldInv, Told
  <2>2. OthersKept'
    BY <1>1, <1>2, <2>1 DEF OthersKept, Target, AsAsked
  <2>3. Folder'.kind = "file" /\ ~tql'.to.readOnly
    BY <1>1, WritesTo DEF DumpsInv, FoldersInv, Folder, AsAsked
  <2>4. SaidIsDone'
    BY <1>1, <2>3 DEF SaidIsDone
  <2> QED
    BY <1>1, <2>2, <2>4 DEF Told
<1> QED
  BY <1>3, <1>4 DEF ToldInv

LEMMA ReplayFailsKeeps ==
  ASSUME DumpsInv, ToldInv, ReplayFails, UNCHANGED steps
  PROVE  DumpsInv' /\ ToldInv'
<1>1. TypesInv'
  BY DEF ReplayFails, DumpsInv, TypesInv
<1>2. tql' = Says(tql, "some") \/ (tql' = Says(tql, "nothing") /\ Atomic(tql.to))
  BY DEF ReplayFails
<1> QED
  BY <1>1, <1>2, SaysKeeps DEF ReplayFails

LEMMA InterruptKeeps ==
  ASSUME DumpsInv, ToldInv, Interrupt, UNCHANGED steps
  PROVE  DumpsInv' /\ ToldInv'
<1>1. tql.at \in {"built", "dumping", "loading"} /\ UNCHANGED data /\ IsCommand(tql)
  BY DEF Interrupt, DumpsInv, CommandInv
<1>2. TypesInv'
  <2>1. UNCHANGED folders \/ \E marker : Put(tql.path, Part(marker))
    BY DEF Interrupt
  <2> QED
    BY <1>1, <2>1, PartIs, FoldersKeep DEF DumpsInv, TypesInv
<1>3. \/ tql' = Says(tql, "interrupted")
      \/ tql' = [tql EXCEPT !.at = "ended", !.said = "interrupted", !.early = TRUE]
  BY DEF Interrupt
<1>4. CASE tql' = Says(tql, "interrupted")
  BY <1>1, <1>2, <1>4, SaysKeeps DEF Working
<1>5. CASE tql' = [tql EXCEPT !.at = "ended", !.said = "interrupted", !.early = TRUE]
  <2>1. IsCommand(tql') /\ AsAsked(tql, tql') /\ tql'.at = "ended" /\ tql'.said = "interrupted" /\ tql'.early = TRUE
    BY <1>1, <1>5 DEF IsCommand, AsAsked
  <2>2. NothingLeft'
    BY <2>1 DEF NothingLeft
  <2> QED
    BY <1>1, <1>2, <2>1, <2>2, FinishKeeps DEF Working
<1> QED
  BY <1>3, <1>4, <1>5

LEMMA EndKeeps ==
  ASSUME DumpsInv, ToldInv, End
  PROVE  DumpsInv' /\ ToldInv'
<1>1. IsCommand(tql') /\ tql'.at = "rest" /\ TypesInv'
  BY RestIs DEF End, DumpsInv, TypesInv
<1>2. NothingLeft'
  BY <1>1 DEF NothingLeft
<1> QED
  BY <1>1, <1>2, EndedFits DEF ToldInv

StepsInv == steps \in [commands : {steps.commands}, others : Nat]

LEMMA OtherWritesKeeps ==
  ASSUME DumpsInv, StepsInv, OtherWrites
  PROVE  DumpsInv' /\ ToldInv'
<1>1. UNCHANGED <<folders, tql>> /\ steps' = [steps EXCEPT !.others = @ + 1]
  BY DEF OtherWrites
<1>2. steps'.others = steps.others + 1 /\ steps.others \in Nat
  BY <1>1 DEF StepsInv
<1>3. PICK place \in DOMAIN data : \E t \in DOMAIN data[place] : data' = [data EXCEPT ![place][t] = Append(@, OtherRow)]
  BY DEF OtherWrites
<1>4. DOMAIN data' = DOMAIN data /\ \A q \in DOMAIN data : DOMAIN data'[q] = DOMAIN data[q]
  BY <1>3
<1>5. TypesInv'
  BY <1>1, <1>4 DEF DumpsInv, TypesInv
<1>6. CommandInv' /\ PlacesInv' /\ FileInv' /\ FoldersInv'
  <2>1. CommandInv'
    BY <1>1 DEF DumpsInv, CommandInv, NothingLeft
  <2>2. PlacesInv' /\ FileInv'
    BY <1>1, <1>4 DEF DumpsInv, PlacesInv, FileInv, Target
  <2>3. FoldersInv'
    BY <1>1 DEF DumpsInv, FoldersInv, Folder, Whole
  <2> QED
    BY <2>1, <2>2, <2>3
<1> QED
  BY <1>2, <1>5, <1>6 DEF DumpsInv, ToldInv

IInv == DumpsInv /\ ToldInv /\ StepsInv

LEMMA InitFits == DumpsFit /\ Init => IInv
<1> SUFFICES ASSUME DumpsFit, Init PROVE IInv
  OBVIOUS
<1>1. IsCommand(tql) /\ tql.at = "rest" /\ StepsInv
  BY RestIs DEF Init, StepsInv
<1>2. TypesInv
  BY DEF Init, DumpsFit, TypesInv
<1>3. CommandInv /\ PlacesInv /\ FileInv /\ FoldersInv
  BY <1>1 DEF CommandInv, PlacesInv, FileInv, FoldersInv, Working, NothingLeft
<1> QED
  BY <1>1, <1>2, <1>3 DEF IInv, DumpsInv, ToldInv

LEMMA NextKeeps == DumpsFit /\ IInv /\ [Next]_dumpVars => IInv'
<1> SUFFICES ASSUME DumpsFit, IInv, [Next]_dumpVars PROVE IInv'
  OBVIOUS
<1> USE DEF IInv
<1>1. CASE Start
  <2>1. StepsInv'
    BY <1>1 DEF Start, StepsInv
  <2> QED
    BY <1>1, <2>1, StartKeeps
<1>2. CASE OtherWrites
  <2>1. StepsInv'
    BY <1>2 DEF OtherWrites, StepsInv
  <2> QED
    BY <1>2, <2>1, OtherWritesKeeps
<1>3. ASSUME NEW e, Go(e), UNCHANGED steps PROVE IInv'
  BY <1>3, GoKeeps DEF StepsInv
<1>4. CASE CopyOut /\ UNCHANGED steps
  BY <1>4, CopyKeeps DEF StepsInv
<1>5. CASE LoadTable /\ UNCHANGED steps
  BY <1>5, LoadTableKeeps DEF StepsInv
<1>6. CASE LoadFile /\ UNCHANGED steps
  BY <1>6, LoadFileKeeps DEF StepsInv
<1>7. CASE LoadFails /\ UNCHANGED steps
  BY <1>7, LoadFailsKeeps DEF StepsInv
<1>8. CASE DumpEnds /\ UNCHANGED steps
  BY <1>8, DumpEndsKeeps DEF StepsInv
<1>9. CASE SyncDumped /\ UNCHANGED steps
  BY <1>9, SyncDumpedKeeps DEF StepsInv
<1>10. CASE SyncLoaded /\ UNCHANGED steps
  BY <1>10, SyncLoadedKeeps DEF StepsInv
<1>11. CASE LoadEnds /\ UNCHANGED steps
  BY <1>11, LoadEndsKeeps DEF StepsInv
<1>12. CASE RunStatement /\ UNCHANGED steps
  BY <1>12, RunStatementKeeps DEF StepsInv
<1>13. CASE FinishReplay /\ UNCHANGED steps
  BY <1>13, FinishReplayKeeps DEF StepsInv
<1>14. CASE ReplayFails /\ UNCHANGED steps
  BY <1>14, ReplayFailsKeeps DEF StepsInv
<1>15. CASE Interrupt /\ UNCHANGED steps
  BY <1>15, InterruptKeeps DEF StepsInv
<1>16. CASE End /\ UNCHANGED steps
  BY <1>16, EndKeeps DEF StepsInv
<1>17. CASE UNCHANGED dumpVars
  <2>1. CommandInv' /\ PlacesInv' /\ FileInv' /\ StepsInv'
    BY <1>17 DEF dumpVars, DumpsInv, CommandInv, PlacesInv, FileInv, Target, NothingLeft, StepsInv
  <2>2. TypesInv' /\ FoldersInv'
    BY <1>17 DEF dumpVars, DumpsInv, TypesInv, FoldersInv, Folder, Whole
  <2>3. ToldInv'
    BY <1>17, Zenon DEF dumpVars, ToldInv, Told, OthersKept, Target, Source, Folder, Kept, Loaded, Brought, HeldIn, RestKept, SaidIsDone
  <2> QED
    BY <2>1, <2>2, <2>3 DEF DumpsInv
<1> QED
  BY <1>1, <1>2, <1>3, <1>4, <1>5, <1>6, <1>7, <1>8, <1>9, <1>10, <1>11, <1>12, <1>13, <1>14, <1>15, <1>16, <1>17, Zenon DEF Next

THEOREM AlwaysDumps == ASSUME DumpsFit PROVE Spec => []IInv
<1>1. Init => IInv
  BY InitFits
<1>2. IInv /\ [Next]_dumpVars => IInv'
  BY NextKeeps
<1> QED
  BY <1>1, <1>2, PTL DEF Spec

-----------------------------------------------------------------------------
(* What it says of the commands                                            *)

\* A folder with a manifest is a whole dump, whatever fails and whenever it is interrupted.
THEOREM AManifestIsOfAWholeDump == ASSUME DumpsFit PROVE Spec => []ManifestsAreTrue
<1>1. IInv => ManifestsAreTrue
  BY DEF IInv, DumpsInv, TypesInv, FolderFits, ManifestsAreTrue
<1> QED
  BY <1>1, AlwaysDumps, PTL

\* No secret and no tunnel is left by a command that ends, an interrupt included once a tool runs.
THEOREM NoSecretIsLeft == ASSUME DumpsFit PROVE Spec => []NothingLeft
<1>1. IInv => NothingLeft
  BY DEF IInv, DumpsInv, CommandInv
<1> QED
  BY <1>1, AlwaysDumps, PTL

\* What a command says it did is so where nobody else writes: other databases are as they were,
\* nothing was written when it says so, and every table it says it brought is there with its rows.
SaysWhatItDid == steps.others = 0 /\ tql.at # "rest" => OthersKept /\ (tql.at = "ended" => SaidIsDone)

THEOREM WhatIsSaidIsSo == ASSUME DumpsFit PROVE Spec => []SaysWhatItDid
<1>1. IInv => SaysWhatItDid
  BY DEF IInv, ToldInv, Told, SaysWhatItDid
<1> QED
  BY <1>1, AlwaysDumps, PTL

\* The steps of the command under way that change a database
LEMMA Changes ==
  ASSUME IInv, [Next]_dumpVars, steps' = steps, data' # data
  PROVE  LoadTable \/ LoadFile \/ RunStatement \/ FinishReplay
<1>1. ~OtherWrites
  BY DEF OtherWrites, IInv, StepsInv
<1>2. ~Start
  BY DEF Start
<1>3. data' # data => [Next]_dumpVars = Next
  BY DEF dumpVars
<1> QED
  BY <1>1, <1>2 DEF Next, Go, CopyOut, LoadFails, DumpEnds, SyncDumped, SyncLoaded, LoadEnds, ReplayFails, Interrupt, End, dumpVars

LEMMA AChangeIsWanted ==
  ASSUME IInv, [Next]_dumpVars
  PROVE  WriteStep
<1> SUFFICES ASSUME steps' = steps, data' # data
             PROVE  /\ tql.at \in {"loading", "replaying"} /\ ~tql.to.readOnly /\ ~tql.c.dryRun
                    /\ \A place \in DOMAIN data : place \in DOMAIN data' /\ (place # Target => data'[place] = data[place])
                    /\ DOMAIN data' \subseteq DOMAIN data \cup {Target}
  BY DEF WriteStep
<1>1. DumpsInv /\ TypesInv
  BY DEF IInv, DumpsInv
<1>2. CASE LoadTable
  <2>1. tql.at = "loading" /\ UNCHANGED folders /\ Target = Reached(tql.to)
        /\ Place(tql.to, Head(tql.left), RowsLoaded(Head(tql.left)))
    BY <1>1, <1>2, LoadTableIs
  <2>2. /\ DOMAIN data' = DOMAIN data \cup {Target}
        /\ \A place \in DOMAIN data : place # Target => data'[place] = data[place]
    BY <1>1, <2>1, PlaceIs
  <2> QED
    BY <1>1, <2>1, <2>2, WritesTo
<1>3. CASE LoadFile
  BY <1>1, <1>3, LoadFileIs, WritesTo
<1>4. CASE RunStatement
  BY <1>1, <1>4, RunStatementIs, RowsChange, WritesTo
<1>5. CASE FinishReplay
  BY <1>1, <1>5, FinishReplayIs, RowsChange, WritesTo
<1> QED
  BY <1>2, <1>3, <1>4, <1>5, Changes

\* A command writes to the database it was told to and to no other, never where nothing may be
\* written, and a dry run writes nothing.
THEOREM OnlyTheTargetIsWritten == ASSUME DumpsFit PROVE Spec => [][WriteStep]_dumpVars
<1>1. IInv /\ [Next]_dumpVars => [WriteStep]_dumpVars
  BY AChangeIsWanted
<1> QED
  BY <1>1, AlwaysDumps, PTL DEF Spec

\* Without --drop a load leaves the rows that are there, and adds others after them, wherever it fails
\* (src/app/commands/load.rs).
Longer(s, t) == t = s \/ \E more : t = s \o more
RowsStay ==
  steps' = steps /\ tql.at # "rest" /\ ~Drops =>
    \A place \in DOMAIN data : \A t \in DOMAIN data[place] :
      place \in DOMAIN data' /\ t \in DOMAIN data'[place] /\ Longer(data[place][t], data'[place][t])

LEMMA ALoadAdds ==
  ASSUME IInv, [Next]_dumpVars
  PROVE  RowsStay
<1> SUFFICES ASSUME steps' = steps, ~Drops, data' # data, NEW place \in DOMAIN data, NEW t \in DOMAIN data[place]
             PROVE  place \in DOMAIN data' /\ t \in DOMAIN data'[place] /\ Longer(data[place][t], data'[place][t])
  BY DEF RowsStay, Longer
<1>1. DumpsInv /\ TypesInv
  BY DEF IInv, DumpsInv
<1>2. CASE place # Target
  BY <1>2, AChangeIsWanted DEF WriteStep, Longer
<1>3. CASE place = Target
  <2>1. HeldIn(data, t)
    BY <1>3 DEF HeldIn
  <2>2. CASE LoadTable
    <3>1. PICK u : u = Head(tql.left)
      OBVIOUS
    <3>2. /\ UNCHANGED folders /\ Target = Reached(tql.to) /\ Place(tql.to, u, RowsLoaded(u))
          /\ IF Folder.dataOnly THEN HeldIn(data, u) ELSE ~HeldIn(data, u)
      BY <1>1, <2>2, <3>1, LoadTableIs
    <3>3. /\ HeldIn(data', u) /\ data'[Target][u] = RowsLoaded(u)
          /\ \A v : v # u => /\ HeldIn(data', v) <=> HeldIn(data, v)
                             /\ HeldIn(data, v) => data'[Target][v] = data[Target][v]
      BY <1>1, <3>2, PlaceIs
    <3>4. HeldIn(data', t) /\ Longer(data[Target][t], data'[Target][t])
      BY <2>1, <3>2, <3>3 DEF RowsLoaded, Longer
    <3> QED
      BY <1>3, <3>4 DEF HeldIn
  <2>3. CASE LoadFile
    <3>1. tql.at = "loading" /\ tql.left # <<>> /\ tql.engine = "sqlite"
      BY <2>3 DEF LoadFile
    <3>2. tql.c.does = "load" /\ ~tql.c.drop
      BY <1>1, <3>1, WritesTo DEF Drops
    <3> QED
      BY <1>1, <1>3, <3>1, <3>2 DEF DumpsInv, FileInv
  <2>4. CASE RunStatement
    <3> DEFINE read == ServerReads(tql.to.driver, Head(tql.left))
    <3>1. Target = Reached(tql.to)
      BY <1>1, <2>4, WritesTo DEF RunStatement
    <3>2. data' = [data EXCEPT ![Target] = Insert(data[Target], read)]
      BY <2>4, <3>1 DEF RunStatement
    <3> HIDE DEF read
    <3>3. place \in DOMAIN data' /\ data'[place] = Insert(data[place], read)
      BY <1>3, <3>2
    <3> DEFINE tables == Insert(data[place], read)
    <3>4. /\ t \in DOMAIN tables
          /\ t # read.into => tables[t] = data[place][t]
          /\ t = read.into => tables[t] = data[place][t] \o read.rows
      BY InsertIs, Zenon
    <3>5. Longer(data[place][t], tables[t])
      BY <3>4, Zenon DEF Longer
    <3> HIDE DEF tables
    <3> QED
      BY <3>3, <3>4, <3>5 DEF tables
  <2>5. CASE FinishReplay
    <3>1. Target = Reached(tql.to)
      BY <1>1, <2>5, WritesTo DEF FinishReplay
    <3>2. data' = Committed(Target)
      BY <2>5, <3>1 DEF FinishReplay
    <3>3. /\ place \in DOMAIN data' /\ t \in DOMAIN data'[place]
          /\ data'[place][t] = data[place][t] \o SubSeq(tql.open[t], Len(tql.before[Target][t]) + 1, Len(tql.open[t]))
      BY <1>3, <3>2 DEF Committed
    <3> QED
      BY <3>3 DEF Longer
  <2> QED
    BY <2>2, <2>3, <2>4, <2>5, Changes
<1> QED
  BY <1>2, <1>3

THEOREM ALoadLosesNothing == ASSUME DumpsFit PROVE Spec => [][RowsStay]_dumpVars
<1>1. IInv /\ [Next]_dumpVars => [RowsStay]_dumpVars
  BY ALoadAdds
<1> QED
  BY <1>1, AlwaysDumps, PTL DEF Spec

\* A sync that is not refused writes to another database than it reads, where no machine has two names.
Apart(t) == t.c.does = "sync" /\ t.said # "refused" => Reached(t.from) # Reached(t.to)
SyncsApart == Apart(tql)

\* A connection with another database
LeadsAs(k, l) == k.driver = l.driver /\ k.host = l.host /\ k.port = l.port /\ k.ssh = l.ssh

LEMMA NamesLead ==
  ASSUME NEW k, IsConnection(k), NEW source, NEW c
  PROVE  LeadsAs(Settled(k, c), k) /\ LeadsAs(TargetOf(k, source, c), k)
<1>1. \A name : LeadsAs([k EXCEPT !.database = name], k)
  BY DEF IsConnection, LeadsAs
<1>2. LeadsAs(k, k)
  BY DEF LeadsAs
<1>3. \E name : TargetOf(k, source, c) \in {k, [k EXCEPT !.database = name]}
  BY Zenon DEF TargetOf
<1>4. Settled(k, c) \in {k, [k EXCEPT !.database = c.database]}
  BY DEF Settled
<1> QED
  BY <1>1, <1>2, <1>3, <1>4

LEMMA PlacesApart ==
  ASSUME MachinesApart, NEW name \in DOMAIN Connections, NEW other \in DOMAIN Connections,
         NEW k, NEW l, LeadsAs(k, Connections[name]), LeadsAs(l, Connections[other]),
         EngineFor(k.driver) # None, ~SamePlace(k, l)
  PROVE  Reached(k) # Reached(l)
<1> SUFFICES ASSUME k.driver = l.driver, Reached(k) = Reached(l) PROVE FALSE
  <2>1. Reached(k) = Reached(l) => k.driver = l.driver
    <3>1. Reached(k)[1] = k.driver /\ Reached(l)[1] = l.driver
      BY DEF Reached
    <3> QED
      BY <3>1
  <2> QED
    BY <2>1
<1>1. CASE k.driver = "sqlite"
  <2>1. k.database = l.database
    BY <1>1 DEF Reached
  <2> QED
    BY <1>1, <2>1 DEF SamePlace, PlaceOf
<1>2. CASE k.driver # "sqlite"
  <2>1. /\ Machine[k.host, k.ssh] = Machine[l.host, l.ssh] /\ k.database = l.database
        /\ (IF k.port = "" THEN DefaultPort(k.driver) ELSE k.port) = (IF l.port = "" THEN DefaultPort(l.driver) ELSE l.port)
    BY <1>2 DEF Reached
  <2>2. IsServer(k.driver)
    BY <1>2 DEF EngineFor, IsServer
  <2>3. /\ k.host = Connections[name].host /\ k.ssh = Connections[name].ssh /\ k.driver = Connections[name].driver
        /\ l.host = Connections[other].host /\ l.ssh = Connections[other].ssh /\ l.driver = Connections[other].driver
    BY DEF LeadsAs
  <2>4. HostOf(Connections[name]) = HostOf(Connections[other]) /\ k.ssh = l.ssh
    BY <2>1, <2>2, <2>3 DEF MachinesApart
  <2>5. HostOf(k) = HostOf(l)
    BY <2>3, <2>4 DEF HostOf
  <2> QED
    BY <1>2, <2>1, <2>4, <2>5 DEF SamePlace, PlaceOf
<1> QED
  BY <1>1, <1>2

LEMMA ASyncStartsApart ==
  ASSUME DumpsFit, MachinesApart, NEW c \in Commands, NEW e, Sync(c, e)
  PROVE  Apart(tql')
<1> DEFINE source == Settled(Connections[c.from], c)
           target == TargetOf(Connections[c.to], source, c)
           engine == EngineFor(source.driver)
           began == [Began(c) EXCEPT !.from = source, !.to = target, !.path = SyncFolder(c), !.engine = engine]
           out == Writing(0, source)
           both == Writing(out.secrets, target)
           built == Built(began, both.secrets, out.tunnel \/ both.tunnel)
<1>1. /\ c.from \in DOMAIN Connections /\ c.to \in DOMAIN Connections
      /\ IsConnection(Connections[c.from]) /\ IsConnection(Connections[c.to])
  BY DEF Sync, DumpsFit
<1>2. LeadsAs(source, Connections[c.from]) /\ LeadsAs(target, Connections[c.to])
  <2> HIDE DEF source
  <2>1. LeadsAs(target, Connections[c.to])
    BY <1>1, NamesLead
  <2> QED
    BY <1>1, <2>1, NamesLead DEF source
<1>3. IsCommand(began) /\ began.from = source /\ began.to = target
  <2> HIDE DEF source, target
  <2> QED
    BY BeganIs DEF IsCommand
<1>4. \/ tql' = Says(began, "refused")
      \/ tql' = built /\ engine # None /\ ~SamePlace(source, target)
  BY Zenon DEF Sync, Built
<1> HIDE DEF began
<1>5. BuiltOf(began, built)
  <2> DEFINE tunnel == out.tunnel \/ both.tunnel
  <2> HIDE DEF tunnel
  <2>1. BuiltOf(began, Built(began, both.secrets, tunnel))
    BY <1>3, BuiltIs
  <2> QED
    BY <2>1, Zenon DEF tunnel
<1> HIDE DEF built, source, target
<1>6. CASE tql' = Says(began, "refused")
  BY <1>3, <1>6, SaysIs DEF SaidBy, Apart
<1>7. CASE tql' = built /\ engine # None /\ ~SamePlace(source, target)
  <2>1. tql'.from = source /\ tql'.to = target
    BY <1>3, <1>5, <1>7, Zenon DEF BuiltOf, Stays, AsAsked
  <2>2. Reached(source) # Reached(target)
    BY <1>1, <1>2, <1>7, PlacesApart
  <2> QED
    BY <2>1, <2>2 DEF Apart
<1> QED
  BY <1>4, <1>6, <1>7

LEMMA AStartIsApart == ASSUME DumpsFit, MachinesApart, Start PROVE Apart(tql')
<1>1. PICK c \in Commands, e \in Chances :
        \/ Export(c, e) \/ Dump(c, e) \/ Sync(c, e) \/ Restore(c, e) \/ Replay(c, e)
        \/ (c.does = "load" /\ c.path \notin DOMAIN folders /\ tql' = Says(Began(c), "refused"))
  BY Zenon DEF Start
<1>2. CASE Sync(c, e)
  BY <1>2, ASyncStartsApart
<1>3. ASSUME c.does # "sync", Starts(tql', c) PROVE Apart(tql')
  BY <1>3 DEF Starts, Apart
<1>4. CASE tql' = Says(Began(c), "refused")
  <2>1. IsCommand(Began(c))
    BY BeganIs
  <2> QED
    BY <1>4, <2>1, SaysIs DEF SaidBy, Apart
<1>5. CASE Export(c, e)
  BY <1>3, <1>5, ExportStarts DEF Export
<1>6. CASE Dump(c, e)
  BY <1>3, <1>6, DumpStarts DEF Dump
<1>7. CASE Restore(c, e)
  BY <1>3, <1>7, RestoreStarts DEF Restore
<1>8. CASE Replay(c, e)
  BY <1>3, <1>8, ReplayStarts DEF Replay
<1> QED
  BY <1>1, <1>2, <1>4, <1>5, <1>6, <1>7, <1>8

\* Past its start, a command keeps what it was asked.
LEMMA AsItWasAsked ==
  ASSUME DumpsInv, [Next]_dumpVars, ~Start, ~End
  PROVE  tql' = tql \/ (AsAsked(tql, tql') /\ tql.said # "refused")
<1>1. IsCommand(tql) /\ (tql.at \in Working \cup {"replaying"} => tql.said # "refused")
  BY DEF DumpsInv, CommandInv, None
<1>2. ASSUME NEW what, tql' = Says(tql, what) PROVE AsAsked(tql, tql')
  BY <1>1, <1>2, SaysIs DEF SaidBy, Stays
<1>4. ASSUME NEW e, Go(e) PROVE AsAsked(tql, tql') /\ tql.at = "built"
  <2>1. \/ \E what : tql' = Says(tql, what)
        \/ \E at, handler, left : tql' = [tql EXCEPT !.at = at, !.handler = handler, !.left = left]
    BY <1>4, Zenon DEF Go
  <2>2. ASSUME NEW at, NEW handler, NEW left, tql' = [tql EXCEPT !.at = at, !.handler = handler, !.left = left]
        PROVE  AsAsked(tql, tql')
    BY <1>1, <2>2 DEF IsCommand, AsAsked
  <2> QED
    BY <1>2, <1>4, <2>1, <2>2 DEF Go
<1>5. CASE CopyOut
  BY <1>1, <1>5 DEF CopyOut, IsCommand, AsAsked, Working
<1>6. CASE LoadTable \/ LoadFile \/ LoadFails
  BY <1>1, <1>6 DEF LoadTable, LoadFile, LoadFails, IsCommand, AsAsked, Working
<1>7. CASE DumpEnds \/ SyncLoaded \/ LoadEnds \/ ReplayFails
  <2>1. tql.at \in Working \cup {"replaying"} /\ \E what : tql' = Says(tql, what)
    BY <1>7 DEF DumpEnds, SyncLoaded, LoadEnds, ReplayFails, Working
  <2> QED
    BY <1>1, <1>2, <2>1
<1>8. CASE SyncDumped
  <2>1. /\ tql.at \in Working
        /\ \/ \E what : tql' = Says(tql, what)
           \/ \E left : tql' = [tql EXCEPT !.at = "loading", !.left = left]
    BY <1>8 DEF SyncDumped, Working
  <2>2. ASSUME NEW left, tql' = [tql EXCEPT !.at = "loading", !.left = left] PROVE AsAsked(tql, tql')
    BY <1>1, <2>2 DEF IsCommand, AsAsked
  <2> QED
    BY <1>1, <1>2, <2>1, <2>2
<1>9. CASE RunStatement
  BY <1>1, <1>9, RunStatementIs DEF Stays
<1>10. CASE FinishReplay
  BY <1>1, <1>10, FinishReplayIs
<1>11. CASE Interrupt
  <2>1. /\ tql.at \in Working
        /\ \/ \E what : tql' = Says(tql, what)
           \/ tql' = [tql EXCEPT !.at = "ended", !.said = "interrupted", !.early = TRUE]
    BY <1>11 DEF Interrupt, Working
  <2>2. ASSUME tql' = [tql EXCEPT !.at = "ended", !.said = "interrupted", !.early = TRUE] PROVE AsAsked(tql, tql')
    BY <1>1, <2>2 DEF IsCommand, AsAsked
  <2> QED
    BY <1>1, <1>2, <2>1, <2>2
<1>12. CASE OtherWrites \/ UNCHANGED dumpVars
  BY <1>12 DEF OtherWrites, dumpVars
<1>13. \A e : Go(e) => tql.said # "refused" /\ AsAsked(tql, tql')
  BY <1>1, <1>4 DEF Working
<1> QED
  BY <1>5, <1>6, <1>7, <1>8, <1>9, <1>10, <1>11, <1>12, <1>13, Zenon DEF Next

THEOREM ASyncHasTwoEnds == ASSUME DumpsFit, MachinesApart PROVE Spec => []SyncsApart
<1>1. Init => SyncsApart
  BY DEF Init, SyncsApart, Apart, Rest, None
<1>2. IInv /\ SyncsApart /\ [Next]_dumpVars => SyncsApart'
  <2> SUFFICES ASSUME IInv, SyncsApart, [Next]_dumpVars PROVE Apart(tql)'
    BY DEF SyncsApart
  <2>1. Apart(tql') => Apart(tql)'
    BY DEF Apart, Reached
  <2>2. CASE Start
    BY <2>1, <2>2, AStartIsApart
  <2>3. CASE End
    BY <2>3 DEF End, Apart, Rest, None
  <2>4. CASE ~Start /\ ~End
    BY <2>1, <2>4, AsItWasAsked DEF IInv, SyncsApart, Apart, AsAsked
  <2> QED
    BY <2>2, <2>3, <2>4
<1> QED
  BY <1>1, <1>2, AlwaysDumps, PTL DEF Spec

-----------------------------------------------------------------------------
(* Asking for SQL, of Ask, for any setup, tables, questions and replies:   *)
(* the answer that is put in the editor is that of the question on the     *)
(* screen, however many were given up before and still wait, and a key     *)
(* goes to its own provider only.  Its tql is called asker here.          *)

CONSTANTS Setups, Columns, Replies, Limit, Width, Across, MaxKeys, MaxAsks
VARIABLES setup, asker, threads

Questions == INSTANCE Ask WITH tql <- asker

IsModal(m) ==
  m \in [open : {m.open}, text : {m.text}, cursor : {m.cursor}, waiting : {m.waiting}, thread : {m.thread}]

IsPut(p) == p \in [thread : {p.thread}, asked : {p.asked}, answer : {p.answer}]

\* What is sent and what came of it
Outcomes == {"waits", "error", "answer"}
IsOutcome(o) == \E kind \in Outcomes : \E what : o = [k \in {kind} |-> what]

TqlTyped ==
  /\ asker \in [modal : {asker.modal}, editor : {asker.editor}, mode : {asker.mode}, said : {asker.said}, keys : {asker.keys},
              put : {asker.put}]
  /\ IsModal(asker.modal) /\ IsPut(asker.put)

ThreadsTyped ==
  /\ threads \in Seq(Range(threads))
  /\ \A t \in DOMAIN threads :
       /\ threads[t] \in [sent : {threads[t].sent}, provider : {threads[t].provider}, outcome : {threads[t].outcome}]
       /\ IsOutcome(threads[t].outcome)

\* The question that waits for an answer is the one on the screen.
AskedInv ==
  asker.modal.waiting = "answering" =>
    asker.modal.thread \in DOMAIN threads /\ threads[asker.modal.thread].sent.asked = Questions!Trim(asker.modal.text)

PutInv == asker.put.thread # 0 => asker.put.thread \in DOMAIN threads /\ Questions!AnswersWhatIsAsked

AskInv == TqlTyped /\ ThreadsTyped /\ AskedInv /\ PutInv

LEMMA OutcomeIs == \A p, reply : IsOutcome(Questions!Outcome(p, reply))
<1> SUFFICES ASSUME NEW p, NEW reply PROVE IsOutcome(Questions!Outcome(p, reply))
  OBVIOUS
<1>1. ASSUME NEW e PROVE IsOutcome([error |-> e]) /\ IsOutcome([answer |-> e])
  <2>1. [error |-> e] = [k \in {"error"} |-> e] /\ [answer |-> e] = [k \in {"answer"} |-> e]
    OBVIOUS
  <2> QED
    BY <2>1 DEF IsOutcome, Outcomes
<1>2. (\E e : Questions!Outcome(p, reply) = [error |-> e]) \/ (\E a : Questions!Outcome(p, reply) = [answer |-> a])
  BY Zenon DEF Questions!Outcome
<1> QED
  BY <1>1, <1>2

LEMMA TypingIs ==
  ASSUME NEW m, IsModal(m), NEW key
  PROVE  /\ IsModal(Questions!TypeIntoQuestion(m, key))
         /\ m.waiting # Questions!None => Questions!TypeIntoQuestion(m, key) = m
         /\ m.waiting = Questions!None => Questions!TypeIntoQuestion(m, key).waiting \in {Questions!None, "preparing"}
<1>1. ASSUME NEW c PROVE IsModal(Questions!Insert(m, c)) /\ Questions!Insert(m, c).waiting = m.waiting
  <2> DEFINE put(text, cursor) == [m EXCEPT !.text = text, !.cursor = cursor]
  <2>1. ASSUME NEW text, NEW cursor PROVE IsModal(put(text, cursor)) /\ put(text, cursor).waiting = m.waiting
    BY DEF IsModal
  <2>2. \E text, cursor : Questions!Insert(m, c) = put(text, cursor)
    BY DEF Questions!Insert
  <2> HIDE DEF put
  <2> QED
    BY <2>1, <2>2
<1>2. CASE m.waiting # Questions!None
  BY <1>2 DEF Questions!TypeIntoQuestion
<1>3. CASE m.waiting = Questions!None
  <2>1. /\ IsModal([m EXCEPT !.waiting = "preparing"]) /\ [m EXCEPT !.waiting = "preparing"].waiting = "preparing"
        /\ IsModal([m EXCEPT !.cursor = @ - 1]) /\ [m EXCEPT !.cursor = @ - 1].waiting = m.waiting
    BY DEF IsModal
  <2>2. \/ Questions!TypeIntoQuestion(m, key) = m \/ Questions!TypeIntoQuestion(m, key) = [m EXCEPT !.waiting = "preparing"]
        \/ Questions!TypeIntoQuestion(m, key) = [m EXCEPT !.cursor = @ - 1]
        \/ \E c : Questions!TypeIntoQuestion(m, key) = Questions!Insert(m, c)
    BY <1>3 DEF Questions!TypeIntoQuestion
  <2> QED
    BY <1>1, <1>3, <2>1, <2>2
<1> QED
  BY <1>2, <1>3

\* Keys change the question only while no answer is waited for.
LEMMA ModalKeeps ==
  ASSUME AskInv, UNCHANGED threads, NEW modal, NEW keys, NEW mode, NEW said,
         asker' = [asker EXCEPT !.modal = modal, !.keys = keys, !.mode = mode, !.said = said],
         IsModal(modal), modal = asker.modal \/ modal.waiting # "answering"
  PROVE  AskInv'
<1>1. /\ asker' \in [modal : {asker'.modal}, editor : {asker'.editor}, mode : {asker'.mode}, said : {asker'.said},
                   keys : {asker'.keys}, put : {asker'.put}]
      /\ asker'.modal = modal /\ asker'.put = asker.put
  BY DEF AskInv, TqlTyped
<1>2. TqlTyped'
  BY <1>1 DEF AskInv, TqlTyped
<1>3. ThreadsTyped'
  BY DEF AskInv, ThreadsTyped
<1>4. AskedInv' /\ PutInv'
  BY <1>1 DEF AskInv, AskedInv, PutInv, Questions!AnswersWhatIsAsked
<1> QED
  BY <1>2, <1>3, <1>4 DEF AskInv

LEMMA KeysKeep ==
  ASSUME AskInv, NEW key, Questions!Open \/ Questions!Press(key) \/ Questions!PasteIntoQuestion \/ Questions!Leave
  PROVE  AskInv'
<1> DEFINE put(modal, keys, mode, said) == [asker EXCEPT !.modal = modal, !.keys = keys, !.mode = mode, !.said = said]
<1>0. IsModal(asker.modal) /\ UNCHANGED threads
  BY DEF AskInv, TqlTyped, Questions!Open, Questions!Press, Questions!PasteIntoQuestion, Questions!Leave
<1>1. ASSUME NEW modal, NEW keys, NEW mode, NEW said
      PROVE  /\ put(modal, asker.keys, asker.mode, said) = [asker EXCEPT !.modal = modal, !.said = said]
             /\ put(modal, keys, asker.mode, asker.said) = [asker EXCEPT !.modal = modal, !.keys = keys]
             /\ put(asker.modal, asker.keys, mode, said) = [asker EXCEPT !.mode = mode, !.said = said]
  BY DEF AskInv, TqlTyped
<1>2. IsModal(Questions!Closed) /\ Questions!Closed.waiting = Questions!None /\ Questions!None # "answering"
  BY DEF Questions!Closed, IsModal, Questions!None
<1>3. CASE Questions!Open
  <2> DEFINE opened == [Questions!Closed EXCEPT !.open = TRUE]
  <2>1. IsModal(opened) /\ opened.waiting # "answering"
    BY DEF Questions!Closed, IsModal, Questions!None
  <2>2. asker' = [asker EXCEPT !.modal = opened, !.said = Questions!None]
    BY <1>3 DEF Questions!Open
  <2> HIDE DEF opened
  <2>3. asker' = put(opened, asker.keys, asker.mode, Questions!None)
    BY <1>1, <2>2, Zenon
  <2> QED
    BY <1>0, <2>1, <2>3, ModalKeeps
<1>4. CASE Questions!Press(key)
  <2>1. CASE key = "escape"
    <3>1. asker' = [asker EXCEPT !.modal = Questions!Closed, !.said = Questions!None]
      BY <1>4, <2>1 DEF Questions!Press
    <3>2. asker' = put(Questions!Closed, asker.keys, asker.mode, Questions!None)
      BY <1>1, <3>1, Zenon
    <3> QED
      BY <1>0, <1>2, <3>2, ModalKeeps
  <2>2. CASE key # "escape"
    <3> DEFINE typed == Questions!TypeIntoQuestion(asker.modal, key)
    <3>1. asker' = [asker EXCEPT !.modal = typed, !.keys = asker.keys + 1]
      BY <1>4, <2>2 DEF Questions!Press
    <3>2. IsModal(typed) /\ (typed = asker.modal \/ typed.waiting # "answering")
      BY <1>0, TypingIs DEF Questions!None
    <3> HIDE DEF typed
    <3>3. asker' = put(typed, asker.keys + 1, asker.mode, asker.said)
      BY <1>1, <3>1, Zenon
    <3> QED
      BY <1>0, <3>2, <3>3, ModalKeeps
  <2> QED
    BY <2>1, <2>2
<1>5. CASE Questions!PasteIntoQuestion
  <2> DEFINE pasted == Questions!Insert(Questions!Insert(asker.modal, "y"), " ")
  <2>1. ASSUME NEW m, IsModal(m), NEW c PROVE IsModal(Questions!Insert(m, c)) /\ Questions!Insert(m, c).waiting = m.waiting
    <3> DEFINE set(text, cursor) == [m EXCEPT !.text = text, !.cursor = cursor]
    <3>1. ASSUME NEW text, NEW cursor PROVE IsModal(set(text, cursor)) /\ set(text, cursor).waiting = m.waiting
      BY <2>1 DEF IsModal
    <3>2. \E text, cursor : Questions!Insert(m, c) = set(text, cursor)
      BY DEF Questions!Insert
    <3> HIDE DEF set
    <3> QED
      BY <3>1, <3>2
  <2>2. IsModal(pasted) /\ pasted.waiting = asker.modal.waiting
    BY <1>0, <2>1
  <2>3. asker' = [asker EXCEPT !.modal = pasted, !.keys = asker.keys + 1] /\ asker.modal.waiting = Questions!None
    BY <1>5 DEF Questions!PasteIntoQuestion
  <2> HIDE DEF pasted
  <2>4. asker' = put(pasted, asker.keys + 1, asker.mode, asker.said)
    BY <1>1, <2>3, Zenon
  <2>5. pasted.waiting # "answering"
    BY <1>2, <2>2, <2>3, Zenon
  <2> QED
    BY <1>0, <2>2, <2>4, <2>5, ModalKeeps
<1>6. CASE Questions!Leave
  <2>1. asker' = [asker EXCEPT !.mode = "grid", !.said = Questions!None]
    BY <1>6 DEF Questions!Leave
  <2>2. asker' = put(asker.modal, asker.keys, "grid", Questions!None)
    BY <1>1, <2>1, Zenon
  <2> QED
    BY <1>0, <2>2, ModalKeeps
<1> QED
  BY <1>3, <1>4, <1>5, <1>6

\* A question is sent as it is on the screen.
LEMMA SendKeeps ==
  ASSUME AskInv, NEW sent, NEW provider,
         threads' = Append(threads, [sent |-> sent, provider |-> provider, outcome |-> [waits |-> TRUE]]),
         sent.asked = Questions!Trim(asker.modal.text),
         asker' = [asker EXCEPT !.modal.waiting = "answering", !.modal.thread = Len(threads) + 1]
  PROVE  AskInv'
<1> DEFINE new == [sent |-> sent, provider |-> provider, outcome |-> [waits |-> TRUE]]
<1>1. /\ Append(threads, new) \in Seq(Range(threads) \cup {new}) /\ Len(Append(threads, new)) = Len(threads) + 1
      /\ \A i \in 1 .. Len(threads) : Append(threads, new)[i] = threads[i]
      /\ Append(threads, new)[Len(threads) + 1] = new
  <2>1. threads \in Seq(Range(threads) \cup {new})
    BY DEF AskInv, ThreadsTyped
  <2> QED
    BY <2>1, AppendProperties
<1>2. DOMAIN threads = 1 .. Len(threads) /\ Len(threads) \in Nat
  BY LenProperties DEF AskInv, ThreadsTyped
<1>3. /\ new \in [sent : {new.sent}, provider : {new.provider}, outcome : {new.outcome}]
      /\ IsOutcome(new.outcome) /\ new.sent = sent
  <2>1. \A v : [waits |-> v] = [k \in {"waits"} |-> v]
    OBVIOUS
  <2>2. [waits |-> TRUE] = [k \in {"waits"} |-> TRUE]
    BY <2>1, Zenon
  <2>3. IsOutcome([waits |-> TRUE])
    BY <2>2, Zenon DEF IsOutcome, Outcomes
  <2> QED
    BY <2>3
<1> HIDE DEF new
<1>4. DOMAIN threads' = 1 .. Len(threads) + 1 /\ threads'[Len(threads) + 1] = new
      /\ \A i \in DOMAIN threads : threads'[i] = threads[i] /\ i \in DOMAIN threads'
  BY <1>1, <1>2, LenProperties DEF new
<1>5. ThreadsTyped'
  <2>1. threads' \in Seq(Range(threads'))
    <3>1. \A i \in 1 .. Len(threads') : threads'[i] \in Range(threads')
      BY <1>1, <1>2, <1>4 DEF Range, new
    <3>2. threads' \in Seq(Range(threads) \cup {new}) /\ Len(threads') \in Nat
      BY <1>1, LenProperties DEF new
    <3>3. threads' \in [1 .. Len(threads') -> Range(threads) \cup {new}]
      BY <3>2, LenProperties
    <3> DEFINE n == Len(threads')
    <3> HIDE DEF n
    <3>4. threads' \in [1 .. n -> Range(threads')] /\ n \in Nat
      BY <3>1, <3>2, <3>3 DEF n
    <3> QED
      BY <3>4, SeqIs, Zenon
  <2>2. \A t \in DOMAIN threads' : t \in DOMAIN threads \/ t = Len(threads) + 1
    BY <1>2, <1>4
  <2> QED
    BY <1>3, <1>4, <2>1, <2>2 DEF AskInv, ThreadsTyped
<1>6. /\ asker' \in [modal : {asker'.modal}, editor : {asker'.editor}, mode : {asker'.mode}, said : {asker'.said},
                   keys : {asker'.keys}, put : {asker'.put}]
      /\ IsModal(asker'.modal) /\ asker'.put = asker.put
      /\ asker'.modal.thread = Len(threads) + 1 /\ asker'.modal.text = asker.modal.text
  BY DEF AskInv, TqlTyped, IsModal
<1>7. TqlTyped'
  BY <1>6 DEF AskInv, TqlTyped
<1>8. AskedInv'
  BY <1>2, <1>3, <1>4, <1>6 DEF AskedInv
<1>9. PutInv'
  BY <1>4, <1>6 DEF AskInv, PutInv, Questions!AnswersWhatIsAsked
<1> QED
  BY <1>5, <1>7, <1>8, <1>9 DEF AskInv

LEMMA AskStarts ==
  ASSUME AskInv, Questions!StartAsking
  PROVE  AskInv'
<1> DEFINE provider == Questions!Chosen(setup)
           question == [provider |-> provider, model |-> Questions!ModelOf(setup, provider.name),
                        summary |-> Questions!Summary(setup.tables, setup.focus), question |-> Questions!Trim(asker.modal.text)]
<1>1. CASE provider = Questions!NoProvider
  <2>1. UNCHANGED threads /\ asker' = [asker EXCEPT !.modal.waiting = Questions!None, !.said = "no model to ask"]
    BY <1>1, Zenon DEF Questions!StartAsking
  <2> DEFINE put(said) == [asker EXCEPT !.modal.waiting = Questions!None, !.said = said]
             fits(t) ==
               /\ t \in [modal : {t.modal}, editor : {t.editor}, mode : {t.mode}, said : {t.said}, keys : {t.keys},
                         put : {t.put}]
               /\ IsModal(t.modal) /\ t.modal.waiting = Questions!None /\ t.put = asker.put
  <2>2. ASSUME NEW said PROVE fits(put(said))
    BY DEF AskInv, TqlTyped, IsModal
  <2>3. \E said : asker' = put(said)
    BY <2>1, Zenon
  <2> HIDE DEF put, fits
  <2>4. fits(asker')
    BY <2>2, <2>3
  <2>5. Questions!None # "answering"
    BY DEF Questions!None
  <2>6. TqlTyped' /\ ThreadsTyped'
    BY <2>1, <2>4 DEF fits, AskInv, TqlTyped, ThreadsTyped
  <2>7. AskedInv' /\ PutInv'
    BY <2>1, <2>4, <2>5 DEF fits, AskInv, AskedInv, PutInv, Questions!AnswersWhatIsAsked
  <2> QED
    BY <2>6, <2>7 DEF AskInv
<1>2. CASE provider # Questions!NoProvider
  <2>1. /\ threads' = Append(threads, [sent |-> Questions!Request(question), provider |-> provider, outcome |-> [waits |-> TRUE]])
        /\ asker' = [asker EXCEPT !.modal.waiting = "answering", !.modal.thread = Len(threads) + 1]
    BY <1>2, Zenon DEF Questions!StartAsking
  <2>2. Questions!Request(question).asked = Questions!Trim(asker.modal.text)
    BY DEF Questions!Request
  <2> HIDE DEF provider, question
  <2> QED
    BY <2>1, <2>2, SendKeeps
<1> QED
  BY <1>1, <1>2

\* The answer that is heard is that of the question on the screen.
LEMMA AnswerKeeps ==
  ASSUME AskInv, UNCHANGED threads, asker.modal.waiting = "answering", "waits" \notin DOMAIN threads[Questions!Received].outcome,
         Questions!Answered(threads[Questions!Received].outcome)
  PROVE  AskInv'
<1> DEFINE outcome == threads[Questions!Received].outcome
           a == outcome.answer
<1>1. Questions!Received = asker.modal.thread /\ Questions!Received \in DOMAIN threads /\ threads[Questions!Received].sent.asked = Questions!Trim(asker.modal.text)
  BY DEF Questions!Received, AskInv, AskedInv
<1>2. "error" \in DOMAIN outcome \/ outcome = [answer |-> a]
  <2>1. IsOutcome(outcome)
    BY <1>1 DEF AskInv, ThreadsTyped
  <2>2. PICK kind \in Outcomes : \E what : outcome = [k \in {kind} |-> what]
    BY <2>1 DEF IsOutcome
  <2>3. kind # "waits" /\ DOMAIN outcome = {kind} /\ outcome = [k \in {kind} |-> outcome[kind]]
    BY <2>2
  <2>4. kind = "error" \/ kind = "answer"
    BY <2>3 DEF Outcomes
  <2>5. CASE kind = "answer"
    <3>1. [k \in {"answer"} |-> a] = [answer |-> a]
      OBVIOUS
    <3> QED
      BY <2>2, <2>3, <2>5, <3>1
  <2> QED
    BY <2>3, <2>4, <2>5
<1> DEFINE
     typed(t) ==
       /\ t \in [modal : {t.modal}, editor : {t.editor}, mode : {t.mode}, said : {t.said}, keys : {t.keys}, put : {t.put}]
       /\ IsModal(t.modal) /\ IsPut(t.put) /\ t.modal.waiting = Questions!None
     none(said) == [asker EXCEPT !.modal.waiting = Questions!None, !.said = said]
     put(editor, said, given) == [asker EXCEPT !.modal = Questions!Closed, !.editor = editor, !.mode = "query", !.said = said, !.put = given]
     given == [thread |-> Questions!Received, asked |-> Questions!Trim(asker.modal.text), answer |-> a]
<1>3. ASSUME NEW said PROVE typed(none(said)) /\ none(said).put = asker.put
  BY DEF AskInv, TqlTyped, IsModal, IsPut
<1>4. ASSUME NEW editor, NEW said, NEW g, IsPut(g) PROVE typed(put(editor, said, g)) /\ put(editor, said, g).put = g
  BY <1>4 DEF AskInv, TqlTyped, IsModal, Questions!Closed, Questions!None
<1>5. /\ IsPut(given) /\ given.thread = Questions!Received /\ given.asked = Questions!Trim(asker.modal.text) /\ given.answer = a
  BY DEF IsPut
<1>6. \/ \E said : asker' = none(said)
      \/ "error" \notin DOMAIN outcome /\ \E editor, said : asker' = put(editor, said, given)
  <2>1. CASE "error" \in DOMAIN outcome \/ a.query = <<>>
    BY <2>1, Zenon DEF Questions!Answered
  <2>2. CASE "error" \notin DOMAIN outcome /\ a.query # <<>>
    BY <2>2, Zenon DEF Questions!Answered
  <2> QED
    BY <2>1, <2>2
<1> HIDE DEF none, put, given, typed, outcome, a
<1>7. typed(asker') /\ (asker'.put = asker.put \/ ("error" \notin DOMAIN outcome /\ asker'.put = given))
  <2>1. CASE \E said : asker' = none(said)
    <3>1. PICK said : asker' = none(said)
      BY <2>1
    <3>2. typed(none(said)) /\ none(said).put = asker.put
      BY <1>3
    <3> QED
      BY <3>1, <3>2
  <2>2. CASE "error" \notin DOMAIN outcome /\ \E editor, said : asker' = put(editor, said, given)
    <3>1. PICK editor, said : asker' = put(editor, said, given)
      BY <2>2
    <3>2. typed(put(editor, said, given)) /\ put(editor, said, given).put = given
      BY <1>4, <1>5
    <3> QED
      BY <2>2, <3>1, <3>2
  <2> QED
    BY <1>6, <2>1, <2>2
<1>8. Questions!None # "answering"
  BY DEF Questions!None
<1>9. TqlTyped' /\ ThreadsTyped'
  BY <1>7 DEF typed, AskInv, TqlTyped, ThreadsTyped
<1>10. AskedInv'
  BY <1>7, <1>8 DEF typed, AskedInv
<1>11. PutInv'
  <2>1. CASE asker'.put = asker.put
    BY <2>1 DEF AskInv, PutInv, Questions!AnswersWhatIsAsked
  <2>2. CASE asker'.put = given /\ "error" \notin DOMAIN outcome
    <3>1. outcome = [answer |-> a]
      BY <1>2, <2>2
    <3>2. threads[Questions!Received].outcome = [answer |-> a]
      BY <3>1 DEF outcome
    <3> QED
      BY <1>1, <1>5, <2>2, <3>2 DEF PutInv, Questions!AnswersWhatIsAsked
  <2> QED
    BY <1>7, <2>1, <2>2
<1> QED
  BY <1>9, <1>10, <1>11 DEF AskInv

\* A thread is answered once; what was put in the editor stays what it was answered.
LEMMA ReplyKeeps ==
  ASSUME AskInv, NEW t \in DOMAIN threads, Questions!Reply(t)
  PROVE  AskInv'
<1>1. PICK reply : threads' = [threads EXCEPT ![t].outcome = Questions!Outcome(threads[t].provider, reply)]
  BY DEF Questions!Reply
<1> DEFINE said == Questions!Outcome(threads[t].provider, reply)
           put(thread, outcome) == [thread EXCEPT !.outcome = outcome]
<1>2. IsOutcome(said) /\ UNCHANGED asker /\ "waits" \in DOMAIN threads[t].outcome
  BY OutcomeIs DEF Questions!Reply
<1>3. threads' = [threads EXCEPT ![t] = put(threads[t], said)]
  BY <1>1
<1>4. ASSUME NEW thread, NEW outcome,
             thread \in [sent : {thread.sent}, provider : {thread.provider}, outcome : {thread.outcome}]
      PROVE  /\ put(thread, outcome) \in [sent : {put(thread, outcome).sent}, provider : {put(thread, outcome).provider},
                                          outcome : {put(thread, outcome).outcome}]
             /\ put(thread, outcome).sent = thread.sent /\ put(thread, outcome).outcome = outcome
  BY <1>4
<1> HIDE DEF said, put
<1>5. /\ DOMAIN threads' = DOMAIN threads /\ \A i \in DOMAIN threads \ {t} : threads'[i] = threads[i]
      /\ threads'[t].sent = threads[t].sent /\ threads'[t].outcome = said
      /\ threads'[t] \in [sent : {threads'[t].sent}, provider : {threads'[t].provider}, outcome : {threads'[t].outcome}]
  BY <1>3, <1>4 DEF AskInv, ThreadsTyped
<1>6. threads' \in Seq(Range(threads'))
  <2>1. threads \in Seq(Range(threads)) /\ Len(threads) \in Nat /\ DOMAIN threads = 1 .. Len(threads)
    BY LenProperties DEF AskInv, ThreadsTyped
  <2>2. threads' \in [1 .. Len(threads) -> Range(threads')]
    BY <1>3, <1>5, <2>1 DEF Range
  <2> QED
    BY <2>1, <2>2, SeqIs, Zenon
<1>7. ThreadsTyped'
  BY <1>2, <1>5, <1>6 DEF AskInv, ThreadsTyped
<1>8. TqlTyped' /\ AskedInv'
  BY <1>2, <1>5 DEF AskInv, TqlTyped, AskedInv
<1>9. PutInv'
  <2>1. ASSUME asker.put.thread # 0 PROVE asker.put.thread # t
    <3>1. threads[asker.put.thread].outcome = [answer |-> asker.put.answer]
      BY <2>1 DEF AskInv, PutInv, Questions!AnswersWhatIsAsked
    <3>2. "waits" \notin DOMAIN [answer |-> asker.put.answer]
      OBVIOUS
    <3> QED
      BY <1>2, <3>1, <3>2
  <2> QED
    BY <1>2, <1>5, <2>1 DEF AskInv, PutInv, Questions!AnswersWhatIsAsked
<1> QED
  BY <1>7, <1>8, <1>9 DEF AskInv

LEMMA AskInit == Questions!Init => AskInv
<1> SUFFICES ASSUME Questions!Init PROVE AskInv
  OBVIOUS
<1>1. threads = <<>>
  BY Zenon DEF Questions!Init
<1>2. threads \in Seq(Range(threads)) /\ DOMAIN threads = {}
  BY <1>1
<1>3. PICK editor, mode, said, keys, put :
         /\ asker = [modal |-> Questions!Closed, editor |-> editor, mode |-> mode, said |-> said, keys |-> keys, put |-> put]
         /\ put = [thread |-> 0, asked |-> <<>>, answer |-> Questions!NoAnswer]
  BY Zenon DEF Questions!Init
<1>4. TqlTyped /\ asker.put.thread = 0 /\ asker.modal.waiting = Questions!None /\ Questions!None # "answering"
  BY <1>3 DEF TqlTyped, IsModal, IsPut, Questions!Closed, Questions!None
<1> QED
  BY <1>2, <1>4 DEF AskInv, ThreadsTyped, AskedInv, PutInv

LEMMA AskStep == ASSUME AskInv, [Questions!Next]_(Questions!askVars) PROVE AskInv'
<1>1. CASE UNCHANGED Questions!askVars
  BY <1>1 DEF Questions!askVars, AskInv, TqlTyped, ThreadsTyped, AskedInv, PutInv, Questions!AnswersWhatIsAsked
<1>2. CASE Questions!WaitForAnswer
  <2>1. CASE Questions!StartAsking
    BY <2>1, AskStarts
  <2>2. CASE ~Questions!StartAsking
    BY <1>2, <2>2, AnswerKeeps DEF Questions!WaitForAnswer
  <2> QED
    BY <2>1, <2>2
<1> QED
  BY <1>1, <1>2, KeysKeep, ReplyKeeps DEF Questions!Next

LEMMA AskHolds == Questions!Spec => []AskInv
  BY AskInit, AskStep, PTL DEF Questions!Spec

\* The SQL in the editor answers the question that was on the screen when it came, not one that
\* was given up before (src/app/tui/browser/ask.rs, wait_for_answer).
THEOREM AnswerIsOfTheQuestion == Questions!Spec => []Questions!AnswersWhatIsAsked
<1>1. AskInv => Questions!AnswersWhatIsAsked
  BY DEF AskInv, PutInv, Questions!AnswersWhatIsAsked
<1> QED
  BY <1>1, AskHolds, PTL

-----------------------------------------------------------------------------
(* Which key goes where                                                    *)

\* A provider has the key and the address that are set, or both as one of the known providers has them.
KeyFits(p, s) ==
  \/ p.key = s.key /\ p.url = s.url
  \/ \E name \in Questions!Range(Questions!Names) : Questions!Filled(s.env, Questions!KeyVariable(name)) = p.key /\ Questions!Address(s.env, name) = p.url

LEMMA ChosenFits == \A s : Questions!Chosen(s) # Questions!NoProvider => KeyFits(Questions!Chosen(s), s)
<1> SUFFICES ASSUME NEW s, Questions!Chosen(s) # Questions!NoProvider PROVE KeyFits(Questions!Chosen(s), s)
  OBVIOUS
<1>1. ASSUME NEW name, Questions!Named(name, s.env) # Questions!NoProvider PROVE KeyFits(Questions!Named(name, s.env), s)
  <2>1. /\ name \in Questions!Range(Questions!Names)
        /\ Questions!Named(name, s.env) = [name |-> name, wire |-> Questions!WireOf(name), url |-> Questions!Address(s.env, name),
                                 key |-> Questions!Filled(s.env, Questions!KeyVariable(name))]
    BY <1>1, Zenon DEF Questions!Named
  <2>2. /\ Questions!Named(name, s.env).key = Questions!Filled(s.env, Questions!KeyVariable(name))
        /\ Questions!Named(name, s.env).url = Questions!Address(s.env, name)
    BY <2>1
  <2> QED
    BY <2>1, <2>2, Zenon DEF KeyFits
<1>2. ASSUME Questions!Local(s) # Questions!NoProvider PROVE KeyFits(Questions!Local(s), s)
  BY <1>2 DEF Questions!Local, KeyFits
<1>3. Questions!Chosen(s) = Questions!Local(s) \/ \E name : Questions!Chosen(s) = Questions!Named(name, s.env)
  BY Zenon DEF Questions!Chosen
<1> QED
  BY <1>1, <1>2, <1>3

LEMMA RequestFits ==
  \A q : \A h \in Questions!Request(q).headers : h[2] = q.provider.key /\ Questions!Request(q).url[1] = q.provider.url
<1> TAKE q
<1>1. PICK path, header, schema :
        Questions!Request(q) =
          [url |-> <<q.provider.url, path>>,
           headers |-> IF q.provider.key = "" /\ ~(q.provider.wire \in {"Anthropic", "Gemini"} \/ q.provider.name = "azure")
                       THEN {} ELSE {<<header, q.provider.key>>},
           model |-> q.model, system |-> q.summary, asked |-> q.question, schema |-> schema]
  BY Zenon DEF Questions!Request
<1> DEFINE none == q.provider.key = "" /\ ~(q.provider.wire \in {"Anthropic", "Gemini"} \/ q.provider.name = "azure")
           headers == IF none THEN {} ELSE {<<header, q.provider.key>>}
<1>2. headers \subseteq {<<header, q.provider.key>>}
  <2> HIDE DEF none
  <2> QED
    OBVIOUS
<1> HIDE DEF headers
<1>3. Questions!Request(q).headers = headers /\ Questions!Request(q).url = <<q.provider.url, path>>
  <2>1. Questions!Request(q) = [url |-> <<q.provider.url, path>>, headers |-> headers, model |-> q.model, system |-> q.summary,
                      asked |-> q.question, schema |-> schema]
    BY <1>1, Zenon DEF headers
  <2> QED
    BY <2>1
<1> QED
  BY <1>2, <1>3

LEMMA KeysStay == ASSUME AskInv, Questions!KeysStayApart, [Questions!Next]_(Questions!askVars) PROVE Questions!KeysStayApart'
<1>1. CASE UNCHANGED <<setup, threads>>
  BY <1>1 DEF Questions!KeysStayApart
<1>2. ASSUME NEW t \in DOMAIN threads, Questions!Reply(t) PROVE Questions!KeysStayApart'
  <2>1. /\ DOMAIN threads' = DOMAIN threads /\ \A i \in DOMAIN threads : threads'[i].sent = threads[i].sent
        /\ UNCHANGED setup
    <3>1. PICK outcome : threads' = [threads EXCEPT ![t].outcome = outcome]
      BY <1>2 DEF Questions!Reply
    <3> QED
      BY <1>2, <3>1 DEF Questions!Reply, AskInv, ThreadsTyped
  <2> QED
    BY <2>1 DEF Questions!KeysStayApart
<1>3. CASE Questions!StartAsking /\ UNCHANGED setup
  <2> DEFINE provider == Questions!Chosen(setup)
             question == [provider |-> provider, model |-> Questions!ModelOf(setup, provider.name),
                          summary |-> Questions!Summary(setup.tables, setup.focus), question |-> Questions!Trim(asker.modal.text)]
             new == [sent |-> Questions!Request(question), provider |-> provider, outcome |-> [waits |-> TRUE]]
  <2>1. CASE provider = Questions!NoProvider
    BY <1>1, <1>3, <2>1, Zenon DEF Questions!StartAsking
  <2>2. CASE provider # Questions!NoProvider
    <3>1. threads' = Append(threads, new)
      BY <1>3, <2>2, Zenon DEF Questions!StartAsking
    <3>2. KeyFits(provider, setup)
      BY <2>2, ChosenFits
    <3>3. new.sent = Questions!Request(question) /\ question.provider = provider
      OBVIOUS
    <3>4. \A h \in new.sent.headers : h[2] = provider.key /\ new.sent.url[1] = provider.url
      BY <3>3, RequestFits, Zenon
    <3> HIDE DEF provider, question, new
    <3>5. /\ DOMAIN threads' = 1 .. Len(threads) + 1 /\ threads'[Len(threads) + 1] = new
          /\ \A i \in 1 .. Len(threads) : threads'[i] = threads[i]
          /\ DOMAIN threads = 1 .. Len(threads) /\ Len(threads) \in Nat
      <4>1. threads \in Seq(Range(threads) \cup {new})
        BY DEF AskInv, ThreadsTyped
      <4> QED
        BY <3>1, <4>1, AppendProperties, LenProperties
    <3>6. \A i \in DOMAIN threads' : (i \in DOMAIN threads /\ threads'[i] = threads[i]) \/ threads'[i] = new
      BY <3>5
    <3>7. UNCHANGED setup
      BY <1>3
    <3> SUFFICES ASSUME NEW i \in DOMAIN threads', NEW h \in threads'[i].sent.headers
                 PROVE  \/ h[2] = setup.key /\ threads'[i].sent.url[1] = setup.url
                        \/ \E name \in Questions!Range(Questions!Names) :
                             /\ Questions!Filled(setup.env, Questions!KeyVariable(name)) = h[2]
                             /\ Questions!Address(setup.env, name) = threads'[i].sent.url[1]
      BY <3>7, Zenon DEF Questions!KeysStayApart
    <3>8. CASE i \in DOMAIN threads /\ threads'[i] = threads[i]
      BY <3>8, Zenon DEF Questions!KeysStayApart
    <3>9. CASE threads'[i] = new
      <4>1. h[2] = provider.key /\ threads'[i].sent.url[1] = provider.url
        BY <3>4, <3>9
      <4> QED
        BY <3>2, <4>1, Zenon DEF KeyFits
    <3> QED
      BY <3>6, <3>8, <3>9
  <2> QED
    BY <2>1, <2>2
<1> QED
  BY <1>1, <1>2, <1>3 DEF Questions!Next, Questions!askVars, Questions!Open, Questions!PasteIntoQuestion, Questions!Leave, Questions!Press, Questions!WaitForAnswer

\* The key of a provider is only sent to that provider (src/app/ai/providers.rs).
THEOREM KeysGoToTheirProvider == Questions!Spec => []Questions!KeysStayApart
<1>1. Questions!Init => Questions!KeysStayApart
  <2> SUFFICES ASSUME Questions!Init PROVE Questions!KeysStayApart
    OBVIOUS
  <2>1. threads = <<>>
    BY Zenon DEF Questions!Init
  <2>2. DOMAIN threads = {}
    BY <2>1
  <2> QED
    BY <2>2 DEF Questions!KeysStayApart
<1>2. AskInv /\ Questions!KeysStayApart /\ [Questions!Next]_(Questions!askVars) => Questions!KeysStayApart'
  BY KeysStay
<1> QED
  BY <1>1, <1>2, AskHolds, PTL DEF Questions!Spec
=============================================================================
