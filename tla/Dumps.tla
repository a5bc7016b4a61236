------------------------------- MODULE Dumps -------------------------------
(***************************************************************************)
(* Whole databases and exported files (src/app/commands/{dump,load,sync,    *)
(* export,dumps}.rs, src/app/dump/): `tql dump` writes a database to a      *)
(* folder with the engine's own tool, `tql load` reads a folder back or     *)
(* replays an exported file, `tql sync` does both.  One command runs at a   *)
(* time, while other programs write to the same databases, tools fail half  *)
(* way, connections break and tql is interrupted.  A value is a sequence of *)
(* characters, "nl" a line break.                                           *)
(***************************************************************************)
EXTENDS Naturals, Sequences, SequencesExt, FiniteSets, FiniteSetsExt

CONSTANTS
  Connections,  \* of each name: driver, host, port, ssh, database, readOnly, production
  Machine,      \* of each host name, behind each hop: the machine it leads to
  Data,         \* the databases at first: of each place the rows of its tables
  Folders,      \* the folders and files at first
  Commands,     \* the commands given, each with its arguments and options
  PerStatement, \* how many rows an exported statement inserts
  OtherRow,     \* what other programs insert
  MaxCommands, MaxOthers

VARIABLES
  data,     \* the rows of each table, by place
  folders,  \* by path
  tql,      \* the command under way and how far it is
  steps     \* commands and other writes so far

dumpVars == <<data, folders, tql, steps>>

None == "none"
NoConnection == [driver |-> None]
Rest ==
  [at |-> "rest", c |-> [does |-> None], from |-> NoConnection, to |-> NoConnection, path |-> None, engine |-> None, left |-> <<>>,
   secrets |-> 0, tunnel |-> FALSE, handler |-> FALSE, open |-> None, ran |-> 0, said |-> None,
   unanswered |-> FALSE, early |-> FALSE, before |-> None, dumped |-> None]

IsConnection(k) ==
  k \in [driver : {k.driver}, host : {k.host}, port : {k.port}, ssh : {k.ssh}, database : {k.database},
         readOnly : {k.readOnly}, production : {k.production}]

\* A folder with a manifest is a whole dump, of tables that can be listed
FolderFits(folder) ==
  /\ folder.kind = "dump" /\ folder.manifest => folder.whole
  /\ folder.kind # "file" => IsFiniteSet(DOMAIN folder.tables)

\* Connections are records, and files have names; commands name connections; a sync has no --data-only
DumpsFit ==
  /\ \A name \in DOMAIN Connections :
       LET k == Connections[name] IN IsConnection(k) /\ (k.driver = "sqlite" => k.database # "")
  /\ \A c \in Commands :
       /\ c.does \in {"dump", "sync"} => c.from \in DOMAIN Connections
       /\ c.does \in {"load", "sync"} => c.to \in DOMAIN Connections
       /\ c.does = "sync" => ~c.dataOnly
  /\ \A place \in DOMAIN Data : IsFiniteSet(DOMAIN Data[place])
  /\ \A path \in DOMAIN Folders : FolderFits(Folders[path])

Init == data = Data /\ folders = Folders /\ tql = Rest /\ steps = [commands |-> 0, others |-> 0]

\* A function with one of its values put, or added
With(f, x, y) == [z \in DOMAIN f \cup {x} |-> IF z = x THEN y ELSE f[z]]

-----------------------------------------------------------------------------
\* Which connection, which database, and what it takes

IsServer(driver) == driver \notin {"sqlite", "duckdb"}
UsesSsh(k) == IsServer(k.driver) /\ k.ssh # ""
EngineFor(driver) == IF driver \in {"mysql", "pgsql", "sqlite"} THEN driver ELSE None
Compresses(engine) == engine = "pgsql"
ToolIsInstalled(engine, e) == engine = "sqlite" \/ e.installed

\* --database names the database of a server, which must have one
Settled(k, c) == IF c.database # "" /\ IsServer(k.driver) THEN [k EXCEPT !.database = c.database] ELSE k
IsSettled(k) == ~IsServer(k.driver) \/ k.database # ""

\* Where a sync writes: --into, or the database the target names, or the source's
TargetOf(k, source, c) ==
  IF k.driver = "sqlite" THEN k
  ELSE [k EXCEPT !.database = IF c.into # "" THEN c.into ELSE IF @ # "" THEN @ ELSE source.database]

MayWriteTo(k, c, e) == ~k.readOnly /\ (~k.production \/ c.force \/ c.dryRun \/ e.yes)

DefaultPort(driver) == CASE driver = "pgsql" -> "5432" [] driver = "sqlsrv" -> "1433" [] OTHER -> "3306"
\* A mutant of PlaceOf: hosts and ports as they are written
PlaceAsWritten(k) == IF k.driver = "sqlite" THEN <<k.database>> ELSE <<k.host, k.port, k.ssh, k.database>>
HostOf(k) == IF k.host \in {"", "localhost", "127.0.0.1", "::1"} THEN "127.0.0.1" ELSE k.host
PlaceOf(k) ==
  IF k.driver = "sqlite" THEN <<k.database>>
  ELSE <<HostOf(k), IF k.port = "" THEN DefaultPort(k.driver) ELSE k.port, k.ssh, k.database>>
SamePlace(k, l) == k.driver = l.driver /\ PlaceOf(k) = PlaceOf(l)

\* No machine goes by two names among the connections, but for this one
MachinesApart ==
  \A name, other \in DOMAIN Connections :
    LET k == Connections[name] l == Connections[other] IN
    k.driver = l.driver /\ IsServer(k.driver) /\ Machine[k.host, k.ssh] = Machine[l.host, l.ssh] =>
      HostOf(k) = HostOf(l) /\ k.ssh = l.ssh

\* A MySQL server is asked for without its database, which the load creates
ServerOf(k) == IF k.driver = "mysql" THEN [k EXCEPT !.database = ""] ELSE k

\* The database a connection leads to, whatever it is called
Reached(k) ==
  IF k.driver = "sqlite" THEN <<k.driver, k.database>>
  ELSE <<k.driver, Machine[k.host, k.ssh], IF k.port = "" THEN DefaultPort(k.driver) ELSE k.port, k.database>>
Answers(k, e) == e.up /\ (k.database = "" \/ Reached(k) \in DOMAIN data)

Named(c, tables) == IF c.tables = {} THEN DOMAIN tables ELSE c.tables \cap DOMAIN tables
Estimate(k, c) ==
  LET tables == data[Reached(k)] IN MapThenSumSet(LAMBDA t : Len(tables[t]), Named(c, tables))
RoomFor(k, c, e) ==
  e.free >= IF Compresses(EngineFor(k.driver)) THEN Estimate(k, c) \div 3 ELSE Estimate(k, c)

-----------------------------------------------------------------------------
\* The secrets the tools read: files of one folder, gone when tql is
Writing(count, k) ==
  [secrets |-> count + (IF k.driver \in {"mysql", "pgsql"} THEN 1 ELSE 0), tunnel |-> UsesSsh(k)]

Forgotten(t) == [t EXCEPT !.secrets = 0, !.tunnel = FALSE]

\* A command says how it went, and its folders, tunnels and secrets go as it ends
Says(t, what) == [Forgotten(t) EXCEPT !.at = "ended", !.said = what]

Began(c) == [Rest EXCEPT !.c = c, !.before = data]

\* Dump::execute until its tool is started
DumpFolder(c) == IF c.path # "" THEN c.path ELSE "exports/dump"
Dump(c, e) ==
  LET k == Settled(Connections[c.from], c)
      path == DumpFolder(c)
      engine == EngineFor(k.driver)
      written == Writing(0, k)
      began == [Began(c) EXCEPT !.from = k, !.path = path, !.engine = engine]
      may == /\ IsSettled(k) /\ engine # None /\ ToolIsInstalled(engine, e)
             /\ path \in DOMAIN folders => folders[path].kind = "empty"
             /\ Answers(k, e)
             /\ engine = "sqlite" => c.tables = {} /\ ~c.dataOnly
  IN  /\ c.does = "dump"
      /\ tql' = IF may THEN [began EXCEPT !.at = "built", !.secrets = written.secrets, !.tunnel = written.tunnel]
                ELSE Says(began, "refused")

\* Sync::execute until its first tool is started
SyncFolder(c) == IF c.path # "" THEN c.path ELSE "exports/sync"
Sync(c, e) ==
  LET source == Settled(Connections[c.from], c)
      target == TargetOf(Connections[c.to], source, c)
      engine == EngineFor(source.driver)
      path == SyncFolder(c)
      out == Writing(0, source)
      both == Writing(out.secrets, target)
      began == [Began(c) EXCEPT !.from = source, !.to = target, !.path = path, !.engine = engine]
      may == /\ IsSettled(source) /\ engine # None /\ EngineFor(target.driver) = engine
             /\ ~SamePlace(source, target) /\ MayWriteTo(target, c, e) /\ ToolIsInstalled(engine, e)
             /\ Answers(source, e) /\ (engine = "sqlite" \/ Answers(ServerOf(target), e))
             /\ engine = "sqlite" => c.tables = {}
  IN  /\ c.does = "sync"
      /\ tql' = IF may THEN [began EXCEPT !.at = "built", !.secrets = both.secrets, !.tunnel = out.tunnel \/ both.tunnel]
                ELSE Says(began, "refused")

\* What a folder says it is, or what is in it
Recognise(folder) ==
  IF folder.manifest THEN folder.engine ELSE IF folder.marker THEN folder.engine ELSE None

\* Load::execute, for a folder or a file
MayLoad(k, c, e) == IsSettled(k) /\ MayWriteTo(k, c, e)

\* restore: a folder, until its tool is started
Restore(c, e) ==
  LET k == Settled(Connections[c.to], c)
      folder == folders[c.path]
      engine == EngineFor(k.driver)
      written == Writing(0, k)
      began == [Began(c) EXCEPT !.to = k, !.path = c.path, !.engine = engine]
      occupied == k.driver = "sqlite" /\ Reached(k) \in DOMAIN data
      may == /\ MayLoad(k, c, e)
             /\ engine # None /\ Recognise(folder) = engine /\ ToolIsInstalled(engine, e)
             /\ engine = "sqlite" \/ Answers(ServerOf(k), e)
             /\ ~occupied \/ c.drop
  IN  /\ c.does = "load" /\ c.path \in DOMAIN folders /\ folders[c.path].kind # "file"
      /\ tql' = IF may THEN [began EXCEPT !.at = "built", !.secrets = written.secrets, !.tunnel = written.tunnel]
                ELSE Says(began, "refused")

\* What follows the estimate of the room it takes: nothing, or the tool with the interrupt heard
Go(e) ==
  LET dumps == tql.c.does \in {"dump", "sync"} IN
  /\ tql.at = "built"
  /\ tql' = IF dumps /\ ~tql.c.force /\ ~RoomFor(tql.from, tql.c, e) THEN Says(tql, "refused")
            ELSE IF tql.c.dryRun THEN Says(tql, "would")
            ELSE [tql EXCEPT !.at = IF dumps THEN "dumping" ELSE "loading",
                             !.handler = tql.engine # "sqlite",
                             !.left = IF dumps THEN <<>> ELSE SetToSeq(DOMAIN folders[tql.path].tables)]
  /\ UNCHANGED <<data, folders>>

-----------------------------------------------------------------------------
\* run_job: the tool runs, and says whether it succeeded

\* The engine's tool copies from one moment; it may fail before or after the folder is its own
Whole(tables) == [kind |-> "dump", engine |-> tql.engine, tables |-> tables, dataOnly |-> tql.c.dataOnly,
                  marker |-> TRUE, manifest |-> FALSE, whole |-> TRUE]
Part(marker) == [Whole([t \in {} |-> <<>>]) EXCEPT !.marker = marker, !.whole = FALSE]
MayFill(path) == path \in DOMAIN folders => folders[path].kind = "empty" \/ tql.engine = "sqlite"
Put(path, folder) == folders' = With(folders, path, folder)
Gone(path) == folders' = [p \in DOMAIN folders \ {path} |-> folders[p]]

CopyOut ==
  LET tables == data[Reached(tql.from)] IN
  /\ tql.at = "dumping"
  /\ \/ /\ MayFill(tql.path)
        /\ Put(tql.path, Whole([t \in Named(tql.c, tables) |-> tables[t]]))
        /\ tql' = [tql EXCEPT !.at = "dumped", !.dumped = tables]
     \/ /\ tql' = [tql EXCEPT !.at = "dump failed"]
        /\ IF tql.path \in DOMAIN folders /\ folders[tql.path].kind # "empty" THEN UNCHANGED folders
           ELSE UNCHANGED folders \/ \E marker \in BOOLEAN : Put(tql.path, Part(marker))
  /\ UNCHANGED data

\* A table at a time: replaced when told to, refused when it is there, rows alone added to it
Place(k, t, rows) ==
  LET tables == IF Reached(k) \in DOMAIN data THEN data[Reached(k)] ELSE [u \in {} |-> <<>>] IN
  data' = With(data, Reached(k), With(tables, t, rows))
Holds(k, t) == Reached(k) \in DOMAIN data /\ t \in DOMAIN data[Reached(k)]
Drops == tql.c.does = "sync" \/ tql.c.drop

LoadTable ==
  LET t == Head(tql.left) folder == folders[tql.path] IN
  /\ tql.at = "loading" /\ tql.left # <<>> /\ tql.engine # "sqlite"
  /\ IF folder.dataOnly THEN Holds(tql.to, t) /\ Place(tql.to, t, data[Reached(tql.to)][t] \o folder.tables[t])
     ELSE (Drops \/ ~Holds(tql.to, t)) /\ Place(tql.to, t, folder.tables[t])
  /\ tql' = [tql EXCEPT !.left = Tail(@)]
  /\ UNCHANGED folders

\* SQLite's own backup replaces the file as one
LoadFile ==
  /\ tql.at = "loading" /\ tql.left # <<>> /\ tql.engine = "sqlite"
  /\ data' = With(data, Reached(tql.to), folders[tql.path].tables)
  /\ tql' = [tql EXCEPT !.left = <<>>]
  /\ UNCHANGED folders

LoadFails ==
  /\ tql.at = "loading" /\ tql.left # <<>>
  /\ tql' = [tql EXCEPT !.at = "load failed"]
  /\ UNCHANGED <<data, folders>>

-----------------------------------------------------------------------------
\* What the commands make of it

\* write_manifest, which may fail as any file may
WriteManifest == Put(tql.path, [folders[tql.path] EXCEPT !.manifest = TRUE])

\* A mutant of DumpEnds: what is in the folder is said to be a dump however its tool ended
DumpEndsAlways ==
  /\ tql.c.does = "dump" /\ tql.at \in {"dumped", "dump failed"} /\ tql.path \in DOMAIN folders
  /\ WriteManifest /\ tql' = Says(tql, "dumped") /\ UNCHANGED data

DumpEnds ==
  /\ tql.c.does = "dump"
  /\ \/ tql.at = "dumped" /\ WriteManifest /\ tql' = Says(tql, "dumped")
     \/ tql.at = "dumped" /\ tql' = Says(tql, "failed") /\ UNCHANGED folders
     \/ tql.at = "dump failed" /\ tql' = Says(tql, "incomplete") /\ UNCHANGED folders
  /\ UNCHANGED data

SyncDumped ==
  /\ tql.c.does = "sync"
  /\ \/ /\ tql.at = "dumped" /\ WriteManifest
        /\ tql' = [tql EXCEPT !.at = "loading", !.left = SetToSeq(DOMAIN folders[tql.path].tables)]
     \/ tql.at = "dumped" /\ tql' = Says(tql, "failed") /\ UNCHANGED folders
     \/ tql.at = "dump failed" /\ Gone(tql.path) /\ tql' = Says(tql, "not touched")
  /\ UNCHANGED data

SyncLoaded ==
  /\ tql.c.does = "sync"
  /\ \/ /\ tql.at = "loading" /\ tql.left = <<>> /\ tql' = Says(tql, "synced")
        /\ IF tql.c.keep THEN UNCHANGED folders ELSE Gone(tql.path)
     \/ tql.at = "load failed" /\ tql' = Says(tql, "failed") /\ UNCHANGED folders
  /\ UNCHANGED data

LoadEnds ==
  /\ tql.c.does = "load"
  /\ \/ tql.at = "loading" /\ tql.left = <<>> /\ tql' = Says(tql, "loaded")
     \/ tql.at = "load failed" /\ tql' = Says(tql, "failed")
  /\ UNCHANGED <<data, folders>>

\* An interrupt is heard once a tool has been started; before that it ends tql as it is
Interrupt ==
  /\ tql.at \in {"built", "dumping", "loading"}
  /\ tql' = IF tql.handler THEN Says(tql, "interrupted")
            ELSE [tql EXCEPT !.at = "ended", !.said = "interrupted", !.early = TRUE]
  /\ IF tql.at = "dumping" /\ tql.path \notin DOMAIN folders
     THEN UNCHANGED folders \/ \E marker \in BOOLEAN : Put(tql.path, Part(marker))
     ELSE UNCHANGED folders
  /\ UNCHANGED data

-----------------------------------------------------------------------------
\* Exported files (exporter.rs) and how they are read back (statements.rs)

BackslashDrivers == {"mysql", "clickhouse", "snowflake"}
Escaped(driver, c) ==
  CASE driver = "mysql" /\ c = "nl" -> <<"\\", "n">>
    [] driver = "mysql" /\ c = "\"" -> <<"\\", "\"">>
    [] driver \in BackslashDrivers /\ c \in {"'", "\\"} -> <<"\\", c>>
    [] driver \notin BackslashDrivers /\ c = "'" -> <<"'", "'">>
    [] OTHER -> <<c>>
Literal(driver, value) == <<"'">> \o FlattenSeq([i \in DOMAIN value |-> Escaped(driver, value[i])]) \o <<"'">>

\* So many rows a statement, the rest of them in the last
Flush(driver, t, rows) ==
  <<"insert", t>> \o FlattenSeq([i \in DOMAIN rows |-> Literal(driver, rows[i]) \o IF i < Len(rows) THEN <<",">> ELSE <<>>])
    \o <<";", "nl">>
WriteTable(driver, t, rows) ==
  FlattenSeq([i \in 1 .. (Len(rows) + PerStatement - 1) \div PerStatement |->
    Flush(driver, t, SubSeq(rows, (i - 1) * PerStatement + 1,
                            IF i * PerStatement < Len(rows) THEN i * PerStatement ELSE Len(rows)))])
Header(tables) == <<"-", "-">> \o tables \o <<"nl", "nl">>
Text(driver, tables, rows) ==
  Header(tables) \o FlattenSeq([i \in DOMAIN tables |-> <<"-", "-", tables[i], "nl">> \o WriteTable(driver, tables[i], rows[tables[i]])])

Trimmed(text) ==
  LET kept == {i \in DOMAIN text : text[i] # "nl"} IN IF kept = {} THEN <<>> ELSE SubSeq(text, Min(kept), Max(kept))
Taken(text) == IF Trimmed(text) = <<>> THEN <<>> ELSE <<Trimmed(text)>>

StatementReader(driver) ==
  [taken |-> <<>>, statement |-> <<>>, quote |-> "", escaped |-> FALSE, comment |-> FALSE, previous |-> "",
   backslashes |-> driver = "mysql"]
EndsComment(s, b) == [s EXCEPT !.comment = b # "nl", !.previous = b]
\* A mutant of InQuote: a backslash escapes in every database
InQuoteEscaping(s, b) ==
  [s EXCEPT !.statement = Append(@, b), !.quote = IF ~s.escaped /\ b = @ THEN "" ELSE @,
            !.escaped = ~@ /\ b = "\\", !.previous = b]
InQuote(s, b) ==
  [s EXCEPT !.statement = Append(@, b), !.quote = IF ~s.escaped /\ b = @ THEN "" ELSE @,
            !.escaped = ~@ /\ s.backslashes /\ b = "\\", !.previous = b]
StartsComment(s, b) == b = "-" /\ s.previous = "-" /\ s.statement # <<>> /\ Last(s.statement) = "-"
ReadByte(s, b) ==
  CASE s.comment -> EndsComment(s, b)
    [] s.quote # "" -> InQuote(s, b)
    [] StartsComment(s, b) -> [s EXCEPT !.statement = Front(@), !.comment = TRUE, !.previous = ""]
    [] b = ";" -> [s EXCEPT !.previous = b, !.taken = @ \o Taken(s.statement), !.statement = <<>>]
    [] OTHER -> [s EXCEPT !.statement = Append(@, b), !.quote = IF b \in {"'", "\"", "backtick"} THEN b ELSE @, !.previous = b]
Statements(driver, text) ==
  LET s == FoldLeft(ReadByte, StatementReader(driver), text) IN s.taken \o Taken(s.statement)

\* What the server makes of a statement: the rows it inserts, none when it is not one statement
ServerReads(driver, text) ==
  LET Read(s, c) ==
        CASE s.inside /\ s.escaped -> [s EXCEPT !.value = Append(@, IF c = "n" THEN "nl" ELSE c), !.escaped = FALSE]
          [] s.inside /\ c = "\\" /\ driver \in BackslashDrivers -> [s EXCEPT !.escaped = TRUE]
          [] s.inside /\ c = "'" -> [s EXCEPT !.inside = FALSE, !.closed = TRUE]
          [] s.inside -> [s EXCEPT !.value = Append(@, c)]
          [] c = "'" /\ s.closed -> [s EXCEPT !.inside = TRUE, !.closed = FALSE, !.value = Append(@, "'")]
          [] c = "'" -> [s EXCEPT !.inside = TRUE]
          [] c = "," /\ s.closed -> [s EXCEPT !.rows = Append(@, s.value), !.value = <<>>, !.closed = FALSE]
          [] OTHER -> [s EXCEPT !.bad = TRUE]
      s == FoldLeft(Read, [rows |-> <<>>, value |-> <<>>, inside |-> FALSE, escaped |-> FALSE, closed |-> FALSE, bad |-> FALSE],
                    SubSeq(text, 3, Len(text)))
  IN  IF text[1] # "insert" \/ s.bad \/ ~s.closed THEN [into |-> None, rows |-> <<>>]
      ELSE [into |-> text[2], rows |-> Append(s.rows, s.value)]

\* --database, which a file has none of; a server that names none must be given one
ExportFrom(c) == IF c.database # "" THEN [Connections[c.from] EXCEPT !.database = c.database] ELSE Connections[c.from]
IsNamed(k, c) == (k.driver = "sqlite" => c.database = "") /\ k.database # ""

\* `tql export`, to a file that says what is in it
Export(c, e) ==
  LET k == ExportFrom(c)
      tables == SetToSeq(Named(c, data[Reached(k)]))
      rows == data[Reached(k)]
      began == [Began(c) EXCEPT !.from = k, !.path = c.path]
  IN  /\ c.does = "export"
      /\ IF /\ IsNamed(k, c) /\ Answers(k, e)
            /\ c.tables \subseteq DOMAIN rows /\ tables # <<>>
         THEN /\ tql' = Says(began, "exported")
              /\ Put(c.path, [kind |-> "file", driver |-> k.driver, text |-> Text(k.driver, tables, rows), rows |-> rows,
                              tables |-> Range(tables)])
         ELSE tql' = Says(began, "refused") /\ UNCHANGED folders

\* replay: a file, in one transaction where there are transactions
Atomic(k) == k.driver \notin {"clickhouse", "snowflake"}
Replay(c, e) ==
  LET k == Settled(Connections[c.to], c)
      began == [Began(c) EXCEPT !.to = k, !.path = c.path]
      may == MayLoad(k, c, e) /\ ~c.drop /\ Answers(k, e)
  IN  /\ c.does = "load" /\ c.path \in DOMAIN folders /\ folders[c.path].kind = "file"
      /\ tql' = IF ~may THEN Says(began, "refused")
                ELSE IF c.dryRun THEN Says(began, "would")
                ELSE [began EXCEPT !.at = "replaying", !.left = Statements(k.driver, folders[c.path].text),
                                   !.open = data[Reached(k)], !.tunnel = UsesSsh(k)]

Insert(tables, read) == [tables EXCEPT ![read.into] = @ \o read.rows]
RunStatement ==
  LET place == Reached(tql.to) read == ServerReads(tql.to.driver, Head(tql.left)) IN
  /\ tql.at = "replaying" /\ tql.left # <<>> /\ read.into \in DOMAIN tql.open
  /\ tql' = [tql EXCEPT !.left = Tail(@), !.ran = @ + 1, !.open = IF Atomic(tql.to) THEN Insert(@, read) ELSE @]
  /\ IF Atomic(tql.to) THEN UNCHANGED data ELSE data' = [data EXCEPT ![place] = Insert(@, read)]
  /\ UNCHANGED folders

\* What a transaction added is there for others once it is committed
Committed(place) ==
  [data EXCEPT ![place] = [t \in DOMAIN @ |-> @[t] \o SubSeq(tql.open[t], Len(tql.before[place][t]) + 1, Len(tql.open[t]))]]
FinishReplay ==
  /\ tql.at = "replaying" /\ tql.left = <<>>
  /\ \/ tql' = Says(tql, "loaded") /\ data' = IF Atomic(tql.to) THEN Committed(Reached(tql.to)) ELSE data
     \/ /\ Atomic(tql.to) /\ tql' = [Says(tql, "nothing") EXCEPT !.unanswered = TRUE]
        /\ data' = Committed(Reached(tql.to))
  /\ UNCHANGED folders

\* A statement is refused, or the connection is lost and with it the transaction
ReplayFails ==
  /\ tql.at = "replaying"
  /\ tql' = Says(tql, IF Atomic(tql.to) THEN "nothing" ELSE "some")
  /\ UNCHANGED <<data, folders>>

-----------------------------------------------------------------------------
Chances == [up : BOOLEAN, installed : BOOLEAN, yes : BOOLEAN]

Start ==
  \E c \in Commands, e \in Chances :
    /\ tql.at = "rest" /\ steps.commands < MaxCommands /\ steps' = [steps EXCEPT !.commands = @ + 1]
    /\ \/ Export(c, e)
       \/ /\ Dump(c, e) \/ Sync(c, e) \/ Restore(c, e) \/ Replay(c, e)
             \/ (c.does = "load" /\ c.path \notin DOMAIN folders /\ tql' = Says(Began(c), "refused"))
          /\ UNCHANGED folders
    /\ UNCHANGED data

End == tql.at = "ended" /\ tql' = Rest /\ UNCHANGED <<data, folders>>

\* Another program inserts a row where the command under way reads or writes
OtherWrites ==
  /\ steps.others < MaxOthers /\ steps' = [steps EXCEPT !.others = @ + 1]
  /\ \E place \in {Reached(k) : k \in {tql.from, tql.to} \ {NoConnection}} \cap DOMAIN data : \E t \in DOMAIN data[place] : data' = [data EXCEPT ![place][t] = Append(@, OtherRow)]
  /\ UNCHANGED <<folders, tql>>

Next ==
  \/ Start \/ OtherWrites
  \/ /\ \/ \E free \in {0, 9} : Go([free |-> free])
        \/ CopyOut \/ LoadTable \/ LoadFile \/ LoadFails \/ DumpEnds \/ SyncDumped \/ SyncLoaded \/ LoadEnds
        \/ RunStatement \/ FinishReplay \/ ReplayFails \/ Interrupt \/ End
     /\ UNCHANGED steps

Spec == Init /\ [][Next]_dumpVars

-----------------------------------------------------------------------------
Own(d, place, t) ==
  IF place \in DOMAIN d /\ t \in DOMAIN d[place] THEN SelectSeq(d[place][t], LAMBDA row : row # OtherRow) ELSE <<<<None>>>>
Tables == UNION {DOMAIN data[place] : place \in DOMAIN data}
SameBut(tables, place) == \A t \in Tables \ tables : Own(data, place, t) = Own(tql.before, place, t)
Same(place) == SameBut({}, place)
Target == IF tql.to = NoConnection THEN <<>> ELSE Reached(tql.to)

\* A command writes to the database it was told to and to no other, not when it says it wrote
\* nothing, and without --drop it loses nothing that was there
WritesWhereTold ==
  tql.at # "rest" =>
    /\ \A place \in DOMAIN data : place # Target => Same(place)
    /\ tql.to # NoConnection /\ tql.to.readOnly => Same(Target)
    /\ tql.c.does = "sync" /\ tql.said # "refused" => Reached(tql.from) # Target
    /\ tql.said \in {"refused", "would", "not touched"} \/ (tql.said = "nothing" /\ ~tql.unanswered) =>
         \A place \in DOMAIN data : Same(place)
    /\ tql.c.does = "load" /\ ~tql.c.drop =>
         \A t \in Tables : Own(tql.before, Target, t) # <<<<None>>>> => IsPrefix(Own(tql.before, Target, t), Own(data, Target, t))

\* What a sync or a load says it brought is there, all of it
LoadsAll ==
  /\ tql.said = "synced" =>
       LET named == Named(tql.c, tql.dumped) IN
       /\ \A t \in named : Own(data, Target, t) = Own(tql.before, Reached(tql.from), t)
       /\ SameBut(named, Target)
  /\ tql.said = "loaded" /\ folders[tql.path].kind = "dump" =>
       LET folder == folders[tql.path] IN
       /\ \A t \in DOMAIN folder.tables :
            LET rows == SelectSeq(folder.tables[t], LAMBDA row : row # OtherRow) IN
            Own(data, Target, t) = IF folder.dataOnly THEN Own(tql.before, Target, t) \o rows ELSE rows
       /\ SameBut(DOMAIN folder.tables, Target) \/ tql.engine = "sqlite"
  /\ tql.said = "loaded" /\ folders[tql.path].kind = "file" /\ folders[tql.path].driver = tql.to.driver =>
       LET file == folders[tql.path] IN
       \A t \in file.tables :
         Own(data, Target, t) = Own(tql.before, Target, t) \o SelectSeq(file.rows[t], LAMBDA row : row # OtherRow)

\* A folder with a manifest is a whole dump
ManifestsAreTrue ==
  \A path \in DOMAIN folders : folders[path].kind = "dump" /\ folders[path].manifest => folders[path].whole
DumpedAll ==
  tql.said = "dumped" =>
    LET folder == folders[tql.path] IN
    /\ Recognise(folder) = tql.engine
    /\ DOMAIN folder.tables = Named(tql.c, tql.dumped)
    /\ \A t \in DOMAIN folder.tables :
         SelectSeq(folder.tables[t], LAMBDA row : row # OtherRow) = Own(tql.before, Reached(tql.from), t)

\* What an export wrote is read back as the statements it is made of
FilesAreRead ==
  tql.at = "replaying" /\ folders[tql.path].driver = tql.to.driver =>
    \A i \in DOMAIN tql.left : ServerReads(tql.to.driver, tql.left[i]).into \in folders[tql.path].tables

\* The files of secrets and the tunnels are gone with tql, an interrupt included once a tool runs
NothingLeft == tql.at = "ended" /\ ~tql.early => tql.secrets = 0 /\ ~tql.tunnel

\* Only a load or the second half of a sync writes, to the database it was told to, if that may
\* be written to and this is no dry run
WriteStep ==
  steps' = steps /\ data' # data =>
    /\ tql.at \in {"loading", "replaying"} /\ ~tql.to.readOnly /\ ~tql.c.dryRun
    /\ \A place \in DOMAIN data : place \in DOMAIN data' /\ (place # Target => data'[place] = data[place])
    /\ DOMAIN data' \subseteq DOMAIN data \cup {Target}

DumpsAreTrue == WritesWhereTold /\ LoadsAll /\ ManifestsAreTrue /\ DumpedAll /\ FilesAreRead /\ NothingLeft
=============================================================================
