------------------------------ MODULE MCParts ------------------------------
(***************************************************************************)
(* The parts of tql that work with servers, files and other processes, each *)
(* on a small instance and on its own: `which` names the part that runs,    *)
(* and v1 to v6 are its variables.                                          *)
(***************************************************************************)
EXTENDS Naturals, Sequences, TLC

VARIABLES which, v1, v2, v3, v4, v5, v6

vars == <<which, v1, v2, v3, v4, v5, v6>>

KeysOf ==
  [shop |-> 1, bank |-> 2]
PortsBehind ==
  [shop |-> 3306, bank |-> 5432]
Tunnels == INSTANCE Tunnel WITH
  Connections <- {"shop", "bank"}, KeyOf <- KeysOf, Behind <- PortsBehind,
  Workers <- {"main", "keys"}, Ports <- {1, 2}, MaxTunnels <- 2, FailsQuickly <- TRUE,
  NoTunnel <- 0, Other <- 99,
  kept <- v1, ssh <- v2, listener <- v3, worker <- v4, process <- v5
ASSUME TunnelsFit == Tunnels!ConstantsFit /\ Tunnels!KeysTellApart

Stores == INSTANCE Store WITH
  Procs <- {"p", "q"}, Migrations <- <<"connections", "ssh", "group">>,
  InSchema <- <<"connections", "ssh", "group">>, Skipping <- {"group"},
  MaxStarts <- 4, MayCrash <- TRUE, CrashCreating <- FALSE,
  store <- v1, key <- v2, secrets <- v3, proc <- v4, starts <- v5, raced <- v6
ASSUME StoresFit == Stores!SchemaFits /\ Stores!CreatedFirst /\ Stores!KeysFit

FirstItems == [kind \in {"string", "hash", "list", "set", "zset"} |->
  CASE kind = "string" -> <<<<"a", "a">>>>
    [] kind = "list" -> <<<<"0", "a">>, <<"1", "b">>>>
    [] OTHER -> <<<<"a", "a">>, <<"b", "b">>>>]

KeyValues == INSTANCE KeyEdits WITH
  Keys <- {"k", "n"}, Kinds <- DOMAIN FirstItems, Words <- {"a", "c"}, First <- "k", StartingWith <- FirstItems,
  MaxPending <- 2, MaxOthers <- 1, MaxWrites <- 1, MayBreak <- TRUE,
  server <- v1, shown <- v2, pending <- v3, writing <- v4, others <- v5, asked <- v6
ASSUME ValuesFit == KeyValues!FirstFits

KeyTrees == INSTANCE KeyList WITH
  Databases <- {0, 1}, First <- 1, Tree <- <<"a", "u", "u1">>, Space <- [a |-> "", u1 |-> "u"],
  Patterns <- [u |-> {"u1"}], Limit <- 2, FoldedOver <- 1, MaxScans <- 2, MaxOthers <- 1,
  MayFailToFork <- FALSE,
  server <- v1, conn <- v2, tql <- v3, scans <- v4, others <- v5
ASSUME KeyListsFit == KeyTrees!KeysFit

DriverKinds == INSTANCE Drivers WITH
  Kinds <- {"mysql", "postgres", "sqlserver", "clickhouse", "snowflake"},
  Databases <- {"shop", "bank"}, Saved <- "shop",
  MaxStatements <- 2, MaxBreaks <- 2, MaxUses <- 1, MaxOthers <- 1,
  link <- v1, tql <- v2, doing <- v3, ran <- v4, bounds <- v5
ASSUME DriversFit == DriverKinds!ConstantsFit

\* A tql that sends two requests at once, and two that share what is kept of a session
Signed == INSTANCE SnowflakeSession WITH
  Tqls <- {"p"}, Threads <- [p |-> {1, 2}], Databases <- {"shop", "bank"}, First <- "shop",
  MaxTokens <- 3, MaxAsks <- 2, MaxUses <- 1,
  tokens <- v1, places <- v2, saved <- v3, tql <- v4, asking <- v5, past <- v6

SignedTwice == INSTANCE SnowflakeSession WITH
  Tqls <- {"p", "q"}, Threads <- [t \in {"p", "q"} |-> {1}], Databases <- {"shop", "bank"}, First <- "shop",
  MaxTokens <- 2, MaxAsks <- 2, MaxUses <- 0,
  tokens <- v1, places <- v2, saved <- v3, tql <- v4, asking <- v5, past <- v6
ASSUME SessionsFit == Signed!DatabasesFit /\ SignedTwice!DatabasesFit

\* What was saved for a role the connection no longer has, and one that signs in by SSO
Rowed(kind, role, of, refresh) == [kind |-> kind, base |-> "acme", role |-> role, signIn |-> [of |-> of, refresh |-> refresh, by |-> "nobody"]]
Signs == INSTANCE SignIns WITH
  Tqls <- {"p", "q"}, Main <- "ui", Threads <- [p |-> {"ui", "other"}, q |-> {"ui"}],
  Connections <- [shop |-> Rowed("oauth", "analyst", <<"acme", "ADMIN">>, 1), bank |-> Rowed("sso", "admin", <<>>, 0)],
  Granted <- <<<<"acme", "ADMIN">>>>, Roles <- {"analyst", "admin"}, Scoped <- [analyst |-> "ANALYST", admin |-> "ADMIN"],
  Ports <- {1}, MaxGrants <- 3, MaxAttempts <- 2, MaxCalls <- 2,
  grants <- v1, attempts <- v2, rows <- v3, tql <- v4, work <- v5, calls <- v6
ASSUME SignInsFit == Signs!GrantsFit

\* Statements that read, write, only seem to read, call what writes, or end the transaction they are in
AgentStatement(reads, several, words, writes, ends) ==
  [reads |-> reads, several |-> several, words |-> words, writes |-> writes, ends |-> ends]
SqlDrivers == {"mysql", "pgsql", "sqlite", "clickhouse", "libsql", "duckdb", "sqlsrv", "snowflake"}
AgentStatements ==
  [select |-> AgentStatement(TRUE, FALSE, {}, {}, {}), update |-> AgentStatement(FALSE, FALSE, {"writing"}, SqlDrivers, {}),
   with |-> AgentStatement(TRUE, FALSE, {"writing"}, SqlDrivers \ {"clickhouse"}, {}),
   two |-> AgentStatement(TRUE, TRUE, {"writing", "control"}, SqlDrivers, SqlDrivers),
   calls |-> AgentStatement(TRUE, FALSE, {}, {"mysql", "pgsql", "duckdb", "sqlsrv"}, {}),
   commits |-> AgentStatement(TRUE, FALSE, {"control"}, {"sqlsrv"}, {"sqlsrv"})]
AgentLine(id, method) ==
  [is |-> "message", id |-> id, method |-> method, version |-> "unsaid", tool |-> "none", name |-> "none",
   statement |-> "none", cursor |-> 0, valid |-> TRUE, perPage |-> <<>>]
AgentCall(id, tool) == [AgentLine(id, "tools/call") EXCEPT !.tool = tool]
AgentQuery(id, name, s) == [AgentCall(id, "run-query-tool") EXCEPT !.name = name, !.statement = s]
AgentLines ==
  {[is |-> "blank"], [is |-> "garbage"], AgentLine(0, "ping"), AgentLine(7, "initialize"), AgentLine(8, "other"),
   [AgentCall(9, "list-tables-tool") EXCEPT !.version = "missing"], AgentCall(9, "other"), AgentCall(9, "list-tables-tool"),
   AgentQuery(0, "mysql", "with"), AgentQuery(3, "pgsql", "select"), AgentQuery(4, "mysql", "calls")}
AgentLists == {[AgentLine(9, "tools/list") EXCEPT !.valid = FALSE], [AgentLine(9, "tools/list") EXCEPT !.perPage = <<0>>], AgentLine(9, "tools/list")}
AgentKit(names, lines, most, others) ==
  [first |-> [d \in names |-> [id |-> IF d = "mysql" THEN 1 ELSE 2, driver |-> d]], lines |-> lines, most |-> most, others |-> others]
Agents == INSTANCE Mcp WITH
  Kits <- {AgentKit(SqlDrivers \cup {"redis"}, {AgentQuery(4, c, s) : c \in SqlDrivers \cup {"redis"}, s \in DOMAIN AgentStatements}, 1, 0),
           AgentKit({"mysql", "pgsql"}, AgentLines, 2, 1), AgentKit({}, AgentLists, 4, 0)},
  Statements <- AgentStatements, Tools <- <<"list-tables-tool", "run-query-tool", "write-sql-tool", "read-screen-tool">>,
  PerPage <- 2, MostPerPage <- 3, Pages <- {<<>>, <<0>>, <<9>>},
  sent <- v1, doing <- v2, out <- v3, saved <- v4, past <- v5
ASSUME AgentsFit == Agents!StatementsFit /\ Agents!KitsFit /\ Agents!PagesFit

Loops == INSTANCE EventLoop WITH
  Events <- {"escape", "char", "paste", "release"}, MaxEvents <- 3, MaxWork <- 1,
  came <- v1, loop <- v2, app <- v3, screen <- v4

Object(db, schema, name, sort, key, link) ==
  [db |-> db, schema |-> schema, name |-> name, sort |-> sort, key |-> key, link |-> link]

Listed ==
  {Object("shop", "usual", "t", "table", <<"id">>, "none"),
              Object("shop", "other", "t", "table", <<"k">>, "none"),
              Object("shop", "usual", "v", "view", <<>>, "none"),
              Object("shop", "other", "u", "table", <<"a", "b">>, "t"),
              Object("bank", "usual", "t", "table", <<"n">>, "none"),
              Object("bank", "other", "t", "view", <<>>, "none"),
              Object("shop", "usual", "t", "temporary", <<>>, "none")}
Catalogs == INSTANCE Catalog WITH
  Kinds <- {"mysql", "postgres", "sqlserver", "clickhouse", "snowflake", "sqlite", "libsql", "duckdb"},
  Objects <- Listed,
  Saved <- "shop", Usual <- "usual", MaxSteps <- 4,
  server <- v1, driver <- v2, browser <- v3, steps <- v4, turned <- v5
ASSUME CatalogsFit == Catalogs!ObjectsFit

Table(kind, keyed, repeats, rough, loads, writes) ==
  [kind |-> kind, keyed |-> keyed, repeats |-> repeats, rough |-> rough, loads |-> loads, writes |-> writes]

Tables ==
  {Table("mysql", TRUE, FALSE, FALSE, 2, 2), Table("postgres", FALSE, FALSE, FALSE, 2, 1),
   Table("sqlserver", TRUE, FALSE, FALSE, 2, 1), Table("sqlite", TRUE, FALSE, FALSE, 1, 2),
   Table("libsql", TRUE, FALSE, FALSE, 1, 1), Table("duckdb", FALSE, FALSE, FALSE, 1, 1),
   Table("clickhouse", TRUE, TRUE, FALSE, 3, 1), Table("clickhouse", FALSE, TRUE, TRUE, 1, 2),
   Table("snowflake", TRUE, TRUE, FALSE, 2, 1), Table("snowflake", FALSE, TRUE, FALSE, 1, 2)}
TableRows == INSTANCE Rows WITH
  Drivers <- Tables,
  Page <- 1, Past <- 2, Values <- {1, 3},
  table <- v1, driver <- v2, browser <- v3, export <- v4, past <- v5
ASSUME RowsFit == TableRows!TablesFit

\* Lines, words, brackets and quotes, and commands of every kind, some left half-way
Texts ==
  {<<"a", " ", "(", "b", ")">>, <<"a", "nl", " ", "b">>, <<"'", "a", "'", " ">>, <<>>}
VimCommands ==
  {
    <<"x">>, <<"D">>, <<"d", "w">>, <<"d", "d">>, <<"2", "d", "d">>, <<"d", "$">>, <<"d", "i", "(">>,
    <<"d", "a", "w">>, <<"d", "a", "p">>, <<"d", "j">>, <<"d", "b">>, <<"d", ";">>, <<"d">>, <<"2">>,
    <<"c", "w", "B", "Escape">>, <<"c", "c", "a", "Escape">>, <<"c", "i", "'", "Escape">>,
    <<"s", "Tab", "Escape">>, <<"S", "Escape">>, <<"y", "y">>, <<"y", "e">>, <<"p">>, <<"P">>, <<"2", "p">>,
    <<"J">>, <<"~">>, <<">", ">">>, <<"<", "<">>, <<"r", "B">>, <<"u">>, <<"Ctrl-r">>, <<".">>, <<"2", ".">>,
    <<"i", "b", "Escape">>, <<"o", "a">>, <<"O", "Escape">>, <<"A", "Enter", "a", "Ctrl-w", "Escape">>,
    <<"i", "Left", "a", "Escape">>, <<"v", "l", "d">>, <<"V", "j", "y">>, <<"v">>, <<"o">>, <<"l">>, <<"j">>,
    <<"f", "a">>, <<",">>, <<"%">>, <<"}">>, <<"{">>, <<"g", "g">>, <<"G">>, <<"Escape">>}
Editors == INSTANCE Vim WITH
  Starts <- Texts,
  Commands <- VimCommands,
  PlainKeys <- {"a", " ", "Enter", "Backspace", "Left", "Tab", "BackTab", "Ctrl-z", "Ctrl-y", "Escape"},
  Words <- {<<"b">>, <<"a", "nl">>}, MaxSteps <- 2,
  sql <- v1, past <- v2

\* Three connections, one behind a hop and one whose secret another key encrypts
FormRows ==
  <<[name |-> "shop", driver |-> "mysql", host |-> "db", port |-> "3306", database |-> "shop", username |-> "me",
     password |-> <<"k1", "pw">>, ssh_host |-> "hop", group_name |-> "west", last_used_at |-> "2"],
    [name |-> "bank", driver |-> "snowflake", host |-> "acme", database |-> "bank", sign_in |-> "kept",
     username |-> "me", password |-> <<"k0", "pat">>, group_name |-> "east", last_used_at |-> "1"],
    [name |-> "notes", driver |-> "sqlite", database |-> "/notes"]>>
FormWords ==
  <<"", "1", "2", "127.0.0.1", "3306", "/", "/new", "/notes", "/shop", "acme", "acme (2)", "bank", "bank (2)",
    "db", "db (2)", "east", "localhost", "new", "new (2)", "notes", "notes (2)", "shop", "west">>
FormRank == [w \in {FormWords[i] : i \in DOMAIN FormWords} |-> CHOOSE i \in DOMAIN FormWords : FormWords[i] = w]
FormPaths == [w \in DOMAIN FormRank |-> IF w \in {"notes", "new"} THEN "/" \o w ELSE w]
FormCommands ==
  {<<"e">>, <<"n">>, <<"d">>, <<":w">>, <<" ">>, <<"Left">>, <<"Down">>, <<"Down", "Down">>, <<"Enter">>, <<"q">>,
   <<"Y">>, <<":sign out">>, <<"Ctrl-p", "notes", "Enter">>, <<"Ctrl-s">>, <<"Enter", "new", "Enter">>, <<"Right">>,
   <<"west", "Enter">>, <<"Up", "Enter", "shop", "Enter">>, <<"Down", "Down", "Down", "Right">>,
   <<"Down", "Down", "Down", "Down", "Down", "Enter", "shop", "Ctrl-s">>,
   <<"n", "Right", "Down", "Enter", "new", "Enter", "Down", "Enter", "new", "Ctrl-s">>,
   <<"e", "Enter", "new", "Ctrl-s">>}
FormTargets ==
  {[name |-> "db", driver |-> "mysql", host |-> "db", port |-> "3306", username |-> "me", password |-> "pw2"],
   [name |-> "bank", driver |-> "snowflake", host |-> "acme", role |-> "new", password |-> "pw2"],
   [name |-> "notes", driver |-> "duckdb", database |-> "/notes"]}
Pickers == INSTANCE Picker WITH
  Rows <- FormRows, Rank <- FormRank, Resolved <- FormPaths,
  Numerals <- {"3306", "8123", "8443", "5432", "1433", "6379"},
  Commands <- FormCommands, Targets <- FormTargets, MaxSteps <- 3, MaxOthers <- 1,
  store <- v1, tql <- v2, steps <- v3

\* Servers near and far, one of them under two names, and files
DumpConnection(driver, host, port, ssh, database) ==
  [driver |-> driver, host |-> host, port |-> port, ssh |-> ssh, database |-> database, readOnly |-> FALSE, production |-> FALSE]
DumpConnections ==
  [shop |-> DumpConnection("mysql", "db", "", "hop", "s"), here |-> DumpConnection("mysql", "localhost", "3306", "", ""),
   copy |-> [DumpConnection("mysql", "127.0.0.1", "", "", "s") EXCEPT !.production = TRUE],
   pg |-> DumpConnection("pgsql", "", "", "", "p"), kept |-> [DumpConnection("pgsql", "", "5432", "", "k") EXCEPT !.readOnly = TRUE],
   notes |-> DumpConnection("sqlite", "", "", "", "/notes"), file |-> DumpConnection("sqlite", "", "", "", "/file"),
   click |-> DumpConnection("clickhouse", "", "", "", "c")]
DumpMachine == [p \in {"db", "localhost", "127.0.0.1", ""} \X {"", "hop"} |-> IF p = <<"db", "hop">> THEN "far" ELSE "near"]
DumpData ==
  (<<"mysql", "far", "3306", "s">> :> [t |-> <<<<"'", ";">>, <<"\\", "'", "nl">>, <<"-", "-", "a">>>>, u |-> <<<<"\"">>>>]) @@
  (<<"mysql", "near", "3306", "s">> :> [t |-> <<<<"b">>>>, u |-> <<>>]) @@
  (<<"pgsql", "near", "5432", "p">> :> [t |-> <<<<"'", "'", "\\">>, <<";", "nl", "'">>>>]) @@
  (<<"pgsql", "near", "5432", "k">> :> [t |-> <<<<"b">>>>]) @@
  (<<"sqlite", "/notes">> :> [t |-> <<<<"a">>>>]) @@
  (<<"clickhouse", "near", "3306", "c">> :> [t |-> <<<<"\\">>, <<";">>>>])
DumpCommand(does, from, to, path) ==
  [does |-> does, from |-> from, to |-> to, path |-> path, tables |-> {}, database |-> "", into |-> "",
   drop |-> FALSE, keep |-> FALSE, force |-> FALSE, dryRun |-> FALSE, dataOnly |-> FALSE]
DumpCommands ==
  {DumpCommand("dump", "shop", "", "d"), [DumpCommand("dump", "shop", "", "") EXCEPT !.tables = {"t"}],
   [DumpCommand("dump", "here", "", "d") EXCEPT !.database = "s", !.dataOnly = TRUE],
   DumpCommand("dump", "pg", "", "d"), DumpCommand("dump", "notes", "", "d"), DumpCommand("dump", "notes", "", "full"),
   [DumpCommand("dump", "notes", "", "d") EXCEPT !.tables = {"t"}],
   DumpCommand("load", "", "here", "d"), [DumpCommand("load", "", "here", "d") EXCEPT !.database = "n"],
   [DumpCommand("load", "", "copy", "d") EXCEPT !.drop = TRUE], DumpCommand("load", "", "copy", "d"),
   DumpCommand("load", "", "kept", "d"), [DumpCommand("load", "", "pg", "d") EXCEPT !.drop = TRUE],
   DumpCommand("load", "", "file", "d"), DumpCommand("load", "", "notes", "d"), DumpCommand("load", "", "copy", "out.sql"),
   DumpCommand("load", "", "pg", "out.sql"), DumpCommand("load", "", "click", "out.sql"),
   DumpCommand("sync", "shop", "copy", ""), [DumpCommand("sync", "shop", "here", "") EXCEPT !.into = "n", !.tables = {"t"}, !.keep = TRUE],
   [DumpCommand("sync", "here", "copy", "") EXCEPT !.database = "s", !.force = TRUE],
   [DumpCommand("sync", "pg", "kept", "") EXCEPT !.dryRun = TRUE], DumpCommand("sync", "notes", "file", "full"),
   [DumpCommand("sync", "copy", "here", "") EXCEPT !.into = "s2", !.dryRun = TRUE],
   DumpCommand("export", "shop", "", "out.sql"), [DumpCommand("export", "shop", "", "out.sql") EXCEPT !.tables = {"t"}],
   DumpCommand("export", "pg", "", "out.sql"), DumpCommand("export", "here", "", "out.sql"), DumpCommand("export", "click", "", "out.sql")}
DumpFolders ==
  "full" :> [kind |-> "other", engine |-> "none", tables |-> [t \in {} |-> <<>>], dataOnly |-> FALSE, marker |-> FALSE,
             manifest |-> FALSE, whole |-> FALSE]
Copies == INSTANCE Dumps WITH
  Connections <- DumpConnections, Machine <- DumpMachine, Data <- DumpData, Folders <- DumpFolders,
  Commands <- DumpCommands, PerStatement <- 2, OtherRow <- <<"o">>, MaxCommands <- 2, MaxOthers <- 1,
  data <- v1, folders <- v2, tql <- v3, steps <- v4
ASSUME DumpsFit == Copies!DumpsFit /\ Copies!MachinesApart

\* A query on its own, one in a fence, drafts in the reasoning, nothing to run, and errors
Shown(query, explanation, notes) ==
  [o |-> [query |-> [s |-> query], explanation |-> [s |-> explanation], notes |-> [s |-> notes]]]
Plain == Shown(<<"select", "nl", "1", "/*", "x", "*/">>, <<"a", " ", "b", "c", " ", "nl", "d">>, <<>>)
Draft == Shown(<<"select", "2">>, <<>>, <<"a", "b", "c", "d">>)
Refusing == Shown(<<>>, <<>>, <<"no">>)
Word(w) == [w |-> w]
Said(tokens) == [o |-> [type |-> [s |-> "text"], text |-> [s |-> tokens]]]
Thought(tokens) == [o |-> [type |-> [s |-> "thinking"], thinking |-> [s |-> tokens], text |-> [s |-> tokens]]]
Failing(message) == [o |-> [type |-> [s |-> "error"], error |-> [o |-> [message |-> [s |-> message]]], status |-> [s |-> "failed"]]]
List(items) == [a |-> items]
Ok(fields) == [status |-> 200, body |-> [o |-> fields]]
ChatReply(content) == Ok([choices |-> List(<<[o |-> [message |-> [o |-> [content |-> content]]]]>>)])
Answers ==
  [Anthropic |-> {Ok([content |-> List(<<Thought(<<Draft>>), Said(<<Plain>>)>>)]), [status |-> 400, body |-> Failing(<<"billing">>)],
                  [status |-> 200, body |-> Failing(<<"no">>)]},
   Responses |-> {Ok([output |-> List(<<[o |-> [type |-> [s |-> "reasoning"], summary |-> List(<<Said(<<Draft>>)>>)]],
                                       [o |-> [type |-> [s |-> "message"], content |-> List(<<Said(<<Word("so"), Plain>>)>>)]]>>)]),
                  Ok([output |-> List(<<[o |-> [type |-> [s |-> "refusal"], content |-> List(<<Said(<<Plain>>)>>)]]>>)])},
   Gemini |-> {Ok([steps |-> List(<<[o |-> [type |-> [s |-> "thought"], summary |-> List(<<Said(<<Word("hm")>>)>>)]],
                                    [o |-> [type |-> [s |-> "model_output"], content |-> List(<<Said(<<Plain>>)>>)]]>>)]),
               Ok([status |-> [s |-> "failed"]])},
   Chat |-> {ChatReply([s |-> <<Word("so"), Word("fence json"), Plain, Word("fence")>>]), ChatReply(List(<<Thought(<<Draft>>), Said(<<Word("so")>>)>>)),
             ChatReply([s |-> <<Refusing>>]), [status |-> 503, body |-> [null |-> TRUE]]},
   JsonObject |-> {ChatReply([s |-> <<Plain>>])},
   Ollama |-> {Ok([message |-> [o |-> [content |-> [s |-> <<Plain>>], thinking |-> [s |-> <<Draft>>]]]]), Ok([error |-> [s |-> <<"no model">>]])}]
Setup(provider, url, env) ==
  [provider |-> provider, model |-> "", url |-> url, key |-> "", env |-> env, tables |-> <<"s", "t", "u">>, focus |-> "u"]
OneKey(name) == [v \in {<<name, "key">>} |-> "key of " \o name]
OpenAiAt(url) == [v \in {<<"openai", "key">>, <<"openai", "url">>} |-> IF v[2] = "key" THEN "key of openai" ELSE url]
Setups ==
  {Setup("auto", "", OneKey("anthropic")), Setup("auto", "http://local", OneKey("openai")),
   Setup("azure", "", [v \in {<<"azure", "key">>, <<"azure", "url">>} |-> v[2]]), Setup("gemini", "", OneKey("gemini")),
   Setup("deepseek", "http://local", OneKey("openai")), Setup("deepseek", "", OneKey("deepseek")),
   Setup("", "", [v \in {<<"ollama", "url">>} |-> "http://ollama"]), Setup("openai", "", OneKey("xai")),
   Setup("auto", "", OpenAiAt("http://proxy"))}
Questions == INSTANCE Ask WITH
  Setups <- Setups, Columns <- [t \in {"s", "t", "u"} |-> <<"id">>], Replies <- Answers,
  Limit <- 2, Width <- 2, Across <- 2, MaxKeys <- 4, MaxAsks <- 2,
  setup <- v1, tql <- v2, threads <- v3

\* A file as tql wrote it, ones that are older, out of order or partly deleted, and ones that
\* nobody but their user would have written
Option(section, key, default, since, kind, choices, env) ==
  [section |-> section, key |-> key, default |-> <<default>>, since |-> since, kind |-> kind, choices |-> choices,
   env |-> env, letters |-> IF key \in {"mouse", "model"} THEN {"a"} ELSE {}]
Options ==
  <<Option("ui", "mouse", "true", 2, "flag", <<>>, "loses"), Option("ui", "position", "top", 1, "choice", <<"top", "bottom">>, ""),
    Option("ai", "timeout", "60", 2, "whole", <<"1", "60">>, "wins"), Option("ai", "model", "", 1, "text", <<>>, "")>>
Bound(name, keys, rebindable) == [name |-> name, keys |-> keys, rebindable |-> rebindable]
InFile(is, name, value) == [is |-> is, name |-> name, value |-> value]
Section(name) == InFile("header", name, <<>>)
Is(key, value) == InFile("set", key, <<value>>)
Note(name) == InFile("comment", name, <<>>)
Empty == InFile("blank", "", <<>>)
For(version) == InFile("stamp", "", <<version>>)
ConfigFiles ==
  {<<InFile("no file", "", <<>>)>>,
   <<For(1), Empty, Section("ui"), Note("n"), Is("position", "bottom"), Empty>>,
   <<For(2), Empty, Section("ai"), Empty, Note("n"), Is("timeout", "1"), Is("model", "m"), Note("o"), Empty, Section("ui"), Is("mouse", "false"), Empty>>,
   <<Is("mouse", "false"), Is("own", "1"), Empty, Section("own"), Is("a", "b"), Note("n"), Empty>>,
   <<For(2), Section("keys"), InFile("set", "new", <<"[">>), InFile("more", "r", <<>>), InFile("more", "]", <<>>),
     InFile("set", "reload", <<"ctrl+j">>), Section("ui"), Empty>>,
   <<For(2), InFile("noted", "ui", <<>>), Is("position", "bottom"), Empty>>,
   <<For(2), Section("ui"), Section("own"), Is("position", "bottom"), Empty>>}
Configs == INSTANCE Config WITH
  Procs <- {"p", "q"}, Roles <- [p |-> {"settings"}, q |-> {"tidy"}], Settings <- Options, Version <- 2,
  Bindings <- <<Bound("activate", <<"enter">>, FALSE), Bound("new", <<"n">>, TRUE), Bound("reload", <<"r">>, TRUE)>>,
  Files <- ConfigFiles, Environment <- [mouse |-> <<"false">>, timeout |-> <<"1">>], Typed <- {"1", "2"},
  Rooms <- {[moves |-> 4, keys |-> 2, starts |-> 1], [moves |-> 1, keys |-> 2, starts |-> 2]},
  file <- v1, procs <- v2, kept <- v3, so <- v4

\* Albums with two keys to artists, who have a favourite album; tags behind a table of two keys, and
\* notes that must not be read
Leads(column, table) == [column |-> column, table |-> table, references |-> "id"]
MusicColumns ==
  [albums |-> <<"id", "artist", "label", "title">>, artists |-> <<"id", "best">>, notes |-> <<"album">>, tagged |-> <<"id", "album", "tag">>,
   tags |-> <<"id", "album">>]
MusicKeys ==
  [albums |-> <<Leads("artist", "artists"), Leads("label", "artists")>>, artists |-> <<Leads("best", "albums")>>,
   notes |-> <<Leads("album", "albums")>>, tagged |-> <<Leads("album", "albums"), Leads("tag", "tags")>>, tags |-> <<>>]
MusicRows ==
  [albums |-> <<[id |-> "1", artist |-> "1", label |-> "2", title |-> "a"], [id |-> "2", artist |-> "", label |-> "1", title |-> "b"]>>,
   artists |-> <<[id |-> "1", best |-> "2"], [id |-> "2", best |-> ""]>>, notes |-> <<[album |-> "2"]>>,
   tagged |-> <<[id |-> "1", album |-> "1", tag |-> "1"], [id |-> "2", album |-> "1", tag |-> "2"], [id |-> "3", album |-> "1", tag |-> "3"]>>,
   tags |-> <<[id |-> "1", album |-> ""], [id |-> "2", album |-> ""], [id |-> "3", album |-> "1"]>>]
RoomFor(browse, keys, moves, others) == [browse |-> browse, keys |-> keys, moves |-> moves, others |-> others]
Inspectors == INSTANCE Inspect WITH
  Tables <- <<"albums", "artists", "notes", "tagged", "tags">>, Columns <- MusicColumns, Keys <- MusicKeys,
  Uniques <- [t \in DOMAIN MusicColumns |-> IF t = "notes" THEN {"album"} ELSE {"id"}], Plumbing <- {"id"}, FirstData <- MusicRows,
  Hidden <- {"notes"}, Limit <- 2, Page <- 2, Rooms <- {RoomFor(0, 4, 3, 0), RoomFor(0, 2, 1, 1), RoomFor(2, 0, 1, 0)}, MaxLevels <- 2,
  data <- v1, grid <- v2, schema <- v3, modal <- v4, so <- v5

\* A table of a key, a name, a time and JSON; forms of a new row and of an old one, and filters
Text(is, text) == [is |-> is, text |-> text]
GuestColumn(name, integer, nullable, default) ==
  [name |-> name, integer |-> integer, nullable |-> nullable, auto |-> FALSE, default |-> default]
GuestColumns ==
  <<GuestColumn("id", TRUE, FALSE, <<>>), GuestColumn("name", FALSE, TRUE, <<Text("double quoted", <<"a">>)>>),
    GuestColumn("at", FALSE, TRUE, <<Text("time", <<"call">>)>>), GuestColumn("doc", FALSE, FALSE, <<>>)>>
GuestRow(id, name, doc) == [id |-> <<<<id>>>>, name |-> name, at |-> <<>>, doc |-> <<doc>>]
GuestRows == <<GuestRow("1", <<<<"a">>>>, <<"{", " ", "}">>), GuestRow("2", <<>>, <<"b">>), GuestRow("3", <<<<"b", "a">>>>, <<"a">>)>>
Editing == {<<"open">>, <<"new">>, <<"Right", "Right", "Right", "open">>, <<"edit">>, <<"Ctrl-s">>, <<"Escape">>, <<"Enter">>, <<"Enter", "b">>,
            <<"Ctrl-n">>, <<"Backspace">>, <<"Down">>, <<"Right">>}
Asking == {<<"filter", "a">>, <<"Enter">>, <<"BackTab", "Right">>, <<"BackTab", "BackTab", "Left">>, <<"Tab", "Tab", "a", "Enter">>,
           <<"BackTab", "Enter", "one", "Enter", "Tab">>, <<"b", ",", "a", "Enter">>, <<"Ctrl-s">>, <<"Escape">>, <<"+">>, <<"-">>, <<"o">>}
Kit(driver, keys, steps, others) == [driver |-> driver, keys |-> keys, steps |-> steps, others |-> others]
Fields == INSTANCE Forms WITH
  Columns <- GuestColumns, FirstRows <- GuestRows, Letters <- <<",", "1", "2", "3", "a", "b", "z">>,
  Numbers <- <<<<"1">>, <<"2">>, <<"3">>, <<"4">>>>, Compact <- [t \in {<<"{", " ", "}">>, <<"{", "}">>} |-> <<"{", "}">>],
  Room <- 2, Kits <- {Kit("pgsql", Editing, 4, 1), Kit("sqlite", Editing, 3, 0), Kit("pgsql", Asking, 5, 1)},
  Contested <- {"name"},
  table <- v1, tql <- v2, past <- v3

\* Statements, routines and batches, orders and limits, names in two letter cases and quoted, and
\* tables of two schemas
Spaced(words) == IF words = <<>> THEN <<>> ELSE [i \in 1..2 * Len(words) - 1 |-> IF i % 2 = 1 THEN words[(i + 1) \div 2] ELSE " "]
Tab(schema, name) == [schema |-> schema, name |-> name]
SqlTables == <<Tab(<<>>, <<"a">>), Tab(<<>>, <<"a", "b">>), Tab(<<"b">>, <<"b">>), Tab(<<"b">>, <<"a", "A">>), Tab(<<"b">>, <<"a", "a">>)>>
SqlColumns ==
  [t \in {SqlTables[i] : i \in DOMAIN SqlTables} |->
     CASE t.name = <<"a">> -> <<<<"b", "1">>, <<"a", "_", "b">>>> [] t.name = <<"a", "b">> -> <<<<"b", "A">>>> [] OTHER -> <<<<"b">>>>]
SqlKit(readOnly, starts, typed, texts, columns, panes, steps) ==
  [readOnly |-> readOnly, starts |-> starts, typed |-> typed, texts |-> texts, columns |-> columns, panes |-> panes, steps |-> steps]
SqlPanes == {<<3, 2>>, <<7, 1>>}
\* Sorts of statements with limits, comments, orders and quotes of their own, and of some too complex
SortTexts ==
  {Spaced(<<"select", "b", "from", "a", "limit", "1">>) \o <<";", "nl">>,
   Spaced(<<"select", "b", "from", "a", "order", "by", "b", "--">>) \o <<"a", "nl">> \o Spaced(<<"limit", "1", "--">>) \o <<"b">>,
   Spaced(<<"select", "'">>) \o <<";", "'", "'", "'", " ">> \o Spaced(<<"from", "b">>) \o <<".", "b", "--", "a">>,
   Spaced(<<"select", "(", "select", "b", "from", "a", "order", "by", "b", ")", "from", "grave">>) \o <<"a", "b", "grave", " ">> \o
     Spaced(<<"order", "by", "b", "offset", "1", "rows">>),
   Spaced(<<"select", "b", "union", "select", "b", "from", "b">>) \o <<".", "b">>, Spaced(<<"with", "a", "as", "update", "a">>),
   Spaced(<<"/*", ";", "*/", "select", "'", "from", "1", "'">>), Spaced(<<"with", "a", ";", "update", "a">>)}
SortKit ==
  SqlKit({FALSE}, SortTexts, {<<"Ctrl-r", "Escape">>}, {}, {<<"b">>, <<"a", " ", "b">>}, {}, 4)
\* Statements at the cursor, of a routine and of batches
RunKit ==
  SqlKit(BOOLEAN, {Spaced(<<"create", "procedure", "a", "as", "begin", "case">>) \o <<" ", "end", ";", "nl", "end", ";", "select", " ", "$$", ";", "$$">>,
          <<"begin", " ", "transaction", ";", "update", " ", "a", "nl", "go", " ", "nl", "with", " ", "[", ";", "]", "nl", "end">>,
          Spaced(<<"select", "b", "from", "a">>) \o <<";">> \o Spaced(<<"select", "from", "a">>)},
         {<<"Ctrl-r">>, <<"Ctrl-r", "Up", "a">>, <<"Up", "Right">>, <<"Left">>, <<"Enter", "Down">>, <<"'", "a">>, <<"$$">>, <<";", "update", " ", "b">>},
         {}, {}, SqlPanes, 2)
CompleteKit ==
  SqlKit({FALSE}, {<<>>, Spaced(<<"select", "from", "a", ",", "a">>) \o <<";", "nl">> \o Spaced(<<"select", "from", "b">>) \o <<".", "a", "A">>,
          Spaced(<<"select", "from", "a", "b", "join">>) \o <<" ">>, Spaced(<<"update", "b">>)},
         {<<"a">>, <<"b", "Down", "Enter">>, <<".", "Tab">>, <<"A", "Up", "Tab">>, <<"Backspace", "Tab">>, <<" ", "as", " ", "b">>,
          <<" ", "where", " ", "b">>, <<"Left">>},
         {Spaced(<<"with", "a", "from", "A", ";", "update">>)}, {}, {}, 3)
SqlEditors == INSTANCE Statements WITH
  Kits <- <<SortKit, RunKit, CompleteKit>>, Tables <- SqlTables, Default <- <<"_">>, Columns <- SqlColumns,
  Wide <- {"A"}, Panes <- SqlPanes, tql <- v1, past <- v2

Init ==
  \/ which = "Tunnel" /\ Tunnels!Init /\ v6 = 0
  \/ which = "Store" /\ Stores!Init
  \/ which = "KeyEdits" /\ KeyValues!Init
  \/ which = "KeyList" /\ KeyTrees!Init /\ v6 = 0
  \/ which = "Drivers" /\ DriverKinds!Init /\ v6 = 0
  \/ which = "Snowflake" /\ Signed!Init
  \/ which = "Snowflakes" /\ SignedTwice!Init
  \/ which = "SignIns" /\ Signs!Init
  \/ which = "Mcp" /\ Agents!Init /\ v6 = 0
  \/ which = "EventLoop" /\ Loops!Init /\ v5 = 0 /\ v6 = 0
  \/ which = "Catalog" /\ Catalogs!Init /\ v6 = 0
  \/ which = "Rows" /\ TableRows!Init /\ v6 = 0
  \/ which = "Vim" /\ Editors!Init /\ v3 = 0 /\ v4 = 0 /\ v5 = 0 /\ v6 = 0
  \/ which = "Picker" /\ Pickers!Init /\ v4 = 0 /\ v5 = 0 /\ v6 = 0
  \/ which = "Dumps" /\ Copies!Init /\ v5 = 0 /\ v6 = 0
  \/ which = "Ask" /\ Questions!Init /\ v4 = 0 /\ v5 = 0 /\ v6 = 0
  \/ which = "Config" /\ Configs!Init /\ v5 = 0 /\ v6 = 0
  \/ which = "Inspect" /\ Inspectors!Init /\ v6 = 0
  \/ which = "Forms" /\ Fields!Init /\ v4 = 0 /\ v5 = 0 /\ v6 = 0
  \/ which = "Statements" /\ SqlEditors!Init /\ v3 = 0 /\ v4 = 0 /\ v5 = 0 /\ v6 = 0

Next ==
  /\ UNCHANGED which
  /\ \/ which = "Tunnel" /\ Tunnels!Next /\ UNCHANGED v6
     \/ which = "Store" /\ Stores!Next
     \/ which = "KeyEdits" /\ KeyValues!Next
     \/ which = "KeyList" /\ KeyTrees!Next /\ UNCHANGED v6
     \/ which = "Drivers" /\ DriverKinds!Next /\ UNCHANGED v6
     \/ which = "Snowflake" /\ Signed!Next
     \/ which = "Snowflakes" /\ SignedTwice!Next
     \/ which = "SignIns" /\ Signs!Next
     \/ which = "Mcp" /\ Agents!Next /\ UNCHANGED v6
     \/ which = "EventLoop" /\ Loops!Next /\ UNCHANGED <<v5, v6>>
     \/ which = "Catalog" /\ Catalogs!Next /\ UNCHANGED v6
     \/ which = "Rows" /\ TableRows!Next /\ UNCHANGED v6
     \/ which = "Vim" /\ Editors!Next /\ UNCHANGED <<v3, v4, v5, v6>>
     \/ which = "Picker" /\ Pickers!Next /\ UNCHANGED <<v4, v5, v6>>
     \/ which = "Dumps" /\ Copies!Next /\ UNCHANGED <<v5, v6>>
     \/ which = "Ask" /\ Questions!Next /\ UNCHANGED <<v4, v5, v6>>
     \/ which = "Config" /\ Configs!Next /\ UNCHANGED <<v5, v6>>
     \/ which = "Inspect" /\ Inspectors!Next /\ UNCHANGED v6
     \/ which = "Forms" /\ Fields!Next /\ UNCHANGED <<v4, v5, v6>>
     \/ which = "Statements" /\ SqlEditors!Next /\ UNCHANGED <<v3, v4, v5, v6>>

Spec == Init /\ [][Next]_vars

-----------------------------------------------------------------------------
\* What a thread was given leads to the database, and nothing is left running (Tunnel)
TunnelsAreOurs == which = "Tunnel" => Tunnels!TunnelsAreOurs

\* The store is whole, comes up again and its secrets can be read (Store)
StoreSurvives == which = "Store" => Stores!StoreSurvives

\* What is shown of a key is what :w makes of it (KeyEdits)
ShownIsWritten == which = "KeyEdits" => KeyValues!ShownIsWritten

\* A list item is only written over while it is the one that was seen (KeyEdits)
WritesWhatWasSeen == [][which = "KeyEdits" => KeyValues!SeenStep]_vars

\* The keys listed are those of the database and pattern named, all of them (KeyList)
ListFollows == which = "KeyList" => KeyTrees!ListFollows /\ KeyTrees!ListIsWhole

\* :w deletes keys only where they were marked (KeyList)
DeletesWhatWasMarked == [][which = "KeyList" => KeyTrees!MarkedStep]_vars

\* Statements run once and where the tables pane says (Drivers, SnowflakeSession), a table listed
\* is the one its name reaches (Catalog), pages, totals, exports and changes are of the rows they
\* should be of (Rows), what is related to a row is what its keys lead to (Inspect), and a request goes
\* out with the sign-in of its connection (SignIns)
ServersAreTrue ==
  /\ which = "Drivers" => DriverKinds!DriversAreTrue
  /\ which = "Snowflake" => Signed!RunsWhereWanted
  /\ which = "Snowflakes" => SignedTwice!RunsWhereWanted
  /\ which = "Catalog" => Catalogs!CatalogIsTrue
  /\ which = "Rows" => TableRows!RowsAreTrue
  /\ which = "Inspect" => Inspectors!InspectorIsTrue
  /\ which = "SignIns" => Signs!SignInsAreTrue

\* A dump, a load, a sync and an export write where they were told to, and what they say they
\* brought is there (Dumps)
DumpsAreTrue == which = "Dumps" => Copies!DumpsAreTrue

\* One undo takes back one change, whoever made it, `.` does it again, and what was taken out
\* is in the register (Vim); what runs is one statement, a sort leaves the rest of it alone, results
\* are of the table they are taken for, and a completion means what it says (Statements); what is
\* typed is given once and in order, and what is done is shown (EventLoop)
EditorIsTrue ==
  /\ which = "Vim" => Editors!EditorIsTrue
  /\ which = "Statements" => SqlEditors!StatementsAreTrue
  /\ which = "EventLoop" => Loops!LoopIsTrue

\* An answer in the editor is that of the question on the screen, only its query runs, a key goes
\* to its own provider, and the question is drawn whole (Ask); an agent is answered in order, what
\* it runs is what it asked for and writes nothing, and it is told of every tool (Mcp)
AnswersAreTrue == (which = "Ask" => Questions!AnswersAreTrue) /\ (which = "Mcp" => Agents!AgentsAreServed)

\* A setting saved is written on its line and nothing else is changed, topping up and tidying keep
\* what is the user's, and what is said of a setting or a key is so (Config)
SettingsAreTrue == which = "Config" => Configs!SettingsAreTrue

\* What a form saved is what it shows, and keys write, fold, delete and open what they were
\* pressed for, while another tql changes the same rows (Picker); what the record form, the value
\* editor and the filters keep, drop and show is what their fields say (Forms); and a command writes
\* only while it loads, where it was told to and may (Dumps)
FormsAreTrue ==
  [][/\ which = "Picker" => Pickers!PickerStep
     /\ which = "Forms" => Fields!FormStep
     /\ which = "Dumps" => Copies!WriteStep]_vars
=============================================================================
