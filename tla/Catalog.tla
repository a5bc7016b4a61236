------------------------------ MODULE Catalog ------------------------------
(***************************************************************************)
(* What the drivers read of a server's catalog, by which name each table is *)
(* then known (its schema is left out when it is the session's own), and    *)
(* what the browser keeps of it while databases are switched, created and   *)
(* dropped and statements typed by the user turn the session elsewhere      *)
(* (src/app/database/, src/app/tui/browser/databases.rs, src/app/tui/       *)
(* schema.rs).                                                              *)
(***************************************************************************)
EXTENDS Naturals, FiniteSets, Sequences

CONSTANTS
  Kinds,        \* the drivers looked at
  Objects,      \* what may be in the server: db, schema, name, sort, key and links to names
  Saved,        \* the database of the saved connection
  Usual,        \* the schema a session starts in
  MaxSteps      \* statements typed, databases switched, created and dropped, reloads

VARIABLES
  server,   \* its databases, the objects that are there, the database and schema of the session
  driver,   \* its kind, the default schema it remembers, the keys Snowflake fetched early
  browser,  \* the database named, tables listed and in which schema of the session, keys, default
            \* schema, if that is behind the session's, cached links, rows shown
  steps,
  turned    \* the user turned the session without tql noticing, or it was left elsewhere

catalogVars == <<server, driver, browser, steps, turned>>

None == "none"
Nothing == [db |-> None, schema |-> None, name |-> None]
Table(schema, name) == [schema |-> schema, name |-> name]

Schemaless == {"mysql", "clickhouse", "sqlite", "libsql"}
OneDatabase == {"sqlite", "libsql", "duckdb"}

\* What a server has is told apart by its names, but for what is temporary
ObjectsFit ==
  /\ Kinds \subseteq Schemaless \cup {"postgres", "sqlserver", "snowflake", "duckdb"}
  /\ Saved # None /\ Usual # None
  /\ \A o \in Objects : o.db # None /\ o.schema # None /\ o.key \in Seq(STRING)
  /\ \A o, p \in Objects :
       o.sort # "temporary" /\ p.sort # "temporary" /\ o.db = p.db /\ o.schema = p.schema /\ o.name = p.name => o = p

-----------------------------------------------------------------------------
\* What the catalog of the session's database lists

Here(o) == o \in server.there /\ o.db = server.db

MySqlLists(o) == Here(o) /\ o.sort = "table"
PostgresLists(o) == Here(o) /\ o.sort = "table"
SqlServerLists(o) == Here(o) /\ o.sort = "table"
ClickHouseLists(o) == Here(o) /\ o.sort \in {"table", "view"}
SnowflakeLists(o) == Here(o) /\ o.sort \in {"table", "view", "temporary"}
\* pragma_table_list has the tables of the temporary schema too
SqliteLists(o) == Here(o) /\ o.sort \in {"table", "temporary"}
LibsqlLists(o) == SqliteLists(o)
DuckLists(o) == Here(o) /\ o.sort = "table"

Lists(o) == CASE driver.kind = "mysql" -> MySqlLists(o)
              [] driver.kind = "postgres" -> PostgresLists(o)
              [] driver.kind = "sqlserver" -> SqlServerLists(o)
              [] driver.kind = "clickhouse" -> ClickHouseLists(o)
              [] driver.kind = "snowflake" -> SnowflakeLists(o)
              [] driver.kind = "sqlite" -> SqliteLists(o)
              [] driver.kind = "libsql" -> LibsqlLists(o)
              [] driver.kind = "duckdb" -> DuckLists(o)

\* SCHEMA_OR_DEFAULT, Snowflake::table_of, Table::bare
Named(o) == Table(IF driver.kind \in Schemaless \/ o.schema = server.path THEN None ELSE o.schema, o.name)
NamedInFull(o) == Table(IF driver.kind \in Schemaless THEN None ELSE o.schema, o.name)

\* The table that a statement reaches by a name: a temporary one hides the others
Reached(t) ==
  LET fits(o) == /\ Here(o) /\ o.name = t.name
                 /\ driver.kind \notin Schemaless /\ o.sort # "temporary"
                      => o.schema = IF t.schema = None THEN server.path ELSE t.schema
      hidden == {o \in server.there : fits(o) /\ o.sort = "temporary" /\ t.schema = None}
  IN  IF hidden # {} THEN hidden ELSE {o \in server.there : fits(o) /\ o.sort # "temporary"}

\* The columns of each primary key; information_schema.statistics, pg_index, sys.indexes,
\* system.columns, sqlite_master and duckdb_constraints know of no temporary table
MySqlKeys == {o \in server.there : Here(o) /\ o.sort = "table" /\ o.key # <<>>}
PostgresKeys == {o \in server.there : Here(o) /\ o.sort = "table" /\ o.key # <<>>}
SqlServerKeys == {o \in server.there : Here(o) /\ o.sort = "table" /\ o.key # <<>>}
ClickHouseKeys == {o \in server.there : Here(o) /\ o.sort = "table" /\ o.key # <<>>}
SqliteKeys == {o \in server.there : Here(o) /\ o.sort = "table" /\ o.key # <<>>}
LibsqlKeys == SqliteKeys
DuckKeys == {o \in server.there : Here(o) /\ o.sort = "table" /\ o.key # <<>>}
SnowflakeKeys == {o \in server.there : Here(o) /\ o.sort \in {"table", "temporary"} /\ o.key # <<>>}

\* keyed, single_column_keys: only a key of one column tells rows apart
SingleColumn(keys, name) ==
  [t \in {name[o] : o \in {k \in keys : Len(k.key) = 1}} |->
     (CHOOSE o \in keys : name[o] = t /\ Len(o.key) = 1).key[1]]

\* fetch_keys runs beside tables() and is kept for the next key_columns()
KeysNamed(name) ==
  CASE driver.kind = "mysql" -> SingleColumn(MySqlKeys, name)
    [] driver.kind = "postgres" -> SingleColumn(PostgresKeys, name)
    [] driver.kind = "sqlserver" -> SingleColumn(SqlServerKeys, name)
    [] driver.kind = "clickhouse" -> SingleColumn(ClickHouseKeys, name)
    [] driver.kind = "sqlite" -> SingleColumn(SqliteKeys, name)
    [] driver.kind = "libsql" -> SingleColumn(LibsqlKeys, name)
    [] driver.kind = "duckdb" -> SingleColumn(DuckKeys, name)
    [] driver.kind = "snowflake" -> SingleColumn(SnowflakeKeys, name)

\* Mutant of Keys: the schema is always named
KeysInFull == KeysNamed([o \in Objects |-> NamedInFull(o)])
Keys == KeysNamed([o \in Objects |-> Named(o)])

\* Which catalogs have foreign keys, and by which names both ends go (keys_by_table,
\* keys_by_schema, Snowflake::fetch_links); links of one column are followed
MySqlLinks == {<<Named(o), Table(None, o.link)>> : o \in {x \in MySqlKeys : x.link # None}}
PostgresLinks == {<<Named(o), Named([o EXCEPT !.name = o.link])>> : o \in {x \in PostgresKeys : x.link # None}}
SqlServerLinks == {<<Named(o), Named([o EXCEPT !.name = o.link])>> : o \in {x \in SqlServerKeys : x.link # None}}
ClickHouseLinks == {}
SqliteLinks == {<<Named(o), Table(None, o.link)>> : o \in {x \in SqliteKeys : x.link # None}}
LibsqlLinks == SqliteLinks
DuckLinks == {<<Named(o), Named([o EXCEPT !.name = o.link])>> : o \in {x \in DuckKeys : x.link # None}}
SnowflakeLinks == {<<Named(o), Named([o EXCEPT !.name = o.link])>> : o \in {x \in SnowflakeKeys : x.link # None}}

Links == CASE driver.kind = "mysql" -> MySqlLinks
           [] driver.kind = "postgres" -> PostgresLinks
           [] driver.kind = "sqlserver" -> SqlServerLinks
           [] driver.kind = "clickhouse" -> ClickHouseLinks
           [] driver.kind = "sqlite" -> SqliteLinks
           [] driver.kind = "libsql" -> LibsqlLinks
           [] driver.kind = "duckdb" -> DuckLinks
           [] driver.kind = "snowflake" -> SnowflakeLinks

\* Columns and indexes are asked for by schema and name, the schema being the default one
\* that the driver remembers (schema_of); by name alone where there are no schemas
Described(t, default) ==
  LET schema == IF t.schema = None THEN default ELSE t.schema IN
  {o \in server.there : Here(o) /\ o.name = t.name /\ o.sort # "temporary"
                         /\ (driver.kind \in Schemaless \/ o.schema = schema)}

\* default_schema: asked of the session once, until the driver forgets what it remembers
Asked(remembered, path) ==
  IF driver.kind \in Schemaless THEN None ELSE IF remembered # None THEN remembered ELSE path
DefaultSchema == Asked(driver.default, server.path)

\* Table::resolve: what is typed names a table of the session's schema, or the only one of that
\* name elsewhere
Resolve(t, tables, default) ==
  LET schema == IF t.schema = default THEN None ELSE t.schema
      elsewhere == {x \in tables : x.schema # None /\ x.name = t.name}
  IN  IF Table(schema, t.name) \in tables THEN {Table(schema, t.name)}
      ELSE IF schema = None /\ Cardinality(elsewhere) = 1 THEN elsewhere ELSE {}

-----------------------------------------------------------------------------
Init ==
  /\ driver \in {[kind |-> k, default |-> IF k \in Schemaless THEN None ELSE Usual] : k \in Kinds}
  /\ server \in [dbs : {{o.db : o \in Objects}}, db : {Saved}, path : {Usual},
                 there : {{o \in Objects : o.sort # "temporary"
                            /\ (driver.kind \in Schemaless => o.schema = Usual)}}]
  /\ browser = [active |-> Saved, tables |-> {Named(o) : o \in {x \in server.there : Lists(x)}},
                named |-> Usual, keys |-> Keys, default |-> DefaultSchema, behind |-> FALSE,
                links |-> None, shown |-> Nothing]
  /\ steps = 0 /\ turned = FALSE

Step == steps < MaxSteps /\ steps' = steps + 1

\* load: the rows of a table listed, and the links it has (learn_links)
Load(t) ==
  /\ t \in browser.tables
  /\ \E o \in Reached(t) :
       browser' = [browser EXCEPT !.shown = [db |-> o.db, schema |-> o.schema, name |-> o.name],
                                  !.links = IF @ = None THEN server.db ELSE @]
  /\ UNCHANGED <<server, driver, steps, turned>>

\* reload, whose tables() may fail after the links are let go and the keys read
Listing == {Named(o) : o \in {x \in server.there : Lists(x)}}
Unlisted(b, keys) == [b EXCEPT !.keys = keys, !.links = None]
Relisted(b, keys, tables, path) ==
  [Unlisted(b, keys) EXCEPT !.tables = tables, !.named = path, !.shown = Nothing]
Reload ==
  /\ Step
  /\ browser' \in {Unlisted(browser, Keys), Relisted(browser, Keys, Listing, server.path)}
  /\ UNCHANGED <<server, driver, turned>>

\* Postgres, SQL Server and Snowflake settle in the usual schema of the database; all forget
\* the one remembered, Snowflake for the one it settles in
Switched(s, db) == [s EXCEPT !.db = db, !.path = Usual, !.there = {o \in @ : o.sort # "temporary"}]
Forgotten == [driver EXCEPT !.default = IF driver.kind = "snowflake" THEN Usual ELSE None]

\* use_database, whose tables() may fail after the driver is switched; recall_folds if it does not
Use(db) ==
  /\ server' = Switched(server, db)
  /\ \E listed \in BOOLEAN :
     /\ driver' = IF listed THEN [driver EXCEPT !.default = Asked(None, Usual)] ELSE Forgotten
     /\ browser' = [active |-> db, links |-> None, shown |-> Nothing, keys |-> Keys', named |-> Usual,
                    default |-> IF listed THEN DefaultSchema' ELSE browser.default, behind |-> ~listed,
                    tables |-> IF listed THEN Listing' ELSE {}]

UseDatabase(db) ==
  /\ Step
  /\ driver.kind \notin OneDatabase /\ db \in server.dbs \ {browser.active}
  /\ \/ Use(db) /\ turned' = FALSE
     \/ UNCHANGED <<server, driver, browser, turned>>

\* somewhere_other_than: the saved database, or another of the server
StepAside(db) == IF Saved # db THEN {Saved} ELSE server.dbs \ {db}

\* drop_database: tql steps aside when it uses the one to drop, and back when the server refuses,
\* which may fail in turn
DropDatabase(db) ==
  /\ Step
  /\ driver.kind \notin OneDatabase /\ db \in server.dbs
  /\ LET inUse == browser.active = db
         dropped(s) == [s EXCEPT !.dbs = @ \ {db}, !.there = {o \in @ : o.db # db},
                                 !.db = IF @ = db THEN None ELSE @]
     IN  IF ~inUse
         THEN /\ server' \in {dropped(server), server}
              /\ db = server.db /\ driver.kind \in {"postgres", "sqlserver"} => server' = server
              /\ UNCHANGED <<driver, browser, turned>>
         ELSE IF StepAside(db) = {} THEN UNCHANGED <<server, driver, browser, turned>>
         ELSE \E aside \in StepAside(db) :
              \/ UNCHANGED <<server, driver, browser, turned>>      \* it cannot step aside
              \/ /\ server' = dropped(Switched(server, aside))      \* pick_after_dropping
                 /\ driver' = Forgotten
                 /\ browser' = [browser EXCEPT !.active = None, !.tables = {}, !.keys = <<>>,
                                               !.links = None, !.shown = Nothing,
                                               !.named = Usual, !.behind = TRUE]
                 /\ turned' = FALSE
              \/ \E back \in BOOLEAN :                               \* it is refused
                 /\ server' = Switched(server, IF back THEN db ELSE aside)
                 /\ driver' = Forgotten
                 /\ turned' = (turned \/ ~back \/ server'.path # server.path)
                 /\ UNCHANGED browser

\* create_database, and a switch to it; the server may refuse either
CreateDatabase(db) ==
  /\ Step
  /\ driver.kind \notin OneDatabase /\ db \notin server.dbs
  /\ \/ UNCHANGED <<server, driver, browser, turned>>
     \/ server' = [server EXCEPT !.dbs = @ \cup {db}] /\ UNCHANGED <<driver, browser, turned>>
     \/ /\ server' = [Switched(server, db) EXCEPT !.dbs = @ \cup {db}]
        /\ driver' = [driver EXCEPT !.default = Asked(None, Usual)]
        /\ browser' = [active |-> db, links |-> None, shown |-> Nothing, keys |-> <<>>, tables |-> {},
                       named |-> Usual, default |-> Asked(None, Usual), behind |-> FALSE]
        /\ turned' = FALSE

\* run_query of a statement that writes: links and keys are read again, and the tables too if the
\* default schema is another one now.  DuckDB forgets the schema it remembers whatever was run,
\* Postgres what sets the search path
Typed(s, hides, setsPath) ==
  LET forgets == driver.kind = "duckdb" \/ (driver.kind = "postgres" /\ setsPath)
      default == Asked(IF forgets THEN None ELSE driver.default, s.path)
  IN  /\ Step
      /\ server' = s
      /\ driver' = [driver EXCEPT !.default = default]
      /\ IF default = browser.default
         THEN browser' = Unlisted(browser, Keys')
         ELSE browser' \in {Unlisted([browser EXCEPT !.default = default, !.behind = TRUE], Keys'),
                            Relisted([browser EXCEPT !.default = default, !.behind = FALSE],
                                     Keys', Listing', s.path)}
      /\ turned' = (turned \/ hides)

TypeSetSchema(schema) ==
  driver.kind \in {"postgres", "duckdb"} /\ Typed([server EXCEPT !.path = schema], FALSE, TRUE)

\* `use` in the SQL editor turns the session of MySQL and SQL Server, and nothing else of tql
TypeUse(db) ==
  /\ driver.kind \in {"mysql", "sqlserver"} /\ db \in server.dbs \ {server.db}
  /\ Typed([server EXCEPT !.db = db], TRUE, FALSE)

TypeTemporary(o) ==
  /\ driver.kind \notin {"sqlserver", "clickhouse", "libsql"}
  /\ o \in Objects \ server.there /\ o.sort = "temporary" /\ o.db = server.db
  /\ Typed([server EXCEPT !.there = @ \cup {o}], TRUE, FALSE)

\* A table dropped or created by the user or by another client, which tql lists when it reloads
TypeDrop(o) ==
  /\ o \in server.there /\ o.sort = "table" /\ o.db = server.db
  /\ Typed([server EXCEPT !.there = @ \ {o}], FALSE, FALSE)

Next ==
  \/ \E t \in browser.tables : Load(t)
  \/ Reload
  \/ \E db \in server.dbs : UseDatabase(db) \/ DropDatabase(db) \/ TypeUse(db)
  \/ CreateDatabase("new")
  \/ \E o \in Objects : TypeSetSchema(o.schema) \/ TypeTemporary(o) \/ TypeDrop(o)

Spec == Init /\ [][Next]_catalogVars

-----------------------------------------------------------------------------
\* Unless the session was turned behind tql's back: a table listed is, when it is still there, the
\* one that statements about it reach and its columns are asked of, the key kept for it is that
\* table's, and what is typed in full finds it; they are named for the schema the session is in,
\* unless the default schema was left behind, by a list that failed or a database dropped.  Rows
\* shown and links kept are of the database named, if one is: after a drop of the database in use
\* tql names none, though the session is in the one it stepped aside to.
TablesAreTrue ==
  \A t \in browser.tables :
    /\ \A o \in Reached(t) :
         /\ Lists(o) /\ o \in Described(t, DefaultSchema)
         /\ t \in DOMAIN browser.keys => o.key = <<browser.keys[t]>>
         /\ Len(o.key) = 1 /\ o.sort = "table" => t \in DOMAIN browser.keys
    /\ Resolve(t, browser.tables, DefaultSchema) = {t}

CatalogIsTrue ==
  \/ turned
  \/ /\ browser.named # server.path => browser.behind
     /\ browser.named = server.path => TablesAreTrue
     /\ browser.active # None =>
          /\ browser.tables # {} => server.db = browser.active
          /\ browser.shown.db \in {None, browser.active}
          /\ browser.links \in {None, browser.active}
     /\ \A l \in Links : l[1] \in Listing
=============================================================================
