-------------------------------- MODULE Mcp --------------------------------
(***************************************************************************)
(* tql as an MCP server (src/app/mcp/, src/app/commands/mcp.rs) and what an *)
(* agent may do through it to a database (src/app/agent.rs, run_reading of  *)
(* the drivers): lines are read and answered one by one, and a statement is *)
(* checked, run and recorded while another tql changes the connections.     *)
(* The tools for a tql that is open are Live's.                             *)
(***************************************************************************)
EXTENDS Integers, Sequences

CONSTANTS
  Kits,          \* what may come: the connections saved at first, by name, each with its id and driver, the
                 \* lines the agent sends, other than to follow a cursor, how many, and how many renames
  Statements,    \* by name: what is looked at of each, and what a server of each driver would do
  Tools,         \* in the order they are listed
  PerPage, MostPerPage,
  Pages          \* sizes the agent asks for as it follows a cursor, or none

VARIABLES
  sent,      \* the lines the agent sent
  doing,     \* how far the server is: the lines it read, and the statement it runs
  out,       \* its replies, in order, each of a line
  saved,     \* the connections of the store
  past       \* what may come, what ran, was recorded and was written, and what the agent listed

mcpVars == <<sent, doing, out, saved, past>>

Waits == [read |-> 0, at |-> "line", id |-> 0, driver |-> "none", failed |-> FALSE]

Init ==
  /\ sent = <<>> /\ doing = Waits /\ out = <<>>
  /\ past \in [kit : Kits, ran : {<<>>}, history : {<<>>}, written : {{}}, others : {0}, got : {<<>>}, next : {0}, ended : {FALSE}]
  /\ saved = past.kit.first

-----------------------------------------------------------------------------
\* A line: blank, not JSON, or a message, whose id is 0 if it has none or null
Message(id, method) ==
  [is |-> "message", id |-> id, method |-> method, version |-> "unsaid", tool |-> "none", name |-> "none",
   statement |-> "none", cursor |-> 0, valid |-> TRUE, perPage |-> <<>>]

\* What the server answers: all but blank lines and notifications
Answered(line) == line.is = "garbage" \/ (line.is = "message" /\ line.id # 0)
IdOf(line) == IF line.is = "message" THEN line.id ELSE 0

\* versioned: a client that says its version says its capabilities too, and the version is known
Versioned(line) == line.version \in {"unsaid", "known"}

\* answer: the methods there are, and those that only refuse
Known == {"initialize", "ping", "server/discover", "tools/list", "tools/call", "resources/list",
          "resources/templates/list", "prompts/list", "completion/complete"}

\* Tool::ALL and named
Tool(line) == \E i \in DOMAIN Tools : Tools[i] = line.tool

\* paged: of the size asked for, which is kept within bounds, and where the next one starts, or 0
Size(asked) ==
  IF asked = <<>> THEN PerPage
  ELSE IF asked[1] < 1 THEN 1 ELSE IF asked[1] > MostPerPage THEN MostPerPage ELSE asked[1]
PageEnd(line) == IF line.cursor + Size(line.perPage) < Len(Tools) THEN line.cursor + Size(line.perPage) ELSE Len(Tools)
Page(line) == SubSeq(Tools, line.cursor + 1, PageEnd(line))
NextPage(line) == IF PageEnd(line) < Len(Tools) THEN PageEnd(line) ELSE 0

-----------------------------------------------------------------------------
\* What is looked at of a statement

\* is_read_only: how it starts, and that it is one
IsReadOnly(s) == Statements[s].reads /\ ~Statements[s].several

\* writing_word, tsql_control_word: outside quotes and comments
WritingWord(s) == "writing" \in Statements[s].words
ControlWord(s) == "control" \in Statements[s].words

\* connect and run_reading, before anything is sent
\* A mutant of Refuses: a transaction that is rolled back is thought to be enough
RefusesLittle(driver, s) == (driver = "snowflake" /\ (WritingWord(s) \/ ~IsReadOnly(s))) \/ driver = "redis"
Refuses(driver, s) ==
  CASE driver \in {"libsql", "duckdb"} -> WritingWord(s)
    [] driver = "sqlsrv" -> WritingWord(s) \/ ControlWord(s)
    [] driver = "snowflake" -> WritingWord(s) \/ ~IsReadOnly(s)
    [] driver = "redis" -> TRUE
    [] OTHER -> FALSE

\* A transaction, a setting or a request in which the server writes nothing, and a transaction that is
\* rolled back, which a statement that ends it gets out of; SQL Server says how many rows there were
ReadsOnly(driver) == driver \in {"mysql", "pgsql", "sqlite", "clickhouse"}
RollsBack(driver) == driver \in {"libsql", "duckdb", "sqlsrv"}
Writes(driver, s) == driver \in Statements[s].writes
Stays(driver, s) ==
  Writes(driver, s) /\ ~ReadsOnly(driver) /\ (RollsBack(driver) => driver \in Statements[s].ends)
MustFail(driver, s) == Writes(driver, s) /\ (ReadsOnly(driver) \/ driver = "sqlsrv")

\* A single statement that starts as one that reads writes on Snowflake only by a word for it, and ends a
\* transaction on SQL Server by one of its own, on libSQL and DuckDB not at all
StatementsFit ==
  \A s \in DOMAIN Statements :
    /\ IsReadOnly(s) /\ "snowflake" \in Statements[s].writes => WritingWord(s)
    /\ "sqlsrv" \in Statements[s].ends => ControlWord(s)
    /\ IsReadOnly(s) => Statements[s].ends \cap {"libsql", "duckdb"} = {}
KitsFit ==
  \A kit \in Kits :
    /\ \A name \in DOMAIN kit.first : LET d == kit.first[name].driver IN ReadsOnly(d) \/ RollsBack(d) \/ d \in {"snowflake", "redis"}
    /\ \A line \in kit.lines : line.is = "message" =>
         /\ line.method = "tools/list" => line.cursor = 0 /\ (line.perPage = <<>> \/ line.perPage[1] \in Int)
         /\ line.tool = "run-query-tool" => line.statement \in DOMAIN Statements
PagesFit ==
  /\ PerPage \in Nat \ {0} /\ MostPerPage \in Nat \ {0} /\ Tools \in Seq(STRING)
  /\ \A size \in Pages : size = <<>> \/ size[1] \in Int

-----------------------------------------------------------------------------
\* The agent, which does not wait for an answer but to follow a cursor it was given
Sends(line) == Len(sent) < past.kit.most /\ sent' = Append(sent, line)
Listing == \E i \in doing.read + 1..Len(sent) : sent[i].is = "message" /\ sent[i].method = "tools/list"
Send ==
  /\ \E line \in past.kit.lines : (line.is = "message" /\ line.method = "tools/list" => ~Listing) /\ Sends(line)
  /\ UNCHANGED <<doing, out, saved, past>>
Follow ==
  /\ past.next # 0 /\ ~Listing
  /\ \E perPage \in Pages :
       Sends([Message(Len(sent) + 1, "tools/list") EXCEPT !.cursor = past.next, !.perPage = perPage])
  /\ UNCHANGED <<doing, out, saved, past>>

\* The next line, and its answer
Reading == doing.at = "line" /\ doing.read < Len(sent)
Line == sent[doing.read + 1]
Answers(is) ==
  /\ doing' = [Waits EXCEPT !.read = doing.read + 1]
  /\ out' = Append(out, [of |-> doing.read + 1, id |-> IdOf(Line), is |-> is])
Asked == Reading /\ Line.is = "message" /\ Line.id # 0

\* handle, reply: a blank line and a notification are nothing
Skip ==
  /\ Reading /\ ~Answered(Line)
  /\ doing' = [doing EXCEPT !.read = @ + 1]
  /\ UNCHANGED <<sent, out, saved, past>>
Garbled ==
  /\ Reading /\ Line.is = "garbage" /\ Answers("error")
  /\ UNCHANGED <<sent, saved, past>>
Refused ==
  /\ Asked
  /\ \/ ~Versioned(Line) \/ Line.method \notin Known
     \/ Line.method = "tools/list" /\ ~Line.valid
     \/ Line.method = "tools/call" /\ ~Tool(Line)
  /\ Answers("error")
  /\ UNCHANGED <<sent, saved, past>>
Tells ==
  /\ Asked /\ Versioned(Line) /\ Line.method \in Known \ {"tools/list", "tools/call"}
  /\ Answers("result")
  /\ UNCHANGED <<sent, saved, past>>

\* tools/list, and the agent keeps what it is given
List ==
  /\ Asked /\ Versioned(Line) /\ Line.method = "tools/list" /\ Line.valid
  /\ Answers("result")
  /\ past' = [past EXCEPT !.got = IF Line.cursor = 0 THEN Page(Line) ELSE @ \o Page(Line),
                          !.next = NextPage(Line), !.ended = NextPage(Line) = 0]
  /\ UNCHANGED <<sent, saved>>

\* tools/call: of a tool that only looks, or that Live has
Call == Asked /\ Versioned(Line) /\ Line.method = "tools/call" /\ Tool(Line)
Looks ==
  /\ Call /\ Line.tool # "run-query-tool"
  /\ \E is \in {"result", "failed"} : Answers(is)
  /\ UNCHANGED <<sent, saved, past>>

\* Agent::query: the connection by its name, and the statement as it reads
Unfit ==
  /\ Call /\ Line.tool = "run-query-tool"
  /\ Line.name \notin DOMAIN saved \/ ~IsReadOnly(Line.statement)
  /\ Answers("failed")
  /\ UNCHANGED <<sent, saved, past>>
Query ==
  /\ Call /\ Line.tool = "run-query-tool" /\ Line.name \in DOMAIN saved /\ IsReadOnly(Line.statement)
  /\ doing' = [doing EXCEPT !.read = @ + 1, !.at = "run", !.id = saved[Line.name].id, !.driver = saved[Line.name].driver]
  /\ UNCHANGED <<sent, out, saved, past>>

\* It is opened and run, or not
Run ==
  /\ doing.at = "run"
  /\ LET s == sent[doing.read].statement refused == Refuses(doing.driver, s) IN
     \E failed \in BOOLEAN :
       /\ refused \/ MustFail(doing.driver, s) => failed
       /\ doing' = [doing EXCEPT !.at = "record", !.failed = failed]
       /\ past' = [past EXCEPT !.ran = Append(@, [of |-> doing.read, on |-> doing.id, failed |-> failed]),
            !.written = IF ~refused /\ Stays(doing.driver, s) THEN @ \cup {doing.read} ELSE @]
  /\ UNCHANGED <<sent, out, saved>>

\* history::record, unless the store cannot be written, and the answer
Record ==
  /\ doing.at = "record"
  /\ \E kept \in BOOLEAN :
       past' = IF kept THEN [past EXCEPT !.history = Append(@, [of |-> doing.read, on |-> doing.id, failed |-> doing.failed])]
               ELSE past
  /\ doing' = [Waits EXCEPT !.read = doing.read]
  /\ out' = Append(out, [of |-> doing.read, id |-> sent[doing.read].id, is |-> IF doing.failed THEN "failed" ELSE "result"])
  /\ UNCHANGED <<sent, saved>>

\* Another tql renames a connection, to a name that is another's or was
Rename ==
  /\ past.others < past.kit.others /\ past' = [past EXCEPT !.others = @ + 1]
  /\ \E a \in DOMAIN saved, b \in DOMAIN past.kit.first : saved' = [n \in (DOMAIN saved \ {a}) \cup {b} |-> IF n = b THEN saved[a] ELSE saved[n]]
  /\ UNCHANGED <<sent, doing, out>>

Next ==
  \/ Send \/ Follow \/ Skip \/ Garbled \/ Refused \/ Tells \/ List \/ Looks \/ Unfit \/ Query \/ Run \/ Record \/ Rename

Spec == Init /\ [][Next]_mcpVars

-----------------------------------------------------------------------------
Handled == IF doing.at = "line" THEN doing.read ELSE doing.read - 1

\* Each request is answered once, in the order they came and with its own id, and nothing else is
AnsweredInOrder ==
  /\ \A i \in 1..Len(out) :
       out[i].of \in 1..Handled /\ Answered(sent[out[i].of]) /\ out[i].id = IdOf(sent[out[i].of])
  /\ \A i, j \in 1..Len(out) : i < j => out[i].of < out[j].of
  /\ \A n \in 1..Handled : Answered(sent[n]) => \E i \in 1..Len(out) : out[i].of = n

\* Only what was called for ran, once, and no more of it is recorded, in order and with what came of it
RanIsAsked ==
  /\ \A i \in 1..Len(past.ran) :
       LET line == sent[past.ran[i].of] IN
       line.id # 0 /\ line.tool = "run-query-tool" /\ Versioned(line) /\ IsReadOnly(line.statement)
  /\ \A i, j \in 1..Len(past.ran) : i < j => past.ran[i].of < past.ran[j].of
  /\ \A i \in 1..Len(past.history) : \E j \in 1..Len(past.ran) : past.history[i] = past.ran[j]
  /\ \A i, j \in 1..Len(past.history) : i < j => past.history[i].of < past.history[j].of

\* Nothing an agent ran is written, whatever driver it was for
NothingIsWritten == past.written = {}

\* An agent that follows the cursors has every tool, in order and once, whatever sizes it asked for
ListsAll == past.got = SubSeq(Tools, 1, Len(past.got)) /\ (past.ended => past.got = Tools)

AgentsAreServed == AnsweredInOrder /\ RanIsAsked /\ NothingIsWritten /\ ListsAll
=============================================================================
