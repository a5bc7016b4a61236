------------------------------ MODULE Drivers ------------------------------
(***************************************************************************)
(* The drivers of tql that speak to a server (src/app/database/), one at a  *)
(* time: the connection each keeps or makes for a request, the calls each   *)
(* operation of the trait Database sends over it, and what the server did.  *)
(* A network breaks a connection before or after a call was taken.          *)
(***************************************************************************)
EXTENDS Naturals, Sequences

CONSTANTS
  Kinds,         \* the drivers looked at, of those of CallsOf
  Databases,     \* of the server, all with the same tables
  Saved,         \* the one of the saved connection
  MaxStatements, MaxBreaks, MaxUses, MaxOthers

VARIABLES
  link,   \* the server's end: whether it stands, its database, transaction and schema
  tql,    \* the driver: its kind, the database it names when it dials, what it caches
  doing,  \* the operation under way and the calls it has left
  ran,    \* each statement: where it was meant to go, went, how often, whether it is kept
  bounds  \* how often the network broke, databases were switched and others wrote

driverVars == <<link, tql, doing, ran, bounds>>

Fresh(db) == [up |-> TRUE, db |-> db, in |-> "none", schema |-> "usual"]
Idle == [op |-> "none", calls |-> <<>>, n |-> 0, db |-> Saved, counted |-> 0]

Init ==
  /\ link = Fresh(Saved)
  /\ tql \in [kind : Kinds, has : {TRUE}, idle : {FALSE}, named : {Saved}, title : {Saved},
              schema : {"none"}, slipped : {FALSE}]
  /\ doing = Idle /\ ran = <<>>
  /\ bounds = [breaks |-> 0, uses |-> 0, others |-> 0]

-----------------------------------------------------------------------------
\* What the operations of each driver send, call by call

MySqlCalls == [run |-> <<"run">>, reading |-> <<"begin_reading", "run", "rollback">>,
  change |-> <<"look", "run">>, use |-> <<"use">>]
PostgresCalls == [run |-> <<"run">>, reading |-> <<"begin_reading", "run", "rollback">>,
  change |-> <<"run">>, use |-> <<"dial">>, schema |-> <<"set_schema">>, default |-> <<"default">>]
SqlServerCallsBare == [run |-> <<"run", "affected">>, reading |-> <<"run", "rollback">>,
  change |-> <<"look", "run">>, use |-> <<"dial">>]
SqlServerCalls == [run |-> <<"run", "affected">>, reading |-> <<"begin", "run", "rollback">>,
  change |-> <<"look", "run">>, use |-> <<"dial">>]
ClickHouseCalls == [run |-> <<"run">>, reading |-> <<"run_reading">>,
  change |-> <<"look", "count", "mutate">>, use |-> <<"try">>]
SnowflakeCalls == [run |-> <<"run">>, change |-> <<"look", "run">>, use |-> <<"try">>]

CallsOf == [mysql |-> MySqlCalls, postgres |-> PostgresCalls, sqlserver |-> SqlServerCalls,
            clickhouse |-> ClickHouseCalls, snowflake |-> SnowflakeCalls]

\* The drivers looked at are some of these
ConstantsFit == Kinds \subseteq DOMAIN CallsOf /\ Saved \in Databases

Stateless == tql.kind \in {"clickhouse", "snowflake"}

-----------------------------------------------------------------------------
\* The connection a call goes over: <<link, driver, whether there is one>>

\* One that has been idle is pinged; one that does not answer is dialed anew, to the
\* database of the saved connection
LiveMySql ==
  IF tql.has /\ (~tql.idle \/ link.up) THEN {<<link, [tql EXCEPT !.idle = FALSE], TRUE>>}
  ELSE {<<Fresh(Saved), [tql EXCEPT !.idle = FALSE, !.has = TRUE, !.slipped = @ \/ tql.title # Saved], TRUE>>,
        <<[link EXCEPT !.up = FALSE], [tql EXCEPT !.has = FALSE], FALSE>>}

\* To the database it was last switched to
LivePostgresAtFirst ==
  IF ~tql.idle \/ link.up THEN {<<link, [tql EXCEPT !.idle = FALSE], TRUE>>}
  ELSE {<<Fresh(Saved), [tql EXCEPT !.idle = FALSE, !.slipped = @ \/ tql.schema = "set"], TRUE>>,
        <<link, tql, FALSE>>}

LivePostgres ==
  IF ~tql.idle \/ link.up THEN {<<link, [tql EXCEPT !.idle = FALSE], TRUE>>}
  ELSE {<<Fresh(tql.named), [tql EXCEPT !.idle = FALSE, !.slipped = @ \/ tql.schema = "set"], TRUE>>,
        <<link, tql, FALSE>>}

\* Every request names its database
LiveRequest == {<<Fresh(tql.named), tql, TRUE>>}

Live == CASE tql.kind = "mysql" -> LiveMySql
          [] tql.kind = "postgres" -> LivePostgres
          [] tql.kind = "sqlserver" -> {<<link, tql, TRUE>>}
          [] Stateless -> LiveRequest

\* SqlServer::mended: an error of the connection dials anew, and is still an error
Mended(l, t) ==
  IF t.kind # "sqlserver" \/ l.up THEN {l} ELSE {l, Fresh(t.named)}

-----------------------------------------------------------------------------
\* What the server does with a call

\* As a write: a reading driver's write is refused in a transaction that only reads
Refused(l, call) == call \in {"run", "run_reading"} /\ (l.in = "reading" \/ call = "run_reading")
Applied(l, call) == call \in {"run", "mutate"} /\ l.in # "reading"

Took(l, call) ==
  CASE call = "begin_reading" -> [l EXCEPT !.in = "reading"]
    [] call = "begin" -> [l EXCEPT !.in = "undone"]
    [] call = "rollback" -> [l EXCEPT !.in = "none"]
    [] call = "use" -> [l EXCEPT !.db = doing.db]
    [] call = "set_schema" -> [l EXCEPT !.schema = "set"]
    [] OTHER -> l

Noted(l, call) ==
  IF Applied(l, call) /\ doing.n > 0
  THEN LET one == ran[doing.n] IN
       [ran EXCEPT ![doing.n] =
          [one EXCEPT !.times = one.times + 1, !.db = l.db, !.kept = l.in = "none", !.counted = doing.counted,
                      !.reached = IF call = "mutate" THEN 1 + bounds.others ELSE 1]]
  ELSE ran

Ended(how, noted) ==
  /\ doing' = Idle
  /\ ran' = IF doing.n > 0 THEN [noted EXCEPT ![doing.n].said = how] ELSE noted

-----------------------------------------------------------------------------
\* The operations

Switches == doing.op = "use"
Ask(op) ==
  /\ doing = Idle /\ op \in DOMAIN CallsOf[tql.kind]
  /\ LET counts == op \in {"run", "reading", "change"} IN
     /\ counts => Len(ran) < MaxStatements
     /\ \E db \in IF op = "use" THEN Databases \ {tql.title} ELSE {tql.title} :
          /\ doing' = [Idle EXCEPT !.op = op, !.calls = CallsOf[tql.kind][op], !.db = db,
                                   !.n = IF counts THEN Len(ran) + 1 ELSE 0]
          /\ ran' = IF counts
                    THEN Append(ran, [op |-> op, for |-> db, db |-> db, times |-> 0, kept |-> FALSE,
                                      said |-> "none", reached |-> 1, counted |-> 1])
                    ELSE ran
     /\ op = "use" => bounds.uses < MaxUses
     /\ bounds' = [bounds EXCEPT !.uses = IF op = "use" THEN @ + 1 ELSE @]
     \* Postgres::run forgets the schema when it may be set; a request names the new database at once
     /\ tql' = [tql EXCEPT !.schema = IF op = "schema" THEN "none" ELSE @,
                           !.named = IF op = "use" /\ Stateless THEN doing'.db ELSE @]
  /\ UNCHANGED link

\* The last call is answered
Finished(l, t) ==
  [t EXCEPT !.named = IF Switches /\ t.kind # "mysql" THEN doing.db ELSE @,
            !.title = IF Switches THEN doing.db ELSE @,
            !.schema = IF Switches THEN "none" ELSE IF doing.op = "default" THEN l.schema ELSE @]

\* An error ends the operation; a switch that failed leaves the database named before
Failed(t) == [t EXCEPT !.named = IF Switches /\ Stateless THEN t.title ELSE @]

\* The link is there and the call is taken; the answer may still be lost.  run_reading sends
\* its rollback after a statement that was refused
CallTaken(answered) ==
  /\ doing.calls # <<>> /\ Head(doing.calls) \notin {"dial", "count"}
  /\ \E lively \in Live :
       LET call == Head(doing.calls) l == lively[1] t == lively[2]
           after == Took(l, call) noted == Noted(l, call) IN
       /\ lively[3] /\ (l.up \/ Stateless) /\ (answered \/ bounds.breaks < MaxBreaks)
       /\ bounds' = [bounds EXCEPT !.breaks = IF answered THEN @ ELSE @ + 1]
       /\ IF ~answered
          THEN /\ link' \in Mended([after EXCEPT !.up = Stateless], t)
               /\ tql' = Failed(t) /\ Ended("error", noted)
          ELSE /\ link' = after
               /\ IF Refused(l, call) /\ Len(doing.calls) = 1
                  THEN tql' = Failed(t) /\ Ended("error", noted)
                  ELSE IF Len(doing.calls) > 1
                  THEN /\ doing' = [doing EXCEPT !.calls = Tail(@)]
                       /\ tql' = t /\ ran' = noted
                  ELSE tql' = Finished(l, t) /\ Ended("done", noted)

\* No link, or one that is dead: run_reading still sends its rollback, elsewhere it is an error
CallLost ==
  /\ doing.calls # <<>> /\ Head(doing.calls) # "dial"
  /\ \E lively \in Live :
       /\ ~lively[3] \/ ~(lively[1].up \/ Stateless)
       /\ link' \in Mended(lively[1], lively[2]) /\ tql' = Failed(lively[2])
       /\ Ended("error", ran)
  /\ UNCHANGED bounds

\* Postgres and SQL Server switch by a connection of its own, which may not come about
Dial ==
  /\ doing.calls # <<>> /\ Head(doing.calls) = "dial"
  /\ \/ link' = Fresh(doing.db) /\ tql' = Finished(link, tql) /\ Ended("done", ran)
     \/ bounds.breaks < MaxBreaks /\ tql' = tql /\ link' = link /\ Ended("error", ran)
  /\ UNCHANGED bounds

\* ClickHouse::mutated: the rows the condition reaches are counted, and then changed
CountTrusting ==
  /\ doing.calls # <<>> /\ Head(doing.calls) = "count"
  /\ doing' = [doing EXCEPT !.calls = Tail(@), !.counted = 1 + bounds.others]
  /\ UNCHANGED <<link, tql, ran, bounds>>

Count ==
  /\ doing.calls # <<>> /\ Head(doing.calls) = "count"
  /\ LET reached == 1 + bounds.others IN
     IF reached > 1 THEN tql' = Failed(tql) /\ Ended("error", ran)
     ELSE /\ doing' = [doing EXCEPT !.calls = Tail(@), !.counted = reached]
          /\ UNCHANGED <<tql, ran>>
  /\ UNCHANGED <<link, bounds>>

\* The server or the network drops the connection; half a minute passes; another client
\* adds a row the key fits
Break ==
  /\ link.up /\ ~Stateless /\ bounds.breaks < MaxBreaks
  /\ link' = [link EXCEPT !.up = FALSE] /\ bounds' = [bounds EXCEPT !.breaks = @ + 1]
  /\ UNCHANGED <<tql, doing, ran>>
Rest ==
  /\ doing = Idle /\ ~tql.idle /\ tql' = [tql EXCEPT !.idle = TRUE]
  /\ UNCHANGED <<link, doing, ran, bounds>>
OtherWrites ==
  /\ tql.kind = "clickhouse" /\ bounds.others < MaxOthers /\ bounds' = [bounds EXCEPT !.others = @ + 1]
  /\ UNCHANGED <<link, tql, doing, ran>>

Next ==
  \/ \E op \in {"run", "reading", "change", "use", "schema", "default"} : Ask(op)
  \/ \E answered \in BOOLEAN : CallTaken(answered)
  \/ CallLost \/ Dial \/ Count \/ Break \/ Rest \/ OtherWrites

Spec == Init /\ [][Next]_driverVars

-----------------------------------------------------------------------------
Tried == {n \in 1..Len(ran) : ran[n].times > 0}

\* A statement is taken once at most, and one that tql said was done was taken and is kept,
\* unless it was to be read only: then nothing of it stays
SentOnce == \A n \in 1..Len(ran) :
  /\ ran[n].times <= 1
  /\ ran[n].op = "reading" => ~ran[n].kept
  /\ ran[n].op # "reading" /\ ran[n].said = "done" => ran[n].kept

\* A change of one row reaches more only if they came after it was counted
ReachesWhatWasMeant == \A n \in Tried : ran[n].counted <= 1

\* A statement runs in the database the tables pane names, and the schema tql takes for the
\* usual one is the server's, until a connection is dialed anew that loses what was set
RunsWhereShown ==
  \/ tql.slipped
  \/ /\ \A n \in Tried : ran[n].db = ran[n].for
     /\ link.up /\ tql.schema # "none" => tql.schema = link.schema

DriversAreTrue == SentOnce /\ ReachesWhatWasMeant /\ RunsWhereShown
=============================================================================
