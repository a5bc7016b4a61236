---------------------------- MODULE DriversProofs ----------------------------
(***************************************************************************)
(* Proofs about the drivers, for any databases, statements and breaks of   *)
(* the network: what tql says of a statement is what the server did with   *)
(* it, one that only reads leaves nothing, a change reaches what was       *)
(* counted, and all of it in the database the tables pane names; then      *)
(* about the sessions of any number of tqls at Snowflake, about what a     *)
(* browser has listed of a server, and last about the rows of a table.     *)
(***************************************************************************)
EXTENDS Drivers, SequenceTheorems, FiniteSetTheorems, TLAPS

Links == [up : BOOLEAN, db : Databases, in : {"none", "reading", "undone"}, schema : {"usual", "set"}]
TqlSet == [kind : DOMAIN CallsOf, has : BOOLEAN, idle : BOOLEAN, named : Databases, title : Databases,
           schema : {"none", "usual", "set"}, slipped : BOOLEAN]
Counting == {"run", "reading", "change"}
Statement == [op : Counting, for : Databases, db : Databases, times : {0, 1}, kept : BOOLEAN,
              said : {"none", "error", "done"}, reached : Nat, counted : {0, 1}]

\* The calls an operation may have left
Left(op) ==
  CASE op = "none" -> {<<>>}
    [] op = "run" -> {<<"run">>, <<"run", "affected">>, <<"affected">>}
    [] op = "reading" -> {<<"begin_reading", "run", "rollback">>, <<"begin", "run", "rollback">>,
                          <<"run", "rollback">>, <<"rollback">>, <<"run_reading">>}
    [] op = "change" -> {<<"look", "run">>, <<"run">>, <<"look", "count", "mutate">>,
                         <<"count", "mutate">>, <<"mutate">>}
    [] op = "use" -> {<<"use">>, <<"try">>, <<"dial">>}
    [] op = "schema" -> {<<"set_schema">>}
    [] op = "default" -> {<<"default">>}
Ops == {"none", "run", "reading", "change", "use", "schema", "default"}

DriversTyped ==
  /\ link \in Links /\ tql \in TqlSet /\ ran \in Seq(Statement)
  /\ bounds \in [breaks : Nat, uses : Nat, others : Nat]
  /\ doing \in [op : Ops, calls : UNION {Left(op) : op \in Ops}, n : 0 .. Len(ran), db : Databases,
                counted : {0, 1}]

Next1 == IF doing.calls = <<>> THEN "none" ELSE Head(doing.calls)

\* An operation has calls of its driver left, and is for the database of the title
DoingFits ==
  /\ doing.calls \in Left(doing.op) /\ (doing.op = "none" => doing = Idle)
  /\ doing.n > 0 <=> doing.op \in Counting
  /\ doing.n > 0 => doing.db = tql.title
  /\ doing.op = "reading" /\ Stateless => doing.calls = <<"run_reading">>
  /\ doing.op = "use" =>
       doing.calls = IF tql.kind = "mysql" THEN <<"use">> ELSE IF Stateless THEN <<"try">> ELSE <<"dial">>
  /\ doing.op \in {"schema", "default"} => tql.kind = "postgres"

\* A statement is taken once its call is, and what was said of it is so.
RanFits ==
  /\ \A i \in DOMAIN ran :
       /\ ran[i].op = "reading" => ~ran[i].kept
       /\ ran[i].op # "reading" /\ ran[i].said = "done" => ran[i].kept
  /\ doing.n > 0 =>
       /\ ran[doing.n].op = doing.op /\ ran[doing.n].for = doing.db /\ ran[doing.n].said = "none"
       /\ IF Next1 \in {"rollback", "affected"}
          THEN doing.op # "reading" => ran[doing.n].kept
          ELSE ran[doing.n].times = 0

\* The transaction of a statement that only reads is open, on the connection it was opened on, and
\* no other is.
Reading == doing.op = "reading" /\ Next1 \in {"run", "rollback"}
LinkFits ==
  /\ link.up => (link.in = "none" <=> ~Reading)
  /\ Reading /\ tql.kind \in {"mysql", "postgres"} => ~tql.idle /\ (tql.kind = "mysql" => tql.has)
  /\ tql.kind \in {"postgres", "sqlserver"} => tql.named = tql.title
  /\ Stateless => tql.named = IF doing.op = "use" THEN doing.db ELSE tql.title
  /\ tql.kind # "postgres" \/ doing.op = "schema" => tql.schema = "none"

\* Statements ran where they were meant to, and the connection is there.
Shown ==
  /\ \A i \in DOMAIN ran : ran[i].times > 0 => ran[i].db = ran[i].for
  /\ link.up /\ ~Stateless => link.db = tql.title
  /\ link.up /\ tql.schema # "none" => tql.schema = link.schema

DriversInv == DriversTyped /\ DoingFits /\ RanFits /\ LinkFits /\ (tql.slipped \/ Shown)

KindSet == {"mysql", "postgres", "sqlserver", "clickhouse", "snowflake"}
LEMMA KindsAre == DOMAIN CallsOf = KindSet
  BY DEF CallsOf, KindSet

LEMMA FreshTyped == \A d \in Databases : Fresh(d) \in Links
  BY DEF Fresh, Links

LEMMA LeftTyped == \A op \in Ops : Left(op) \subseteq UNION {Left(o) : o \in Ops}
  OBVIOUS

LEMMA CallsAre ==
  ASSUME NEW kind \in KindSet, NEW op \in DOMAIN CallsOf[kind]
  PROVE  /\ op \in Ops \ {"none"} /\ CallsOf[kind][op] \in Left(op)
         /\ op = "reading" /\ kind \in {"clickhouse", "snowflake"} => CallsOf[kind][op] = <<"run_reading">>
         /\ op = "reading" => Head(CallsOf[kind][op]) \notin {"run", "rollback"}
         /\ Head(CallsOf[kind][op]) \notin {"rollback", "affected"} /\ CallsOf[kind][op] # <<>>
         /\ op = "use" =>
              CallsOf[kind][op] = IF kind = "mysql" THEN <<"use">>
                                  ELSE IF kind \in {"clickhouse", "snowflake"} THEN <<"try">> ELSE <<"dial">>
         /\ op \in {"schema", "default"} => kind = "postgres"
<1> DEFINE c == CallsOf[kind][op]
<1>1. \/ op = "run" /\ c \in {<<"run">>, <<"run", "affected">>}
      \/ /\ op = "reading"
         /\ c = CASE kind \in {"mysql", "postgres"} -> <<"begin_reading", "run", "rollback">>
                  [] kind = "sqlserver" -> <<"begin", "run", "rollback">>
                  [] OTHER -> <<"run_reading">>
      \/ op = "change" /\ c \in {<<"look", "run">>, <<"run">>, <<"look", "count", "mutate">>}
      \/ /\ op = "use"
         /\ c = IF kind = "mysql" THEN <<"use">>
                ELSE IF kind \in {"clickhouse", "snowflake"} THEN <<"try">> ELSE <<"dial">>
      \/ op = "schema" /\ kind = "postgres" /\ c = <<"set_schema">>
      \/ op = "default" /\ kind = "postgres" /\ c = <<"default">>
  <2>1. CASE kind = "mysql"
    <3>1. CallsOf[kind] = MySqlCalls
      BY <2>1 DEF CallsOf
    <3>2. /\ DOMAIN MySqlCalls = {"run", "reading", "change", "use"}
          /\ MySqlCalls.run = <<"run">>
          /\ MySqlCalls.reading = <<"begin_reading", "run", "rollback">>
          /\ MySqlCalls.change = <<"look", "run">>
          /\ MySqlCalls.use = <<"use">>
      BY DEF MySqlCalls
    <3> QED
      BY <2>1, <3>1, <3>2
  <2>2. CASE kind = "postgres"
    <3>1. CallsOf[kind] = PostgresCalls
      BY <2>2 DEF CallsOf
    <3>2. /\ DOMAIN PostgresCalls = {"run", "reading", "change", "use", "schema", "default"}
          /\ PostgresCalls.run = <<"run">>
          /\ PostgresCalls.reading = <<"begin_reading", "run", "rollback">>
          /\ PostgresCalls.change = <<"run">>
          /\ PostgresCalls.use = <<"dial">>
          /\ PostgresCalls.schema = <<"set_schema">>
          /\ PostgresCalls.default = <<"default">>
      BY DEF PostgresCalls
    <3> QED
      BY <2>2, <3>1, <3>2
  <2>3. CASE kind = "sqlserver"
    <3>1. CallsOf[kind] = SqlServerCalls
      BY <2>3 DEF CallsOf
    <3>2. /\ DOMAIN SqlServerCalls = {"run", "reading", "change", "use"}
          /\ SqlServerCalls.run = <<"run", "affected">>
          /\ SqlServerCalls.reading = <<"begin", "run", "rollback">>
          /\ SqlServerCalls.change = <<"look", "run">>
          /\ SqlServerCalls.use = <<"dial">>
      BY DEF SqlServerCalls
    <3> QED
      BY <2>3, <3>1, <3>2
  <2>4. CASE kind = "clickhouse"
    <3>1. CallsOf[kind] = ClickHouseCalls
      BY <2>4 DEF CallsOf
    <3>2. /\ DOMAIN ClickHouseCalls = {"run", "reading", "change", "use"}
          /\ ClickHouseCalls.run = <<"run">>
          /\ ClickHouseCalls.reading = <<"run_reading">>
          /\ ClickHouseCalls.change = <<"look", "count", "mutate">>
          /\ ClickHouseCalls.use = <<"try">>
      BY DEF ClickHouseCalls
    <3> QED
      BY <2>4, <3>1, <3>2
  <2>5. CASE kind = "snowflake"
    <3>1. CallsOf[kind] = SnowflakeCalls
      BY <2>5 DEF CallsOf
    <3>2. /\ DOMAIN SnowflakeCalls = {"run", "change", "use"}
          /\ SnowflakeCalls.run = <<"run">>
          /\ SnowflakeCalls.change = <<"look", "run">>
          /\ SnowflakeCalls.use = <<"try">>
      BY DEF SnowflakeCalls
    <3> QED
      BY <2>5, <3>1, <3>2
  <2> QED
    BY <2>1, <2>2, <2>3, <2>4, <2>5 DEF KindSet
<1> HIDE DEF c
<1>2. op \in Ops \ {"none"} /\ (op \in {"schema", "default"} => kind = "postgres")
  BY <1>1 DEF Ops
<1>3. /\ op = "reading" /\ kind \in {"clickhouse", "snowflake"} => c = <<"run_reading">>
      /\ op = "use" => c = IF kind = "mysql" THEN <<"use">>
                           ELSE IF kind \in {"clickhouse", "snowflake"} THEN <<"try">> ELSE <<"dial">>
  BY <1>1
<1>4. /\ c \in Left(op) /\ c # <<>> /\ Head(c) \notin {"rollback", "affected"}
      /\ op = "reading" => Head(c) \notin {"run", "rollback"}
  <2>1. CASE op = "run"
    <3>1. c \in {<<"run">>, <<"run", "affected">>}
      BY <1>1, <2>1
    <3> QED
      BY <2>1, <3>1 DEF Left
  <2>2. CASE op = "reading"
    <3>1. c \in {<<"begin_reading", "run", "rollback">>, <<"begin", "run", "rollback">>, <<"run_reading">>}
      BY <1>1, <2>2 DEF KindSet
    <3>2. c \in Left(op)
      BY <2>2, <3>1 DEF Left
    <3>3. c # <<>> /\ Head(c) \in {"begin_reading", "begin", "run_reading"}
      <4>1. CASE c = <<"begin_reading", "run", "rollback">>
        BY <4>1
      <4>2. CASE c = <<"begin", "run", "rollback">>
        BY <4>2
      <4>3. CASE c = <<"run_reading">>
        BY <4>3
      <4> QED
        BY <3>1, <4>1, <4>2, <4>3
    <3> QED
      BY <3>2, <3>3
  <2>3. CASE op = "change"
    <3>1. c \in {<<"look", "run">>, <<"run">>, <<"look", "count", "mutate">>}
      BY <1>1, <2>3
    <3> QED
      BY <2>3, <3>1 DEF Left
  <2>4. CASE op = "use"
    <3>1. c \in {<<"use">>, <<"try">>, <<"dial">>}
      BY <1>1, <2>4
    <3> QED
      BY <2>4, <3>1 DEF Left
  <2>5. CASE op = "schema"
    <3>1. c = <<"set_schema">>
      BY <1>1, <2>5
    <3>2. c \in Left(op)
      BY <2>5, <3>1 DEF Left
    <3> QED
      BY <2>5, <3>1, <3>2
  <2>6. CASE op = "default"
    BY <1>1, <2>6 DEF Left
  <2> QED
    BY <1>1, <2>1, <2>2, <2>3, <2>4, <2>5, <2>6
<1> QED
  BY <1>2, <1>3, <1>4 DEF c

LEMMA DriversInit == ASSUME ConstantsFit, Init PROVE DriversInv
<1>1. tql \in TqlSet /\ tql.schema = "none" /\ tql.title = Saved /\ tql.named = Saved
  BY DEF Init, TqlSet, ConstantsFit
<1>2. ran = <<>> /\ doing = Idle /\ link = Fresh(Saved) /\ bounds = [breaks |-> 0, uses |-> 0, others |-> 0]
  BY DEF Init
<1>3. DriversTyped
  BY <1>1, <1>2, FreshTyped DEF DriversTyped, ConstantsFit, Idle, Ops, Left
<1>4. DoingFits /\ RanFits
  BY <1>1, <1>2 DEF DoingFits, RanFits, Idle, Left, Counting
<1>5. LinkFits /\ Shown
  BY <1>1, <1>2 DEF LinkFits, Shown, Reading, Idle, Fresh
<1> QED
  BY <1>3, <1>4, <1>5 DEF DriversInv

\* The connection a call goes over
LiveAs(l, t, there) ==
  /\ l \in Links /\ t \in TqlSet
  /\ t.kind = tql.kind /\ t.title = tql.title /\ t.named = tql.named /\ t.schema = tql.schema
  /\ Stateless => l = Fresh(tql.named)
  /\ ~there => ~l.up /\ ~Stateless
  /\ l.up => (l.in = "none" <=> ~Reading)
  /\ there /\ tql.kind \in {"mysql", "postgres"} => ~t.idle /\ (tql.kind = "mysql" => t.has)
  /\ t.slipped \/ ( /\ ~tql.slipped
                    /\ l.up /\ ~Stateless => l.db = tql.title
                    /\ l.up /\ tql.schema # "none" => tql.schema = l.schema)

LEMMA LiveFits ==
  ASSUME ConstantsFit, DriversInv, NEW lively \in Live
  PROVE  LiveAs(lively[1], lively[2], lively[3])
<1>1. /\ tql \in TqlSet /\ link \in Links /\ Saved \in Databases /\ tql.kind \in KindSet
      /\ tql.named \in Databases /\ Fresh(Saved) \in Links /\ Fresh(tql.named) \in Links
  BY KindsAre, FreshTyped DEF DriversInv, DriversTyped, TqlSet, ConstantsFit
<1>2. ASSUME NEW idle \in BOOLEAN, ~Stateless,
             tql.kind = "sqlserver" \/ (~idle /\ (tql.kind = "mysql" => tql.has))
      PROVE  LiveAs(link, [tql EXCEPT !.idle = idle], TRUE)
  <2> DEFINE t == [tql EXCEPT !.idle = idle]
  <2>1. /\ t \in TqlSet /\ t.kind = tql.kind /\ t.title = tql.title /\ t.named = tql.named
        /\ t.schema = tql.schema /\ t.slipped = tql.slipped /\ t.idle = idle /\ t.has = tql.has
    BY <1>1, <1>2 DEF TqlSet
  <2> HIDE DEF t
  <2>2. link.up => (link.in = "none" <=> ~Reading)
    BY DEF DriversInv, LinkFits
  <2>3. t.slipped \/ ( /\ ~tql.slipped
                       /\ link.up /\ ~Stateless => link.db = tql.title
                       /\ link.up /\ tql.schema # "none" => tql.schema = link.schema)
    BY <2>1 DEF DriversInv, Shown
  <2>4. tql.kind \in {"mysql", "postgres"} => ~t.idle /\ (tql.kind = "mysql" => t.has)
    BY <1>2, <2>1
  <2> QED
    BY <1>1, <1>2, <2>1, <2>2, <2>3, <2>4 DEF LiveAs, t
<1>3. CASE tql.kind = "mysql"
  <2>1. ~Stateless
    BY <1>3 DEF Stateless
  <2>4. Live = LiveMySql
    BY <1>3, <2>1 DEF Live
  <2>2. CASE tql.has /\ (~tql.idle \/ link.up)
    <3>1. lively = <<link, [tql EXCEPT !.idle = FALSE], TRUE>>
      BY <2>2, <2>4 DEF LiveMySql
    <3> QED
      BY <1>2, <2>1, <2>2, <3>1
  <2>3. CASE ~(tql.has /\ (~tql.idle \/ link.up))
    <3>1. ~Reading
      BY <1>3, <2>3 DEF DriversInv, LinkFits
    <3>2. CASE lively = <<Fresh(Saved), [tql EXCEPT !.idle = FALSE, !.has = TRUE, !.slipped = @ \/ tql.title # Saved], TRUE>>
      <4> DEFINE t == [tql EXCEPT !.idle = FALSE, !.has = TRUE, !.slipped = @ \/ tql.title # Saved]
      <4>1. /\ t \in TqlSet /\ t.kind = tql.kind /\ t.title = tql.title /\ t.named = tql.named
            /\ t.schema = tql.schema /\ ~t.idle /\ t.has /\ t.slipped = (tql.slipped \/ tql.title # Saved)
        BY <1>1 DEF TqlSet
      <4>2. lively[1] = Fresh(Saved) /\ lively[2] = t /\ lively[3] = TRUE
        BY <3>2
      <4> HIDE DEF t
      <4>3. Fresh(Saved).in = "none" /\ Fresh(Saved).db = Saved
        BY DEF Fresh
      <4>4. tql.schema = "none"
        BY <1>3 DEF DriversInv, LinkFits
      <4> QED
        BY <1>1, <2>1, <3>1, <4>1, <4>2, <4>3, <4>4 DEF LiveAs
    <3>3. CASE lively = <<[link EXCEPT !.up = FALSE], [tql EXCEPT !.has = FALSE], FALSE>>
      <4> DEFINE l == [link EXCEPT !.up = FALSE] t == [tql EXCEPT !.has = FALSE]
      <4>1. /\ l \in Links /\ ~l.up
            /\ t \in TqlSet /\ t.kind = tql.kind /\ t.title = tql.title /\ t.named = tql.named
            /\ t.schema = tql.schema /\ t.slipped = tql.slipped
        BY <1>1 DEF TqlSet, Links
      <4>2. lively[1] = l /\ lively[2] = t /\ lively[3] = FALSE
        BY <3>3
      <4> HIDE DEF l, t
      <4> QED
        BY <1>1, <2>1, <4>1, <4>2 DEF LiveAs, TqlSet
    <3> QED
      BY <2>3, <2>4, <3>2, <3>3 DEF LiveMySql
  <2> QED
    BY <2>2, <2>3
<1>4. CASE tql.kind = "postgres"
  <2>1. ~Stateless
    BY <1>4 DEF Stateless
  <2>4. Live = LivePostgres
    BY <1>4, <2>1 DEF Live
  <2>2. CASE ~tql.idle \/ link.up
    <3>1. lively = <<link, [tql EXCEPT !.idle = FALSE], TRUE>>
      BY <2>2, <2>4 DEF LivePostgres
    <3> QED
      BY <1>2, <1>4, <2>1, <3>1
  <2>3. CASE ~(~tql.idle \/ link.up)
    <3>1. ~Reading
      BY <1>4, <2>3 DEF DriversInv, LinkFits
    <3>2. CASE lively = <<Fresh(tql.named), [tql EXCEPT !.idle = FALSE, !.slipped = @ \/ tql.schema = "set"], TRUE>>
      <4> DEFINE t == [tql EXCEPT !.idle = FALSE, !.slipped = @ \/ tql.schema = "set"]
      <4>1. /\ t \in TqlSet /\ t.kind = tql.kind /\ t.title = tql.title /\ t.named = tql.named
            /\ t.schema = tql.schema /\ ~t.idle /\ t.slipped = (tql.slipped \/ tql.schema = "set")
        BY <1>1 DEF TqlSet
      <4>2. lively[1] = Fresh(tql.named) /\ lively[2] = t /\ lively[3] = TRUE
        BY <3>2
      <4> HIDE DEF t
      <4>3. /\ Fresh(tql.named).in = "none" /\ Fresh(tql.named).db = tql.named
            /\ Fresh(tql.named).schema = "usual"
        BY DEF Fresh
      <4>4. tql.named = tql.title /\ tql.schema \in {"none", "usual", "set"}
        BY <1>1, <1>4 DEF DriversInv, LinkFits, TqlSet
      <4> QED
        BY <1>1, <1>4, <2>1, <3>1, <4>1, <4>2, <4>3, <4>4 DEF LiveAs
    <3>3. CASE lively = <<link, tql, FALSE>>
      <4>1. lively[1] = link /\ lively[2] = tql /\ lively[3] = FALSE
        BY <3>3
      <4> QED
        BY <1>1, <2>1, <2>3, <4>1 DEF LiveAs, TqlSet
    <3> QED
      BY <2>3, <2>4, <3>2, <3>3 DEF LivePostgres
  <2> QED
    BY <2>2, <2>3
<1>5. CASE tql.kind = "sqlserver"
  <2>1. lively[1] = link /\ lively[2] = tql /\ lively[3] = TRUE
    <3>1. ~Stateless
      BY <1>5 DEF Stateless
    <3>2. Live = {<<link, tql, TRUE>>}
      BY <1>5, <3>1 DEF Live
    <3>3. lively = <<link, tql, TRUE>>
      BY <3>2
    <3> QED
      BY <3>3
  <2>2. tql = [tql EXCEPT !.idle = tql.idle] /\ tql.idle \in BOOLEAN /\ ~Stateless
    BY <1>1, <1>5 DEF TqlSet, Stateless
  <2> QED
    BY <1>2, <1>5, <2>1, <2>2
<1>6. CASE Stateless
  <2>1. lively[1] = Fresh(tql.named) /\ lively[2] = tql /\ lively[3] = TRUE
    <3>1. tql.kind \notin {"mysql", "postgres", "sqlserver"}
      BY <1>6 DEF Stateless
    <3>2. Live = LiveRequest
      BY <1>6, <3>1 DEF Live
    <3>3. lively = <<Fresh(tql.named), tql, TRUE>>
      BY <3>2 DEF LiveRequest
    <3> QED
      BY <3>3
  <2>2. Fresh(tql.named).in = "none"
    BY DEF Fresh
  <2>3. ~Reading
    BY <1>6 DEF DriversInv, DoingFits, Reading, Next1
  <2>4. tql.schema = "none" /\ tql.kind \notin {"mysql", "postgres"}
    BY <1>6 DEF DriversInv, LinkFits, Stateless
  <2> QED
    BY <1>1, <1>6, <2>1, <2>2, <2>3, <2>4 DEF LiveAs
<1> QED
  BY <1>1, <1>3, <1>4, <1>5, <1>6 DEF KindSet, Stateless

-----------------------------------------------------------------------------
\* Statements as a call left them
NotedAs(noted) ==
  /\ noted \in Seq(Statement) /\ Len(noted) = Len(ran)
  /\ \A i \in DOMAIN ran :
       /\ noted[i].op = ran[i].op /\ noted[i].for = ran[i].for /\ noted[i].said = ran[i].said
       /\ i # doing.n => noted[i] = ran[i]
       /\ noted[i].op = "reading" => ~noted[i].kept

RanWhereMeant(noted) == \A i \in DOMAIN ran : noted[i].times > 0 => noted[i].db = noted[i].for

LEMMA Numbered ==
  ASSUME DriversTyped
  PROVE  Len(ran) \in Nat /\ DOMAIN ran = 1 .. Len(ran) /\ (doing.n > 0 => doing.n \in DOMAIN ran)
         /\ doing.n \in 0 .. Len(ran)
BY DEF DriversTyped

\* An operation ends.
LEMMA Ends ==
  ASSUME ConstantsFit, DriversInv, NEW noted, NotedAs(noted), NEW how \in {"done", "error"}, Ended(how, noted),
         how = "done" /\ doing.n > 0 /\ doing.op # "reading" => noted[doing.n].kept,
         link' \in Links, tql' \in TqlSet, tql'.kind = tql.kind,
         bounds' \in [breaks : Nat, uses : Nat, others : Nat],
         link'.up => link'.in = "none",
         tql'.kind # "mysql" => tql'.named = tql'.title,
         tql'.kind # "postgres" => tql'.schema = "none",
         tql'.slipped \/ ( /\ RanWhereMeant(noted)
                           /\ link'.up /\ ~Stateless => link'.db = tql'.title
                           /\ link'.up /\ tql'.schema # "none" => tql'.schema = link'.schema)
  PROVE  DriversInv'
<1>1. /\ doing' = Idle /\ ran' = IF doing.n > 0 THEN [noted EXCEPT ![doing.n].said = how] ELSE noted
      /\ Idle.op = "none" /\ Idle.n = 0 /\ Idle.calls = <<>> /\ Idle.db = Saved /\ Idle.counted = 0
  BY DEF Ended, Idle
<1>2. /\ noted \in Seq(Statement) /\ DOMAIN noted = 1 .. Len(noted) /\ Len(noted) = Len(ran)
      /\ Len(ran) \in Nat /\ DOMAIN ran = 1 .. Len(ran) /\ (doing.n > 0 => doing.n \in DOMAIN ran)
      /\ \A i \in DOMAIN ran : noted[i] \in Statement
  BY Numbered DEF DriversInv, NotedAs
<1>3. /\ ran' \in Seq(Statement) /\ Len(ran') = Len(ran)
      /\ \A i \in DOMAIN ran :
           /\ ran'[i].op = noted[i].op /\ ran'[i].kept = noted[i].kept /\ ran'[i].times = noted[i].times
           /\ ran'[i].db = noted[i].db /\ ran'[i].for = noted[i].for
           /\ ran'[i].said = IF doing.n > 0 /\ i = doing.n THEN how ELSE noted[i].said
  <2>1. CASE doing.n > 0
    <3> DEFINE one == [noted[doing.n] EXCEPT !.said = how]
    <3>1. one \in Statement /\ one.said = how
          /\ one.op = noted[doing.n].op /\ one.kept = noted[doing.n].kept /\ one.times = noted[doing.n].times
          /\ one.db = noted[doing.n].db /\ one.for = noted[doing.n].for
      <4>1. PICK before \in Statement : before = noted[doing.n]
        BY <1>2, <2>1
      <4> QED
        BY <1>2, <4>1 DEF Statement
    <3>2. ran' = [noted EXCEPT ![doing.n] = one]
      BY <1>1, <2>1
    <3> HIDE DEF one
    <3>3. /\ [noted EXCEPT ![doing.n] = one] \in Seq(Statement)
          /\ Len([noted EXCEPT ![doing.n] = one]) = Len(noted)
          /\ \A i \in 1 .. Len(noted) :
               [noted EXCEPT ![doing.n] = one][i] = IF i = doing.n THEN one ELSE noted[i]
      BY <1>2, <2>1, <3>1, ExceptSeq
    <3> QED
      BY <1>2, <2>1, <3>1, <3>2, <3>3
  <2>2. CASE ~(doing.n > 0)
    BY <1>1, <1>2, <2>2
  <2> QED
    BY <2>1, <2>2
<1>4. DOMAIN ran' = DOMAIN ran
  BY <1>2, <1>3
<1>5. DriversTyped'
  <2>1. doing' \in [op : Ops, calls : UNION {Left(op) : op \in Ops}, n : 0 .. Len(ran'), db : Databases,
                    counted : {0, 1}]
    <3>1. "none" \in Ops /\ <<>> \in Left("none") /\ 0 \in 0 .. Len(ran')
      BY <1>2, <1>3 DEF Ops, Left
    <3>2. <<>> \in UNION {Left(op) : op \in Ops}
      BY <3>1
    <3> QED
      BY <1>1, <3>1, <3>2 DEF Idle, ConstantsFit
  <2> QED
    BY <1>3, <2>1 DEF DriversTyped
<1>6. DoingFits'
  BY <1>1 DEF DoingFits, Left, Counting, Stateless
<1>7. RanFits'
  <2>1. ASSUME NEW i \in DOMAIN ran
        PROVE  /\ ran'[i].op = "reading" => ~ran'[i].kept
               /\ ran'[i].op # "reading" /\ ran'[i].said = "done" => ran'[i].kept
    <3>1. CASE doing.n > 0 /\ i = doing.n
      BY <1>3, <3>1 DEF NotedAs, DriversInv, RanFits
    <3>2. CASE ~(doing.n > 0 /\ i = doing.n)
      <4>1. noted[i] = ran[i]
        BY <1>2, <3>2 DEF NotedAs
      <4> QED
        BY <1>3, <3>2, <4>1 DEF DriversInv, RanFits
    <3> QED
      BY <3>1, <3>2
  <2> QED
    BY <1>1, <1>4, <2>1 DEF RanFits
<1>8. ~Reading'
  BY <1>1 DEF Reading
<1>9. LinkFits'
  <2>1. Stateless' => tql'.kind # "mysql"
    BY DEF Stateless
  <2> QED
    BY <1>1, <1>8, <2>1 DEF LinkFits
<1>10. tql'.slipped \/ Shown'
  BY <1>3, <1>4 DEF Shown, RanWhereMeant, Stateless
<1> QED
  BY <1>5, <1>6, <1>7, <1>9, <1>10 DEF DriversInv

LEMMA RanNoted ==
  ASSUME DriversInv
  PROVE  NotedAs(ran) /\ (tql.slipped \/ RanWhereMeant(ran))
BY DEF DriversInv, DriversTyped, NotedAs, RanFits, Shown, RanWhereMeant

\* What a call notes
LEMMA NotedFits ==
  ASSUME DriversInv, NEW l \in Links, l.in = "none" <=> ~Reading, NEW call, call = Next1
  PROVE  /\ NotedAs(Noted(l, call))
         /\ \A i \in DOMAIN ran : i # doing.n \/ ~Applied(l, call) => Noted(l, call)[i] = ran[i]
         /\ doing.n > 0 /\ Applied(l, call) =>
              /\ Noted(l, call)[doing.n].kept = (l.in = "none") /\ Noted(l, call)[doing.n].db = l.db
              /\ Noted(l, call)[doing.n].for = tql.title
<1>1. CASE ~(Applied(l, call) /\ doing.n > 0)
  BY <1>1, RanNoted, Numbered DEF Noted, DriversInv
<1>2. CASE Applied(l, call) /\ doing.n > 0
  <2> DEFINE old == ran[doing.n]
             one == Noted(l, call)[doing.n]
  <2>1. /\ ran \in Seq(Statement) /\ doing.n \in 1 .. Len(ran) /\ old \in Statement /\ old.times = 0
        /\ bounds.others \in Nat /\ doing.counted \in {0, 1} /\ l.db \in Databases
        /\ DOMAIN ran = 1 .. Len(ran)
    BY <1>2, Numbered DEF DriversInv, DriversTyped, RanFits, Applied, Links
  <2> DEFINE reached == IF call = "mutate" THEN 1 + bounds.others ELSE 1
             put(kept) == [old EXCEPT !.times = old.times + 1, !.db = l.db, !.kept = kept,
                                      !.counted = doing.counted, !.reached = reached]
  <2>8. Noted(l, call) = [ran EXCEPT ![doing.n] = put(l.in = "none")]
    BY <1>2 DEF Noted
  <2>9. reached \in Nat /\ old.times + 1 = 1
    BY <2>1
  <2> HIDE DEF reached
  <2>10. ASSUME NEW kept \in BOOLEAN
         PROVE  /\ put(kept) \in Statement /\ put(kept).op = old.op /\ put(kept).for = old.for
                /\ put(kept).said = old.said /\ put(kept).db = l.db /\ put(kept).kept = kept
                /\ put(kept).times = 1
    BY <2>1, <2>9 DEF Statement
  <2> HIDE DEF put
  <2>11. one = put(l.in = "none")
    BY <2>1, <2>8
  <2>2. /\ one \in Statement /\ one.op = old.op /\ one.for = old.for /\ one.said = old.said
        /\ one.db = l.db /\ one.kept = (l.in = "none")
    BY <2>10, <2>11
  <2>3. Noted(l, call) = [ran EXCEPT ![doing.n] = one]
    BY <2>1, <2>8
  <2> HIDE DEF one
  <2>4. /\ [ran EXCEPT ![doing.n] = one] \in Seq(Statement)
        /\ Len([ran EXCEPT ![doing.n] = one]) = Len(ran)
        /\ \A i \in 1 .. Len(ran) : [ran EXCEPT ![doing.n] = one][i] = IF i = doing.n THEN one ELSE ran[i]
    BY <2>1, <2>2, ExceptSeq
  <2>5. old.op = doing.op /\ old.for = tql.title
    BY <1>2 DEF DriversInv, RanFits, DoingFits
  <2>6. old.op = "reading" => ~one.kept
    <3>1. call \in {"run", "mutate"} /\ doing.calls \in Left(doing.op)
      BY <1>2 DEF Applied, DriversInv, DoingFits
    <3>2. ASSUME doing.op = "reading" PROVE Reading
      BY <3>1, <3>2 DEF Reading, Next1, Left
    <3> QED
      BY <2>2, <2>5, <3>2
  <2>7. NotedAs(Noted(l, call))
    BY <2>1, <2>2, <2>3, <2>4, <2>6 DEF NotedAs, DriversInv, RanFits
  <2> QED
    BY <1>2, <2>1, <2>2, <2>3, <2>4, <2>5, <2>7
<1> QED
  BY <1>1, <1>2

-----------------------------------------------------------------------------
\* An operation is asked for.
LEMMA AskKeeps ==
  ASSUME ConstantsFit, DriversInv, NEW op, Ask(op)
  PROVE  DriversInv'
<1> DEFINE counts == op \in Counting
           record(db) == [op |-> op, for |-> db, db |-> db, times |-> 0, kept |-> FALSE,
                          said |-> "none", reached |-> 1, counted |-> 1]
           starts(db) == [Idle EXCEPT !.op = op, !.calls = CallsOf[tql.kind][op], !.db = db,
                                      !.n = IF counts THEN Len(ran) + 1 ELSE 0]
<1>1. /\ doing = Idle /\ op \in DOMAIN CallsOf[tql.kind] /\ UNCHANGED link
      /\ bounds' = [bounds EXCEPT !.uses = IF op = "use" THEN @ + 1 ELSE @]
      /\ tql' = [tql EXCEPT !.schema = IF op = "schema" THEN "none" ELSE @,
                            !.named = IF op = "use" /\ Stateless THEN doing'.db ELSE @]
  BY DEF Ask
<1>2. PICK db \in IF op = "use" THEN Databases \ {tql.title} ELSE {tql.title} :
        doing' = starts(db) /\ ran' = IF counts THEN Append(ran, record(db)) ELSE ran
  BY DEF Ask, Counting
<1>3. /\ tql \in TqlSet /\ tql.kind \in KindSet /\ ran \in Seq(Statement) /\ link \in Links
      /\ bounds \in [breaks : Nat, uses : Nat, others : Nat] /\ Len(ran) \in Nat
      /\ DOMAIN ran = 1 .. Len(ran) /\ tql.title \in Databases
  BY KindsAre, Numbered DEF DriversInv, DriversTyped, TqlSet
<1>4. db \in Databases /\ (op # "use" => db = tql.title)
  BY <1>3
<1> DEFINE calls == CallsOf[tql.kind][op]
<1>5. /\ op \in Ops \ {"none"} /\ calls \in Left(op)
      /\ op = "reading" /\ Stateless => calls = <<"run_reading">>
      /\ op = "reading" => Head(calls) \notin {"run", "rollback"}
      /\ Head(calls) \notin {"rollback", "affected"} /\ calls # <<>>
      /\ op = "use" =>
           calls = IF tql.kind = "mysql" THEN <<"use">> ELSE IF Stateless THEN <<"try">> ELSE <<"dial">>
      /\ op \in {"schema", "default"} => tql.kind = "postgres"
  BY <1>1, <1>3, CallsAre DEF Stateless
<1> HIDE DEF calls
<1>6. /\ doing'.op = op /\ doing'.calls = calls /\ doing'.db = db /\ doing'.counted = 0
      /\ doing'.n = IF counts THEN Len(ran) + 1 ELSE 0
      /\ doing' = [op |-> op, calls |-> calls, n |-> IF counts THEN Len(ran) + 1 ELSE 0, db |-> db, counted |-> 0]
  BY <1>2 DEF Idle, calls
<1>7. /\ tql' \in TqlSet /\ tql'.kind = tql.kind /\ tql'.title = tql.title /\ tql'.slipped = tql.slipped
      /\ tql'.idle = tql.idle /\ tql'.has = tql.has
      /\ tql'.schema = (IF op = "schema" THEN "none" ELSE tql.schema)
      /\ tql'.named = (IF op = "use" /\ Stateless THEN db ELSE tql.named)
  BY <1>1, <1>3, <1>4, <1>6 DEF TqlSet
<1>8. counts => record(db) \in Statement
  BY <1>4 DEF Statement
<1>9. /\ ran' \in Seq(Statement) /\ (counts => Len(ran') = Len(ran) + 1 /\ ran'[Len(ran) + 1] = record(db))
      /\ ~counts => ran' = ran
      /\ \A i \in DOMAIN ran : ran'[i] = ran[i]
      /\ DOMAIN ran' = 1 .. IF counts THEN Len(ran) + 1 ELSE Len(ran)
  <2> HIDE DEF record
  <2>1. CASE counts
    <3>1. /\ ran' \in Seq(Statement) /\ Len(ran') = Len(ran) + 1
          /\ \A i \in 1 .. Len(ran) : ran'[i] = ran[i]
          /\ ran'[Len(ran) + 1] = record(db)
      BY <1>2, <1>3, <1>8, <2>1, AppendProperties
    <3>2. DOMAIN ran' = 1 .. Len(ran')
      BY <3>1
    <3> QED
      BY <1>3, <2>1, <3>1, <3>2
  <2>2. CASE ~counts
    BY <1>2, <1>3, <2>2
  <2> QED
    BY <2>1, <2>2
<1>10. DriversTyped'
  <2>1. bounds' \in [breaks : Nat, uses : Nat, others : Nat]
    BY <1>1, <1>3
  <2>2. doing'.n \in 0 .. Len(ran') /\ calls \in UNION {Left(o) : o \in Ops}
    BY <1>3, <1>5, <1>6, <1>9
  <2>3. doing' \in [op : Ops, calls : UNION {Left(o) : o \in Ops}, n : 0 .. Len(ran'), db : Databases,
                    counted : {0, 1}]
    BY <1>4, <1>5, <1>6, <2>2
  <2> QED
    BY <1>1, <1>3, <1>7, <1>9, <2>1, <2>3 DEF DriversTyped
<1>11. DoingFits'
  <2>1. Stateless' = Stateless
    BY <1>7 DEF Stateless
  <2>2. doing'.n > 0 <=> counts
    BY <1>3, <1>6
  <2>3. counts => db = tql.title
    BY <1>4 DEF Counting
  <2> QED
    BY <1>5, <1>6, <1>7, <2>1, <2>2, <2>3 DEF DoingFits
<1>12. Next1' = Head(calls)
  BY <1>5, <1>6 DEF Next1
<1>13. RanFits'
  <2>1. ASSUME NEW i \in DOMAIN ran'
        PROVE  /\ ran'[i].op = "reading" => ~ran'[i].kept
               /\ ran'[i].op # "reading" /\ ran'[i].said = "done" => ran'[i].kept
    <3>1. CASE i \in DOMAIN ran
      BY <1>9, <3>1 DEF DriversInv, RanFits
    <3>2. CASE i \notin DOMAIN ran
      <4>1. counts /\ i = Len(ran) + 1
        BY <1>3, <1>9, <3>2
      <4> QED
        BY <1>9, <4>1
    <3> QED
      BY <3>1, <3>2
  <2>2. doing'.n > 0 =>
          /\ ran'[doing'.n].op = doing'.op /\ ran'[doing'.n].for = doing'.db /\ ran'[doing'.n].said = "none"
          /\ ran'[doing'.n].times = 0
    BY <1>3, <1>6, <1>9
  <2> QED
    BY <1>5, <1>12, <2>1, <2>2 DEF RanFits
<1>14. LinkFits'
  <2>1. ~Reading' /\ ~Reading
    BY <1>1, <1>5, <1>6, <1>12 DEF Reading, Idle
  <2>2. Stateless' = Stateless /\ (Stateless => tql.kind \notin {"postgres", "sqlserver"})
    BY <1>7 DEF Stateless
  <2>3. doing.op = "none"
    BY <1>1 DEF Idle
  <2> QED
    BY <1>1, <1>6, <1>7, <2>1, <2>2, <2>3 DEF DriversInv, LinkFits
<1>15. tql'.slipped \/ Shown'
  <2>1. ASSUME Shown PROVE Shown'
    <3>1. ASSUME NEW i \in DOMAIN ran', ran'[i].times > 0 PROVE ran'[i].db = ran'[i].for
      <4>1. CASE i \in DOMAIN ran
        BY <1>9, <2>1, <3>1, <4>1 DEF Shown
      <4>2. CASE i \notin DOMAIN ran
        <5>1. counts /\ i = Len(ran) + 1
          BY <1>3, <1>9, <4>2
        <5> QED
          BY <1>9, <5>1
      <4> QED
        BY <4>1, <4>2
    <3> QED
      BY <1>1, <1>7, <2>1, <3>1 DEF Shown, Stateless
  <2> QED
    BY <1>7, <2>1 DEF DriversInv
<1> QED
  BY <1>10, <1>11, <1>13, <1>14, <1>15 DEF DriversInv

\* The rows are counted.
LEMMA CountKeeps ==
  ASSUME ConstantsFit, DriversInv, Count
  PROVE  DriversInv'
<1>1. /\ doing.calls # <<>> /\ Head(doing.calls) = "count" /\ UNCHANGED <<link, bounds>>
      /\ tql.kind \in KindSet
  BY KindsAre DEF Count, DriversInv, DriversTyped, TqlSet
<1>2. doing.op = "change" /\ doing.calls = <<"count", "mutate">>
  BY <1>1 DEF DriversInv, DoingFits, DriversTyped, Ops, Left
<1>3. CASE 1 + bounds.others > 1
  <2>1. tql' = Failed(tql) /\ Ended("error", ran)
    BY <1>3 DEF Count
  <2>2. tql' = tql
    BY <1>2, <2>1 DEF Failed, Switches, DriversInv, DriversTyped, TqlSet
  <2>3. ~Reading
    BY <1>2 DEF Reading
  <2>4. tql.kind \in {"postgres", "sqlserver", "clickhouse", "snowflake"} \/ tql.kind = "mysql"
    BY <1>1 DEF KindSet
  <2> QED
    BY <1>1, <1>2, <2>1, <2>2, <2>3, <2>4, RanNoted, Ends
       DEF DriversInv, DriversTyped, LinkFits, Shown, Stateless
<1>4. CASE ~(1 + bounds.others > 1)
  <2>1. doing' = [doing EXCEPT !.calls = Tail(@), !.counted = 1 + bounds.others] /\ UNCHANGED <<tql, ran>>
    BY <1>4 DEF Count
  <2>2. 1 + bounds.others \in {0, 1}
    BY <1>4 DEF DriversInv, DriversTyped
  <2>3. Tail(doing.calls) = <<"mutate">>
    BY <1>2
  <2>4. /\ doing'.op = "change" /\ doing'.calls = <<"mutate">> /\ doing'.n = doing.n /\ doing'.db = doing.db
        /\ doing' \in [op : Ops, calls : UNION {Left(op) : op \in Ops}, n : 0 .. Len(ran), db : Databases,
                       counted : {0, 1}]
    <3>1. <<"mutate">> \in Left("change") /\ "change" \in Ops
      BY DEF Left, Ops
    <3>2. <<"mutate">> \in UNION {Left(op) : op \in Ops}
      BY <3>1
    <3> QED
      BY <1>2, <2>1, <2>2, <2>3, <3>1, <3>2 DEF DriversInv, DriversTyped
  <2>5. DriversTyped'
    BY <1>1, <2>1, <2>4 DEF DriversInv, DriversTyped
  <2>6. DoingFits'
    BY <1>2, <2>1, <2>4 DEF DriversInv, DoingFits, Left, Stateless
  <2>7. Next1' = "mutate" /\ Next1 = "count"
    BY <1>2, <2>4 DEF Next1
  <2>8. RanFits' /\ LinkFits'
    BY <1>1, <1>2, <2>1, <2>4, <2>7 DEF DriversInv, RanFits, LinkFits, Reading, Stateless
  <2>9. tql'.slipped \/ Shown'
    BY <1>1, <2>1 DEF DriversInv, Shown, Stateless
  <2> QED
    BY <2>5, <2>6, <2>8, <2>9 DEF DriversInv
<1> QED
  BY <1>3, <1>4

LEMMA MendedFits ==
  ASSUME NEW l \in Links, NEW t \in TqlSet, NEW m \in Mended(l, t)
  PROVE  m = l \/ (t.kind = "sqlserver" /\ ~l.up /\ m = Fresh(t.named))
BY DEF Mended

\* There is no connection: the operation ends.
LEMMA CallLostKeeps ==
  ASSUME ConstantsFit, DriversInv, CallLost
  PROVE  DriversInv'
<1>1. PICK lively \in Live :
        /\ ~lively[3] \/ ~(lively[1].up \/ Stateless)
        /\ link' \in Mended(lively[1], lively[2]) /\ tql' = Failed(lively[2])
        /\ Ended("error", ran)
  BY DEF CallLost
<1> DEFINE l == lively[1] t == lively[2] there == lively[3]
<1>2. LiveAs(l, t, there) /\ UNCHANGED bounds /\ tql.named \in Databases
  BY LiveFits DEF CallLost, DriversInv, DriversTyped, TqlSet
<1> HIDE DEF l, t, there
<1>3. l \in Links /\ t \in TqlSet /\ t.kind = tql.kind /\ ~l.up /\ ~Stateless
  BY <1>1, <1>2, FreshTyped DEF LiveAs, l, t, there, Fresh
<1>4. /\ t.title = tql.title /\ t.named = tql.named /\ t.schema = tql.schema
      /\ tql' = t
  <2>1. t.title = tql.title /\ t.named = tql.named /\ t.schema = tql.schema
    BY <1>2 DEF LiveAs
  <2>2. t = [t EXCEPT !.named = t.named]
    BY <1>3 DEF TqlSet
  <2> QED
    BY <1>1, <1>3, <2>1, <2>2 DEF Failed, t
<1>5. link' = l \/ (tql.kind = "sqlserver" /\ link' = Fresh(tql.named))
  BY <1>1, <1>3, <1>4, MendedFits DEF l, t
<1>6. /\ link' \in Links
      /\ link'.up => /\ link'.in = "none" /\ link'.db = tql.named /\ link'.schema = "usual"
                     /\ tql.kind = "sqlserver"
  <2>1. /\ Fresh(tql.named) \in Links /\ Fresh(tql.named).in = "none" /\ Fresh(tql.named).db = tql.named
        /\ Fresh(tql.named).schema = "usual"
    BY <1>2, FreshTyped DEF Fresh
  <2> QED
    BY <1>3, <1>5, <2>1
<1>7. /\ tql.kind # "mysql" => tql.named = tql.title
      /\ tql.kind # "postgres" => tql.schema = "none"
  <2>1. tql.kind \in KindSet
    BY <1>3, KindsAre DEF TqlSet
  <2> QED
    BY <1>3, <2>1 DEF DriversInv, LinkFits, KindSet, Stateless
<1>8. tql'.slipped \/ RanWhereMeant(ran)
  BY <1>2, <1>4, RanNoted DEF LiveAs
<1>9. bounds' \in [breaks : Nat, uses : Nat, others : Nat]
  BY <1>2 DEF DriversInv, DriversTyped
<1> QED
  BY <1>1, <1>3, <1>4, <1>6, <1>7, <1>8, <1>9, RanNoted, Ends

\* Another connection is dialed, to the database that is asked for.
LEMMA DialKeeps ==
  ASSUME ConstantsFit, DriversInv, Dial
  PROVE  DriversInv'
<1>1. /\ doing.calls # <<>> /\ Head(doing.calls) = "dial" /\ UNCHANGED bounds
      /\ tql \in TqlSet /\ tql.kind \in KindSet /\ link \in Links /\ doing.db \in Databases
      /\ bounds' \in [breaks : Nat, uses : Nat, others : Nat]
  BY KindsAre DEF Dial, DriversInv, DriversTyped, TqlSet
<1>2. doing.op = "use" /\ doing.calls = <<"dial">>
  BY <1>1 DEF DriversInv, DoingFits, DriversTyped, Ops, Left
<1>3. tql.kind \in {"postgres", "sqlserver"} /\ ~Stateless /\ ~(doing.n > 0) /\ ~Reading
  <2>1. <<"dial">> # <<"use">> /\ <<"dial">> # <<"try">>
    OBVIOUS
  <2> QED
    BY <1>1, <1>2, <2>1 DEF DriversInv, DoingFits, KindSet, Stateless, Counting, Reading
<1>4. CASE link' = Fresh(doing.db) /\ tql' = Finished(link, tql) /\ Ended("done", ran)
  <2>1. /\ tql' \in TqlSet /\ tql'.kind = tql.kind /\ tql'.title = doing.db /\ tql'.named = doing.db
        /\ tql'.schema = "none" /\ tql'.slipped = tql.slipped
    BY <1>1, <1>2, <1>3, <1>4 DEF Finished, Switches, TqlSet
  <2>2. link' \in Links /\ link'.in = "none" /\ link'.db = doing.db
    BY <1>1, <1>4, FreshTyped DEF Fresh
  <2> QED
    BY <1>1, <1>3, <1>4, <2>1, <2>2, RanNoted, Ends
<1>5. CASE tql' = tql /\ link' = link /\ Ended("error", ran)
  <2>1. /\ tql.named = tql.title /\ (tql.kind # "postgres" => tql.schema = "none")
        /\ link.up => link.in = "none"
    BY <1>3 DEF DriversInv, LinkFits
  <2>2. tql.slipped \/ ( /\ RanWhereMeant(ran)
                         /\ link.up /\ ~Stateless => link.db = tql.title
                         /\ link.up /\ tql.schema # "none" => tql.schema = link.schema)
    BY RanNoted DEF DriversInv, Shown
  <2> QED
    BY <1>1, <1>3, <1>5, <2>1, <2>2, RanNoted, Ends
<1> QED
  BY <1>4, <1>5 DEF Dial

LEMMA WorldKeeps ==
  ASSUME DriversInv, Break \/ Rest \/ OtherWrites
  PROVE  DriversInv'
<1>1. CASE Break
  <2>1. link' \in Links /\ ~link'.up /\ UNCHANGED <<tql, doing, ran>>
    BY <1>1 DEF Break, DriversInv, DriversTyped, Links
  <2>2. bounds' \in [breaks : Nat, uses : Nat, others : Nat]
    BY <1>1 DEF Break, DriversInv, DriversTyped
  <2> QED
    BY <2>1, <2>2 DEF DriversInv, DriversTyped, DoingFits, RanFits, LinkFits, Shown, Reading, Next1, Stateless
<1>2. CASE Rest
  <2>1. /\ tql' \in TqlSet /\ tql'.kind = tql.kind /\ tql'.has = tql.has /\ tql'.named = tql.named
        /\ tql'.title = tql.title /\ tql'.schema = tql.schema /\ tql'.slipped = tql.slipped
        /\ UNCHANGED <<link, doing, ran, bounds>> /\ doing = Idle /\ Idle.op = "none"
    BY <1>2 DEF Rest, DriversInv, DriversTyped, TqlSet, Idle
  <2>2. ~Reading /\ ~Reading' /\ Next1' = Next1 /\ Stateless' = Stateless
    BY <2>1 DEF Reading, Next1, Stateless
  <2> QED
    BY <2>1, <2>2 DEF DriversInv, DriversTyped, DoingFits, RanFits, LinkFits, Shown
<1>3. CASE OtherWrites
  <2>1. /\ UNCHANGED <<link, tql, doing, ran>> /\ bounds' \in [breaks : Nat, uses : Nat, others : Nat]
    BY <1>3 DEF OtherWrites, DriversInv, DriversTyped
  <2> QED
    BY <2>1 DEF DriversInv, DriversTyped, DoingFits, RanFits, LinkFits, Shown, Reading, Next1, Stateless
<1> QED
  BY <1>1, <1>2, <1>3

-----------------------------------------------------------------------------
\* A call, and what is left after it
Calling ==
  {"run", "affected", "begin_reading", "begin", "rollback", "run_reading", "look", "count", "mutate",
   "use", "try", "dial", "set_schema", "default"}

LEMMA CallFits ==
  ASSUME NEW op \in Ops, NEW calls \in Left(op), calls # <<>>
  PROVE  /\ Head(calls) \in Calling
         /\ Head(calls) \in {"begin_reading", "begin", "rollback", "run_reading"} => op = "reading"
         /\ op = "reading" => Head(calls) \in {"begin_reading", "begin", "run", "rollback", "run_reading"}
         /\ Head(calls) \in {"use", "try", "dial"} <=> op = "use"
         /\ op = "use" => calls = <<Head(calls)>>
         /\ Head(calls) = "set_schema" <=> op = "schema"
         /\ Head(calls) = "default" <=> op = "default"
         /\ Head(calls) = "affected" => op = "run"
         /\ op \in {"run", "change"} => Head(calls) \in {"run", "affected", "look", "count", "mutate"}
<1>1. CASE op = "run"
  <2>1. calls \in {<<"run">>, <<"run", "affected">>, <<"affected">>}
    BY <1>1 DEF Left
  <2>2. Head(calls) \in {"run", "affected"}
    BY <2>1
  <2> QED
    BY <1>1, <2>2 DEF Calling
<1>2. CASE op = "reading"
  <2>1. calls \in {<<"begin_reading", "run", "rollback">>, <<"begin", "run", "rollback">>,
                   <<"run", "rollback">>, <<"rollback">>, <<"run_reading">>}
    BY <1>2 DEF Left
  <2>2. Head(calls) \in {"begin_reading", "begin", "run", "rollback", "run_reading"}
    BY <2>1
  <2> QED
    BY <1>2, <2>2 DEF Calling
<1>3. CASE op = "change"
  <2>1. calls \in {<<"look", "run">>, <<"run">>, <<"look", "count", "mutate">>, <<"count", "mutate">>, <<"mutate">>}
    BY <1>3 DEF Left
  <2>2. Head(calls) \in {"look", "run", "count", "mutate"}
    BY <2>1
  <2> QED
    BY <1>3, <2>2 DEF Calling
<1>4. CASE op = "use"
  <2>1. calls \in {<<"use">>, <<"try">>, <<"dial">>}
    BY <1>4 DEF Left
  <2>2. Head(calls) \in {"use", "try", "dial"} /\ calls = <<Head(calls)>>
    BY <2>1
  <2> QED
    BY <1>4, <2>2 DEF Calling
<1>5. CASE op \in {"schema", "default"}
  <2>1. calls = IF op = "schema" THEN <<"set_schema">> ELSE <<"default">>
    BY <1>5 DEF Left
  <2>2. Head(calls) = IF op = "schema" THEN "set_schema" ELSE "default"
    BY <2>1
  <2> QED
    BY <1>5, <2>2 DEF Calling
<1>6. op # "none"
  BY DEF Left
<1> QED
  BY <1>1, <1>2, <1>3, <1>4, <1>5, <1>6 DEF Ops

LEMMA Lengths == ASSUME NEW op \in Ops, NEW calls \in Left(op) PROVE Len(calls) \in Nat
<1>1. CASE op = "reading"
  <2>1. calls \in {<<"begin_reading", "run", "rollback">>, <<"begin", "run", "rollback">>,
                   <<"run", "rollback">>, <<"rollback">>, <<"run_reading">>}
    BY <1>1 DEF Left
  <2> QED
    BY <2>1
<1>2. CASE op = "change"
  <2>1. calls \in {<<"look", "run">>, <<"run">>, <<"look", "count", "mutate">>,
                   <<"count", "mutate">>, <<"mutate">>}
    BY <1>2 DEF Left
  <2> QED
    BY <2>1
<1>3. CASE op \in {"none", "run", "use", "schema", "default"}
  <2>1. calls \in {<<>>, <<"run">>, <<"run", "affected">>, <<"affected">>, <<"use">>, <<"try">>,
                   <<"dial">>, <<"set_schema">>, <<"default">>}
    BY <1>3 DEF Left
  <2> QED
    BY <2>1
<1> QED
  BY <1>1, <1>2, <1>3 DEF Ops

LEMMA LastCall ==
  ASSUME NEW op \in Ops, NEW calls \in Left(op), Len(calls) = 1, op = "reading"
  PROVE  Head(calls) \in {"rollback", "run_reading"}
<1>1. calls \in {<<"begin_reading", "run", "rollback">>, <<"begin", "run", "rollback">>,
                 <<"run", "rollback">>, <<"rollback">>, <<"run_reading">>}
  BY DEF Left
<1> QED
  BY <1>1

LEMMA Heads ==
  ASSUME NEW c
  PROVE  /\ c = <<"run", "rollback">> => Head(c) = "run" /\ c # <<>>
         /\ c = <<"rollback">> => Head(c) = "rollback" /\ c # <<>>
         /\ c = <<"run">> => Head(c) = "run" /\ c # <<>>
         /\ c = <<"count", "mutate">> => Head(c) = "count" /\ c # <<>>
  OBVIOUS

LEMMA CallsLeft ==
  ASSUME NEW op \in Ops, NEW calls \in Left(op), Len(calls) > 1, Head(calls) # "count"
  PROVE  /\ Tail(calls) \in Left(op) /\ Tail(calls) # <<>>
         /\ \/ op = "run" /\ Head(calls) = "run" /\ Head(Tail(calls)) = "affected"
            \/ op = "reading" /\ Head(calls) \in {"begin_reading", "begin"} /\ Head(Tail(calls)) = "run"
            \/ op = "reading" /\ Head(calls) = "run" /\ Head(Tail(calls)) = "rollback"
            \/ op = "change" /\ Head(calls) = "look" /\ Head(Tail(calls)) \in {"run", "count"}
<1>1. CASE op = "run"
  <2>1. calls \in {<<"run">>, <<"run", "affected">>, <<"affected">>}
    BY <1>1 DEF Left
  <2>2. calls = <<"run", "affected">>
    BY <2>1
  <2>3. Tail(calls) = <<"affected">> /\ Head(calls) = "run" /\ Head(Tail(calls)) = "affected"
    BY <2>2
  <2>4. Tail(calls) \in Left(op)
    BY <1>1, <2>3 DEF Left
  <2> QED
    BY <1>1, <2>3, <2>4
<1>2. CASE op = "reading"
  <2>1. calls \in {<<"begin_reading", "run", "rollback">>, <<"begin", "run", "rollback">>,
                   <<"run", "rollback">>, <<"rollback">>, <<"run_reading">>}
    BY <1>2 DEF Left
  <2>2. CASE calls \in {<<"begin_reading", "run", "rollback">>, <<"begin", "run", "rollback">>}
    <3>1. Tail(calls) = <<"run", "rollback">> /\ Head(calls) \in {"begin_reading", "begin"}
      <4>1. CASE calls = <<"begin_reading", "run", "rollback">>
        BY <4>1
      <4>2. CASE calls = <<"begin", "run", "rollback">>
        BY <4>2
      <4> QED
        BY <2>2, <4>1, <4>2
    <3>2. Head(Tail(calls)) = "run" /\ Tail(calls) # <<>>
      BY <3>1, Heads
    <3>3. Tail(calls) \in Left(op)
      BY <1>2, <3>1 DEF Left
    <3> QED
      BY <1>2, <3>1, <3>2, <3>3
  <2>3. CASE calls = <<"run", "rollback">>
    <3>1. Tail(calls) = <<"rollback">> /\ Head(calls) = "run"
      BY <2>3
    <3>2. Head(Tail(calls)) = "rollback" /\ Tail(calls) # <<>>
      BY <3>1, Heads
    <3>3. Tail(calls) \in Left(op)
      BY <1>2, <3>1 DEF Left
    <3> QED
      BY <1>2, <3>1, <3>2, <3>3
  <2>4. CASE calls \in {<<"rollback">>, <<"run_reading">>}
    BY <2>4
  <2> QED
    BY <2>1, <2>2, <2>3, <2>4
<1>3. CASE op = "change"
  <2>1. calls \in {<<"look", "run">>, <<"run">>, <<"look", "count", "mutate">>, <<"count", "mutate">>, <<"mutate">>}
    BY <1>3 DEF Left
  <2>2. CASE calls = <<"look", "run">>
    <3>1. Tail(calls) = <<"run">> /\ Head(calls) = "look" /\ Head(Tail(calls)) = "run"
      BY <2>2
    <3>2. Tail(calls) \in Left(op)
      BY <1>3, <3>1 DEF Left
    <3>3. Tail(calls) # <<>>
      BY <3>1, Heads
    <3> QED
      BY <1>3, <3>1, <3>2, <3>3
  <2>3. CASE calls = <<"look", "count", "mutate">>
    <3>1. Tail(calls) = <<"count", "mutate">> /\ Head(calls) = "look"
      BY <2>3
    <3>2. Head(Tail(calls)) = "count" /\ Tail(calls) # <<>>
      BY <3>1, Heads
    <3>3. Tail(calls) \in Left(op)
      BY <1>3, <3>1 DEF Left
    <3> QED
      BY <1>3, <3>1, <3>2, <3>3
  <2>4. CASE calls \in {<<"run">>, <<"count", "mutate">>, <<"mutate">>}
    BY <2>4
  <2> QED
    BY <2>1, <2>2, <2>3, <2>4
<1>4. CASE op \in {"none", "use", "schema", "default"}
  <2>1. calls \in {<<>>, <<"use">>, <<"try">>, <<"dial">>, <<"set_schema">>, <<"default">>}
    BY <1>4 DEF Left
  <2> QED
    BY <2>1
<1> QED
  BY <1>1, <1>2, <1>3, <1>4 DEF Ops

LEMMA TookFits ==
  ASSUME NEW l \in Links, NEW call \in Calling, doing.db \in Databases
  PROVE  /\ Took(l, call) \in Links /\ Took(l, call).up = l.up
         /\ Took(l, call).in = CASE call = "begin_reading" -> "reading" [] call = "begin" -> "undone"
                                 [] call = "rollback" -> "none" [] OTHER -> l.in
         /\ Took(l, call).db = IF call = "use" THEN doing.db ELSE l.db
         /\ Took(l, call).schema = IF call = "set_schema" THEN "set" ELSE l.schema
<1>1. CASE call \in {"begin_reading", "begin", "rollback"}
  BY <1>1 DEF Took, Links
<1>2. CASE call \in {"use", "set_schema"}
  BY <1>2 DEF Took, Links
<1>3. CASE call \notin {"begin_reading", "begin", "rollback", "use", "set_schema"}
  BY <1>3 DEF Took, Links
<1> QED
  BY <1>1, <1>2, <1>3

\* A call is taken: the operation goes on or ends.
LEMMA CallTakenKeeps ==
  ASSUME ConstantsFit, DriversInv, NEW answered \in BOOLEAN, CallTaken(answered)
  PROVE  DriversInv'
<1> DEFINE call == Head(doing.calls)
<1>1. PICK lively \in Live :
        LET l == lively[1] t == lively[2]
            after == Took(l, call) noted == Noted(l, call) IN
        /\ lively[3] /\ (l.up \/ Stateless)
        /\ bounds' = [bounds EXCEPT !.breaks = IF answered THEN @ ELSE @ + 1]
        /\ IF ~answered
           THEN /\ link' \in Mended([after EXCEPT !.up = Stateless], t)
                /\ tql' = Failed(t) /\ Ended("error", noted)
           ELSE /\ link' = after
                /\ IF Refused(l, call) /\ Len(doing.calls) = 1
                   THEN tql' = Failed(t) /\ Ended("error", noted)
                   ELSE IF Len(doing.calls) > 1
                   THEN /\ doing' = [doing EXCEPT !.calls = Tail(@)]
                        /\ tql' = t /\ ran' = noted
                   ELSE tql' = Finished(l, t) /\ Ended("done", noted)
  BY DEF CallTaken
<1> DEFINE l == lively[1] t == lively[2] after == Took(l, call) noted == Noted(l, call)
<1>2. /\ LiveAs(l, t, lively[3]) /\ doing.calls # <<>> /\ call \notin {"dial", "count"}
      /\ doing.op \in Ops /\ doing.calls \in Left(doing.op) /\ doing.db \in Databases
      /\ tql.kind \in KindSet /\ tql.named \in Databases /\ tql.title \in Databases
      /\ bounds' \in [breaks : Nat, uses : Nat, others : Nat]
      /\ Next1 = call
  <2>1. bounds' \in [breaks : Nat, uses : Nat, others : Nat]
    <3>1. bounds \in [breaks : Nat, uses : Nat, others : Nat]
      BY DEF DriversInv, DriversTyped
    <3> QED
      BY <1>1, <3>1
  <2> QED
    BY <2>1, LiveFits, KindsAre DEF CallTaken, DriversInv, DriversTyped, DoingFits, TqlSet, Next1
<1> DEFINE there == lively[3]
<1>3. there
  BY <1>1
<1> HIDE DEF l, t, there, call
<1>4. /\ l \in Links /\ t \in TqlSet /\ t.kind = tql.kind /\ t.title = tql.title /\ t.named = tql.named
      /\ t.schema = tql.schema /\ l.up /\ (l.in = "none" <=> ~Reading)
      /\ Stateless => l.db = tql.named
      /\ tql.kind \in {"mysql", "postgres"} => ~t.idle /\ (tql.kind = "mysql" => t.has)
  <2>1. l.up \/ Stateless
    BY <1>1 DEF l
  <2>2. Fresh(tql.named).up /\ Fresh(tql.named).db = tql.named
    BY DEF Fresh
  <2> QED
    BY <1>2, <1>3, <2>1, <2>2 DEF LiveAs, there
<1>5. /\ call \in Calling
      /\ call \in {"begin_reading", "begin", "rollback", "run_reading"} => doing.op = "reading"
      /\ doing.op = "reading" => call \in {"begin_reading", "begin", "run", "rollback", "run_reading"}
      /\ call \in {"use", "try", "dial"} <=> doing.op = "use"
      /\ call = "set_schema" <=> doing.op = "schema"
      /\ call = "default" <=> doing.op = "default"
      /\ call = "affected" => doing.op = "run"
      /\ doing.op \in {"run", "change"} => call \in {"run", "affected", "look", "mutate"}
  BY <1>2, CallFits DEF call
<1>6. /\ NotedAs(noted)
      /\ \A i \in DOMAIN ran : i # doing.n \/ ~Applied(l, call) => noted[i] = ran[i]
      /\ doing.n > 0 /\ Applied(l, call) =>
           /\ noted[doing.n].kept = (l.in = "none") /\ noted[doing.n].db = l.db
           /\ noted[doing.n].for = tql.title
  BY <1>2, <1>4, NotedFits
<1>7. /\ after \in Links /\ after.up
      /\ after.in = CASE call = "begin_reading" -> "reading" [] call = "begin" -> "undone"
                      [] call = "rollback" -> "none" [] OTHER -> l.in
      /\ after.db = IF call = "use" THEN doing.db ELSE l.db
      /\ after.schema = IF call = "set_schema" THEN "set" ELSE l.schema
  BY <1>2, <1>4, <1>5, TookFits
<1> HIDE DEF noted, after
<1>8. /\ tql.kind # "mysql" /\ ~Stateless => tql.named = tql.title
      /\ tql.kind # "postgres" \/ doing.op = "schema" => tql.schema = "none"
      /\ Stateless => tql.named = IF doing.op = "use" THEN doing.db ELSE tql.title
      /\ Stateless => tql.kind # "mysql" /\ tql.kind # "postgres"
      /\ doing.n > 0 <=> doing.op \in Counting
      /\ doing.op = "reading" /\ Stateless => doing.calls = <<"run_reading">> /\ call = "run_reading"
      /\ doing.op = "use" /\ call = "use" => tql.kind = "mysql"
      /\ doing.op = "use" /\ ~Stateless => call = "use"
      /\ doing.op = "default" => tql.kind = "postgres"
  <2>1. /\ Stateless <=> tql.kind \in {"clickhouse", "snowflake"}
        /\ tql.kind # "mysql" /\ ~Stateless => tql.kind \in {"postgres", "sqlserver"}
    BY <1>2 DEF Stateless, KindSet
  <2>2. doing.op = "use" => call = IF tql.kind = "mysql" THEN "use" ELSE IF Stateless THEN "try" ELSE "dial"
    BY DEF DriversInv, DoingFits, call
  <2>3. doing.op = "reading" /\ Stateless => doing.calls = <<"run_reading">> /\ call = "run_reading"
    BY DEF DriversInv, DoingFits, call
  <2> QED
    BY <1>2, <2>1, <2>2, <2>3 DEF DriversInv, DoingFits, LinkFits
\* What it notes is where it was meant, and no transaction is left but that of a statement to be
\* read only.
<1>9. t.slipped \/ ( /\ RanWhereMeant(noted)
                     /\ ~Stateless => l.db = tql.title
                     /\ tql.schema # "none" => tql.schema = l.schema)
  <2>1. t.slipped \/ ( /\ ~tql.slipped
                       /\ ~Stateless => l.db = tql.title
                       /\ tql.schema # "none" => tql.schema = l.schema)
    BY <1>2, <1>4 DEF LiveAs
  <2>2. ASSUME ~tql.slipped, ~Stateless => l.db = tql.title PROVE RanWhereMeant(noted)
    <3>1. ASSUME NEW i \in DOMAIN ran, noted[i].times > 0 PROVE noted[i].db = noted[i].for
      <4>1. CASE i # doing.n \/ ~Applied(l, call)
        BY <1>6, <2>2, <3>1, <4>1 DEF DriversInv, Shown
      <4>2. CASE i = doing.n /\ Applied(l, call)
        <5>1. doing.n > 0
          BY <3>1, <4>2, Numbered DEF DriversInv
        <5>2. l.db = tql.title
          BY <1>4, <1>8, <2>2, <5>1 DEF Counting
        <5> QED
          BY <1>6, <4>2, <5>1, <5>2
      <4> QED
        BY <4>1, <4>2
    <3> QED
      BY <3>1 DEF RanWhereMeant
  <2> QED
    BY <2>1, <2>2
<1>10. ASSUME Stateless PROVE l.in = "none" /\ after.in = "none"
  <2>1. ~Reading
    BY <1>2, <1>8, <1>10 DEF Reading
  <2>2. call \notin {"begin_reading", "begin"}
    BY <1>5, <1>8, <1>10
  <2>3. l.in = "none"
    BY <1>4, <2>1
  <2>4. after.in \in {"none", l.in}
    BY <1>7, <2>2
  <2> QED
    BY <2>3, <2>4
\* An operation that fails leaves the driver as it found it.
<1>11. /\ Failed(t) \in TqlSet /\ Failed(t).kind = tql.kind /\ Failed(t).title = tql.title
       /\ Failed(t).schema = tql.schema /\ Failed(t).slipped = t.slipped
       /\ tql.kind # "mysql" => Failed(t).named = tql.title
  <2>1. /\ Failed(t) \in TqlSet /\ Failed(t).kind = tql.kind /\ Failed(t).title = tql.title
        /\ Failed(t).schema = tql.schema /\ Failed(t).slipped = t.slipped
        /\ Failed(t).named = IF Switches /\ Stateless THEN tql.title ELSE tql.named
    BY <1>2, <1>4 DEF Failed, TqlSet
  <2> QED
    BY <1>8, <2>1 DEF Switches
<1>12. CASE ~answered
  <2> DEFINE broken == [after EXCEPT !.up = Stateless]
  <2>1. link' \in Mended(broken, t) /\ tql' = Failed(t) /\ Ended("error", noted)
    BY <1>1, <1>12 DEF l, t, after, noted
  <2>2. /\ broken \in Links /\ broken.up = Stateless /\ broken.in = after.in /\ broken.db = after.db
        /\ broken.schema = after.schema
    <3> DEFINE put(up) == [after EXCEPT !.up = up]
    <3>1. ASSUME NEW up \in BOOLEAN
          PROVE  /\ put(up) \in Links /\ put(up).up = up /\ put(up).in = after.in
                 /\ put(up).db = after.db /\ put(up).schema = after.schema
      BY <1>7 DEF Links
    <3>2. Stateless \in BOOLEAN
      BY DEF Stateless
    <3>3. broken = put(Stateless)
      OBVIOUS
    <3> HIDE DEF put, broken
    <3> QED
      BY <3>1, <3>2, <3>3
  <2> HIDE DEF broken
  <2>3. link' = broken \/ (tql.kind = "sqlserver" /\ link' = Fresh(tql.named))
    BY <1>4, <2>1, <2>2, MendedFits
  <2>4. /\ Fresh(tql.named) \in Links /\ Fresh(tql.named).in = "none" /\ Fresh(tql.named).db = tql.named
        /\ Fresh(tql.named).schema = "usual"
    BY <1>2, FreshTyped DEF Fresh
  <2>5. /\ link' \in Links /\ (link'.up => link'.in = "none")
        /\ link'.up /\ ~Stateless => link'.db = tql.named /\ tql.kind = "sqlserver"
    BY <1>10, <2>2, <2>3, <2>4
  <2>6. tql.schema = "none" \/ tql.kind = "postgres"
    BY <1>8
  <2>7. tql'.slipped \/ ( /\ RanWhereMeant(noted)
                          /\ link'.up /\ ~Stateless => link'.db = tql'.title
                          /\ link'.up /\ tql'.schema # "none" => tql'.schema = link'.schema)
    BY <1>8, <1>9, <1>11, <2>1, <2>5, <2>6
  <2> QED
    BY <1>2, <1>6, <1>8, <1>11, <2>1, <2>5, <2>6, <2>7, Ends
<1>13. CASE answered /\ Refused(l, call) /\ Len(doing.calls) = 1
  <2>1. link' = after /\ tql' = Failed(t) /\ Ended("error", noted)
    BY <1>1, <1>13 DEF l, t, after, noted
  <2>2. call = "run_reading"
    <3>1. call \in {"run", "run_reading"} /\ (call = "run" => l.in = "reading")
      BY <1>13 DEF Refused
    <3>2. call = "run" => doing.op = "reading"
      BY <1>4, <3>1 DEF Reading
    <3> QED
      BY <1>2, <1>13, <3>1, <3>2, LastCall DEF call
  <2>3. ~Reading
    BY <1>2, <2>2 DEF Reading
  <2>4. link'.in = "none" /\ link'.db = l.db /\ link'.schema = l.schema /\ link' \in Links
    BY <1>4, <1>7, <2>1, <2>2, <2>3
  <2>5. tql'.slipped \/ ( /\ RanWhereMeant(noted)
                          /\ link'.up /\ ~Stateless => link'.db = tql'.title
                          /\ link'.up /\ tql'.schema # "none" => tql'.schema = link'.schema)
    BY <1>9, <1>11, <2>1, <2>4
  <2> QED
    BY <1>2, <1>6, <1>8, <1>11, <2>1, <2>4, <2>5, Ends
<1>14. CASE answered /\ Len(doing.calls) > 1
  <2>1. /\ link' = after /\ tql' = t /\ ran' = noted
        /\ doing' = [doing EXCEPT !.calls = Tail(@)]
    <3>1. Len(doing.calls) \in Nat /\ Len(doing.calls) > 1
      BY <1>2, <1>14, Lengths
    <3>2. \A k \in Nat : k > 1 => k # 1
      OBVIOUS
    <3>3. Len(doing.calls) # 1
      BY <3>1, <3>2, Zenon
    <3>4. ~(Refused(l, call) /\ Len(doing.calls) = 1)
      BY <3>3, Zenon
    <3> QED
      BY <1>1, <1>14, <3>4 DEF l, t, after, noted
  <2> DEFINE calls == Tail(doing.calls)
  <2>2. /\ calls \in Left(doing.op) /\ calls # <<>>
        /\ \/ doing.op = "run" /\ call = "run" /\ Head(calls) = "affected"
           \/ doing.op = "reading" /\ call \in {"begin_reading", "begin"} /\ Head(calls) = "run"
           \/ doing.op = "reading" /\ call = "run" /\ Head(calls) = "rollback"
           \/ doing.op = "change" /\ call = "look" /\ Head(calls) \in {"run", "count"}
    BY <1>2, <1>14, CallsLeft DEF call
  <2> HIDE DEF calls
  <2>3. /\ doing'.op = doing.op /\ doing'.calls = calls /\ doing'.n = doing.n /\ doing'.db = doing.db
        /\ doing' \in [op : Ops, calls : UNION {Left(op) : op \in Ops}, n : 0 .. Len(ran), db : Databases,
                       counted : {0, 1}]
        /\ Next1' = Head(calls)
    <3>1. calls \in UNION {Left(op) : op \in Ops}
      BY <1>2, <2>2
    <3>2. doing' = [doing EXCEPT !.calls = calls]
      BY <2>1 DEF calls
    <3>3. doing \in [op : Ops, calls : UNION {Left(op) : op \in Ops}, n : 0 .. Len(ran), db : Databases,
                     counted : {0, 1}]
      BY DEF DriversInv, DriversTyped
    <3>4. /\ doing'.op = doing.op /\ doing'.calls = calls /\ doing'.n = doing.n /\ doing'.db = doing.db
          /\ doing' \in [op : Ops, calls : UNION {Left(op) : op \in Ops}, n : 0 .. Len(ran), db : Databases,
                         counted : {0, 1}]
      BY <3>1, <3>2, <3>3
    <3> QED
      BY <2>2, <3>4 DEF Next1
  <2>4. noted \in Seq(Statement) /\ Len(noted) = Len(ran) /\ DOMAIN noted = DOMAIN ran
    BY <1>6, Numbered DEF NotedAs, DriversInv
  <2>5. DriversTyped'
    BY <1>2, <1>4, <1>7, <2>1, <2>3, <2>4 DEF DriversTyped
  <2>6. Stateless' = Stateless /\ ~(doing.op = "reading" /\ Stateless)
    <3>1. ~(doing.op = "reading" /\ Stateless)
      BY <1>8, <2>2
    <3> QED
      BY <1>4, <2>1, <3>1 DEF Stateless
  <2>7. DoingFits'
    <3>1. doing.n > 0 => doing.db = tql.title
      BY DEF DriversInv, DoingFits
    <3> QED
      BY <1>4, <1>8, <2>1, <2>2, <2>3, <2>6, <3>1 DEF DoingFits, Counting
  <2>8. RanFits'
    <3>1. ASSUME NEW i \in DOMAIN ran
          PROVE  /\ noted[i].op = "reading" => ~noted[i].kept
                 /\ noted[i].op # "reading" /\ noted[i].said = "done" => noted[i].kept
      <4>1. CASE i # doing.n
        BY <1>6, <4>1 DEF DriversInv, RanFits
      <4>2. CASE i = doing.n
        <5>1. doing.n > 0
          BY <4>2, Numbered DEF DriversInv
        <5>2. noted[i].said = "none"
          BY <1>6, <4>2, <5>1 DEF DriversInv, RanFits, NotedAs
        <5> QED
          BY <1>6, <5>2 DEF NotedAs
      <4> QED
        BY <4>1, <4>2
    <3>2. ASSUME doing.n > 0
          PROVE  /\ noted[doing.n].op = doing.op /\ noted[doing.n].for = doing.db
                 /\ noted[doing.n].said = "none"
                 /\ IF Head(calls) \in {"rollback", "affected"}
                    THEN doing.op # "reading" => noted[doing.n].kept
                    ELSE noted[doing.n].times = 0
      <4>1. /\ ran[doing.n].op = doing.op /\ ran[doing.n].for = doing.db /\ ran[doing.n].said = "none"
            /\ doing.n \in DOMAIN ran
        BY <3>2, Numbered DEF DriversInv, RanFits
      <4>2. /\ noted[doing.n].op = doing.op /\ noted[doing.n].for = doing.db
            /\ noted[doing.n].said = "none"
        BY <1>6, <4>1 DEF NotedAs
      <4>3. CASE Head(calls) \in {"rollback", "affected"}
        <5>1. ASSUME doing.op # "reading" PROVE noted[doing.n].kept
          <6>1. call = "run" /\ doing.op = "run"
            BY <2>2, <4>3, <5>1
          <6>2. ~Reading
            BY <6>1 DEF Reading
          <6>3. l.in = "none" /\ Applied(l, call)
            BY <1>4, <6>1, <6>2 DEF Applied
          <6> QED
            BY <1>6, <3>2, <6>3
        <5> QED
          BY <4>2, <4>3, <5>1
      <4>4. CASE Head(calls) \notin {"rollback", "affected"}
        <5>1. call \in {"begin_reading", "begin", "look"}
          BY <2>2, <4>4
        <5>2. ~Applied(l, call)
          BY <5>1 DEF Applied
        <5>3. ran[doing.n].times = 0
          BY <1>2, <3>2, <5>1 DEF DriversInv, RanFits
        <5> QED
          BY <1>6, <4>1, <4>2, <4>4, <5>2, <5>3
      <4> QED
        BY <4>3, <4>4
    <3> QED
      BY <2>1, <2>3, <2>4, <3>1, <3>2 DEF RanFits
  <2>9. LinkFits'
    <3>1. Reading' <=> doing.op = "reading"
      BY <2>2, <2>3 DEF Reading
    <3>2. after.in = "none" <=> doing.op # "reading"
      <4>1. CASE doing.op = "reading"
        <5>1. CASE call = "run"
          <6>1. Reading
            BY <1>2, <4>1, <5>1 DEF Reading
          <6> QED
            BY <1>4, <1>7, <4>1, <5>1, <6>1
        <5>2. CASE call \in {"begin_reading", "begin"}
          BY <1>7, <4>1, <5>2
        <5> QED
          BY <2>2, <4>1, <5>1, <5>2
      <4>2. CASE doing.op # "reading"
        <5>1. ~Reading
          BY <4>2 DEF Reading
        <5>2. call \notin {"begin_reading", "begin", "rollback"}
          BY <2>2, <4>2
        <5> QED
          BY <1>4, <1>7, <4>2, <5>1, <5>2
      <4> QED
        BY <4>1, <4>2
    <3>3. /\ tql.kind \in {"postgres", "sqlserver"} => tql.named = tql.title
          /\ doing.op \notin {"use", "schema"}
      BY <2>2 DEF DriversInv, LinkFits
    <3> QED
      BY <1>4, <1>8, <2>1, <2>3, <2>6, <3>1, <3>2, <3>3 DEF LinkFits
  <2>10. tql'.slipped \/ Shown'
    <3>1. call \notin {"use", "set_schema"}
      BY <2>2
    <3>2. t.slipped \/ ( /\ \A i \in DOMAIN ran' : ran'[i].times > 0 => ran'[i].db = ran'[i].for
                         /\ ~Stateless => l.db = tql.title
                         /\ tql.schema # "none" => tql.schema = l.schema)
      BY <1>9, <2>1, <2>4 DEF RanWhereMeant
    <3> QED
      BY <1>4, <1>7, <2>1, <2>6, <3>1, <3>2 DEF Shown
  <2> QED
    BY <2>5, <2>7, <2>8, <2>9, <2>10 DEF DriversInv
<1>15. CASE answered /\ ~(Refused(l, call) /\ Len(doing.calls) = 1) /\ ~(Len(doing.calls) > 1)
  <2>1. link' = after /\ tql' = Finished(l, t) /\ Ended("done", noted)
    BY <1>1, <1>15 DEF l, t, after, noted
  <2>2. Len(doing.calls) = 1
    <3>1. doing.calls \in {<<"run">>, <<"run", "affected">>, <<"affected">>} \cup
            {<<"begin_reading", "run", "rollback">>, <<"begin", "run", "rollback">>,
             <<"run", "rollback">>, <<"rollback">>, <<"run_reading">>} \cup
            {<<"look", "run">>, <<"look", "count", "mutate">>, <<"count", "mutate">>, <<"mutate">>} \cup
            {<<"use">>, <<"try">>, <<"dial">>, <<"set_schema">>, <<"default">>}
      BY <1>2 DEF Left, Ops
    <3>2. Len(doing.calls) \in {1, 2, 3}
      BY <3>1
    <3> QED
      BY <1>15, <3>2
  <2>3. doing.op = "reading" => call = "rollback"
    <3>1. doing.op = "reading" => call \in {"rollback", "run_reading"}
      BY <1>2, <2>2, LastCall DEF call
    <3> QED
      BY <1>15, <2>2, <3>1 DEF Refused
  <2>4. after.in = "none"
    <3>1. CASE doing.op = "reading"
      BY <1>7, <2>3, <3>1
    <3>2. CASE doing.op # "reading"
      <4>1. ~Reading /\ call \notin {"begin_reading", "begin", "rollback"}
        BY <1>5, <3>2 DEF Reading
      <4> QED
        BY <1>4, <1>7, <4>1
    <3> QED
      BY <3>1, <3>2
  <2>5. ASSUME doing.n > 0, doing.op # "reading" PROVE noted[doing.n].kept
    <3>1. doing.op \in {"run", "change"} /\ doing.n \in DOMAIN ran
      BY <1>8, <2>5, Numbered DEF Counting, DriversInv
    <3>2. call \in {"run", "affected", "mutate"}
      <4>1. call = "look" => Len(doing.calls) # 1
        <5>1. doing.op = "change" => doing.calls \in
                {<<"look", "run">>, <<"run">>, <<"look", "count", "mutate">>, <<"count", "mutate">>, <<"mutate">>}
          BY <1>2 DEF Left
        <5>2. doing.op = "run" => doing.calls \in {<<"run">>, <<"run", "affected">>, <<"affected">>}
          BY <1>2 DEF Left
        <5> QED
          BY <3>1, <5>1, <5>2 DEF call
      <4> QED
        BY <1>5, <2>2, <3>1, <4>1
    <3>3. CASE call = "affected"
      <4>1. ran[doing.n].kept
        BY <1>2, <2>5, <3>3 DEF DriversInv, RanFits
      <4>2. ~Applied(l, call)
        BY <3>3 DEF Applied
      <4> QED
        BY <1>6, <3>1, <4>1, <4>2
    <3>4. CASE call \in {"run", "mutate"}
      <4>1. ~Reading
        BY <2>5 DEF Reading
      <4>2. l.in = "none" /\ Applied(l, call)
        BY <1>4, <3>4, <4>1 DEF Applied
      <4> QED
        BY <1>6, <2>5, <4>2
    <3> QED
      BY <3>2, <3>3, <3>4
  <2>6. /\ tql' \in TqlSet /\ tql'.kind = tql.kind /\ tql'.slipped = t.slipped
        /\ tql'.named = IF Switches /\ tql.kind # "mysql" THEN doing.db ELSE tql.named
        /\ tql'.title = IF Switches THEN doing.db ELSE tql.title
        /\ tql'.schema = IF Switches THEN "none" ELSE IF doing.op = "default" THEN l.schema ELSE tql.schema
    BY <1>2, <1>4, <2>1 DEF Finished, TqlSet, Links
  <2>7. /\ tql'.kind # "mysql" => tql'.named = tql'.title
        /\ tql'.kind # "postgres" => tql'.schema = "none"
    BY <1>8, <2>6 DEF Switches
  <2>8. tql'.slipped \/ ( /\ RanWhereMeant(noted)
                          /\ link'.up /\ ~Stateless => link'.db = tql'.title
                          /\ link'.up /\ tql'.schema # "none" => tql'.schema = link'.schema)
    <3>1. ASSUME ~t.slipped, ~Stateless PROVE after.db = tql'.title
      <4>1. l.db = tql.title
        BY <1>9, <3>1
      <4> QED
        BY <1>5, <1>7, <1>8, <2>6, <3>1, <4>1 DEF Switches
    <3>2. ASSUME ~t.slipped, tql'.schema # "none" PROVE tql'.schema = after.schema
      <4>1. ~Switches /\ call # "set_schema"
        BY <1>5, <1>8, <2>6, <3>2
      <4>2. tql.schema # "none" => tql.schema = l.schema
        BY <1>9, <3>2
      <4> QED
        BY <1>7, <2>6, <3>2, <4>1, <4>2
    <3> QED
      BY <1>9, <2>1, <2>6, <3>1, <3>2
  <2>9. link' \in Links /\ link'.in = "none"
    BY <1>7, <2>1, <2>4
  <2> QED
    BY <1>2, <1>6, <2>1, <2>5, <2>6, <2>7, <2>8, <2>9, Ends
<1> QED
  BY <1>12, <1>13, <1>14, <1>15

-----------------------------------------------------------------------------
LEMMA DriversStep ==
  ASSUME ConstantsFit, DriversInv, [Next]_driverVars
  PROVE  DriversInv'
<1>1. CASE UNCHANGED driverVars
  BY <1>1 DEF driverVars, DriversInv, DriversTyped, DoingFits, RanFits, LinkFits, Shown, Reading, Next1, Stateless
<1>2. ASSUME NEW op, Ask(op) PROVE DriversInv'
  BY <1>2, AskKeeps
<1>3. ASSUME NEW answered \in BOOLEAN, CallTaken(answered) PROVE DriversInv'
  BY <1>3, CallTakenKeeps
<1> QED
  BY <1>1, <1>2, <1>3, CallLostKeeps, DialKeeps, CountKeeps, WorldKeeps DEF Next

\* What tql says of a statement is so: it was sent once, is kept if it was said to be done, and left
\* nothing if it was to be read only; a change reached what was counted; and all ran in the database
\* that the tables pane names, until a connection was dialed anew that lost it (src/app/database/*.rs,
\* run, run_reading, change and use_database).
THEOREM DriversDoAsShown == ASSUME ConstantsFit PROVE Spec => []DriversAreTrue
<1>1. Init => DriversInv
  BY DriversInit
<1>2. DriversInv /\ [Next]_driverVars => DriversInv'
  BY DriversStep
<1>3. DriversInv => DriversAreTrue
  <2> SUFFICES ASSUME DriversInv PROVE DriversAreTrue
    OBVIOUS
  <2>1. DOMAIN ran = 1 .. Len(ran)
    BY Numbered DEF DriversInv
  <2>2. \A n \in 1 .. Len(ran) : ran[n].times \in {0, 1} /\ ran[n].counted \in {0, 1}
    <3> TAKE n \in 1 .. Len(ran)
    <3>1. ran[n] \in Statement
      BY <2>1, ElementOfSeq DEF DriversInv, DriversTyped
    <3> QED
      BY <3>1 DEF Statement
  <2>3. SentOnce /\ ReachesWhatWasMeant
    BY <2>1, <2>2 DEF DriversInv, RanFits, SentOnce, ReachesWhatWasMeant, Tried
  <2>4. RunsWhereShown
    BY <2>1 DEF DriversInv, Shown, RunsWhereShown, Tried
  <2> QED
    BY <2>3, <2>4 DEF DriversAreTrue
<1> QED
  BY <1>1, <1>2, <1>3, PTL DEF Spec

-----------------------------------------------------------------------------
(* The sessions at Snowflake, of SnowflakeSession, for any number of tqls, *)
(* requests at once and tokens: every statement runs in the database that  *)
(* its tql wants, until two tqls share a session.  Its tql is called       *)
(* clients here.                                                           *)

CONSTANTS Tqls, Threads, First, MaxTokens, MaxAsks
VARIABLES tokens, places, saved, clients, asking, past

Sessions == INSTANCE SnowflakeSession WITH tql <- clients

PlaceSet == [database : Databases \cup {"none"}, schema : {"public", "none"}]
Tokens == [of : DOMAIN places, good : BOOLEAN, master : BOOLEAN]
Numbers == 0 .. Len(tokens)
Asks == [at : {"rest", "align", "use", "query"}, token : Numbers, retried : BOOLEAN]

ServersTyped ==
  /\ places \in Seq(PlaceSet) /\ tokens \in Seq(Tokens) /\ saved \in Numbers

TqlsTyped ==
  /\ clients \in [Tqls -> [on : BOOLEAN, token : Numbers, believed : PlaceSet, wanted : Databases]]
  /\ \A t \in Tqls : clients[t].on => clients[t].token # Sessions!NoToken

\* A request under way has the token of its tql, or one that is good no more; none before it
\* is aligned.
AsksTyped ==
  /\ DOMAIN asking = Tqls
  /\ \A t \in Tqls : asking[t] \in [Threads[t] -> Asks]
  /\ \A t \in Tqls : \A h \in Threads[t] :
       /\ asking[t][h].at = "rest" => asking[t][h] = Sessions!Rests
       /\ asking[t][h].at = "align" => asking[t][h].token = Sessions!NoToken
       /\ ~clients[t].on => asking[t][h].at = "rest"
       /\ asking[t][h].token \in {Sessions!NoToken, clients[t].token} \/ ~Sessions!Good(asking[t][h].token)

PastTyped ==
  past \in [asks : Nat, uses : Nat, shared : BOOLEAN, taken : BOOLEAN, astray : BOOLEAN]

SessionTyped == ServersTyped /\ TqlsTyped /\ AsksTyped /\ PastTyped

\* tqls have sessions of their own,
Apart == ~Sessions!SharedBy(clients)

\* which are where they think, unless they do not know,
Known ==
  \A t \in Tqls : clients[t].on /\ clients[t].believed.database # "none" =>
    places[Sessions!SessionOf(clients[t].token)].database = clients[t].believed.database

\* and a request that is past aligning is in a session that is where it wants to be.
Aligned ==
  \A t \in Tqls : \A h \in Threads[t] :
    asking[t][h].at = "query" => clients[t].believed.database = clients[t].wanted

PlacesInv ==
  past.shared \/ past.taken \/ (Apart /\ Known /\ Aligned /\ ~past.astray)

-----------------------------------------------------------------------------
LEMMA InTyped == \A d \in Databases \cup {"none"} : Sessions!In(d) \in PlaceSet /\ Sessions!In(d).database = d
  BY DEF Sessions!In, PlaceSet

LEMMA NowhereTyped == Sessions!Nowhere \in PlaceSet /\ Sessions!Nowhere.database = "none"
  BY DEF Sessions!Nowhere, PlaceSet

LEMMA TokenTyped ==
  ASSUME ServersTyped
  PROVE  /\ Len(tokens) \in Nat /\ DOMAIN tokens = 1 .. Len(tokens) /\ Sessions!NoToken \in Numbers
         /\ Len(places) \in Nat /\ DOMAIN places = 1 .. Len(places)
         /\ \A n \in Numbers \ {Sessions!NoToken} :
              /\ n \in DOMAIN tokens /\ tokens[n] \in Tokens
              /\ Sessions!SessionOf(n) \in DOMAIN places /\ places[Sessions!SessionOf(n)] \in PlaceSet
<1>1. /\ Len(tokens) \in Nat /\ DOMAIN tokens = 1 .. Len(tokens)
      /\ Len(places) \in Nat /\ DOMAIN places = 1 .. Len(places)
  BY DEF ServersTyped
<1>2. ASSUME NEW n \in Numbers \ {Sessions!NoToken}
      PROVE  n \in DOMAIN tokens
  BY <1>1 DEF Numbers, Sessions!NoToken
<1>3. Sessions!NoToken \in Numbers
  BY <1>1 DEF Numbers, Sessions!NoToken
<1>4. \A n \in DOMAIN tokens : tokens[n] \in Tokens
  BY DEF ServersTyped
<1>5. \A s \in DOMAIN places : places[s] \in PlaceSet
  BY DEF ServersTyped
<1> QED
  BY <1>1, <1>2, <1>3, <1>4, <1>5 DEF Tokens, Sessions!SessionOf

GoodThen(n) == n # Sessions!NoToken /\ tokens'[n].good

\* Tokens are added, and those there are stay of their session and do not become good again.
TokensKept ==
  /\ Numbers \subseteq Numbers'
  /\ \A n \in Numbers \ {Sessions!NoToken} :
       Sessions!SessionOf(n)' = Sessions!SessionOf(n) /\ (GoodThen(n) => Sessions!Good(n))

\* A token is handed out for a session, which goes to the store.
LEMMA HandsOut ==
  ASSUME ServersTyped, NEW old \in Seq(Tokens'), Len(old) = Len(tokens),
         \A n \in DOMAIN tokens : old[n].of = tokens[n].of /\ (old[n].good => tokens[n].good),
         NEW s \in DOMAIN places', places' \in Seq(PlaceSet),
         tokens' = Append(old, [of |-> s, good |-> TRUE, master |-> TRUE]), saved' = Len(tokens) + 1
  PROVE  /\ ServersTyped' /\ TokensKept
         /\ saved' \notin Numbers /\ saved' \in Numbers' /\ saved' # Sessions!NoToken
         /\ Sessions!SessionOf(saved)' = s /\ GoodThen(saved')
<1>1. Len(tokens) \in Nat /\ DOMAIN tokens = 1 .. Len(tokens) /\ DOMAIN old = 1 .. Len(tokens)
  BY TokenTyped
<1> DEFINE token == [of |-> s, good |-> TRUE, master |-> TRUE]
<1>2. token \in Tokens' /\ token.of = s /\ token.good
  BY DEF Tokens
<1> HIDE DEF token
<1>3. /\ tokens' \in Seq(Tokens') /\ Len(tokens') = Len(tokens) + 1
      /\ \A n \in 1 .. Len(tokens) : tokens'[n] = old[n]
      /\ tokens'[Len(tokens) + 1] = token
  BY <1>1, <1>2, AppendProperties DEF token
<1>4. Numbers' = 0 .. Len(tokens) + 1 /\ Numbers = 0 .. Len(tokens)
  BY <1>3 DEF Numbers
<1>5. saved' \in Numbers' /\ saved' # Sessions!NoToken /\ saved' \notin Numbers /\ Numbers \subseteq Numbers'
  BY <1>1, <1>4 DEF Sessions!NoToken
<1>6. ServersTyped'
  BY <1>3, <1>5 DEF ServersTyped
<1>7. \A n \in Numbers \ {Sessions!NoToken} : n \in 1 .. Len(tokens)
  BY <1>1, <1>4 DEF Sessions!NoToken
<1>8. TokensKept
  BY <1>1, <1>3, <1>5, <1>7 DEF TokensKept, Sessions!SessionOf, Sessions!Good, GoodThen
<1>9. Sessions!SessionOf(saved)' = s /\ GoodThen(saved')
  BY <1>2, <1>3, <1>5 DEF Sessions!SessionOf, GoodThen
<1> QED
  BY <1>5, <1>6, <1>8, <1>9

LEMMA SignsIn ==
  ASSUME ServersTyped, NEW database \in Databases \cup {"none"}, Sessions!SignIn(database)
  PROVE  /\ ServersTyped' /\ TokensKept
         /\ saved' \notin Numbers /\ saved' \in Numbers' /\ saved' # Sessions!NoToken
         /\ Sessions!SessionOf(saved)' \notin DOMAIN places /\ GoodThen(saved')
         /\ places'[Sessions!SessionOf(saved)'] = Sessions!In(database)
         /\ \A s \in DOMAIN places : places'[s] = places[s]
<1> DEFINE s == Len(places) + 1
<1>1. Sessions!In(database) \in PlaceSet /\ places \in Seq(PlaceSet) /\ Len(places) \in Nat
      /\ DOMAIN places = 1 .. Len(places)
  BY InTyped, TokenTyped DEF ServersTyped
<1>2. places' = Append(places, Sessions!In(database)) /\ tokens' = Append(tokens, [of |-> s, good |-> TRUE, master |-> TRUE])
      /\ saved' = Len(tokens) + 1
  BY DEF Sessions!SignIn
<1>3. /\ places' \in Seq(PlaceSet) /\ Len(places') = Len(places) + 1
      /\ \A i \in 1 .. Len(places) : places'[i] = places[i]
      /\ places'[s] = Sessions!In(database)
  BY <1>1, <1>2, AppendProperties
<1>4. s \in DOMAIN places' /\ s \notin DOMAIN places /\ DOMAIN places \subseteq DOMAIN places'
  BY <1>1, <1>3
<1>5. tokens \in Seq(Tokens')
  <2>1. Tokens \subseteq Tokens'
    BY <1>4 DEF Tokens
  <2> QED
    BY <2>1 DEF ServersTyped
<1> HIDE DEF s
<1>6. /\ ServersTyped' /\ TokensKept
      /\ saved' \notin Numbers /\ saved' \in Numbers' /\ saved' # Sessions!NoToken
      /\ Sessions!SessionOf(saved)' = s /\ GoodThen(saved')
  BY <1>2, <1>3, <1>4, <1>5, HandsOut
<1> QED
  BY <1>1, <1>3, <1>4, <1>6

-----------------------------------------------------------------------------
LEMMA SessionInit == Sessions!DatabasesFit /\ Sessions!Init => SessionTyped /\ PlacesInv
<1> SUFFICES ASSUME Sessions!DatabasesFit, Sessions!Init PROVE SessionTyped /\ PlacesInv
  OBVIOUS
<1>1. Len(tokens) = 0 /\ Numbers = {0} /\ Sessions!NoToken = 0
  BY DEF Sessions!Init, Numbers, Sessions!NoToken
<1>2. ServersTyped
  BY <1>1 DEF Sessions!Init, ServersTyped
<1>3. TqlsTyped
  <2>1. Sessions!Nowhere \in PlaceSet /\ First \in Databases
    BY NowhereTyped DEF Sessions!DatabasesFit
  <2> HIDE DEF Sessions!Nowhere
  <2> QED
    BY <1>1, <2>1 DEF Sessions!Init, TqlsTyped
<1>4. AsksTyped
  BY <1>1 DEF Sessions!Init, AsksTyped, Asks, Sessions!Rests
<1>5. PastTyped
  BY DEF Sessions!Init, PastTyped
<1>6. PlacesInv
  BY DEF Sessions!Init, PlacesInv, Apart, Sessions!SharedBy, Known, Aligned, Sessions!Rests
<1> QED
  BY <1>2, <1>3, <1>4, <1>5, <1>6 DEF SessionTyped

\* One request goes on: what becomes of it, and of the others
LEMMA Setting ==
  ASSUME SessionTyped, NEW t \in Tqls, NEW h \in Threads[t], NEW a,
         Sessions!Sets(t, h, a), a \in Asks', Numbers \subseteq Numbers'
  PROVE  /\ DOMAIN asking' = Tqls /\ \A u \in Tqls : asking'[u] \in [Threads[u] -> Asks']
         /\ asking'[t][h] = a
         /\ \A u \in Tqls : \A k \in Threads[u] : u # t \/ k # h => asking'[u][k] = asking[u][k]
<1>1. /\ DOMAIN asking = Tqls /\ \A u \in Tqls : asking[u] \in [Threads[u] -> Asks]
      /\ asking' = [asking EXCEPT ![t][h] = a]
  BY DEF SessionTyped, AsksTyped, Sessions!Sets
<1>2. Asks \subseteq Asks'
  BY DEF Asks
<1>3. \A u \in Tqls : asking'[u] = IF u = t THEN [asking[t] EXCEPT ![h] = a] ELSE asking[u]
  BY <1>1
<1>4. \A u \in Tqls : asking'[u] \in [Threads[u] -> Asks']
  <2>1. \A u \in Tqls : asking[u] \in [Threads[u] -> Asks']
    BY <1>1, <1>2
  <2> QED
    BY <1>3, <2>1
<1> QED
  BY <1>1, <1>3, <1>4

LEMMA AsksGoOn ==
  ASSUME SessionTyped, TokensKept, NEW t \in Tqls, NEW h \in Threads[t], NEW a,
         Sessions!Sets(t, h, a), a \in Asks', a.at = "rest" => a = Sessions!Rests,
         a.at = "align" => a.token = Sessions!NoToken, clients[t].on,
         \A u \in Tqls : clients'[u].on = clients[u].on,
         \A u \in Tqls : clients'[u].token = clients[u].token \/ (u = t /\ ~Sessions!Good(clients[t].token)),
         a.token \in {Sessions!NoToken, clients'[t].token} \/ ~GoodThen(a.token)
  PROVE  AsksTyped'
<1>1. /\ DOMAIN asking' = Tqls /\ \A u \in Tqls : asking'[u] \in [Threads[u] -> Asks']
      /\ asking'[t][h] = a
      /\ \A u \in Tqls : \A k \in Threads[u] : u # t \/ k # h => asking'[u][k] = asking[u][k]
  BY Setting DEF TokensKept
<1>2. ASSUME NEW u \in Tqls, NEW k \in Threads[u]
      PROVE  /\ asking'[u][k].at = "rest" => asking'[u][k] = Sessions!Rests
             /\ asking'[u][k].at = "align" => asking'[u][k].token = Sessions!NoToken
             /\ ~clients'[u].on => asking'[u][k].at = "rest"
             /\ asking'[u][k].token \in {Sessions!NoToken, clients'[u].token} \/ ~GoodThen(asking'[u][k].token)
  <2>1. CASE u = t /\ k = h
    BY <1>1, <2>1
  <2>2. CASE u # t \/ k # h
    <3>1. asking'[u][k] = asking[u][k]
      BY <1>1, <2>2
    <3>2. asking[u][k].token \in Numbers
      BY DEF SessionTyped, AsksTyped, Asks
    <3>3. asking[u][k].token \in {Sessions!NoToken, clients[u].token} \/ ~Sessions!Good(asking[u][k].token)
      BY DEF SessionTyped, AsksTyped
    <3>4. asking[u][k].token \in {Sessions!NoToken, clients'[u].token} \/ ~GoodThen(asking[u][k].token)
      <4>1. CASE asking[u][k].token = Sessions!NoToken
        BY <4>1
      <4>2. CASE asking[u][k].token # Sessions!NoToken
        BY <3>2, <3>3, <4>2 DEF TokensKept
      <4> QED
        BY <4>1, <4>2
    <3>5. /\ asking[u][k].at = "rest" => asking[u][k] = Sessions!Rests
          /\ asking[u][k].at = "align" => asking[u][k].token = Sessions!NoToken
          /\ ~clients[u].on => asking[u][k].at = "rest"
      BY DEF SessionTyped, AsksTyped
    <3> QED
      BY <3>1, <3>4, <3>5
  <2> QED
    BY <2>1, <2>2
<1> QED
  BY <1>1, <1>2 DEF AsksTyped, Sessions!Good, GoodThen

Sane == Apart /\ Known /\ Aligned /\ ~past.astray
SessionInv == SessionTyped /\ PlacesInv

TqlRecords == [on : BOOLEAN, token : Numbers, believed : PlaceSet, wanted : Databases]

LEMMA TqlGoes ==
  ASSUME SessionTyped, Numbers \subseteq Numbers', NEW t \in Tqls, NEW r,
         clients' = [clients EXCEPT ![t] = r], r \in TqlRecords', r.on => r.token # Sessions!NoToken
  PROVE  /\ TqlsTyped' /\ clients'[t] = r
         /\ \A u \in Tqls : u # t => clients'[u] = clients[u]
<1>1. clients \in [Tqls -> TqlRecords] /\ \A u \in Tqls : clients[u].on => clients[u].token # Sessions!NoToken
  BY DEF SessionTyped, TqlsTyped, TqlRecords
<1>2. TqlRecords \subseteq TqlRecords'
  BY DEF TqlRecords
<1>3. clients' \in [Tqls -> TqlRecords'] /\ clients'[t] = r /\ \A u \in Tqls : u # t => clients'[u] = clients[u]
  BY <1>1, <1>2
<1>4. \A u \in Tqls : clients'[u].on => clients'[u].token # Sessions!NoToken
  BY <1>1, <1>3
<1> QED
  BY <1>3, <1>4 DEF TqlsTyped, TqlRecords

\* Nothing at Snowflake changes.
LEMMA Unspent ==
  ASSUME SessionTyped, UNCHANGED <<tokens, places, saved>>
  PROVE  /\ ServersTyped' /\ TokensKept /\ Numbers' = Numbers
         /\ Asks' = Asks /\ TqlRecords' = TqlRecords
  BY DEF SessionTyped, ServersTyped, Tokens, Numbers, TokensKept, Sessions!Good, GoodThen, Sessions!SessionOf, Asks, TqlRecords

\* Requests stay as they are, of tqls that have none under way or keep their token.
LEMMA AsksRest ==
  ASSUME SessionTyped, TokensKept, UNCHANGED asking,
         \A u \in Tqls : clients'[u] = clients[u] \/ \A h \in Threads[u] : asking[u][h].at = "rest"
  PROVE  AsksTyped'
<1>1. Asks \subseteq Asks'
  BY DEF Asks, TokensKept
<1>2. \A u \in Tqls : asking[u] \in [Threads[u] -> Asks']
  BY <1>1 DEF SessionTyped, AsksTyped
<1>3. ASSUME NEW u \in Tqls, NEW h \in Threads[u]
      PROVE  /\ asking[u][h].at = "rest" => asking[u][h] = Sessions!Rests
             /\ asking[u][h].at = "align" => asking[u][h].token = Sessions!NoToken
             /\ ~clients'[u].on => asking[u][h].at = "rest"
             /\ asking[u][h].token \in {Sessions!NoToken, clients'[u].token} \/ ~GoodThen(asking[u][h].token)
  <2>1. /\ asking[u][h].at = "rest" => asking[u][h] = Sessions!Rests
        /\ asking[u][h].at = "align" => asking[u][h].token = Sessions!NoToken
        /\ ~clients[u].on => asking[u][h].at = "rest"
        /\ asking[u][h].token \in {Sessions!NoToken, clients[u].token} \/ ~Sessions!Good(asking[u][h].token)
        /\ asking[u][h].token \in Numbers
    BY DEF SessionTyped, AsksTyped, Asks
  <2>2. CASE \A k \in Threads[u] : asking[u][k].at = "rest"
    BY <2>1, <2>2 DEF Sessions!Rests
  <2>3. CASE clients'[u] = clients[u]
    BY <2>1, <2>3 DEF TokensKept
  <2> QED
    BY <2>2, <2>3
<1> QED
  BY <1>2, <1>3 DEF SessionTyped, AsksTyped, Sessions!Good, GoodThen

LEMMA OpenKeeps ==
  ASSUME Sessions!DatabasesFit, SessionInv, NEW t \in Tqls, Sessions!Open(t)
  PROVE  SessionInv'
<1> USE DEF SessionInv
<1>1. /\ ServersTyped /\ ~clients[t].on /\ UNCHANGED asking
      /\ \A h \in Threads[t] : asking[t][h].at = "rest"
      /\ clients \in [Tqls -> TqlRecords]
      /\ past \in [asks : Nat, uses : Nat, shared : BOOLEAN, taken : BOOLEAN, astray : BOOLEAN]
      /\ First \in Databases
  BY DEF SessionTyped, AsksTyped, TqlsTyped, TqlRecords, PastTyped, Sessions!Open, Sessions!DatabasesFit
<1>2. ASSUME Sessions!Good(saved) \/ Sessions!Renewable(saved), UNCHANGED <<tokens, places, saved>>,
             clients' = [clients EXCEPT ![t] = [@ EXCEPT !.on = TRUE, !.token = saved, !.believed = Sessions!Nowhere, !.wanted = First]],
             past' = [past EXCEPT !.shared = @ \/ Sessions!SharedBy(clients')]
      PROVE  SessionInv'
  <2> DEFINE r == [clients[t] EXCEPT !.on = TRUE, !.token = saved, !.believed = Sessions!Nowhere, !.wanted = First]
  <2>1. saved \in Numbers /\ saved # Sessions!NoToken
    BY <1>1, <1>2 DEF ServersTyped, Sessions!Good, Sessions!Renewable
  <2>2. /\ r \in TqlRecords /\ r.on /\ r.token = saved /\ r.believed = Sessions!Nowhere
    BY <1>1, <2>1, NowhereTyped DEF TqlRecords
  <2>3. clients' = [clients EXCEPT ![t] = r]
    BY <1>2
  <2> HIDE DEF r
  <2>4. ServersTyped' /\ TokensKept /\ Numbers' = Numbers /\ TqlRecords' = TqlRecords
    BY <1>2, Unspent
  <2>5. TqlsTyped' /\ clients'[t] = r /\ \A u \in Tqls : u # t => clients'[u] = clients[u]
    BY <2>1, <2>2, <2>3, <2>4, TqlGoes
  <2>6. AsksTyped'
    BY <1>1, <2>4, <2>5, AsksRest
  <2>7. /\ PastTyped' /\ past'.shared = (past.shared \/ Sessions!SharedBy(clients'))
        /\ past'.taken = past.taken /\ past'.astray = past.astray
    BY <1>1, <1>2 DEF PastTyped
  <2>8. ASSUME Sane, ~Sessions!SharedBy(clients') PROVE Sane'
    <3>1. Apart'
      BY <1>2, <2>8 DEF Apart, Sessions!SharedBy, Sessions!SessionOf
    <3>2. Known'
      BY <1>2, <2>2, <2>5, <2>8, NowhereTyped DEF Sane, Known, Sessions!SessionOf
    <3>3. Aligned'
      BY <1>1, <2>5, <2>8 DEF Sane, Aligned
    <3> QED
      BY <2>7, <2>8, <3>1, <3>2, <3>3 DEF Sane
  <2> QED
    BY <2>4, <2>5, <2>6, <2>7, <2>8 DEF SessionTyped, PlacesInv, Sane
<1>3. ASSUME Sessions!SignIn(First), UNCHANGED past,
             clients' = [clients EXCEPT ![t] = [@ EXCEPT !.on = TRUE, !.token = saved', !.believed = Sessions!In(First), !.wanted = First]]
      PROVE  SessionInv'
  <2> DEFINE r == [clients[t] EXCEPT !.on = TRUE, !.token = saved', !.believed = Sessions!In(First), !.wanted = First]
  <2>1. /\ ServersTyped' /\ TokensKept /\ saved' \in Numbers' /\ saved' # Sessions!NoToken
        /\ Sessions!SessionOf(saved)' \notin DOMAIN places /\ places'[Sessions!SessionOf(saved)'] = Sessions!In(First)
        /\ \A s \in DOMAIN places : places'[s] = places[s]
    BY <1>1, <1>3, SignsIn
  <2>2. r \in TqlRecords' /\ r.on /\ r.token = saved' /\ r.believed = Sessions!In(First)
    <3>1. Sessions!In(First) \in PlaceSet
      BY <1>1, InTyped
    <3> HIDE DEF Sessions!In
    <3>2. clients[t] \in TqlRecords
      BY <1>1
    <3>3. saved' \in Numbers'
      BY <2>1
    <3> QED
      BY <1>1, <3>1, <3>2, <3>3 DEF TqlRecords
  <2>3. clients' = [clients EXCEPT ![t] = r]
    BY <1>3
  <2> HIDE DEF r
  <2>4. TqlsTyped' /\ clients'[t] = r /\ \A u \in Tqls : u # t => clients'[u] = clients[u]
    BY <2>1, <2>2, <2>3, TqlGoes DEF TokensKept
  <2>5. AsksTyped'
    BY <1>1, <2>1, <2>4, AsksRest
  <2>6. ASSUME NEW u \in Tqls, u # t, clients[u].on
        PROVE  /\ clients[u].token \in Numbers \ {Sessions!NoToken}
               /\ Sessions!SessionOf(clients[u].token) \in DOMAIN places
               /\ tokens'[clients[u].token].of = Sessions!SessionOf(clients[u].token)
    <3>1. clients[u].token \in Numbers \ {Sessions!NoToken}
      BY <2>6 DEF SessionTyped, TqlsTyped
    <3> QED
      BY <1>1, <2>1, <3>1, TokenTyped DEF TokensKept, Sessions!SessionOf
  <2>7. ASSUME Sane PROVE Sane'
    <3>1. Apart'
      BY <2>1, <2>2, <2>4, <2>6, <2>7 DEF Sane, Apart, Sessions!SharedBy, Sessions!SessionOf
    <3>2. Known'
      <4>1. ASSUME NEW u \in Tqls, clients'[u].on, clients'[u].believed.database # "none"
            PROVE  places'[tokens'[clients'[u].token].of].database = clients'[u].believed.database
        <5>1. CASE u = t
          BY <2>1, <2>2, <2>4, <5>1 DEF Sessions!SessionOf
        <5>2. CASE u # t
          <6>1. clients'[u] = clients[u] /\ places[Sessions!SessionOf(clients[u].token)].database = clients[u].believed.database
            BY <2>4, <2>7, <4>1, <5>2 DEF Sane, Known
          <6> QED
            BY <2>1, <2>6, <4>1, <5>2, <6>1
        <5> QED
          BY <5>1, <5>2
      <4> QED
        BY <4>1 DEF Known, Sessions!SessionOf
    <3>3. Aligned'
      BY <1>1, <2>4, <2>7 DEF Sane, Aligned
    <3> QED
      BY <1>3, <2>7, <3>1, <3>2, <3>3 DEF Sane
  <2> QED
    BY <1>3, <2>1, <2>4, <2>5, <2>7 DEF SessionTyped, PastTyped, PlacesInv, Sane
<1> QED
  BY <1>2, <1>3 DEF Sessions!Open

LEMMA CloseKeeps ==
  ASSUME SessionInv, NEW t \in Tqls, Sessions!Close(t)
  PROVE  SessionInv'
<1> USE DEF SessionInv
<1> DEFINE r == [clients[t] EXCEPT !.on = FALSE]
<1>1. /\ UNCHANGED <<tokens, places, saved, asking, past>> /\ clients' = [clients EXCEPT ![t] = r]
      /\ \A h \in Threads[t] : asking[t][h].at = "rest"
  BY DEF Sessions!Close
<1>2. r \in TqlRecords /\ ~r.on
  BY DEF SessionTyped, TqlsTyped, TqlRecords
<1> HIDE DEF r
<1>3. ServersTyped' /\ TokensKept /\ Numbers' = Numbers /\ TqlRecords' = TqlRecords
  BY <1>1, Unspent
<1>4. TqlsTyped' /\ clients'[t] = r /\ \A u \in Tqls : u # t => clients'[u] = clients[u]
  BY <1>1, <1>2, <1>3, TqlGoes
<1>5. AsksTyped'
  BY <1>1, <1>3, <1>4, AsksRest
<1>6. ASSUME Sane PROVE Sane'
  <2>1. Apart'
    BY <1>1, <1>2, <1>4, <1>6 DEF Sane, Apart, Sessions!SharedBy, Sessions!SessionOf
  <2>2. Known'
    BY <1>1, <1>2, <1>4, <1>6 DEF Sane, Known, Sessions!SessionOf
  <2>3. Aligned'
    BY <1>1, <1>4, <1>6 DEF Sane, Aligned
  <2> QED
    BY <1>1, <1>6, <2>1, <2>2, <2>3 DEF Sane
<1> QED
  BY <1>1, <1>3, <1>4, <1>5, <1>6 DEF SessionTyped, PastTyped, PlacesInv, Sane

LEMMA UseKeeps ==
  ASSUME SessionInv, NEW t \in Tqls, Sessions!Use(t)
  PROVE  SessionInv'
<1> USE DEF SessionInv
<1>1. PICK database \in Databases : clients' = [clients EXCEPT ![t].wanted = database]
  BY DEF Sessions!Use
<1> DEFINE r == [clients[t] EXCEPT !.wanted = database]
<1>2. /\ UNCHANGED <<tokens, places, saved, asking>> /\ clients' = [clients EXCEPT ![t] = r] /\ clients[t].on
      /\ \A h \in Threads[t] : asking[t][h].at = "rest"
  BY <1>1 DEF Sessions!Use
<1>3. /\ r \in TqlRecords /\ r.on = clients[t].on /\ r.token = clients[t].token /\ r.believed = clients[t].believed
      /\ r.token # Sessions!NoToken
  BY <1>2 DEF SessionTyped, TqlsTyped, TqlRecords
<1> HIDE DEF r
<1>4. ServersTyped' /\ TokensKept /\ Numbers' = Numbers /\ TqlRecords' = TqlRecords
  BY <1>2, Unspent
<1>5. TqlsTyped' /\ clients'[t] = r /\ \A u \in Tqls : u # t => clients'[u] = clients[u]
  BY <1>2, <1>3, <1>4, TqlGoes
<1>6. AsksTyped'
  BY <1>2, <1>4, <1>5, AsksRest
<1>7. /\ PastTyped' /\ past'.shared = past.shared /\ past'.taken = past.taken /\ past'.astray = past.astray
  BY DEF SessionTyped, PastTyped, Sessions!Use
<1>8. ASSUME Sane PROVE Sane'
  <2>1. \A u \in Tqls : clients'[u].on = clients[u].on /\ clients'[u].token = clients[u].token /\ clients'[u].believed = clients[u].believed
    BY <1>3, <1>5
  <2>2. Apart' /\ Known'
    <3>1. Apart'
      BY <1>2, <1>8, <2>1 DEF Sane, Apart, Sessions!SharedBy, Sessions!SessionOf
    <3>2. Known'
      BY <1>2, <1>8, <2>1 DEF Sane, Known, Sessions!SessionOf
    <3> QED
      BY <3>1, <3>2
  <2>3. Aligned'
    BY <1>2, <1>5, <1>8 DEF Sane, Aligned
  <2> QED
    BY <1>7, <1>8, <2>2, <2>3 DEF Sane
<1> QED
  BY <1>4, <1>5, <1>6, <1>7, <1>8 DEF SessionTyped, PlacesInv, Sane

-----------------------------------------------------------------------------
LEMMA RequestKeeps ==
  ASSUME SessionInv, NEW t \in Tqls, NEW h \in Threads[t], Sessions!Ask(t, h)
  PROVE  SessionInv'
<1> USE DEF SessionInv
<1> DEFINE a == [Sessions!Rests EXCEPT !.at = "align"]
<1>1. /\ UNCHANGED <<tokens, places, saved, clients>> /\ Sessions!Sets(t, h, a) /\ clients[t].on
      /\ past' = [past EXCEPT !.asks = @ + 1]
  BY DEF Sessions!Ask
<1>2. ServersTyped' /\ TokensKept /\ Numbers' = Numbers /\ Asks' = Asks /\ TqlRecords' = TqlRecords
  BY <1>1, Unspent
<1>3. a \in Asks' /\ a.at = "align" /\ a.token = Sessions!NoToken
  BY <1>2, TokenTyped DEF SessionTyped, Asks, Sessions!Rests
<1> HIDE DEF a
<1>4. AsksTyped'
  BY <1>1, <1>2, <1>3, AsksGoOn
<1>5. TqlsTyped'
  BY <1>1, <1>2 DEF SessionTyped, TqlsTyped
<1>6. /\ PastTyped' /\ past'.shared = past.shared /\ past'.taken = past.taken /\ past'.astray = past.astray
  BY <1>1 DEF SessionTyped, PastTyped
<1>7. ASSUME Sane PROVE Sane'
  <2>1. Apart' /\ Known'
    BY <1>1, <1>7 DEF Sane, Apart, Sessions!SharedBy, Known, Sessions!SessionOf
  <2>2. Aligned'
    <3>1. /\ asking'[t][h] = a
          /\ \A u \in Tqls : \A k \in Threads[u] : u # t \/ k # h => asking'[u][k] = asking[u][k]
      BY <1>1, <1>2, <1>3, Setting
    <3> QED
      BY <1>1, <1>3, <1>7, <3>1 DEF Sane, Aligned
  <2> QED
    BY <1>6, <1>7, <2>1, <2>2 DEF Sane
<1> QED
  BY <1>2, <1>4, <1>5, <1>6, <1>7 DEF SessionTyped, PlacesInv, Sane

LEMMA AlignKeeps ==
  ASSUME SessionInv, NEW t \in Tqls, NEW h \in Threads[t], Sessions!Align(t, h)
  PROVE  SessionInv'
<1> USE DEF SessionInv
<1> DEFINE there == clients[t].believed.database = clients[t].wanted
           a == [asking[t][h] EXCEPT !.at = IF there THEN "query" ELSE "use"]
<1>1. /\ UNCHANGED <<tokens, places, saved, clients, past>> /\ Sessions!Sets(t, h, a) /\ asking[t][h].at = "align"
  BY DEF Sessions!Align
<1>2. ServersTyped' /\ TokensKept /\ Numbers' = Numbers /\ Asks' = Asks /\ TqlRecords' = TqlRecords
  BY <1>1, Unspent
<1>3. /\ asking[t][h] \in Asks /\ clients[t].on
      /\ asking[t][h].token \in {Sessions!NoToken, clients[t].token} \/ ~Sessions!Good(asking[t][h].token)
  BY <1>1 DEF SessionTyped, AsksTyped
<1>4. /\ a \in Asks' /\ a.at \in {"use", "query"} /\ (a.at = "query" => there)
      /\ a.token = asking[t][h].token
  BY <1>2, <1>3 DEF Asks
<1> HIDE DEF a
<1>5. AsksTyped'
  BY <1>1, <1>2, <1>3, <1>4, AsksGoOn DEF Sessions!Good, GoodThen
<1>6. TqlsTyped' /\ PastTyped'
  BY <1>1, <1>2 DEF SessionTyped, TqlsTyped, PastTyped
<1>7. ASSUME Sane PROVE Sane'
  <2>1. Apart' /\ Known'
    BY <1>1, <1>7 DEF Sane, Apart, Sessions!SharedBy, Known, Sessions!SessionOf
  <2>2. Aligned'
    <3>1. /\ asking'[t][h] = a
          /\ \A u \in Tqls : \A k \in Threads[u] : u # t \/ k # h => asking'[u][k] = asking[u][k]
      BY <1>1, <1>2, <1>4, Setting
    <3> QED
      BY <1>1, <1>4, <1>7, <3>1 DEF Sane, Aligned
  <2> QED
    BY <1>1, <1>7, <2>1, <2>2 DEF Sane
<1> QED
  BY <1>1, <1>2, <1>5, <1>6, <1>7 DEF SessionTyped, PlacesInv, Sane

LEMMA TakeKeeps ==
  ASSUME SessionInv, NEW t \in Tqls, NEW h \in Threads[t], Sessions!Take(t, h)
  PROVE  SessionInv'
<1> USE DEF SessionInv
<1> DEFINE a == [asking[t][h] EXCEPT !.token = clients[t].token]
<1>1. /\ UNCHANGED <<tokens, places, saved, clients, past>> /\ Sessions!Sets(t, h, a)
      /\ asking[t][h].at \in {"use", "query"}
  BY DEF Sessions!Take
<1>2. ServersTyped' /\ TokensKept /\ Numbers' = Numbers /\ Asks' = Asks /\ TqlRecords' = TqlRecords
  BY <1>1, Unspent
<1>3. asking[t][h] \in Asks /\ clients[t].on /\ clients[t].token \in Numbers
  BY <1>1 DEF SessionTyped, AsksTyped, TqlsTyped
<1>4. a \in Asks' /\ a.at = asking[t][h].at /\ a.token = clients[t].token
  BY <1>2, <1>3 DEF Asks
<1> HIDE DEF a
<1>5. AsksTyped'
  BY <1>1, <1>2, <1>3, <1>4, AsksGoOn
<1>6. TqlsTyped' /\ PastTyped'
  BY <1>1, <1>2 DEF SessionTyped, TqlsTyped, PastTyped
<1>7. ASSUME Sane PROVE Sane'
  <2>1. Apart' /\ Known'
    BY <1>1, <1>7 DEF Sane, Apart, Sessions!SharedBy, Known, Sessions!SessionOf
  <2>2. Aligned'
    <3>1. /\ asking'[t][h] = a
          /\ \A u \in Tqls : \A k \in Threads[u] : u # t \/ k # h => asking'[u][k] = asking[u][k]
      BY <1>1, <1>2, <1>4, Setting
    <3> QED
      BY <1>1, <1>4, <1>7, <3>1 DEF Sane, Aligned
  <2> QED
    BY <1>1, <1>7, <2>1, <2>2 DEF Sane
<1> QED
  BY <1>1, <1>2, <1>5, <1>6, <1>7 DEF SessionTyped, PlacesInv, Sane

LEMMA AnswerKeeps ==
  ASSUME Sessions!DatabasesFit, SessionInv, NEW t \in Tqls, NEW h \in Threads[t], Sessions!Answer(t, h)
  PROVE  SessionInv'
<1> USE DEF SessionInv
<1> DEFINE token == asking[t][h].token
           s == Sessions!SessionOf(token)
<1>1. /\ UNCHANGED <<tokens, saved>> /\ Sessions!Good(token) /\ token \in Numbers \ {Sessions!NoToken}
      /\ token = clients[t].token /\ asking[t][h].at # "rest" /\ clients[t].on
      /\ clients[t] \in TqlRecords
  <2>1. Sessions!Good(token) /\ UNCHANGED <<tokens, saved>>
    BY DEF Sessions!Answer
  <2>2. token \in Numbers /\ (token \in {Sessions!NoToken, clients[t].token} \/ ~Sessions!Good(token))
    BY DEF SessionTyped, AsksTyped, Asks
  <2>3. token # Sessions!NoToken
    BY <2>1 DEF Sessions!Good
  <2>4. asking[t][h].at # "rest" /\ clients[t].on
    BY <2>3 DEF SessionTyped, AsksTyped, Sessions!Rests
  <2>5. clients[t] \in TqlRecords
    BY DEF SessionTyped, TqlsTyped, TqlRecords
  <2> QED
    BY <2>1, <2>2, <2>3, <2>4, <2>5
<1>2. /\ s \in DOMAIN places /\ places[s] \in PlaceSet /\ Sessions!NoToken \in Numbers
      /\ \A u \in Tqls : clients[u].on =>
           clients[u].token \in Numbers \ {Sessions!NoToken} /\ Sessions!SessionOf(clients[u].token) \in DOMAIN places
  BY <1>1, TokenTyped DEF SessionTyped, TqlsTyped
<1> HIDE DEF s
<1>3. ASSUME NEW next \in Asks, next.at \in {"rest", "query"}, next.token = Sessions!NoToken,
             next.at = "rest" => next = Sessions!Rests, Sessions!Sets(t, h, next),
             NEW place \in PlaceSet, clients' = [clients EXCEPT ![t].believed = place],
             places' \in Seq(PlaceSet), DOMAIN places' = DOMAIN places, PastTyped',
             past'.shared = past.shared, past'.taken = past.taken,
             \A v \in DOMAIN places \ {s} : places'[v] = places[v],
             Sane => /\ places'[s].database = place.database /\ place.database = clients[t].wanted
                     /\ ~past'.astray
      PROVE  SessionInv'
  <2> DEFINE r == [clients[t] EXCEPT !.believed = place]
  <2>1. /\ ServersTyped' /\ Numbers' = Numbers /\ Asks' = Asks /\ TqlRecords' = TqlRecords
        /\ TokensKept
    BY <1>1, <1>3 DEF SessionTyped, ServersTyped, Tokens, Numbers, Asks, TqlRecords, TokensKept,
                      Sessions!SessionOf, Sessions!Good, GoodThen
  <2>2. /\ r \in TqlRecords' /\ r.token = clients[t].token /\ r.on /\ r.token # Sessions!NoToken
        /\ r.believed = place /\ r.wanted = clients[t].wanted /\ r.on = clients[t].on /\ clients' = [clients EXCEPT ![t] = r]
    BY <1>1, <1>3, <2>1 DEF TqlRecords
  <2> HIDE DEF r
  <2>3. TqlsTyped' /\ clients'[t] = r /\ \A u \in Tqls : u # t => clients'[u] = clients[u]
    BY <2>1, <2>2, TqlGoes
  <2>4. \A u \in Tqls : clients'[u].on = clients[u].on /\ clients'[u].token = clients[u].token
                        /\ clients'[u].wanted = clients[u].wanted
    BY <2>2, <2>3
  <2>5. AsksTyped'
    BY <1>1, <1>3, <2>1, <2>4, AsksGoOn
  <2>6. ASSUME Sane PROVE Sane'
    <3>1. Apart'
      BY <1>1, <2>4, <2>6 DEF Sane, Apart, Sessions!SharedBy, Sessions!SessionOf
    <3>2. Known'
      <4>1. ASSUME NEW u \in Tqls, clients[u].on, clients'[u].believed.database # "none"
            PROVE  places'[Sessions!SessionOf(clients[u].token)].database = clients'[u].believed.database
        <5>1. CASE u = t
          BY <1>1, <1>3, <2>2, <2>3, <2>6, <5>1 DEF s
        <5>2. CASE u # t
          <6>1. Sessions!SessionOf(clients[u].token) # s
            BY <1>1, <2>6, <4>1, <5>2 DEF Sane, Apart, Sessions!SharedBy, s
          <6>2. places'[Sessions!SessionOf(clients[u].token)] = places[Sessions!SessionOf(clients[u].token)]
            BY <1>2, <1>3, <4>1, <6>1
          <6> QED
            BY <2>3, <2>6, <4>1, <5>2, <6>2 DEF Sane, Known
        <5> QED
          BY <5>1, <5>2
      <4> QED
        BY <1>1, <2>4, <4>1 DEF Known, Sessions!SessionOf
    <3>3. Aligned'
      <4>1. /\ asking'[t][h] = next
            /\ \A u \in Tqls : \A k \in Threads[u] : u # t \/ k # h => asking'[u][k] = asking[u][k]
        BY <1>3, <2>1, Setting
      <4>2. clients'[t].believed.database = clients'[t].wanted
        BY <1>3, <2>2, <2>3, <2>6
      <4> QED
        BY <2>3, <2>6, <4>1, <4>2 DEF Sane, Aligned
    <3> QED
      BY <1>3, <2>6, <3>1, <3>2, <3>3 DEF Sane
  <2> QED
    BY <1>3, <2>1, <2>3, <2>5, <2>6 DEF SessionTyped, PlacesInv, Sane
<1>4. CASE asking[t][h].at = "use"
  <2> DEFINE next == [Sessions!Rests EXCEPT !.at = "query"]
             place == Sessions!In(clients[t].wanted)
  <2>1. /\ places' = [places EXCEPT ![s] = place] /\ clients' = [clients EXCEPT ![t].believed = place]
        /\ Sessions!Sets(t, h, next) /\ UNCHANGED past
    BY <1>4 DEF Sessions!Answer, s
  <2>2. place \in PlaceSet /\ place.database = clients[t].wanted
    BY <1>1, InTyped DEF TqlRecords
  <2>3. next \in Asks /\ next.at = "query" /\ next.token = Sessions!NoToken
    BY <1>2 DEF Asks, Sessions!Rests
  <2> HIDE DEF next, place
  <2>4. /\ places' \in Seq(PlaceSet) /\ DOMAIN places' = DOMAIN places /\ places'[s] = place
        /\ \A v \in DOMAIN places \ {s} : places'[v] = places[v]
    BY <1>2, <2>1, <2>2, ExceptSeq DEF SessionTyped, ServersTyped
  <2>5. PastTyped'
    BY <2>1 DEF SessionTyped, PastTyped
  <2> QED
    BY <1>3, <2>1, <2>2, <2>3, <2>4, <2>5 DEF Sane
<1>5. CASE asking[t][h].at # "use"
  <2>1. /\ UNCHANGED places /\ clients' = [clients EXCEPT ![t].believed = places[s]]
        /\ Sessions!Sets(t, h, Sessions!Rests)
        /\ past' = [past EXCEPT !.astray = @ \/ places[s].database # clients[t].wanted]
    BY <1>5 DEF Sessions!Answer, s
  <2>2. Sessions!Rests \in Asks /\ Sessions!Rests.at = "rest" /\ Sessions!Rests.token = Sessions!NoToken
    BY <1>2 DEF Asks, Sessions!Rests
  <2>3. /\ PastTyped' /\ past'.shared = past.shared /\ past'.taken = past.taken
        /\ past'.astray = (past.astray \/ places[s].database # clients[t].wanted)
    BY <2>1 DEF SessionTyped, PastTyped
  <2>4. places' \in Seq(PlaceSet)
    BY <2>1 DEF SessionTyped, ServersTyped
  <2>5. asking[t][h].at = "query"
    BY <1>1, <1>5 DEF SessionTyped, AsksTyped, Asks
  <2>6. ASSUME Sane PROVE places[s].database = clients[t].wanted
    <3>1. clients[t].believed.database = clients[t].wanted /\ clients[t].wanted # "none"
      BY <1>1, <2>5, <2>6 DEF Sane, Aligned, TqlRecords, Sessions!DatabasesFit
    <3> QED
      BY <1>1, <2>6, <3>1 DEF Sane, Known, s
  <2>7. Sane => ~past'.astray
    BY <2>3, <2>6 DEF Sane
  <2> HIDE DEF Sane
  <2> QED
    BY <1>2, <1>3, <2>1, <2>2, <2>3, <2>4, <2>6, <2>7
<1> QED
  BY <1>4, <1>5

LEMMA RefreshKeeps ==
  ASSUME SessionInv, NEW t \in Tqls, NEW h \in Threads[t], Sessions!Refresh(t, h)
  PROVE  SessionInv'
<1> USE DEF SessionInv
<1> DEFINE a == asking[t][h]
           stale == IF a.token = Sessions!NoToken THEN clients[t].token ELSE a.token
           again == [a EXCEPT !.token = Sessions!NoToken, !.retried = a.token # Sessions!NoToken]
<1>1. /\ a \in Asks /\ a.at \in {"use", "query"} /\ ~Sessions!Good(stale) /\ stale # Sessions!NoToken
      /\ clients[t].on /\ clients[t] \in TqlRecords /\ clients[t].token \in Numbers \ {Sessions!NoToken}
      /\ stale \in Numbers \ {Sessions!NoToken} /\ Sessions!NoToken \in Numbers /\ ServersTyped /\ saved \in Numbers
  <2>1. a \in Asks /\ a.at \in {"use", "query"} /\ ~Sessions!Good(stale) /\ stale # Sessions!NoToken
    BY DEF SessionTyped, AsksTyped, Sessions!Refresh
  <2>2. clients[t].on /\ clients[t] \in TqlRecords /\ clients[t].token \in Numbers \ {Sessions!NoToken}
    BY <2>1 DEF SessionTyped, AsksTyped, TqlsTyped, TqlRecords
  <2>3. ServersTyped /\ saved \in Numbers /\ Sessions!NoToken \in Numbers
    BY TokenTyped DEF SessionTyped, ServersTyped
  <2>4. a.token \in Numbers
    BY <2>1 DEF Asks
  <2> QED
    BY <2>1, <2>2, <2>3, <2>4
<1>2. /\ again \in Asks /\ again.at = a.at /\ again.token = Sessions!NoToken
      /\ Sessions!Rests \in Asks /\ Sessions!Rests.at = "rest" /\ Sessions!Rests.token = Sessions!NoToken
  BY <1>1 DEF Asks, Sessions!Rests
<1> HIDE DEF stale, again
\* the request rests or tries again, and all else stays,
<1>3. ASSUME NEW next \in {Sessions!Rests, again}, Sessions!Sets(t, h, next), UNCHANGED <<tokens, places, saved, clients, past>>
      PROVE  SessionInv'
  <2>1. ServersTyped' /\ TokensKept /\ Numbers' = Numbers /\ Asks' = Asks /\ TqlRecords' = TqlRecords
    BY <1>3, Unspent
  <2>2. /\ next \in Asks' /\ next.at \in {"rest", a.at} /\ next.token = Sessions!NoToken
        /\ next.at = "rest" => next = Sessions!Rests
    BY <1>1, <1>2, <2>1
  <2>3. AsksTyped'
    BY <1>1, <1>3, <2>1, <2>2, AsksGoOn
  <2>4. TqlsTyped' /\ PastTyped'
    BY <1>3, <2>1 DEF SessionTyped, TqlsTyped, PastTyped
  <2>5. ASSUME Sane PROVE Sane'
    <3>1. Apart' /\ Known'
      BY <1>3, <2>5 DEF Sane, Apart, Sessions!SharedBy, Known, Sessions!SessionOf
    <3>2. Aligned'
      <4>1. /\ asking'[t][h] = next
            /\ \A u \in Tqls : \A k \in Threads[u] : u # t \/ k # h => asking'[u][k] = asking[u][k]
        BY <1>3, <2>1, <2>2, Setting
      <4> QED
        BY <1>3, <2>2, <2>5, <4>1 DEF Sane, Aligned
    <3> QED
      BY <1>3, <2>5, <3>1, <3>2 DEF Sane
  <2> QED
    BY <1>3, <2>1, <2>3, <2>4, <2>5 DEF SessionTyped, PlacesInv, Sane
\* or its tql goes on with another token: then it is right that requests are typed,
<1>4. ASSUME clients[t].token = stale, Sessions!Sets(t, h, again), ServersTyped', TokensKept,
             NEW r \in TqlRecords', r.on = clients[t].on, r.token # Sessions!NoToken, clients' = [clients EXCEPT ![t] = r]
      PROVE  /\ TqlsTyped' /\ AsksTyped' /\ clients'[t] = r /\ \A u \in Tqls : u # t => clients'[u] = clients[u]
             /\ asking'[t][h] = again
             /\ \A u \in Tqls : \A k \in Threads[u] : u # t \/ k # h => asking'[u][k] = asking[u][k]
  <2>1. TqlsTyped' /\ clients'[t] = r /\ \A u \in Tqls : u # t => clients'[u] = clients[u]
    BY <1>4, TqlGoes DEF TokensKept
  <2>2. again \in Asks'
    BY <1>2, <1>4 DEF Asks, TokensKept
  <2>3. \A u \in Tqls : clients'[u].on = clients[u].on
    BY <1>4, <2>1
  <2>4. AsksTyped'
    BY <1>1, <1>2, <1>4, <2>1, <2>2, <2>3, AsksGoOn
  <2> QED
    BY <1>4, <2>1, <2>2, <2>4, Setting DEF TokensKept
\* and it stays where it wants, if its new token is of a session that is where it thinks, and of
\* no other tql.
<1>5. ASSUME clients[t].token = stale, Sessions!Sets(t, h, again), ServersTyped', TokensKept,
             NEW token \in Numbers', token # Sessions!NoToken, UNCHANGED past,
             clients' = [clients EXCEPT ![t].token = token],
             \A s \in DOMAIN places : places'[s] = places[s],
             \/ Sessions!SessionOf(token)' = Sessions!SessionOf(stale)
             \/ /\ Sessions!SessionOf(token)' \notin DOMAIN places
                /\ places'[Sessions!SessionOf(token)'].database = clients[t].believed.database
      PROVE  SessionInv'
  <2> DEFINE r == [clients[t] EXCEPT !.token = token]
  <2>1. /\ r \in TqlRecords' /\ r.token = token /\ r.on = clients[t].on /\ r.believed = clients[t].believed
        /\ r.wanted = clients[t].wanted /\ clients' = [clients EXCEPT ![t] = r]
    BY <1>1, <1>5 DEF TqlRecords
  <2> HIDE DEF r
  <2>2. /\ TqlsTyped' /\ AsksTyped' /\ clients'[t] = r /\ \A u \in Tqls : u # t => clients'[u] = clients[u]
        /\ asking'[t][h] = again
        /\ \A u \in Tqls : \A k \in Threads[u] : u # t \/ k # h => asking'[u][k] = asking[u][k]
    BY <1>4, <1>5, <2>1
  <2>3. ASSUME NEW u \in Tqls, clients[u].on
        PROVE  /\ Sessions!SessionOf(clients[u].token) \in DOMAIN places
               /\ Sessions!SessionOf(clients[u].token)' = IF u = t THEN Sessions!SessionOf(token)' ELSE Sessions!SessionOf(clients[u].token)
               /\ Sessions!SessionOf(stale) \in DOMAIN places
    <3>1. clients[u].token \in Numbers \ {Sessions!NoToken}
      BY <2>3 DEF SessionTyped, TqlsTyped
    <3>2. Sessions!SessionOf(clients[u].token) \in DOMAIN places /\ Sessions!SessionOf(stale) \in DOMAIN places
      BY <1>1, <3>1, TokenTyped
    <3> QED
      BY <1>5, <2>1, <2>2, <3>1, <3>2 DEF TokensKept, Sessions!SessionOf
  <2>4. \A u \in Tqls : clients'[u].on => clients[u].on
    BY <1>1, <2>2
  <2>5. ASSUME Sane PROVE Sane'
    <3>1. Apart'
      BY <1>1, <1>5, <2>3, <2>4, <2>5 DEF Sane, Apart, Sessions!SharedBy
    <3>2. Known'
      <4>1. ASSUME NEW u \in Tqls, clients'[u].on, clients'[u].believed.database # "none"
            PROVE  places'[Sessions!SessionOf(clients[u].token)'].database = clients'[u].believed.database
        <5>1. clients'[u].believed = clients[u].believed /\ clients[u].on
              /\ places[Sessions!SessionOf(clients[u].token)].database = clients[u].believed.database
          BY <2>1, <2>2, <2>4, <2>5, <4>1 DEF Sane, Known
        <5>2. CASE u = t
          BY <1>5, <2>3, <5>1, <5>2
        <5>3. CASE u # t
          BY <1>5, <2>3, <5>1, <5>3
        <5> QED
          BY <5>2, <5>3
      <4> QED
        BY <4>1 DEF Known
    <3>3. Aligned'
      BY <1>2, <2>1, <2>2, <2>5 DEF Sane, Aligned
    <3> QED
      BY <1>5, <2>5, <3>1, <3>2, <3>3 DEF Sane
  <2> QED
    BY <1>5, <2>2, <2>5 DEF SessionTyped, PastTyped, PlacesInv, Sane
<1>6. CASE a.retried /\ a.token # Sessions!NoToken
  BY <1>3, <1>6 DEF Sessions!Refresh
<1>7. CASE ~(a.retried /\ a.token # Sessions!NoToken)
  <2>1. /\ Sessions!Sets(t, h, again)
        /\ \/ UNCHANGED <<tokens, places, saved, clients, past>>
           \/ /\ clients[t].token = stale /\ saved # stale /\ Sessions!Good(saved)
              /\ clients' = [clients EXCEPT ![t] = [@ EXCEPT !.token = saved, !.believed = Sessions!Nowhere]]
              /\ past' = [past EXCEPT !.taken = TRUE] /\ UNCHANGED <<tokens, places, saved>>
           \/ /\ clients[t].token = stale
              /\ tokens' = Append([tokens EXCEPT ![stale].master = FALSE],
                                  [of |-> Sessions!SessionOf(stale), good |-> TRUE, master |-> TRUE])
              /\ saved' = Len(tokens) + 1 /\ clients' = [clients EXCEPT ![t].token = saved']
              /\ UNCHANGED <<places, past>>
           \/ /\ clients[t].token = stale /\ Sessions!SignIn(clients[t].believed.database)
              /\ clients' = [clients EXCEPT ![t] = [@ EXCEPT !.token = saved']] /\ UNCHANGED past
    BY <1>7 DEF Sessions!Refresh, stale, again
  \* Another thread renewed the token meanwhile.
  <2>2. CASE UNCHANGED <<tokens, places, saved, clients, past>>
    BY <1>3, <2>1, <2>2
  \* The store has the token of another clients.
  <2>3. ASSUME clients[t].token = stale, Sessions!Good(saved), UNCHANGED <<tokens, places, saved>>,
               clients' = [clients EXCEPT ![t] = [@ EXCEPT !.token = saved, !.believed = Sessions!Nowhere]],
               past' = [past EXCEPT !.taken = TRUE]
        PROVE  SessionInv'
    <3> DEFINE r == [clients[t] EXCEPT !.token = saved, !.believed = Sessions!Nowhere]
    <3>1. ServersTyped' /\ TokensKept /\ TqlRecords' = TqlRecords
      BY <2>3, Unspent
    <3>2. r \in TqlRecords' /\ r.on = clients[t].on /\ r.token # Sessions!NoToken /\ clients' = [clients EXCEPT ![t] = r]
      BY <1>1, <2>3, <3>1, NowhereTyped DEF TqlRecords, Sessions!Good
    <3> HIDE DEF r
    <3>3. TqlsTyped' /\ AsksTyped'
      BY <1>4, <2>1, <2>3, <3>1, <3>2
    <3>4. PastTyped' /\ past'.taken
      BY <2>3 DEF SessionTyped, PastTyped
    <3> QED
      BY <3>1, <3>3, <3>4 DEF SessionTyped, PlacesInv
  \* The token is renewed: the session stays.
  <2>4. ASSUME clients[t].token = stale,
               tokens' = Append([tokens EXCEPT ![stale].master = FALSE],
                                [of |-> Sessions!SessionOf(stale), good |-> TRUE, master |-> TRUE]),
               saved' = Len(tokens) + 1, clients' = [clients EXCEPT ![t].token = saved'],
               UNCHANGED <<places, past>>
        PROVE  SessionInv'
    <3> DEFINE old == [tokens EXCEPT ![stale].master = FALSE]
    <3>1. /\ tokens \in Seq(Tokens) /\ places \in Seq(PlaceSet) /\ DOMAIN tokens = 1 .. Len(tokens)
          /\ stale \in 1 .. Len(tokens) /\ Sessions!SessionOf(stale) \in DOMAIN places
          /\ tokens[stale] \in Tokens
      BY <1>1, TokenTyped DEF ServersTyped
    <3>2. Tokens' = Tokens
      BY <2>4 DEF Tokens
    <3> DEFINE dull == [tokens[stale] EXCEPT !.master = FALSE]
    <3>3. dull \in Tokens /\ dull.of = tokens[stale].of /\ dull.good = tokens[stale].good
      BY <3>1 DEF Tokens
    <3> HIDE DEF dull
    <3>4. old = [tokens EXCEPT ![stale] = dull]
      BY <3>1 DEF dull
    <3> HIDE DEF old
    <3>5. /\ old \in Seq(Tokens') /\ Len(old) = Len(tokens)
          /\ \A n \in 1 .. Len(tokens) : old[n] = IF n = stale THEN dull ELSE tokens[n]
      <4>1. /\ [tokens EXCEPT ![stale] = dull] \in Seq(Tokens)
            /\ Len([tokens EXCEPT ![stale] = dull]) = Len(tokens)
            /\ \A n \in 1 .. Len(tokens) :
                 [tokens EXCEPT ![stale] = dull][n] = IF n = stale THEN dull ELSE tokens[n]
        BY <3>1, <3>3, ExceptSeq
      <4> QED
        BY <3>2, <3>4, <4>1
    <3>6. \A n \in DOMAIN tokens : old[n].of = tokens[n].of /\ (old[n].good => tokens[n].good)
      BY <3>1, <3>3, <3>5
    <3>7. /\ ServersTyped' /\ TokensKept /\ saved' \in Numbers' /\ saved' # Sessions!NoToken
          /\ Sessions!SessionOf(saved)' = Sessions!SessionOf(stale)
      <4>1. tokens' = Append(old, [of |-> Sessions!SessionOf(stale), good |-> TRUE, master |-> TRUE])
        BY <2>4 DEF old
      <4>2. Sessions!SessionOf(stale) \in DOMAIN places' /\ places' \in Seq(PlaceSet)
        BY <2>4, <3>1
      <4> QED
        BY <1>1, <2>4, <3>5, <3>6, <4>1, <4>2, HandsOut
    <3> QED
      BY <1>5, <2>1, <2>4, <3>7
  \* The browser is opened, and signs in to another session.
  <2>5. ASSUME clients[t].token = stale, Sessions!SignIn(clients[t].believed.database),
               clients' = [clients EXCEPT ![t] = [@ EXCEPT !.token = saved']], UNCHANGED past
        PROVE  SessionInv'
    <3>1. clients[t].believed \in PlaceSet /\ clients[t].believed.database \in Databases \cup {"none"}
      BY <1>1 DEF TqlRecords, PlaceSet
    <3>2. /\ ServersTyped' /\ TokensKept /\ saved' \in Numbers' /\ saved' # Sessions!NoToken
          /\ Sessions!SessionOf(saved)' \notin DOMAIN places
          /\ places'[Sessions!SessionOf(saved)'].database = clients[t].believed.database
          /\ \A s \in DOMAIN places : places'[s] = places[s]
      BY <1>1, <2>5, <3>1, InTyped, SignsIn
    <3>3. clients' = [clients EXCEPT ![t].token = saved']
      BY <2>5
    <3> QED
      BY <1>5, <2>1, <2>5, <3>2, <3>3
  <2> QED
    BY <2>1, <2>2, <2>3, <2>4, <2>5
<1> QED
  BY <1>6, <1>7

\* No request goes on, and no tql.
LEMMA TqlsKeep ==
  ASSUME SessionInv, ServersTyped', TokensKept, UNCHANGED <<places, clients, asking, past>>
  PROVE  SessionInv'
<1> USE DEF SessionInv
<1>1. AsksTyped'
  BY AsksRest
<1>2. TqlsTyped' /\ PastTyped'
  BY DEF SessionTyped, TqlsTyped, PastTyped, TokensKept
<1>3. ASSUME Sane PROVE Sane'
  <2>1. \A u \in Tqls : clients[u].on => Sessions!SessionOf(clients[u].token)' = Sessions!SessionOf(clients[u].token)
    BY DEF SessionTyped, TqlsTyped, TokensKept, Sessions!SessionOf
  <2>2. Apart'
    BY <1>3, <2>1 DEF Sane, Apart, Sessions!SharedBy
  <2>3. Known'
    BY <1>3, <2>1 DEF Sane, Known, Sessions!SessionOf
  <2>4. Aligned'
    BY <1>3 DEF Sane, Aligned
  <2> QED
    BY <1>3, <2>2, <2>3, <2>4 DEF Sane
<1> QED
  BY <1>1, <1>2, <1>3 DEF SessionTyped, PlacesInv, Sane

LEMMA ExpireKeeps ==
  ASSUME SessionInv, NEW token \in DOMAIN tokens, Sessions!Expire(token)
  PROVE  SessionInv'
<1> DEFINE spent == tokens'[token]
<1>1. /\ ServersTyped /\ tokens \in Seq(Tokens) /\ DOMAIN tokens = 1 .. Len(tokens)
      /\ token \in 1 .. Len(tokens) /\ tokens[token] \in Tokens /\ Len(tokens) \in Nat
  BY TokenTyped DEF SessionInv, SessionTyped, ServersTyped
<1>2. PICK renewable \in BOOLEAN :
        tokens' = [tokens EXCEPT ![token].good = FALSE, ![token].master = @ /\ renewable]
  BY DEF Sessions!Expire
<1>3. UNCHANGED <<places, saved, clients, asking, past>> /\ tokens' = [tokens EXCEPT ![token] = spent]
  BY <1>2 DEF Sessions!Expire
<1>4. spent \in Tokens /\ spent.of = tokens[token].of /\ ~spent.good
  BY <1>1, <1>2 DEF Tokens
<1> HIDE DEF spent
<1>5. /\ tokens' \in Seq(Tokens) /\ Len(tokens') = Len(tokens)
      /\ \A n \in 1 .. Len(tokens) : tokens'[n] = IF n = token THEN spent ELSE tokens[n]
  BY <1>1, <1>3, <1>4, ExceptSeq
<1>6. Numbers' = Numbers /\ Tokens' = Tokens
  BY <1>3, <1>5 DEF Numbers, Tokens
<1>7. ServersTyped'
  BY <1>1, <1>3, <1>5, <1>6 DEF ServersTyped
<1>8. \A n \in Numbers \ {Sessions!NoToken} : n \in 1 .. Len(tokens)
  BY <1>1 DEF Numbers, Sessions!NoToken
<1>9. TokensKept
  BY <1>4, <1>5, <1>6, <1>8 DEF TokensKept, Sessions!SessionOf, Sessions!Good, GoodThen
<1> QED
  BY <1>3, <1>7, <1>9, TqlsKeep

LEMMA SignOutKeeps ==
  ASSUME SessionInv, Sessions!SignOut
  PROVE  SessionInv'
<1>1. UNCHANGED <<tokens, places, clients, asking, past>> /\ saved' = Sessions!NoToken
  BY DEF Sessions!SignOut
<1>2. Sessions!NoToken \in Numbers
  BY TokenTyped DEF SessionInv, SessionTyped
<1>3. Numbers' = Numbers /\ Tokens' = Tokens /\ TokensKept
  BY <1>1 DEF Numbers, Tokens, TokensKept, Sessions!SessionOf, Sessions!Good, GoodThen
<1>4. ServersTyped'
  BY <1>1, <1>2, <1>3 DEF SessionInv, SessionTyped, ServersTyped
<1> QED
  BY <1>1, <1>3, <1>4, TqlsKeep

LEMMA SessionStep ==
  ASSUME Sessions!DatabasesFit, SessionInv, [Sessions!Next]_(Sessions!sessionVars)
  PROVE  SessionInv'
<1>1. CASE UNCHANGED Sessions!sessionVars
  <2>1. UNCHANGED <<tokens, places, saved, clients, asking, past>>
    BY <1>1 DEF Sessions!sessionVars
  <2>2. ServersTyped' /\ TokensKept
    BY <2>1, Unspent DEF SessionInv
  <2> QED
    BY <2>1, <2>2, TqlsKeep
<1>2. ASSUME NEW t \in Tqls, Sessions!Open(t) \/ Sessions!Close(t) \/ Sessions!Use(t)
      PROVE  SessionInv'
  BY <1>2, OpenKeeps, CloseKeeps, UseKeeps
<1>3. ASSUME NEW t \in Tqls, NEW h \in Threads[t],
             Sessions!Ask(t, h) \/ Sessions!Align(t, h) \/ Sessions!Take(t, h) \/ Sessions!Answer(t, h) \/ Sessions!Refresh(t, h)
      PROVE  SessionInv'
  BY <1>3, RequestKeeps, AlignKeeps, TakeKeeps, AnswerKeeps, RefreshKeeps
<1>4. ASSUME NEW token \in 1 .. Len(tokens), Sessions!Expire(token)
      PROVE  SessionInv'
  <2>1. token \in DOMAIN tokens
    BY TokenTyped DEF SessionInv, SessionTyped
  <2> QED
    BY <1>4, <2>1, ExpireKeeps
<1>5. CASE Sessions!SignOut
  BY <1>5, SignOutKeeps
<1> QED
  BY <1>1, <1>2, <1>3, <1>4, <1>5 DEF Sessions!Next

-----------------------------------------------------------------------------
\* A statement runs in the database its tql wants (session.rs ask, align and refresh), as long as
\* no tql took up a session another one was signed in with: however many tqls there are, and
\* requests at once, and however tokens expire, are renewed and are signed in for anew.
THEOREM RunsInItsDatabase == ASSUME Sessions!DatabasesFit PROVE Sessions!Spec => []Sessions!RunsWhereWanted
<1>1. Sessions!Init => SessionInv
  BY SessionInit DEF SessionInv
<1>2. SessionInv /\ [Sessions!Next]_(Sessions!sessionVars) => SessionInv'
  BY SessionStep
<1>3. SessionInv => Sessions!RunsWhereWanted
  BY DEF SessionInv, PlacesInv, Sessions!RunsWhereWanted
<1> QED
  BY <1>1, <1>2, <1>3, PTL DEF Sessions!Spec

-----------------------------------------------------------------------------
(* What a browser has listed, of Catalog, for any objects on a server and  *)
(* any steps: the tables are those that statements reach, by the names and *)
(* with the keys shown, whatever databases and schemas the session is      *)
(* turned to in ways tql notices.                                          *)

CONSTANTS Objects, Usual, MaxSteps
VARIABLES server, driver, browser, steps, turned

Catalogs == INSTANCE Catalog

Dbs == {o.db : o \in Objects} \cup {Saved, "new", Catalogs!None}
Schemas == {o.schema : o \in Objects} \cup {Usual}
Servers == [dbs : SUBSET Dbs, db : Dbs, path : Schemas, there : SUBSET Objects]

CatalogTyped ==
  /\ server \in Servers
  /\ driver \in [kind : Kinds, default : Schemas \cup {Catalogs!None}]
  /\ browser \in [active : Dbs, tables : {browser.tables}, named : Schemas, keys : {browser.keys},
                  default : Schemas \cup {Catalogs!None}, behind : BOOLEAN, links : Dbs, shown : {browser.shown}]
  /\ turned \in BOOLEAN

\* The sorts a catalog lists, what of them is not temporary, and the name of one
Sorts(kind) == CASE kind = "clickhouse" -> {"table", "view"}
                 [] kind = "snowflake" -> {"table", "view", "temporary"}
                 [] kind \in {"sqlite", "libsql"} -> {"table", "temporary"}
                 [] OTHER -> {"table"}
Lasting(o, kind) == o.sort # "temporary" /\ (kind \in Catalogs!Schemaless => o.schema = Usual)
NameIn(o, kind, path) == Catalogs!Table(IF kind \in Catalogs!Schemaless \/ o.schema = path THEN Catalogs!None ELSE o.schema, o.name)

\* Tables that were once listed in a database, and keys that are of what is there
OnceListed(tables, db, kind, path) ==
  \A t \in tables : \E o \in Objects :
    (db # Catalogs!None => o.db = db) /\ Lasting(o, kind) /\ o.sort \in Sorts(kind) /\ t = NameIn(o, kind, path)
KeysOf(keys, there, db, kind, path) ==
  \A o \in there : o.db = db =>
    /\ NameIn(o, kind, path) \in DOMAIN keys => o.key = <<keys[NameIn(o, kind, path)]>>
    /\ o.sort = "table" /\ Len(o.key) = 1 => NameIn(o, kind, path) \in DOMAIN keys

\* The schema a driver remembers is the session's
Remembers ==
  IF driver.kind \in Catalogs!Schemaless THEN driver.default = Catalogs!None ELSE driver.default \in {Catalogs!None, server.path}
ThereFits ==
  /\ driver.kind \in Catalogs!Schemaless =>
       server.path = Usual /\ \A o \in server.there : o.sort # "temporary" => o.schema = Usual
  /\ ~turned => \A o \in server.there : o.sort # "temporary"
NamedFits ==
  /\ ~browser.behind => browser.named = server.path /\ browser.default = Catalogs!Asked(Catalogs!None, server.path)
  /\ browser.active # Catalogs!None =>
       /\ server.db = browser.active
       /\ browser.shown.db \in {Catalogs!None, browser.active}
       /\ browser.links \in {Catalogs!None, browser.active}
ListFits ==
  /\ OnceListed(browser.tables, server.db, driver.kind, browser.named)
  /\ server.db # Catalogs!None /\ browser.tables # {} =>
       KeysOf(browser.keys, server.there, server.db, driver.kind, server.path)

CatalogInv == CatalogTyped /\ Remembers /\ ThereFits /\ (~turned => NamedFits /\ ListFits)

-----------------------------------------------------------------------------
\* Two tables of a database do not go by one name
LEMMA NamesTellApart ==
  ASSUME Catalogs!ObjectsFit, NEW kind \in Kinds, NEW path, NEW a \in Objects, NEW b \in Objects,
         Lasting(a, kind), Lasting(b, kind), a.db = b.db, NameIn(a, kind, path) = NameIn(b, kind, path)
  PROVE  a = b
<1>1. a.name = b.name /\ (kind \notin Catalogs!Schemaless => a.schema = b.schema)
  BY DEF NameIn, Catalogs!Table, Catalogs!ObjectsFit
<1>2. a.schema = b.schema
  BY <1>1 DEF Lasting
<1> QED
  BY <1>1, <1>2 DEF Catalogs!ObjectsFit, Lasting

LEMMA ListsBySort ==
  ASSUME Catalogs!ObjectsFit, CatalogTyped, NEW o
  PROVE  Catalogs!Lists(o) <=> Catalogs!Here(o) /\ o.sort \in Sorts(driver.kind)
<1>1. driver.kind \in Catalogs!Schemaless \cup {"postgres", "sqlserver", "snowflake", "duckdb"}
  BY DEF CatalogTyped, Catalogs!ObjectsFit
<1>2. driver.kind \in {"mysql", "clickhouse", "sqlite", "libsql", "postgres", "sqlserver", "snowflake", "duckdb"}
  BY <1>1 DEF Catalogs!Schemaless
<1> QED
  BY <1>2 DEF Catalogs!Lists, Sorts, Catalogs!MySqlLists, Catalogs!PostgresLists, Catalogs!SqlServerLists, Catalogs!ClickHouseLists, Catalogs!SnowflakeLists,
              Catalogs!SqliteLists, Catalogs!LibsqlLists, Catalogs!DuckLists

LEMMA NamedIs == \A o : Catalogs!Named(o) = NameIn(o, driver.kind, server.path)
BY DEF Catalogs!Named, NameIn

\* A key is kept by the name of its table
LEMMA SingleColumnIs ==
  ASSUME NEW keys, NEW name, \A k \in keys : k.key \in Seq(STRING),
         \A a, b \in keys : name[a] = name[b] => a = b
  PROVE  /\ \A o \in keys : Len(o.key) = 1 => name[o] \in DOMAIN Catalogs!SingleColumn(keys, name)
                                               /\ o.key = <<Catalogs!SingleColumn(keys, name)[name[o]]>>
         /\ \A t \in DOMAIN Catalogs!SingleColumn(keys, name) : \E o \in keys : Len(o.key) = 1 /\ name[o] = t
<1> DEFINE names == {name[o] : o \in {k \in keys : Len(k.key) = 1}}
           of(t) == CHOOSE o \in keys : name[o] = t /\ Len(o.key) = 1
<1>1. Catalogs!SingleColumn(keys, name) = [t \in names |-> of(t).key[1]]
  BY DEF Catalogs!SingleColumn
<1>2. DOMAIN Catalogs!SingleColumn(keys, name) = names
  BY <1>1
<1>3. ASSUME NEW o \in keys, Len(o.key) = 1
      PROVE  name[o] \in names /\ o.key = <<Catalogs!SingleColumn(keys, name)[name[o]]>>
  <2>1. name[o] \in names
    BY <1>3
  <2>2. of(name[o]) \in keys /\ name[of(name[o])] = name[o]
    BY <1>3
  <2>3. of(name[o]) = o
    BY <2>2
  <2>4. Catalogs!SingleColumn(keys, name)[name[o]] = o.key[1]
    BY <1>1, <2>1, <2>3
  <2> HIDE DEF of, names
  <2> QED
    BY <1>3, <2>1, <2>4
<1> QED
  BY <1>2, <1>3

\* The tables whose keys are read, of which Keys makes what the browser keeps
KeyedBy(kind) == IF kind = "snowflake" THEN {"table", "temporary"} ELSE {"table"}
Keyed == {o \in server.there : Catalogs!Here(o) /\ o.sort \in KeyedBy(driver.kind) /\ o.key # <<>>}
LEMMA KeysAre ==
  ASSUME Catalogs!ObjectsFit, CatalogTyped
  PROVE  Catalogs!Keys = Catalogs!SingleColumn(Keyed, [o \in Objects |-> Catalogs!Named(o)])
<1>1. driver.kind \in Catalogs!Schemaless \cup {"postgres", "sqlserver", "snowflake", "duckdb"}
  BY DEF CatalogTyped, Catalogs!ObjectsFit
<1>2. driver.kind \in {"mysql", "clickhouse", "sqlite", "libsql", "postgres", "sqlserver", "snowflake", "duckdb"}
  BY <1>1 DEF Catalogs!Schemaless
<1> DEFINE name == [o \in Objects |-> Catalogs!Named(o)]
           tables == {o \in server.there : Catalogs!Here(o) /\ o.sort = "table" /\ o.key # <<>>}
<1>3. Catalogs!Keys = Catalogs!SingleColumn(IF driver.kind = "snowflake" THEN Catalogs!SnowflakeKeys ELSE tables, name)
  <2> HIDE DEF name
  <2>1. Catalogs!Keys = Catalogs!KeysNamed(name)
    BY DEF Catalogs!Keys, name
  <2> QED
    BY <1>2, <2>1, Zenon DEF Catalogs!KeysNamed, Catalogs!MySqlKeys, Catalogs!PostgresKeys, Catalogs!SqlServerKeys, Catalogs!ClickHouseKeys, Catalogs!SqliteKeys,
                             Catalogs!LibsqlKeys, Catalogs!DuckKeys
<1>4. Keyed = IF driver.kind = "snowflake" THEN Catalogs!SnowflakeKeys ELSE tables
  BY DEF Keyed, KeyedBy, Catalogs!SnowflakeKeys
<1> QED
  BY <1>3, <1>4
\* What is read again is of what is there
Lasts == CatalogTyped /\ ThereFits /\ \A o \in server.there : o.sort # "temporary"

LEMMA KeysHold ==
  Catalogs!ObjectsFit /\ Lasts => KeysOf(Catalogs!Keys, server.there, server.db, driver.kind, server.path)
<1> SUFFICES ASSUME Catalogs!ObjectsFit, Lasts
             PROVE  KeysOf(Catalogs!Keys, server.there, server.db, driver.kind, server.path)
  OBVIOUS
<1> DEFINE name == [o \in Objects |-> Catalogs!Named(o)]
<1>1. server.there \subseteq Objects /\ driver.kind \in Kinds
  BY DEF Lasts, CatalogTyped, Servers
<1>2. \A o \in server.there : Lasting(o, driver.kind)
  BY DEF Lasts, ThereFits, Lasting
<1>3. \A o \in Objects : name[o] = NameIn(o, driver.kind, server.path)
  BY NamedIs
<1> HIDE DEF name
<1>4. \A a, b \in server.there : a.db = b.db /\ name[a] = name[b] => a = b
  BY <1>1, <1>2, <1>3, NamesTellApart
<1>5. Keyed \subseteq server.there /\ (\A k \in Keyed : k.db = server.db)
  BY DEF Keyed, Catalogs!Here
<1>6. \A k \in Keyed : k.key \in Seq(STRING)
  BY <1>1, <1>5 DEF Catalogs!ObjectsFit
<1>7. \A a, b \in Keyed : name[a] = name[b] => a = b
  BY <1>4, <1>5
<1>8. Catalogs!Keys = Catalogs!SingleColumn(Keyed, name)
  BY KeysAre DEF Lasts, name
<1>9. /\ \A o \in Keyed : Len(o.key) = 1 => name[o] \in DOMAIN Catalogs!Keys /\ o.key = <<Catalogs!Keys[name[o]]>>
      /\ \A t \in DOMAIN Catalogs!Keys : \E o \in Keyed : Len(o.key) = 1 /\ name[o] = t
  <2> HIDE DEF name
  <2>1. /\ \A o \in Keyed : Len(o.key) = 1 => name[o] \in DOMAIN Catalogs!SingleColumn(Keyed, name)
                                               /\ o.key = <<Catalogs!SingleColumn(Keyed, name)[name[o]]>>
        /\ \A t \in DOMAIN Catalogs!SingleColumn(Keyed, name) : \E o \in Keyed : Len(o.key) = 1 /\ name[o] = t
    BY <1>6, <1>7, SingleColumnIs
  <2> QED
    BY <1>8, <2>1
<1>10. ASSUME NEW o \in server.there, o.db = server.db
       PROVE  /\ name[o] \in DOMAIN Catalogs!Keys => o.key = <<Catalogs!Keys[name[o]]>>
              /\ o.sort = "table" /\ Len(o.key) = 1 => name[o] \in DOMAIN Catalogs!Keys
  <2>1. ASSUME name[o] \in DOMAIN Catalogs!Keys
        PROVE  o.key = <<Catalogs!Keys[name[o]]>>
    <3>1. PICK k \in Keyed : Len(k.key) = 1 /\ name[k] = name[o]
      BY <1>9, <2>1
    <3>2. k = o
      BY <1>4, <1>5, <1>10, <3>1
    <3> QED
      BY <1>9, <3>1, <3>2
  <2>2. ASSUME o.sort = "table", Len(o.key) = 1
        PROVE  name[o] \in DOMAIN Catalogs!Keys
    <3>1. o.key # <<>>
      BY <2>2
    <3>2. o \in Keyed
      BY <1>10, <2>2, <3>1 DEF Keyed, KeyedBy, Catalogs!Here
    <3> QED
      BY <1>9, <2>2, <3>2
  <2> QED
    BY <2>1, <2>2
<1> QED
  BY <1>1, <1>3, <1>10 DEF KeysOf

LEMMA ListingHolds ==
  Catalogs!ObjectsFit /\ Lasts => OnceListed(Catalogs!Listing, server.db, driver.kind, server.path)
<1> SUFFICES ASSUME Catalogs!ObjectsFit, Lasts, NEW o \in server.there, Catalogs!Lists(o)
             PROVE  /\ o \in Objects /\ o.db = server.db /\ Lasting(o, driver.kind)
                    /\ o.sort \in Sorts(driver.kind) /\ Catalogs!Named(o) = NameIn(o, driver.kind, server.path)
  BY DEF OnceListed, Catalogs!Listing
<1>1. o \in Objects
  BY DEF Lasts, CatalogTyped, Servers
<1>2. Lasting(o, driver.kind)
  BY DEF Lasts, ThereFits, Lasting
<1>3. Catalogs!Here(o) /\ o.sort \in Sorts(driver.kind)
  BY ListsBySort DEF Lasts
<1> QED
  BY <1>1, <1>2, <1>3, NamedIs DEF Catalogs!Here

-----------------------------------------------------------------------------
\* What is read after an action
LEMMA ReadAgain ==
  ASSUME Catalogs!ObjectsFit, CatalogTyped', ThereFits', turned' = FALSE
  PROVE  /\ KeysOf(Catalogs!Keys', server'.there, server'.db, driver'.kind, server'.path)
         /\ OnceListed(Catalogs!Listing', server'.db, driver'.kind, server'.path)
<1>1. Lasts'
  BY DEF Lasts, ThereFits
<1>2. (Catalogs!ObjectsFit /\ Lasts => KeysOf(Catalogs!Keys, server.there, server.db, driver.kind, server.path))'
  BY KeysHold, PTL
<1>3. (Catalogs!ObjectsFit /\ Lasts => OnceListed(Catalogs!Listing, server.db, driver.kind, server.path))'
  BY ListingHolds, PTL
<1>4. Catalogs!ObjectsFit'
  BY DEF Catalogs!ObjectsFit
<1> QED
  BY <1>1, <1>2, <1>3, <1>4
\* What the constants are
LEMMA NamesOfCatalog ==
  ASSUME Catalogs!ObjectsFit
  PROVE  /\ Usual \in Schemas /\ Catalogs!None \notin Schemas /\ Saved \in Dbs /\ Catalogs!None \in Dbs /\ "new" \in Dbs
         /\ \A o \in Objects : o.db \in Dbs /\ o.schema \in Schemas
         /\ \A kept, path \in Schemas \cup {Catalogs!None} : Catalogs!Asked(kept, path) \in Schemas \cup {Catalogs!None}
<1>1. Usual \in Schemas /\ Catalogs!None \notin Schemas
  BY DEF Schemas, Catalogs!ObjectsFit
<1>2. Saved \in Dbs /\ Catalogs!None \in Dbs /\ "new" \in Dbs
  BY DEF Dbs
<1>3. \A o \in Objects : o.db \in Dbs /\ o.schema \in Schemas
  BY DEF Dbs, Schemas
<1>4. \A kept, path \in Schemas \cup {Catalogs!None} : Catalogs!Asked(kept, path) \in Schemas \cup {Catalogs!None}
  BY DEF Catalogs!Asked
<1> QED
  BY <1>1, <1>2, <1>3, <1>4

\* At the start
LEMMA CatalogStarts ==
  ASSUME Catalogs!ObjectsFit, Catalogs!Init
  PROVE  CatalogInv
<1>1. CatalogTyped
  <2>1. server \in Servers
    BY NamesOfCatalog DEF Catalogs!Init, Servers
  <2>2. driver \in [kind : Kinds, default : Schemas \cup {Catalogs!None}]
    BY NamesOfCatalog DEF Catalogs!Init
  <2>3. Catalogs!DefaultSchema \in Schemas \cup {Catalogs!None}
    BY <2>1, <2>2, NamesOfCatalog DEF Catalogs!DefaultSchema, Servers
  <2> QED
    BY <2>1, <2>2, <2>3, NamesOfCatalog DEF CatalogTyped, Catalogs!Init
<1>2. Remembers
  BY DEF Catalogs!Init, Remembers
<1>3. ThereFits /\ turned = FALSE
  BY DEF Catalogs!Init, ThereFits
<1>4. Lasts
  BY <1>1, <1>3 DEF Lasts, ThereFits
<1>5. NamedFits
  <2>1. browser.default = Catalogs!Asked(Catalogs!None, server.path)
    BY DEF Catalogs!Init, Catalogs!DefaultSchema, Catalogs!Asked
  <2> QED
    BY <2>1 DEF Catalogs!Init, NamedFits, Catalogs!Nothing
<1>6. ListFits
  <2>1. browser.tables = Catalogs!Listing /\ browser.keys = Catalogs!Keys /\ browser.named = server.path
    BY DEF Catalogs!Init, Catalogs!Listing
  <2> QED
    BY <1>4, <2>1, KeysHold, ListingHolds DEF ListFits
<1> QED
  BY <1>1, <1>2, <1>3, <1>5, <1>6 DEF CatalogInv

\* Loading a table only shows rows and keeps links
LEMMA LoadKeeps ==
  ASSUME Catalogs!ObjectsFit, CatalogInv, NEW t \in browser.tables, Catalogs!Load(t)
  PROVE  CatalogInv'
<1>1. PICK o \in Catalogs!Reached(t) :
        browser' = [browser EXCEPT !.shown = [db |-> o.db, schema |-> o.schema, name |-> o.name],
                                   !.links = IF @ = Catalogs!None THEN server.db ELSE @]
  BY DEF Catalogs!Load
<1>2. o.db = server.db
  BY DEF Catalogs!Reached, Catalogs!Here
<1>3. UNCHANGED <<server, driver, turned>>
  BY DEF Catalogs!Load
<1>4. CatalogTyped /\ server.db \in Dbs
  BY DEF CatalogInv, CatalogTyped, Servers
<1>5. /\ browser'.tables = browser.tables /\ browser'.named = browser.named /\ browser'.keys = browser.keys
      /\ browser'.default = browser.default /\ browser'.behind = browser.behind
      /\ browser'.active = browser.active /\ browser'.shown.db = o.db
      /\ browser'.links = IF browser.links = Catalogs!None THEN server.db ELSE browser.links
  BY <1>1, <1>4 DEF CatalogTyped
<1>6. CatalogTyped'
  BY <1>1, <1>3, <1>4 DEF CatalogTyped
<1>7. Remembers' /\ ThereFits'
  BY <1>3 DEF CatalogInv, Remembers, ThereFits
<1>8. ASSUME ~turned PROVE NamedFits' /\ ListFits'
  BY <1>2, <1>3, <1>5, <1>8 DEF CatalogInv, NamedFits, ListFits, Catalogs!Asked
<1> QED
  BY <1>3, <1>6, <1>7, <1>8 DEF CatalogInv

LEMMA ReloadKeeps ==
  ASSUME Catalogs!ObjectsFit, CatalogInv, Catalogs!Reload
  PROVE  CatalogInv'
<1>1. UNCHANGED <<server, driver, turned>> /\ CatalogTyped
  BY DEF Catalogs!Reload, CatalogInv
<1>2. CatalogTyped'
  <2>1. CASE browser' = Catalogs!Unlisted(browser, Catalogs!Keys)
    BY <1>1, <2>1, NamesOfCatalog DEF CatalogTyped, Catalogs!Unlisted
  <2>2. CASE browser' = Catalogs!Relisted(browser, Catalogs!Keys, Catalogs!Listing, server.path)
    BY <1>1, <2>2, NamesOfCatalog DEF CatalogTyped, Catalogs!Relisted, Catalogs!Unlisted, Servers
  <2> QED
    BY <2>1, <2>2 DEF Catalogs!Reload
<1>3. Remembers' /\ ThereFits'
  BY <1>1 DEF CatalogInv, Remembers, ThereFits
<1>4. ASSUME ~turned PROVE NamedFits' /\ ListFits'
  <2>1. Lasts
    BY <1>4 DEF CatalogInv, Lasts, ThereFits
  <2>2. /\ KeysOf(Catalogs!Keys, server.there, server.db, driver.kind, server.path)
        /\ OnceListed(Catalogs!Listing, server.db, driver.kind, server.path)
    BY <2>1, KeysHold, ListingHolds
  <2>3. NamedFits /\ ListFits
    BY <1>4 DEF CatalogInv
  <2>4. CASE browser' = Catalogs!Unlisted(browser, Catalogs!Keys)
    <3>1. /\ browser'.tables = browser.tables /\ browser'.named = browser.named /\ browser'.keys = Catalogs!Keys
          /\ browser'.default = browser.default /\ browser'.behind = browser.behind
          /\ browser'.active = browser.active /\ browser'.shown = browser.shown /\ browser'.links = Catalogs!None
      BY <1>1, <2>4 DEF CatalogTyped, Catalogs!Unlisted
    <3> QED
      BY <1>1, <2>2, <2>3, <3>1 DEF NamedFits, ListFits, Catalogs!Asked
  <2>5. CASE browser' = Catalogs!Relisted(browser, Catalogs!Keys, Catalogs!Listing, server.path)
    <3>1. /\ browser'.tables = Catalogs!Listing /\ browser'.named = server.path /\ browser'.keys = Catalogs!Keys
          /\ browser'.default = browser.default /\ browser'.behind = browser.behind
          /\ browser'.active = browser.active /\ browser'.shown = Catalogs!Nothing /\ browser'.links = Catalogs!None
      BY <1>1, <2>5 DEF CatalogTyped, Catalogs!Relisted, Catalogs!Unlisted
    <3> QED
      BY <1>1, <2>2, <2>3, <3>1 DEF NamedFits, ListFits, Catalogs!Asked, Catalogs!Nothing
  <2> QED
    BY <2>4, <2>5 DEF Catalogs!Reload
<1> QED
  BY <1>1, <1>2, <1>3, <1>4 DEF CatalogInv
\* The session and the driver after a switch
LEMMA SwitchedIs ==
  ASSUME Catalogs!ObjectsFit, CatalogTyped, NEW db \in Dbs
  PROVE  /\ Catalogs!Switched(server, db) \in Servers
         /\ Catalogs!Switched(server, db).db = db /\ Catalogs!Switched(server, db).path = Usual
         /\ Catalogs!Switched(server, db).dbs = server.dbs
         /\ Catalogs!Switched(server, db).there = {o \in server.there : o.sort # "temporary"}
BY NamesOfCatalog DEF CatalogTyped, Servers, Catalogs!Switched

LEMMA ForgottenIs ==
  ASSUME Catalogs!ObjectsFit, CatalogTyped
  PROVE  /\ Catalogs!Forgotten \in [kind : Kinds, default : Schemas \cup {Catalogs!None}]
         /\ Catalogs!Forgotten.kind = driver.kind /\ Catalogs!Forgotten.default \in {Catalogs!None, Usual}
         /\ driver.kind \in Catalogs!Schemaless => Catalogs!Forgotten.default = Catalogs!None
BY NamesOfCatalog DEF CatalogTyped, Catalogs!Forgotten, Catalogs!Schemaless

\* A driver that was switched remembers no schema but the one it is in
LEMMA RecallIs ==
  ASSUME Catalogs!ObjectsFit, CatalogTyped
  PROVE  LET d == [driver EXCEPT !.default = Catalogs!Asked(Catalogs!None, Usual)] IN
         /\ d \in [kind : Kinds, default : Schemas \cup {Catalogs!None}]
         /\ d.kind = driver.kind /\ d.default = Catalogs!Asked(Catalogs!None, Usual)
         /\ d.default = IF driver.kind \in Catalogs!Schemaless THEN Catalogs!None ELSE Usual
BY NamesOfCatalog DEF CatalogTyped, Catalogs!Asked

LEMMA SwitchKeeps ==
  ASSUME Catalogs!ObjectsFit, CatalogInv, NEW db \in server.dbs, Catalogs!Use(db), turned' = FALSE
  PROVE  CatalogInv'
<1>1. CatalogTyped /\ db \in Dbs
  BY DEF CatalogInv, CatalogTyped, Servers
<1>2. /\ server' \in Servers /\ server'.db = db /\ server'.path = Usual
      /\ server'.there = {o \in server.there : o.sort # "temporary"}
  BY <1>1, SwitchedIs DEF Catalogs!Use
<1>3. PICK listed \in BOOLEAN :
        /\ driver' = IF listed THEN [driver EXCEPT !.default = Catalogs!Asked(Catalogs!None, Usual)] ELSE Catalogs!Forgotten
        /\ browser' = [active |-> db, links |-> Catalogs!None, shown |-> Catalogs!Nothing, keys |-> Catalogs!Keys', named |-> Usual,
                       default |-> IF listed THEN Catalogs!DefaultSchema' ELSE browser.default, behind |-> ~listed,
                       tables |-> IF listed THEN Catalogs!Listing' ELSE {}]
  BY DEF Catalogs!Use
<1>4. /\ driver' \in [kind : Kinds, default : Schemas \cup {Catalogs!None}] /\ driver'.kind = driver.kind
      /\ listed => driver'.default = IF driver.kind \in Catalogs!Schemaless THEN Catalogs!None ELSE Usual
      /\ driver'.default \in {Catalogs!None, Usual} /\ (driver.kind \in Catalogs!Schemaless => driver'.default = Catalogs!None)
  BY <1>1, <1>3, ForgottenIs, RecallIs
<1>5. listed => Catalogs!DefaultSchema' = (IF driver.kind \in Catalogs!Schemaless THEN Catalogs!None ELSE Usual)
  BY <1>2, <1>4 DEF Catalogs!DefaultSchema, Catalogs!Asked
<1>6. CatalogTyped'
  <2>1. browser.default \in Schemas \cup {Catalogs!None}
    BY <1>1 DEF CatalogTyped
  <2> QED
    BY <1>1, <1>2, <1>3, <1>4, <1>5, <2>1, NamesOfCatalog DEF CatalogTyped
<1>7. Remembers'
  BY <1>2, <1>4 DEF Remembers
<1>8. ThereFits'
  BY <1>2, <1>4 DEF ThereFits, CatalogInv
<1>9. /\ KeysOf(Catalogs!Keys', server'.there, server'.db, driver'.kind, server'.path)
      /\ OnceListed(Catalogs!Listing', server'.db, driver'.kind, server'.path)
  BY <1>6, <1>8, ReadAgain
<1>10. NamedFits'
  <2>1. listed => browser'.default = Catalogs!Asked(Catalogs!None, server.path)'
    BY <1>2, <1>3, <1>4, <1>5 DEF Catalogs!Asked
  <2> QED
    BY <1>2, <1>3, <2>1 DEF NamedFits, Catalogs!Nothing
<1>11. ListFits'
  BY <1>2, <1>3, <1>9 DEF ListFits, OnceListed
<1> QED
  BY <1>6, <1>7, <1>8, <1>10, <1>11 DEF CatalogInv

\* A database is dropped that tql does not name, be it the session's own
LEMMA OthersDropped ==
  ASSUME Catalogs!ObjectsFit, CatalogInv, NEW db \in Dbs, db # browser.active,
         UNCHANGED <<driver, browser, turned>>,
         server' = [server EXCEPT !.dbs = @ \ {db}, !.there = {o \in @ : o.db # db},
                                  !.db = IF @ = db THEN Catalogs!None ELSE @]
  PROVE  CatalogInv'
<1>1. CatalogTyped
  BY DEF CatalogInv
<1>2. /\ server' \in Servers /\ server'.path = server.path
      /\ server'.db = IF server.db = db THEN Catalogs!None ELSE server.db
      /\ server'.there = {o \in server.there : o.db # db}
  BY <1>1, NamesOfCatalog DEF CatalogTyped, Servers
<1>3. CatalogTyped'
  BY <1>1, <1>2 DEF CatalogTyped
<1>4. Remembers' /\ ThereFits'
  BY <1>2 DEF CatalogInv, Remembers, ThereFits
<1>5. ASSUME ~turned PROVE NamedFits' /\ ListFits'
  BY <1>2, <1>5 DEF CatalogInv, NamedFits, ListFits, OnceListed, Catalogs!Asked, KeysOf
<1> QED
  BY <1>3, <1>4, <1>5 DEF CatalogInv
\* What is refused changes nothing
LEMMA StaysAsItIs ==
  ASSUME CatalogInv, UNCHANGED <<server, driver, browser, turned>>
  PROVE  CatalogInv'
<1>1. CatalogTyped' /\ Remembers' /\ ThereFits'
  BY DEF CatalogInv, CatalogTyped, Remembers, ThereFits
<1>2. ASSUME ~turned PROVE NamedFits' /\ ListFits'
  BY <1>2 DEF CatalogInv, NamedFits, ListFits, Catalogs!Asked
<1> QED
  BY <1>1, <1>2 DEF CatalogInv

LEMMA DropKeeps ==
  ASSUME Catalogs!ObjectsFit, CatalogInv, NEW db \in server.dbs, Catalogs!DropDatabase(db)
  PROVE  CatalogInv'
<1> DEFINE dropped(s) == [s EXCEPT !.dbs = @ \ {db}, !.there = {o \in @ : o.db # db},
                                   !.db = IF @ = db THEN Catalogs!None ELSE @]
<1>1. CatalogTyped /\ db \in Dbs
  BY DEF CatalogInv, CatalogTyped, Servers
<1>2. CASE browser.active # db
  <2>1. server' \in {dropped(server), server} /\ UNCHANGED <<driver, browser, turned>>
    BY <1>2 DEF Catalogs!DropDatabase
  <2>2. CASE server' = dropped(server)
    BY <1>1, <1>2, <2>1, <2>2, OthersDropped
  <2>3. CASE server' = server
    BY <2>1, <2>3, StaysAsItIs
  <2> QED
    BY <2>1, <2>2, <2>3
<1>3. CASE UNCHANGED <<server, driver, browser, turned>>
  BY <1>3, StaysAsItIs
<1>4. ASSUME browser.active = db, NEW aside \in Catalogs!StepAside(db),
             server' = dropped(Catalogs!Switched(server, aside)), driver' = Catalogs!Forgotten,
             browser' = [browser EXCEPT !.active = Catalogs!None, !.tables = {}, !.keys = <<>>, !.links = Catalogs!None,
                                        !.shown = Catalogs!Nothing, !.named = Usual, !.behind = TRUE],
             turned' = FALSE
      PROVE  CatalogInv'
  <2>1. aside \in Dbs
    BY <1>1, NamesOfCatalog DEF Catalogs!StepAside, CatalogTyped, Servers
  <2>2. /\ Catalogs!Switched(server, aside) \in Servers /\ Catalogs!Switched(server, aside).path = Usual
        /\ Catalogs!Switched(server, aside).there = {o \in server.there : o.sort # "temporary"}
    BY <1>1, <2>1, SwitchedIs
  <2>3. /\ server' \in Servers /\ server'.path = Usual
        /\ server'.there \subseteq {o \in server.there : o.sort # "temporary"}
    BY <1>4, <2>2, NamesOfCatalog DEF Servers
  <2>4. /\ driver' \in [kind : Kinds, default : Schemas \cup {Catalogs!None}] /\ driver'.kind = driver.kind
        /\ driver'.default \in {Catalogs!None, Usual} /\ (driver.kind \in Catalogs!Schemaless => driver'.default = Catalogs!None)
    BY <1>1, <1>4, ForgottenIs
  <2>5. CatalogTyped'
    BY <1>1, <1>4, <2>3, <2>4, NamesOfCatalog DEF CatalogTyped
  <2>6. Remembers' /\ ThereFits'
    BY <2>3, <2>4 DEF Remembers, ThereFits, CatalogInv
  <2>7. browser'.active = Catalogs!None /\ browser'.tables = {} /\ browser'.behind
    BY <1>1, <1>4 DEF CatalogTyped
  <2>8. NamedFits' /\ ListFits'
    BY <2>7 DEF NamedFits, ListFits, OnceListed
  <2> QED
    BY <2>5, <2>6, <2>8 DEF CatalogInv
<1>5. ASSUME browser.active = db, NEW aside \in Catalogs!StepAside(db), NEW back \in BOOLEAN,
             server' = Catalogs!Switched(server, IF back THEN db ELSE aside), driver' = Catalogs!Forgotten,
             turned' = (turned \/ ~back \/ server'.path # server.path), UNCHANGED browser
      PROVE  CatalogInv'
  <2> DEFINE to == IF back THEN db ELSE aside
  <2>1. to \in Dbs
    BY <1>1, NamesOfCatalog DEF Catalogs!StepAside, CatalogTyped, Servers
  <2> HIDE DEF to
  <2>2. /\ server' \in Servers /\ server'.path = Usual /\ server'.db = to
        /\ server'.there = {o \in server.there : o.sort # "temporary"}
    BY <1>1, <1>5, <2>1, SwitchedIs DEF to
  <2>3. /\ driver' \in [kind : Kinds, default : Schemas \cup {Catalogs!None}] /\ driver'.kind = driver.kind
        /\ driver'.default \in {Catalogs!None, Usual} /\ (driver.kind \in Catalogs!Schemaless => driver'.default = Catalogs!None)
    BY <1>1, <1>5, ForgottenIs
  <2>4. CatalogTyped'
    BY <1>1, <1>5, <2>2, <2>3 DEF CatalogTyped
  <2>5. Remembers' /\ ThereFits'
    BY <2>2, <2>3 DEF Remembers, ThereFits, CatalogInv
  <2>6. ASSUME ~turned' PROVE NamedFits' /\ ListFits'
    <3>1. ~turned /\ back /\ server.path = Usual /\ to = browser.active
      BY <1>5, <2>2, <2>6 DEF to
    <3>2. NamedFits /\ ListFits
      BY <3>1 DEF CatalogInv
    <3>3. NamedFits'
      BY <1>5, <2>2, <2>3, <3>1, <3>2 DEF NamedFits, Catalogs!Asked
    <3>4. CASE browser.active # Catalogs!None
      <4>1. server.db = server'.db /\ server'.db # Catalogs!None
        BY <2>2, <3>1, <3>2, <3>4 DEF NamedFits
      <4> QED
        BY <1>5, <2>2, <2>3, <3>1, <3>2, <3>3, <4>1 DEF ListFits, KeysOf
    <3>5. CASE browser.active = Catalogs!None
      BY <1>5, <2>2, <2>3, <3>1, <3>2, <3>3, <3>5 DEF ListFits, OnceListed
    <3> QED
      BY <3>4, <3>5
  <2> QED
    BY <2>4, <2>5, <2>6 DEF CatalogInv
<1> QED
  BY <1>2, <1>3, <1>4, <1>5 DEF Catalogs!DropDatabase

LEMMA CreateKeeps ==
  ASSUME Catalogs!ObjectsFit, CatalogInv, Catalogs!CreateDatabase("new")
  PROVE  CatalogInv'
<1>1. CatalogTyped /\ "new" \in Dbs
  BY NamesOfCatalog DEF CatalogInv
<1>2. CASE UNCHANGED <<server, driver, browser, turned>>
  BY <1>2, StaysAsItIs
<1>3. ASSUME server' = [server EXCEPT !.dbs = @ \cup {"new"}], UNCHANGED <<driver, browser, turned>>
      PROVE  CatalogInv'
  <2>1. /\ server' \in Servers /\ server'.path = server.path /\ server'.db = server.db
        /\ server'.there = server.there
    BY <1>1, <1>3 DEF CatalogTyped, Servers
  <2>2. CatalogTyped' /\ Remembers' /\ ThereFits'
    BY <1>3, <2>1 DEF CatalogInv, CatalogTyped, Remembers, ThereFits
  <2>3. ASSUME ~turned PROVE NamedFits' /\ ListFits'
    BY <1>3, <2>1, <2>3 DEF CatalogInv, NamedFits, ListFits, Catalogs!Asked
  <2> QED
    BY <1>3, <2>2, <2>3 DEF CatalogInv
<1>4. ASSUME server' = [Catalogs!Switched(server, "new") EXCEPT !.dbs = @ \cup {"new"}],
             driver' = [driver EXCEPT !.default = Catalogs!Asked(Catalogs!None, Usual)],
             browser' = [active |-> "new", links |-> Catalogs!None, shown |-> Catalogs!Nothing, keys |-> <<>>, tables |-> {},
                         named |-> Usual, default |-> Catalogs!Asked(Catalogs!None, Usual), behind |-> FALSE],
             turned' = FALSE
      PROVE  CatalogInv'
  <2>1. /\ server' \in Servers /\ server'.path = Usual /\ server'.db = "new"
        /\ server'.there = {o \in server.there : o.sort # "temporary"}
    BY <1>1, <1>4, SwitchedIs DEF Servers
  <2>2. /\ driver' \in [kind : Kinds, default : Schemas \cup {Catalogs!None}] /\ driver'.kind = driver.kind
        /\ driver'.default = Catalogs!Asked(Catalogs!None, Usual)
        /\ driver'.default = IF driver.kind \in Catalogs!Schemaless THEN Catalogs!None ELSE Usual
    BY <1>1, <1>4, RecallIs
  <2>3. CatalogTyped'
    BY <1>1, <1>4, <2>1, <2>2, NamesOfCatalog DEF CatalogTyped
  <2>4. Remembers' /\ ThereFits'
    BY <2>1, <2>2 DEF Remembers, ThereFits, CatalogInv
  <2>5. NamedFits'
    BY <1>4, <2>1, <2>2 DEF NamedFits, Catalogs!Asked, Catalogs!Nothing
  <2>6. ListFits'
    BY <1>4 DEF ListFits, OnceListed
  <2> QED
    BY <2>3, <2>4, <2>5, <2>6 DEF CatalogInv
<1> QED
  BY <1>2, <1>3, <1>4 DEF Catalogs!CreateDatabase
\* What the user types moves the session to another schema only in a way its driver notices
Noticed(s, hides, setsPath) ==
  /\ s \in Servers
  /\ s.path = server.path \/ (setsPath /\ driver.kind \in {"postgres", "duckdb"})
  /\ hides \/ (s.db = server.db /\ s.there \subseteq server.there)
  /\ \A o \in s.there \ server.there : o.sort = "temporary"

LEMMA TypedKeeps ==
  ASSUME Catalogs!ObjectsFit, CatalogInv, NEW s, NEW hides \in BOOLEAN, NEW setsPath \in BOOLEAN,
         Noticed(s, hides, setsPath), Catalogs!Typed(s, hides, setsPath)
  PROVE  CatalogInv'
<1> DEFINE forgets == driver.kind = "duckdb" \/ (driver.kind = "postgres" /\ setsPath)
           default == Catalogs!Asked(IF forgets THEN Catalogs!None ELSE driver.default, s.path)
           left == Catalogs!Unlisted(browser, Catalogs!Keys')
           missed == Catalogs!Unlisted([browser EXCEPT !.default = default, !.behind = TRUE], Catalogs!Keys')
           again == Catalogs!Relisted([browser EXCEPT !.default = default, !.behind = FALSE], Catalogs!Keys', Catalogs!Listing', s.path)
<1>1. /\ server' = s /\ driver' = [driver EXCEPT !.default = default] /\ turned' = (turned \/ hides)
      /\ IF default = browser.default THEN browser' = left ELSE browser' \in {missed, again}
  BY DEF Catalogs!Typed
<1>2. CatalogTyped /\ s \in Servers
  BY DEF CatalogInv, Noticed
<1>3. /\ default = IF driver.kind \in Catalogs!Schemaless THEN Catalogs!None ELSE s.path
      /\ default \in Schemas \cup {Catalogs!None}
  <2>1. driver.kind \in Catalogs!Schemaless => driver.default = Catalogs!None
    BY DEF CatalogInv, Remembers
  <2>2. driver.kind \notin Catalogs!Schemaless => driver.default \in {Catalogs!None, server.path}
    BY DEF CatalogInv, Remembers
  <2>3. s.path \in Schemas /\ (s.path = server.path \/ forgets)
    BY <1>2 DEF Noticed, Servers
  <2> HIDE DEF forgets
  <2> QED
    BY <2>1, <2>2, <2>3 DEF Catalogs!Asked
<1> HIDE DEF default
<1>4. /\ driver' \in [kind : Kinds, default : Schemas \cup {Catalogs!None}] /\ driver'.kind = driver.kind
      /\ driver'.default = default
  BY <1>1, <1>2, <1>3 DEF CatalogTyped
<1>5. \/ browser' = left /\ default = browser.default
      \/ browser' = missed \/ browser' = again
  BY <1>1
<1>6. ASSUME browser' = left
      PROVE  /\ browser'.tables = browser.tables /\ browser'.named = browser.named
             /\ browser'.default = browser.default /\ browser'.behind = browser.behind
             /\ browser'.active = browser.active /\ browser'.links = Catalogs!None
             /\ browser'.shown = browser.shown /\ browser'.keys = Catalogs!Keys'
  BY <1>2, <1>6 DEF CatalogTyped, Catalogs!Unlisted
<1>7. ASSUME browser' = missed
      PROVE  /\ browser'.tables = browser.tables /\ browser'.named = browser.named
             /\ browser'.default = default /\ browser'.behind = TRUE
             /\ browser'.active = browser.active /\ browser'.links = Catalogs!None
             /\ browser'.shown = browser.shown /\ browser'.keys = Catalogs!Keys'
  BY <1>2, <1>7 DEF CatalogTyped, Catalogs!Unlisted
<1>8. ASSUME browser' = again
      PROVE  /\ browser'.tables = Catalogs!Listing' /\ browser'.named = s.path
             /\ browser'.default = default /\ browser'.behind = FALSE
             /\ browser'.active = browser.active /\ browser'.links = Catalogs!None
             /\ browser'.shown = Catalogs!Nothing /\ browser'.keys = Catalogs!Keys'
  BY <1>2, <1>8 DEF CatalogTyped, Catalogs!Unlisted, Catalogs!Relisted
<1> HIDE DEF left, missed, again
<1>9. CatalogTyped'
  <2>1. browser' \in [active : Dbs, tables : {browser'.tables}, named : Schemas, keys : {browser'.keys},
                      default : Schemas \cup {Catalogs!None}, behind : BOOLEAN, links : Dbs, shown : {browser'.shown}]
    <3>1. s.path \in Schemas /\ Catalogs!None \in Dbs
      BY <1>2, NamesOfCatalog DEF Servers
    <3>2. CASE browser' = left
      BY <1>2, <3>1, <3>2 DEF CatalogTyped, Catalogs!Unlisted, left
    <3>3. CASE browser' = missed
      BY <1>2, <1>3, <3>1, <3>3 DEF CatalogTyped, Catalogs!Unlisted, missed
    <3>4. CASE browser' = again
      BY <1>2, <1>3, <3>1, <3>4 DEF CatalogTyped, Catalogs!Unlisted, Catalogs!Relisted, again
    <3> QED
      BY <1>5, <3>2, <3>3, <3>4
  <2> QED
    BY <1>1, <1>2, <1>4, <2>1 DEF CatalogTyped
<1>10. Remembers'
  BY <1>1, <1>3, <1>4 DEF Remembers
<1>11. ThereFits'
  <2>1. driver.kind \in Catalogs!Schemaless => s.path = server.path
    BY DEF Noticed, Catalogs!Schemaless
  <2>2. \A o \in s.there : o.sort # "temporary" => o \in server.there
    BY DEF Noticed
  <2>3. hides \/ s.there \subseteq server.there
    BY DEF Noticed
  <2> QED
    BY <1>1, <1>4, <2>1, <2>2, <2>3 DEF CatalogInv, ThereFits
<1>12. ASSUME ~turned' PROVE NamedFits' /\ ListFits'
  <2>1. ~turned /\ turned' = FALSE /\ s.db = server.db /\ NamedFits /\ ListFits
    BY <1>1, <1>12 DEF Noticed, CatalogInv
  <2>2. /\ KeysOf(Catalogs!Keys', server'.there, server'.db, driver'.kind, server'.path)
        /\ OnceListed(Catalogs!Listing', server'.db, driver'.kind, server'.path)
    BY <1>9, <1>11, <2>1, ReadAgain
  <2>3. default = Catalogs!Asked(Catalogs!None, server.path)'
    BY <1>1, <1>3, <1>4 DEF Catalogs!Asked
  <2>4. ASSUME default = browser.default, ~browser.behind
        PROVE  browser.named = s.path
    <3>1. browser.default = Catalogs!Asked(Catalogs!None, server.path) /\ browser.named = server.path
      BY <2>1, <2>4 DEF NamedFits
    <3>2. driver.kind \in Catalogs!Schemaless => s.path = server.path
      BY DEF Noticed, Catalogs!Schemaless
    <3> QED
      BY <1>3, <2>4, <3>1, <3>2 DEF Catalogs!Asked
  <2>5. NamedFits'
    <3>1. ~browser'.behind => browser'.named = s.path /\ browser'.default = Catalogs!Asked(Catalogs!None, server.path)'
      BY <1>5, <1>6, <1>7, <1>8, <2>3, <2>4
    <3>2. /\ browser'.active = browser.active /\ browser'.links = Catalogs!None
          /\ browser'.shown = browser.shown \/ browser'.shown = Catalogs!Nothing
      BY <1>5, <1>6, <1>7, <1>8
    <3>3. Catalogs!Nothing.db = Catalogs!None
      BY DEF Catalogs!Nothing
    <3> QED
      BY <1>1, <2>1, <3>1, <3>2, <3>3 DEF NamedFits
  <2>6. ListFits'
    <3>1. OnceListed(browser'.tables, server'.db, driver'.kind, browser'.named)
      <4>1. CASE browser' = again
        BY <1>1, <1>8, <2>2, <4>1
      <4>2. CASE browser' \in {left, missed}
        <5>1. browser'.tables = browser.tables /\ browser'.named = browser.named
          BY <1>6, <1>7, <4>2
        <5> QED
          BY <1>1, <1>4, <2>1, <5>1 DEF ListFits
      <4> QED
        BY <1>5, <4>1, <4>2
    <3>2. browser'.keys = Catalogs!Keys'
      BY <1>5, <1>6, <1>7, <1>8
    <3> QED
      BY <2>2, <3>1, <3>2 DEF ListFits
  <2> QED
    BY <2>5, <2>6
<1> QED
  BY <1>9, <1>10, <1>11, <1>12 DEF CatalogInv

LEMMA CatalogKept ==
  ASSUME Catalogs!ObjectsFit, CatalogInv, [Catalogs!Next]_(Catalogs!catalogVars)
  PROVE  CatalogInv'
<1>1. CatalogTyped /\ server \in Servers
  BY DEF CatalogInv, CatalogTyped
<1>2. CASE UNCHANGED Catalogs!catalogVars
  BY <1>2, StaysAsItIs DEF Catalogs!catalogVars
<1>3. ASSUME NEW t \in browser.tables, Catalogs!Load(t) PROVE CatalogInv'
  BY <1>3, LoadKeeps
<1>4. CASE Catalogs!Reload
  BY <1>4, ReloadKeeps
<1>5. ASSUME NEW db \in server.dbs, Catalogs!UseDatabase(db) PROVE CatalogInv'
  <2>1. CASE Catalogs!Use(db) /\ turned' = FALSE
    BY <2>1, SwitchKeeps
  <2>2. CASE UNCHANGED <<server, driver, browser, turned>>
    BY <2>2, StaysAsItIs
  <2> QED
    BY <1>5, <2>1, <2>2 DEF Catalogs!UseDatabase
<1>6. ASSUME NEW db \in server.dbs, Catalogs!DropDatabase(db) PROVE CatalogInv'
  BY <1>6, DropKeeps
<1>7. ASSUME NEW db \in server.dbs, Catalogs!TypeUse(db) PROVE CatalogInv'
  <2> DEFINE s == [server EXCEPT !.db = db]
  <2>1. db \in Dbs
    BY <1>1 DEF Servers
  <2>2. Noticed(s, TRUE, FALSE)
    BY <1>1, <2>1 DEF Noticed, Servers
  <2>3. Catalogs!Typed(s, TRUE, FALSE)
    BY <1>7 DEF Catalogs!TypeUse
  <2> HIDE DEF s
  <2> QED
    BY <2>2, <2>3, TypedKeeps
<1>8. CASE Catalogs!CreateDatabase("new")
  BY <1>8, CreateKeeps
<1>9. ASSUME NEW o \in Objects, Catalogs!TypeSetSchema(o.schema) PROVE CatalogInv'
  <2> DEFINE s == [server EXCEPT !.path = o.schema]
  <2>1. o.schema \in Schemas
    BY DEF Schemas
  <2>2. Noticed(s, FALSE, TRUE)
    BY <1>1, <1>9, <2>1 DEF Noticed, Servers, Catalogs!TypeSetSchema
  <2>3. Catalogs!Typed(s, FALSE, TRUE)
    BY <1>9 DEF Catalogs!TypeSetSchema
  <2> HIDE DEF s
  <2> QED
    BY <2>2, <2>3, TypedKeeps
<1>10. ASSUME NEW o \in Objects, Catalogs!TypeTemporary(o) PROVE CatalogInv'
  <2> DEFINE s == [server EXCEPT !.there = @ \cup {o}]
  <2>1. Noticed(s, TRUE, FALSE)
    BY <1>1, <1>10 DEF Noticed, Servers, Catalogs!TypeTemporary
  <2>2. Catalogs!Typed(s, TRUE, FALSE)
    BY <1>10 DEF Catalogs!TypeTemporary
  <2> HIDE DEF s
  <2> QED
    BY <2>1, <2>2, TypedKeeps
<1>11. ASSUME NEW o \in Objects, Catalogs!TypeDrop(o) PROVE CatalogInv'
  <2> DEFINE s == [server EXCEPT !.there = @ \ {o}]
  <2>1. Noticed(s, FALSE, FALSE)
    BY <1>1 DEF Noticed, Servers
  <2>2. Catalogs!Typed(s, FALSE, FALSE)
    BY <1>11 DEF Catalogs!TypeDrop
  <2> HIDE DEF s
  <2> QED
    BY <2>1, <2>2, TypedKeeps
<1> QED
  BY <1>2, <1>3, <1>4, <1>5, <1>6, <1>7, <1>8, <1>9, <1>10, <1>11 DEF Catalogs!Next

\* A name is found as it was listed
LEMMA NamesResolve ==
  ASSUME Catalogs!ObjectsFit, CatalogInv, NEW t \in browser.tables, ~turned, browser.named = server.path
  PROVE  Catalogs!Resolve(t, browser.tables, Catalogs!DefaultSchema) = {t}
<1>1. PICK p \in Objects : t = NameIn(p, driver.kind, server.path)
  BY DEF CatalogInv, ListFits, OnceListed
<1>2. t = Catalogs!Table(t.schema, t.name) /\ t.schema = IF driver.kind \in Catalogs!Schemaless \/ p.schema = server.path THEN Catalogs!None ELSE p.schema
  BY <1>1 DEF NameIn, Catalogs!Table
<1>3. Catalogs!DefaultSchema = IF driver.kind \in Catalogs!Schemaless THEN Catalogs!None ELSE server.path
  BY DEF CatalogInv, Remembers, Catalogs!DefaultSchema, Catalogs!Asked
<1>4. (IF t.schema = Catalogs!DefaultSchema THEN Catalogs!None ELSE t.schema) = t.schema
  BY <1>2, <1>3
<1> QED
  BY <1>2, <1>4, Zenon DEF Catalogs!Resolve

\* A statement about a table reaches the one listed
LEMMA ListedIsReached ==
  ASSUME Catalogs!ObjectsFit, CatalogInv, NEW t \in browser.tables, NEW o \in Catalogs!Reached(t), ~turned,
         browser.named = server.path
  PROVE  /\ Catalogs!Lists(o) /\ o \in Catalogs!Described(t, Catalogs!DefaultSchema)
         /\ t \in DOMAIN browser.keys => o.key = <<browser.keys[t]>>
         /\ Len(o.key) = 1 /\ o.sort = "table" => t \in DOMAIN browser.keys
<1>1. CatalogTyped /\ ThereFits /\ ListFits /\ Remembers
  BY DEF CatalogInv
<1>2. \A x \in server.there : x.sort # "temporary"
  BY <1>1 DEF ThereFits
<1>3. /\ Catalogs!Here(o) /\ o.name = t.name
      /\ driver.kind \notin Catalogs!Schemaless => o.schema = IF t.schema = Catalogs!None THEN server.path ELSE t.schema
  BY <1>2 DEF Catalogs!Reached, Catalogs!Here
<1>4. o \in Objects /\ o.db = server.db /\ o.db # Catalogs!None
  BY <1>1, <1>3 DEF Catalogs!Here, CatalogTyped, Servers, Catalogs!ObjectsFit
<1>5. PICK p \in Objects : p.db = server.db /\ Lasting(p, driver.kind) /\ p.sort \in Sorts(driver.kind)
                            /\ t = NameIn(p, driver.kind, server.path)
  BY <1>1, <1>4 DEF ListFits, OnceListed
<1>6. o.sort # "temporary" /\ (driver.kind \in Catalogs!Schemaless => o.schema = Usual)
  BY <1>1, <1>2, <1>3 DEF ThereFits, Catalogs!Here
<1>7. o.name = p.name /\ o.schema = p.schema
  <2>1. p.schema # Catalogs!None
    BY DEF Catalogs!ObjectsFit
  <2>2. t.name = p.name /\ t.schema = IF driver.kind \in Catalogs!Schemaless \/ p.schema = server.path THEN Catalogs!None ELSE p.schema
    BY <1>5 DEF NameIn, Catalogs!Table
  <2> QED
    BY <1>3, <1>5, <1>6, <2>1, <2>2 DEF Lasting
<1>8. o = p
  BY <1>4, <1>5, <1>6, <1>7 DEF Catalogs!ObjectsFit, Lasting
<1>9. Catalogs!Lists(o)
  BY <1>1, <1>3, <1>5, <1>8, ListsBySort
<1>10. o \in Catalogs!Described(t, Catalogs!DefaultSchema)
  <2>1. driver.kind \notin Catalogs!Schemaless => Catalogs!DefaultSchema = server.path
    BY <1>1 DEF Remembers, Catalogs!DefaultSchema, Catalogs!Asked
  <2> QED
    BY <1>3, <1>6, <2>1 DEF Catalogs!Described, Catalogs!Here
<1>11. KeysOf(browser.keys, server.there, server.db, driver.kind, server.path)
  BY <1>1, <1>4 DEF ListFits
<1> QED
  BY <1>3, <1>5, <1>8, <1>9, <1>10, <1>11 DEF KeysOf, Catalogs!Here

LEMMA LinksAreListed ==
  ASSUME Catalogs!ObjectsFit, CatalogInv, NEW l \in Catalogs!Links
  PROVE  l[1] \in Catalogs!Listing
<1>1. driver.kind \in Catalogs!Schemaless \cup {"postgres", "sqlserver", "snowflake", "duckdb"}
  BY DEF CatalogInv, CatalogTyped, Catalogs!ObjectsFit
<1>2. driver.kind \in {"mysql", "clickhouse", "sqlite", "libsql", "postgres", "sqlserver", "snowflake", "duckdb"}
  BY <1>1 DEF Catalogs!Schemaless
<1>3. PICK o \in server.there : Catalogs!Here(o) /\ o.sort \in KeyedBy(driver.kind) /\ l[1] = Catalogs!Named(o)
                                /\ driver.kind # "clickhouse"
  <2>1. CASE driver.kind = "mysql"
    <3>1. l \in Catalogs!MySqlLinks
      BY <2>1 DEF Catalogs!Links
    <3>2. \E o \in Catalogs!MySqlKeys : \E to : l = <<Catalogs!Named(o), to>>
      BY <3>1, Zenon DEF Catalogs!MySqlLinks
    <3> QED
      BY <2>1, <3>2 DEF Catalogs!MySqlKeys, KeyedBy
  <2>2. CASE driver.kind = "postgres"
    <3>1. l \in Catalogs!PostgresLinks
      BY <2>2 DEF Catalogs!Links
    <3>2. \E o \in Catalogs!PostgresKeys : \E to : l = <<Catalogs!Named(o), to>>
      BY <3>1, Zenon DEF Catalogs!PostgresLinks
    <3> QED
      BY <2>2, <3>2 DEF Catalogs!PostgresKeys, KeyedBy
  <2>3. CASE driver.kind = "sqlserver"
    <3>1. l \in Catalogs!SqlServerLinks
      BY <2>3 DEF Catalogs!Links
    <3>2. \E o \in Catalogs!SqlServerKeys : \E to : l = <<Catalogs!Named(o), to>>
      BY <3>1, Zenon DEF Catalogs!SqlServerLinks
    <3> QED
      BY <2>3, <3>2 DEF Catalogs!SqlServerKeys, KeyedBy
  <2>4. CASE driver.kind = "sqlite"
    <3>1. l \in Catalogs!SqliteLinks
      BY <2>4 DEF Catalogs!Links
    <3>2. \E o \in Catalogs!SqliteKeys : \E to : l = <<Catalogs!Named(o), to>>
      BY <3>1, Zenon DEF Catalogs!SqliteLinks
    <3> QED
      BY <2>4, <3>2 DEF Catalogs!SqliteKeys, KeyedBy
  <2>5. CASE driver.kind = "libsql"
    <3>1. l \in Catalogs!SqliteLinks
      BY <2>5 DEF Catalogs!Links, Catalogs!LibsqlLinks
    <3>2. \E o \in Catalogs!SqliteKeys : \E to : l = <<Catalogs!Named(o), to>>
      BY <3>1, Zenon DEF Catalogs!SqliteLinks
    <3> QED
      BY <2>5, <3>2 DEF Catalogs!SqliteKeys, KeyedBy
  <2>6. CASE driver.kind = "duckdb"
    <3>1. l \in Catalogs!DuckLinks
      BY <2>6 DEF Catalogs!Links
    <3>2. \E o \in Catalogs!DuckKeys : \E to : l = <<Catalogs!Named(o), to>>
      BY <3>1, Zenon DEF Catalogs!DuckLinks
    <3> QED
      BY <2>6, <3>2 DEF Catalogs!DuckKeys, KeyedBy
  <2>7. CASE driver.kind = "snowflake"
    <3>1. l \in Catalogs!SnowflakeLinks
      BY <2>7 DEF Catalogs!Links
    <3>2. \E o \in Catalogs!SnowflakeKeys : \E to : l = <<Catalogs!Named(o), to>>
      BY <3>1, Zenon DEF Catalogs!SnowflakeLinks
    <3> QED
      BY <2>7, <3>2 DEF Catalogs!SnowflakeKeys, KeyedBy
  <2>8. CASE driver.kind = "clickhouse"
    BY <2>8 DEF Catalogs!Links, Catalogs!ClickHouseLinks
  <2> QED
    BY <1>2, <2>1, <2>2, <2>3, <2>4, <2>5, <2>6, <2>7, <2>8
<1>4. o.sort \in Sorts(driver.kind)
  BY <1>2, <1>3 DEF KeyedBy, Sorts
<1>5. Catalogs!Lists(o)
  BY <1>3, <1>4, ListsBySort DEF CatalogInv
<1> QED
  BY <1>3, <1>5 DEF Catalogs!Listing

LEMMA CatalogHolds == ASSUME Catalogs!ObjectsFit PROVE Catalogs!Spec => []CatalogInv
<1>1. Catalogs!Init => CatalogInv
  BY CatalogStarts
<1>2. CatalogInv /\ [Catalogs!Next]_(Catalogs!catalogVars) => CatalogInv'
  BY CatalogKept
<1> QED
  BY <1>1, <1>2, PTL DEF Catalogs!Spec

\* Unless the session was turned behind tql's back, a table listed is the one that statements and
\* questions about it reach, with the key that is kept for it, what is typed in full finds it, and
\* rows and links are of the database named (CatalogIsTrue).
THEOREM TablesAreThoseReached == ASSUME Catalogs!ObjectsFit PROVE Catalogs!Spec => []Catalogs!CatalogIsTrue
<1>1. CatalogInv => Catalogs!CatalogIsTrue
  <2> SUFFICES ASSUME CatalogInv, ~turned
               PROVE  Catalogs!CatalogIsTrue
    BY DEF Catalogs!CatalogIsTrue
  <2>1. NamedFits
    BY DEF CatalogInv
  <2>2. browser.named # server.path => browser.behind
    BY <2>1 DEF NamedFits
  <2>3. browser.named = server.path => Catalogs!TablesAreTrue
    BY ListedIsReached, NamesResolve DEF Catalogs!TablesAreTrue
  <2>4. browser.active # Catalogs!None =>
          /\ browser.tables # {} => server.db = browser.active
          /\ browser.shown.db \in {Catalogs!None, browser.active}
          /\ browser.links \in {Catalogs!None, browser.active}
    BY <2>1 DEF NamedFits
  <2> QED
    BY <2>2, <2>3, <2>4, LinksAreListed DEF Catalogs!CatalogIsTrue
<1> QED
  BY <1>1, CatalogHolds, PTL

\* Whatever was typed, switched or dropped, the schema a driver remembers, by which it asks for
\* columns and indexes, is the one its session is in.
THEOREM RemembersItsOwnSchema ==
  ASSUME Catalogs!ObjectsFit PROVE Catalogs!Spec => [](driver.default \in {Catalogs!None, server.path})
<1>1. CatalogInv => driver.default \in {Catalogs!None, server.path}
  BY DEF CatalogInv, Remembers
<1> QED
  BY <1>1, CatalogHolds, PTL

-----------------------------------------------------------------------------
(***************************************************************************)
(* The rows of a table (Rows), for any drivers and tables that fit, pages   *)
(* of any length and any number of writes.                                  *)
(***************************************************************************)
CONSTANTS Tables, Page, Past, Values
VARIABLES table, export

TableRows == INSTANCE Rows WITH Drivers <- Tables

KindsOfTable == {"mysql", "postgres", "sqlserver", "sqlite", "libsql", "duckdb", "clickhouse", "snowflake"}
TableSet == [kind : KindsOfTable, keyed : BOOLEAN, repeats : BOOLEAN, rough : BOOLEAN, loads : Nat, writes : Nat]
Ids == 1 .. 4
Cells == [k : Nat, v : Nat]
Totals == [exact : BOOLEAN, n : Nat]
ShownRow == [id : Ids, row : Cells]
PageSet ==
  [offset : Nat, sort : [column : {"none", "k", "v"}, descending : BOOLEAN], filter : TableRows!Filters,
   shown : Seq(ShownRow), more : BOOLEAN, total : Totals, counted : TableRows!Filters \cup {"none"},
   turning : BOOLEAN]
PastSet ==
  [seen : Seq(Ids), quiet : BOOLEAN, stale : BOOLEAN, hit : SUBSET Ids, meant : SUBSET Ids,
   changed : SUBSET Ids, deleted : SUBSET Ids, twice : BOOLEAN, loads : Nat, writes : Nat]

RowsTyped ==
  /\ driver \in TableSet
  /\ DOMAIN table \subseteq Ids /\ table \in [DOMAIN table -> Cells]
  /\ browser \in PageSet
  /\ past \in PastSet

\* A total is of the rows that were counted, and those are the ones shown
TotalFits == browser.total # TableRows!NoTotal /\ ~past.stale => TableRows!Says(browser.total, browser.counted)
CountedFits == browser.shown # <<>> => browser.counted = browser.filter

\* While nobody else writes, a row shown is there as it is shown until it is written
RowsThere ==
  past.quiet /\ ~past.twice =>
    \A i \in 1 .. Len(browser.shown) :
      browser.shown[i].id \notin past.changed \cup past.deleted =>
        /\ browser.shown[i].id \in DOMAIN table
        /\ table[browser.shown[i].id] = browser.shown[i].row

\* A key that cannot repeat tells rows apart
KeysTell == TableRows!KeyHolds(table)

RowsInv ==
  RowsTyped /\ TotalFits /\ CountedFits /\ RowsThere /\ KeysTell /\ TableRows!ChangesWhatWasMarked

-----------------------------------------------------------------------------
\* Statements

\* Both are the cardinality of the library
LEMMA SameCardinality ==
  ASSUME NEW S
  PROVE  TableRows!Cardinality(S) = Cardinality(S)
BY DEF TableRows!Cardinality, Cardinality

LEMMA MatchingFinite ==
  ASSUME DOMAIN table \subseteq Ids, NEW filter
  PROVE  /\ TableRows!Matching(filter) \subseteq DOMAIN table
         /\ IsFiniteSet(TableRows!Matching(filter))
         /\ Cardinality(TableRows!Matching(filter)) \in Nat
<1>1. TableRows!Matching(filter) \subseteq DOMAIN table
  BY DEF TableRows!Matching
<1>2. IsFiniteSet(Ids)
  BY FS_Interval, 1 \in Int, 4 \in Int DEF Ids
<1> QED
  BY <1>1, <1>2, FS_Subset, FS_CardinalityType

\* An answer has every row once
LEMMA AnswerIsWhole ==
  ASSUME NEW ids, Cardinality(ids) \in Nat, NEW order, NEW rows \in TableRows!Answers(ids, order)
  PROVE  rows \in Seq(ids) /\ Len(rows) = Cardinality(ids)
<1>1. rows \in [1 .. Cardinality(ids) -> ids]
  BY SameCardinality DEF TableRows!Answers, TableRows!SetToSeqs
<1> QED
  BY <1>1

LEMMA TakenRows ==
  ASSUME NEW S, NEW rows \in Seq(S), NEW from \in Nat \ {0}, NEW n \in Nat \ {0}
  PROVE  /\ TableRows!Taken(rows, from, n) \in Seq(S)
         /\ Len(TableRows!Taken(rows, from, n)) =
              IF Len(rows) < from THEN 0
              ELSE IF from + n - 1 < Len(rows) THEN n ELSE Len(rows) - from + 1
<1> DEFINE last == IF from + n - 1 < Len(rows) THEN from + n - 1 ELSE Len(rows)
<1>1. TableRows!Taken(rows, from, n) = SubSeq(rows, from, last)
  BY DEF TableRows!Taken
<1>2. last \in Nat /\ last <= Len(rows) /\ from + n - 1 \in Nat
  OBVIOUS
<1>3. CASE last < from
  <2>1. SubSeq(rows, from, last) = <<>>
    BY <1>2, <1>3, SubSeqProperties
  <2> QED
    BY <1>1, <1>2, <1>3, <2>1
<1>4. CASE from <= last
  <2>1. SubSeq(rows, from, last) \in Seq(S) /\ Len(SubSeq(rows, from, last)) = last - from + 1
    BY <1>2, <1>4, SubSeqProperties
  <2> QED
    BY <1>1, <1>2, <1>4, <2>1
<1> QED
  BY <1>2, <1>3, <1>4


LEMMA ExactTyped ==
  ASSUME NEW n \in Nat
  PROVE  TableRows!Exact(n) \in Totals
BY DEF TableRows!Exact, Totals

LEMMA CountedIsTrue ==
  ASSUME TableRows!TablesFit, DOMAIN table \subseteq Ids, NEW filter \in TableRows!Filters,
         NEW total \in TableRows!CountedTotal(filter)
  PROVE  total \in Totals /\ (total # TableRows!NoTotal => TableRows!Says(total, filter))
<1> DEFINE count == Cardinality(TableRows!Matching(filter))
           exact == TableRows!Exact(count)
<1>1. count \in Nat /\ TableRows!Cardinality(TableRows!Matching(filter)) = count /\ Past \in Nat
  BY MatchingFinite, SameCardinality DEF TableRows!TablesFit
<1>2. exact \in Totals /\ TableRows!Says(exact, filter)
  BY <1>1 DEF TableRows!Exact, TableRows!Says, Totals
<1>3. TableRows!NoTotal \in Totals
  BY DEF TableRows!NoTotal, Totals
<1>4. CASE total = TableRows!NoTotal
  BY <1>3, <1>4
<1>5. CASE total # TableRows!NoTotal
  <2>1. PICK e \in IF filter = "all" THEN TableRows!Estimates ELSE {TableRows!NoTotal} :
          total = IF e # TableRows!NoTotal /\ e.n >= Past THEN e ELSE exact
    BY <1>1, <1>5 DEF TableRows!CountedTotal
  <2>2. CASE e # TableRows!NoTotal /\ e.n >= Past
    <3>1. filter = "all" /\ total = e /\ e \in TableRows!Estimates
      BY <2>1, <2>2
    <3>2. \E n \in Nat : e = TableRows!About(n)
      BY <1>1, <2>2, <3>1 DEF TableRows!Estimates
    <3> QED
      BY <2>2, <3>1, <3>2 DEF TableRows!About, TableRows!Says, Totals
  <2>3. CASE ~(e # TableRows!NoTotal /\ e.n >= Past)
    BY <1>2, <2>1, <2>3
  <2> QED
    BY <2>2, <2>3
<1> QED
  BY <1>4, <1>5

\* What a page that was answered shows: the rows of the answer from its offset on, and whether more follow
LEMMA PageAnswered ==
  ASSUME TableRows!TablesFit, DOMAIN table \subseteq Ids, table \in [DOMAIN table -> Cells],
         NEW b \in PageSet, NEW ids \in SUBSET DOMAIN table, Cardinality(ids) \in Nat,
         NEW rows \in Seq(ids), Len(rows) = Cardinality(ids),
         NEW b2 \in TableRows!Answered(b, rows)
  PROVE  /\ b2 \in PageSet
         /\ b2.counted = b.filter /\ b2.filter = b.filter /\ b2.offset = b.offset
         /\ \A i \in 1 .. Len(b2.shown) :
              b2.shown[i].id \in DOMAIN table /\ table[b2.shown[i].id] = b2.shown[i].row
         /\ ~b2.more /\ (b2.shown # <<>> \/ b.offset = 0) => b2.total = TableRows!Exact(Cardinality(ids))
         /\ b2.more =>
              \/ b.turning /\ b.counted = b.filter /\ b.total # TableRows!NoTotal /\ b2.total = b.total
              \/ b2.total \in TableRows!CountedTotal(b.filter)
<1> DEFINE asked == TableRows!Taken(rows, b.offset + 1, Page + 1)
           some == TableRows!Taken(asked, 1, Page)
           shown == [i \in 1 .. Len(some) |-> [id |-> some[i], row |-> table[some[i]]]]
           b1 == [b EXCEPT !.shown = shown, !.more = Len(asked) > Page]
<1>1. PICK total \in TableRows!CountTotal(b1, Len(some)) :
        b2 = [b1 EXCEPT !.total = total, !.counted = b.filter, !.turning = FALSE]
  BY DEF TableRows!Answered
<1>2. Page \in Nat \ {0} /\ b.offset \in Nat /\ b.filter \in TableRows!Filters
  BY DEF TableRows!TablesFit, PageSet
<1>3. /\ asked \in Seq(ids)
      /\ Len(asked) = IF Len(rows) < b.offset + 1 THEN 0
                      ELSE IF b.offset + Page + 1 < Len(rows) THEN Page + 1 ELSE Len(rows) - b.offset
  <2>1. b.offset + 1 \in Nat \ {0} /\ Page + 1 \in Nat \ {0}
    BY <1>2
  <2>2. /\ asked \in Seq(ids)
        /\ Len(asked) = IF Len(rows) < b.offset + 1 THEN 0
                        ELSE IF (b.offset + 1) + (Page + 1) - 1 < Len(rows) THEN Page + 1
                        ELSE Len(rows) - (b.offset + 1) + 1
    BY <2>1, TakenRows
  <2> HIDE DEF asked
  <2> QED
    BY <1>2, <2>2
<1>4. some \in Seq(ids) /\ Len(some) = IF Len(asked) > Page THEN Page ELSE Len(asked)
  <2> HIDE DEF asked
  <2>1. /\ some \in Seq(ids)
        /\ Len(some) = IF Len(asked) < 1 THEN 0
                       ELSE IF 1 + Page - 1 < Len(asked) THEN Page ELSE Len(asked) - 1 + 1
    <3>1. asked \in Seq(ids) /\ Page \in Nat \ {0} /\ 1 \in Nat \ {0}
      BY <1>2, <1>3
    <3> QED
      BY <3>1, TakenRows
  <2>2. Len(asked) \in Nat
    BY <1>3
  <2> HIDE DEF some
  <2> QED
    BY <1>2, <2>1, <2>2
<1>5. Len(some) \in Nat /\ \A i \in 1 .. Len(some) : some[i] \in ids
  BY <1>4
<1> HIDE DEF asked, some
<1>6. shown \in Seq(ShownRow) /\ Len(shown) = Len(some)
  <2>1. shown \in [1 .. Len(some) -> ShownRow]
    BY <1>5 DEF ShownRow
  <2> QED
    BY <1>5, <2>1
<1>7. \A i \in 1 .. Len(shown) : shown[i].id \in DOMAIN table /\ table[shown[i].id] = shown[i].row
  BY <1>5, <1>6
<1>8. (Len(asked) > Page) \in BOOLEAN
  OBVIOUS
<1> HIDE DEF shown
<1>9. b1 \in PageSet /\ b1.filter = b.filter /\ b1.offset = b.offset /\ b1.shown = shown
      /\ b1.more = (Len(asked) > Page) /\ b1.turning = b.turning /\ b1.total = b.total /\ b1.counted = b.counted
  BY <1>6, <1>8 DEF PageSet
<1> HIDE DEF b1
<1>10. ~b1.more => total = TableRows!Exact(b.offset + Len(some))
  BY <1>9 DEF TableRows!CountTotal
<1>11. b1.more => \/ b.turning /\ b.counted = b.filter /\ b.total # TableRows!NoTotal /\ total = b.total
                  \/ total \in TableRows!CountedTotal(b.filter)
  BY <1>9 DEF TableRows!CountTotal
<1>12. total \in Totals
  <2>1. CASE ~b1.more
    <3>1. b.offset + Len(some) \in Nat
      BY <1>2, <1>5
    <3> QED
      BY <1>10, <2>1, <3>1, ExactTyped, Zenon
  <2>2. CASE b1.more
    BY <1>2, <1>11, <2>2, CountedIsTrue DEF PageSet
  <2> QED
    BY <2>1, <2>2
<1>13. b2 \in PageSet /\ b2.counted = b.filter /\ b2.filter = b.filter /\ b2.offset = b.offset /\ b2.shown = shown
       /\ b2.more = b1.more /\ b2.total = total
  BY <1>1, <1>2, <1>9, <1>12 DEF PageSet
<1>14. ~b2.more /\ (b2.shown # <<>> \/ b.offset = 0) => b.offset + Len(some) = Cardinality(ids)
  <2> SUFFICES ASSUME ~b2.more, b2.shown # <<>> \/ b.offset = 0
               PROVE  b.offset + Len(some) = Cardinality(ids)
    OBVIOUS
  <2>1. ~(Len(asked) > Page)
    BY <1>9, <1>13, Zenon
  <2>3. Len(some) = Len(asked)
    BY <1>4, <2>1, Zenon
  <2>2. Len(some) # 0 \/ b.offset = 0
    BY <1>6, <1>13
  <2> QED
    BY <1>2, <1>3, <2>1, <2>2, <2>3
<1> QED
  BY <1>7, <1>10, <1>11, <1>13, <1>14

-----------------------------------------------------------------------------
\* Loads

LEMMA SaysOfTheSame ==
  ASSUME UNCHANGED table, NEW total, NEW filter
  PROVE  TableRows!Says(total, filter)' <=> TableRows!Says(total, filter)
<1>1. TableRows!Matching(filter)' = TableRows!Matching(filter)
  BY DEF TableRows!Matching, TableRows!Fits
<1> QED
  BY <1>1 DEF TableRows!Says, TableRows!Cardinality

\* A load of a page that differs in place, sort and filter from the one shown
LEMMA LoadKeepsRows ==
  ASSUME TableRows!TablesFit, RowsInv, NEW b \in PageSet, NEW first \in BOOLEAN,
         b.total = browser.total, b.counted = browser.counted, TableRows!Load(b, first)
  PROVE  RowsInv'
<1> DEFINE b1 == [b EXCEPT !.sort = IF @ = TableRows!NoSort THEN TableRows!DefaultSort ELSE @]
           ids == TableRows!Matching(b.filter)
<1>1. UNCHANGED <<table, driver, export>>
  BY DEF TableRows!Load
<1>2. b1 \in PageSet /\ b1.total = browser.total /\ b1.counted = browser.counted /\ b1.filter = b.filter
      /\ b1.offset = b.offset /\ b1.turning = b.turning
  <2>1. TableRows!DefaultSort \in [column : {"none", "k", "v"}, descending : BOOLEAN]
    BY DEF TableRows!DefaultSort, TableRows!By, TableRows!NoSort
  <2> QED
    BY <2>1 DEF PageSet
<1>3. KeysTell'
  BY <1>1 DEF RowsInv, KeysTell, TableRows!KeyHolds
<1>4. /\ driver' \in TableSet
      /\ DOMAIN table' \subseteq Ids /\ table' \in [DOMAIN table' -> Cells]
  BY <1>1 DEF RowsInv, RowsTyped
<1>5. ids \in SUBSET DOMAIN table /\ Cardinality(ids) \in Nat
  BY MatchingFinite DEF RowsInv, RowsTyped
<1>6. CASE \E rows \in TableRows!Answers(ids, TableRows!Order(b1.sort)) :
             /\ browser' \in TableRows!Answered(b1, rows)
             /\ LET shown == [i \in 1 .. Len(browser'.shown) |-> browser'.shown[i].id] IN
                past' = [past EXCEPT !.loads = @ + 1, !.hit = {}, !.meant = {}, !.changed = {},
                           !.deleted = {}, !.twice = FALSE, !.quiet = first \/ @,
                           !.stale = (shown = <<>> /\ b.offset > 0) \/ (@ /\ b.turning /\ browser'.more),
                           !.seen = IF ~TableRows!Total(TableRows!Order(b1.sort)) THEN <<>> ELSE IF first THEN shown
                                    ELSE IF @ # <<>> /\ b.offset > browser.offset THEN @ \o shown ELSE <<>>]
  <2> HIDE DEF b1, ids
  <2> DEFINE shown == [i \in 1 .. Len(browser'.shown) |-> browser'.shown[i].id]
  <2>1. PICK rows \in TableRows!Answers(ids, TableRows!Order(b1.sort)) :
          /\ browser' \in TableRows!Answered(b1, rows)
          /\ past' = [past EXCEPT !.loads = @ + 1, !.hit = {}, !.meant = {}, !.changed = {},
                        !.deleted = {}, !.twice = FALSE, !.quiet = first \/ @,
                        !.stale = (shown = <<>> /\ b.offset > 0) \/ (@ /\ b.turning /\ browser'.more),
                        !.seen = IF ~TableRows!Total(TableRows!Order(b1.sort)) THEN <<>> ELSE IF first THEN shown
                                 ELSE IF @ # <<>> /\ b.offset > browser.offset THEN @ \o shown ELSE <<>>]
    BY <1>6
  <2>2. rows \in Seq(ids) /\ Len(rows) = Cardinality(ids)
    BY <1>5, AnswerIsWhole
  <2>3. /\ browser' \in PageSet
        /\ browser'.counted = b.filter /\ browser'.filter = b.filter /\ browser'.offset = b.offset
        /\ \A i \in 1 .. Len(browser'.shown) :
             browser'.shown[i].id \in DOMAIN table /\ table[browser'.shown[i].id] = browser'.shown[i].row
        /\ ~browser'.more /\ (browser'.shown # <<>> \/ b.offset = 0) => browser'.total = TableRows!Exact(Cardinality(ids))
        /\ browser'.more =>
             \/ b.turning /\ browser.counted = b.filter /\ browser.total # TableRows!NoTotal /\ browser'.total = browser.total
             \/ browser'.total \in TableRows!CountedTotal(b.filter)
    <3>1. DOMAIN table \subseteq Ids /\ table \in [DOMAIN table -> Cells]
      BY DEF RowsInv, RowsTyped
    <3> DEFINE b2 == browser'
    <3>2. b2 \in TableRows!Answered(b1, rows)
      BY <2>1
    <3> HIDE DEF b2
    <3>3. /\ b2 \in PageSet
          /\ b2.counted = b1.filter /\ b2.filter = b1.filter /\ b2.offset = b1.offset
          /\ \A i \in 1 .. Len(b2.shown) :
               b2.shown[i].id \in DOMAIN table /\ table[b2.shown[i].id] = b2.shown[i].row
          /\ ~b2.more /\ (b2.shown # <<>> \/ b1.offset = 0) => b2.total = TableRows!Exact(Cardinality(ids))
          /\ b2.more =>
               \/ b1.turning /\ b1.counted = b1.filter /\ b1.total # TableRows!NoTotal /\ b2.total = b1.total
               \/ b2.total \in TableRows!CountedTotal(b1.filter)
      BY <1>2, <1>5, <2>2, <3>1, <3>2, PageAnswered
    <3> QED
      BY <1>2, <3>3 DEF b2
  <2>4. shown \in Seq(Ids) /\ (shown = <<>> <=> browser'.shown = <<>>)
    <3>1. browser'.shown \in Seq(ShownRow)
      BY <2>3 DEF PageSet
    <3>2. Len(browser'.shown) \in Nat /\ \A i \in 1 .. Len(browser'.shown) : browser'.shown[i].id \in Ids
      <4> DEFINE s == browser'.shown
      <4> HIDE DEF s
      <4>1. s \in Seq(ShownRow)
        BY <3>1 DEF s
      <4>2. Len(s) \in Nat /\ \A i \in 1 .. Len(s) : s[i] \in ShownRow
        BY <4>1
      <4> QED
        BY <4>2 DEF s, ShownRow
    <3>3. shown \in Seq(Ids) /\ Len(shown) = Len(browser'.shown)
      BY <3>2
    <3> QED
      BY <3>1, <3>3, EmptySeq
  <2> HIDE DEF shown
  <2>5. past' \in PastSet
    <3>1. past \in PastSet
      BY DEF RowsInv, RowsTyped
    <3>2. past.seen \o shown \in Seq(Ids)
      BY <2>4, <3>1 DEF PastSet
    <3>3. past.loads + 1 \in Nat
      BY <3>1 DEF PastSet
    <3>4. ((shown = <<>> /\ b.offset > 0) \/ (past.stale /\ b.turning /\ browser'.more)) \in BOOLEAN
          /\ (first \/ past.quiet) \in BOOLEAN
      OBVIOUS
    <3>5. <<>> \in Seq(Ids)
      OBVIOUS
    <3> DEFINE seen == IF ~TableRows!Total(TableRows!Order(b1.sort)) THEN <<>> ELSE IF first THEN shown
                       ELSE IF past.seen # <<>> /\ b.offset > browser.offset THEN past.seen \o shown ELSE <<>>
               stale == (shown = <<>> /\ b.offset > 0) \/ (past.stale /\ b.turning /\ browser'.more)
               quiet == first \/ past.quiet
    <3>6. seen \in Seq(Ids)
      BY <2>4, <3>2, <3>5, Zenon
    <3>7. past' = [past EXCEPT !.loads = @ + 1, !.hit = {}, !.meant = {}, !.changed = {},
                     !.deleted = {}, !.twice = FALSE, !.quiet = first \/ @, !.stale = stale, !.seen = seen]
      BY <2>1
    <3>8. stale \in BOOLEAN /\ quiet \in BOOLEAN
      BY <3>4
    <3>9. past' = [past EXCEPT !.loads = past.loads + 1, !.hit = {}, !.meant = {}, !.changed = {},
                     !.deleted = {}, !.twice = FALSE, !.quiet = quiet, !.stale = stale, !.seen = seen]
      BY <3>7
    <3> HIDE DEF seen, stale, quiet
    <3> QED
      BY <3>1, <3>3, <3>6, <3>8, <3>9 DEF PastSet
  <2>6. /\ past'.stale <=> (shown = <<>> /\ b.offset > 0) \/ (past.stale /\ b.turning /\ browser'.more)
        /\ past'.hit = {}
    BY <2>1 DEF RowsInv, RowsTyped, PastSet
  <2>7. TotalFits'
    <3> SUFFICES ASSUME browser'.total # TableRows!NoTotal, ~past'.stale
                 PROVE  TableRows!Says(browser'.total, b.filter)
      BY <1>1, <2>3, SaysOfTheSame DEF TotalFits, TableRows!NoTotal
    <3>1. browser'.shown # <<>> \/ b.offset = 0
      BY <2>4, <2>6 DEF PageSet
    <3>2. CASE ~browser'.more
      <4>1. browser'.total = TableRows!Exact(Cardinality(ids))
        BY <2>3, <3>1, <3>2
      <4> QED
        BY <4>1, SameCardinality DEF ids, TableRows!Says, TableRows!Exact
    <3>3. CASE browser'.more /\ b.turning /\ browser.counted = b.filter /\ browser.total # TableRows!NoTotal
               /\ browser'.total = browser.total
      BY <2>6, <3>3 DEF RowsInv, TotalFits
    <3>4. CASE browser'.total \in TableRows!CountedTotal(b.filter)
      BY <3>4, CountedIsTrue DEF RowsInv, RowsTyped, PageSet
    <3> QED
      BY <2>3, <3>2, <3>3, <3>4
  <2>8. CountedFits'
    BY <2>3 DEF CountedFits
  <2>9. RowsThere'
    BY <1>1, <2>3 DEF RowsThere
  <2>10. TableRows!ChangesWhatWasMarked'
    BY <2>6 DEF TableRows!ChangesWhatWasMarked
  <2> QED
    BY <1>3, <1>4, <2>3, <2>5, <2>7, <2>8, <2>9, <2>10 DEF RowsInv, RowsTyped
<1>7. CASE /\ browser' = [b1 EXCEPT !.shown = <<>>]
           /\ past' = [past EXCEPT !.loads = @ + 1, !.seen = <<>>, !.hit = {}, !.meant = {},
                      !.changed = {}, !.deleted = {}, !.twice = FALSE]
  <2> HIDE DEF b1, ids
  <2>6. <<>> \in Seq(ShownRow) /\ <<>> \in Seq(Ids)
    OBVIOUS
  <2>1. browser' \in PageSet /\ browser'.shown = <<>> /\ browser'.total = browser.total
        /\ browser'.counted = browser.counted
    BY <1>2, <1>7, <2>6 DEF PageSet
  <2>2. past' \in PastSet /\ past'.stale = past.stale /\ past'.hit = {}
    <3>1. past \in PastSet
      BY DEF RowsInv, RowsTyped
    <3>2. past.loads + 1 \in Nat
      BY <3>1 DEF PastSet
    <3> QED
      BY <1>7, <2>6, <3>1, <3>2 DEF PastSet
  <2>3. TotalFits'
    BY <1>1, <2>1, <2>2, SaysOfTheSame DEF RowsInv, TotalFits, TableRows!NoTotal
  <2>4. CountedFits' /\ RowsThere'
    BY <2>1 DEF CountedFits, RowsThere
  <2>5. TableRows!ChangesWhatWasMarked'
    BY <2>2 DEF TableRows!ChangesWhatWasMarked
  <2> QED
    BY <1>3, <1>4, <2>1, <2>2, <2>3, <2>4, <2>5 DEF RowsInv, RowsTyped
<1> QED
  BY <1>2, <1>6, <1>7 DEF TableRows!Load

LEMMA ReloadKeepsRows ==
  ASSUME TableRows!TablesFit, RowsInv, TableRows!Reload
  PROVE  RowsInv'
<1>1. browser \in PageSet /\ (browser.offset = 0) \in BOOLEAN
  BY DEF RowsInv, RowsTyped
<1> QED
  BY <1>1, LoadKeepsRows DEF TableRows!Reload

LEMMA TurnKeeps ==
  ASSUME TableRows!TablesFit, RowsInv, NEW forward \in BOOLEAN, TableRows!Turn(forward)
  PROVE  RowsInv'
<1> DEFINE offset == IF forward THEN browser.offset + Page
                     ELSE IF browser.offset > Page THEN browser.offset - Page ELSE 0
           b == [browser EXCEPT !.offset = offset, !.turning = TRUE]
<1>1. browser \in PageSet
  BY DEF RowsInv, RowsTyped
<1>2. offset \in Nat /\ (offset = 0) \in BOOLEAN
  BY <1>1 DEF PageSet, TableRows!TablesFit
<1>3. TableRows!Load(b, offset = 0)
  BY DEF TableRows!Turn
<1> HIDE DEF offset
<1>4. b \in PageSet /\ b.total = browser.total /\ b.counted = browser.counted
  BY <1>1, <1>2 DEF PageSet
<1> QED
  BY <1>2, <1>3, <1>4, LoadKeepsRows

LEMMA SortKeeps ==
  ASSUME TableRows!TablesFit, RowsInv, TableRows!SortBy("v")
  PROVE  RowsInv'
<1> DEFINE sort == IF browser.sort = TableRows!By("v") THEN [column |-> "v", descending |-> TRUE]
                   ELSE IF browser.sort.column = "v" THEN TableRows!DefaultSort ELSE TableRows!By("v")
           b == [browser EXCEPT !.offset = 0, !.sort = sort]
<1>1. browser \in PageSet
  BY DEF RowsInv, RowsTyped
<1>2. sort \in [column : {"none", "k", "v"}, descending : BOOLEAN]
  BY DEF TableRows!DefaultSort, TableRows!By, TableRows!NoSort
<1>3. TableRows!Load(b, TRUE)
  BY <1>1 DEF TableRows!SortBy, PageSet
<1> HIDE DEF sort
<1>4. b \in PageSet /\ b.total = browser.total /\ b.counted = browser.counted
  BY <1>1, <1>2 DEF PageSet
<1> QED
  BY <1>3, <1>4, LoadKeepsRows

LEMMA FilterKeeps ==
  ASSUME TableRows!TablesFit, RowsInv, NEW filter \in TableRows!Filters, TableRows!FilterBy(filter)
  PROVE  RowsInv'
<1> DEFINE b == [browser EXCEPT !.offset = 0, !.filter = filter]
<1>1. browser \in PageSet
  BY DEF RowsInv, RowsTyped
<1>2. b \in PageSet /\ b.total = browser.total /\ b.counted = browser.counted
  BY <1>1 DEF PageSet
<1>3. TableRows!Load(b, TRUE)
  BY DEF TableRows!FilterBy
<1> QED
  BY <1>2, <1>3, LoadKeepsRows

-----------------------------------------------------------------------------
\* Writes

Marked(rows) == {r.id : r \in rows}
ShownNow == {browser.shown[i] : i \in 1 .. Len(browser.shown)}

\* What the condition of a change reaches holds the rows it is for, where each is there as shown
LEMMA NamedHoldsMarked ==
  ASSUME RowsTyped, NEW rows,
         \A r \in rows : r.id \in DOMAIN table /\ table[r.id] = r.row
  PROVE  Marked(rows) \subseteq TableRows!Named(rows) /\ TableRows!Named(rows) \subseteq DOMAIN table
<1>1. TableRows!Named(rows) \subseteq DOMAIN table
  BY DEF TableRows!Named, TableRows!Key, TableRows!ClickHouseMatched, TableRows!SnowflakeMatched
<1>2. \A r \in rows : r.id \in TableRows!Named(rows)
  <2> SUFFICES ASSUME NEW r \in rows PROVE r.id \in TableRows!Named(rows)
    OBVIOUS
  <2>1. r.id \in DOMAIN table /\ table[r.id].k = r.row.k /\ table[r.id].v = r.row.v
    OBVIOUS
  <2>2. r.id \in TableRows!Key(rows)
    BY <2>1 DEF TableRows!Key
  <2>3. r.id \in TableRows!ClickHouseMatched(r) /\ r.id \in TableRows!SnowflakeMatched(r)
    BY <2>1 DEF TableRows!ClickHouseMatched, TableRows!SnowflakeMatched
  <2> QED
    BY <2>2, <2>3 DEF TableRows!Named
<1> QED
  BY <1>1, <1>2 DEF Marked

\* No two of the rows that are there as shown have the same place
LEMMA MarkedAreAsMany ==
  ASSUME RowsTyped, NEW rows \in SUBSET ShownRow,
         \A r \in rows : r.id \in DOMAIN table /\ table[r.id] = r.row
  PROVE  /\ IsFiniteSet(rows) /\ IsFiniteSet(Marked(rows))
         /\ Cardinality(rows) \in Nat /\ Cardinality(rows) <= Cardinality(Marked(rows))
<1> DEFINE place == [r \in rows |-> r.id]
<1>1. Marked(rows) \subseteq Ids
  BY DEF Marked, ShownRow
<1>2. IsFiniteSet(Marked(rows))
  <2>1. IsFiniteSet(Ids)
    BY FS_Interval, 1 \in Int, 4 \in Int DEF Ids
  <2> QED
    BY <1>1, <2>1, FS_Subset
<1>3. place \in [rows -> Marked(rows)]
  BY DEF Marked
<1>4. \A r, s \in rows : place[r] = place[s] => r = s
  BY DEF ShownRow
<1>5. place \in Injection(rows, Marked(rows))
  BY <1>3, <1>4 DEF Injection, IsInjective
<1>6. IsFiniteSet(rows) /\ Cardinality(rows) <= Cardinality(Marked(rows))
  <2> HIDE DEF place
  <2> QED
    BY <1>2, <1>5, FS_Injection
<1> QED
  BY <1>2, <1>6, FS_CardinalityType

\* A change of rows that are there as shown reaches no other: the key tells them apart, or the driver
\* takes a change back that reaches more
LEMMA ReachesWhatWasMarked ==
  ASSUME RowsTyped, KeysTell, NEW rows \in SUBSET ShownRow,
         driver.keyed \/ driver.kind \in TableRows!Lenient,
         \A r \in rows : r.id \in DOMAIN table /\ table[r.id] = r.row
  PROVE  TableRows!Changes(TableRows!Named(rows), TableRows!Cardinality(rows)) \subseteq Marked(rows)
<1> DEFINE ids == TableRows!Named(rows)
<1>1. Marked(rows) \subseteq ids /\ ids \subseteq DOMAIN table
  BY NamedHoldsMarked
<1>2. CASE driver.kind \in TableRows!Lenient
  <2>1. IsFiniteSet(ids) /\ Cardinality(ids) \in Nat
    <3>1. IsFiniteSet(Ids)
      BY FS_Interval, 1 \in Int, 4 \in Int DEF Ids
    <3>2. ids \in SUBSET Ids
      BY <1>1 DEF RowsTyped
    <3> HIDE DEF ids
    <3> QED
      BY <3>1, <3>2, FS_Subset, FS_CardinalityType
  <2>2. TableRows!Changes(ids, TableRows!Cardinality(rows)) =
          IF Cardinality(ids) > Cardinality(rows) THEN {} ELSE ids
    <3>1. TableRows!Changes(ids, TableRows!Cardinality(rows)) =
            IF TableRows!Cardinality(ids) > TableRows!Cardinality(rows) THEN {} ELSE ids
      <4> HIDE DEF ids
      <4> QED
        BY <1>2 DEF TableRows!Changes, TableRows!Lenient, TableRows!ClickHouseChanges, TableRows!SnowflakeChanges
    <3> HIDE DEF ids
    <3> QED
      BY <3>1, SameCardinality
  <2>3. Cardinality(ids) <= Cardinality(rows) => ids = Marked(rows)
    <3> HIDE DEF ids
    <3>1. Marked(rows) \in SUBSET ids
      BY <1>1
    <3>2. /\ IsFiniteSet(Marked(rows)) /\ Cardinality(Marked(rows)) <= Cardinality(ids)
          /\ Cardinality(ids) = Cardinality(Marked(rows)) => ids = Marked(rows)
      BY <2>1, <3>1, FS_Subset
    <3>3. Cardinality(Marked(rows)) \in Nat
      BY <3>2, FS_CardinalityType
    <3> QED
      BY <2>1, <3>2, <3>3, MarkedAreAsMany
  <2>4. Cardinality(rows) \in Nat
    BY MarkedAreAsMany
  <2> HIDE DEF ids
  <2> QED
    BY <2>1, <2>2, <2>3, <2>4 DEF ids
<1>3. CASE driver.kind \notin TableRows!Lenient
  <2>1. driver.keyed
    BY <1>3
  <2>2. \A i, j \in DOMAIN table : table[i].k = table[j].k => i = j
    BY <1>3, <2>1 DEF KeysTell, TableRows!KeyHolds
  <2>3. ids \subseteq Marked(rows)
    BY <2>1, <2>2 DEF TableRows!Named, TableRows!Key, Marked
  <2>4. TableRows!Changes(ids, TableRows!Cardinality(rows)) \subseteq ids
    <3> HIDE DEF ids
    <3>1. driver.kind \in {"mysql", "postgres", "sqlserver", "sqlite", "libsql", "duckdb"}
      BY <1>3 DEF RowsTyped, TableSet, KindsOfTable, TableRows!Lenient
    <3> QED
      BY <3>1 DEF TableRows!Changes, TableRows!MySqlChanges, TableRows!PostgresChanges, TableRows!SqlServerChanges,
           TableRows!SqliteChanges, TableRows!LibsqlChanges, TableRows!DuckChanges
  <2> QED
    BY <2>3, <2>4
<1> QED
  BY <1>2, <1>3

LEMMA PutCells ==
  ASSUME NEW row \in Cells, NEW column \in {"k", "v"}, NEW value \in Nat
  PROVE  TableRows!Put(row, column, value) \in Cells
BY DEF Cells, TableRows!Put

LEMMA ChangeKeeps ==
  ASSUME TableRows!TablesFit, RowsInv, NEW rows \in SUBSET ShownNow, NEW deletes \in BOOLEAN,
         TableRows!Change(rows, deletes)
  PROVE  RowsInv'
<1> DEFINE hit == TableRows!Changes(TableRows!Named(rows), TableRows!Cardinality(rows))
           changed == IF deletes THEN past.changed ELSE past.changed \cup Marked(rows)
           deleted == IF deletes THEN past.deleted \cup Marked(rows) ELSE past.deleted
           twice == past.twice \/ Marked(rows) \cap past.changed # {}
<1>1. /\ driver.keyed \/ driver.kind \in TableRows!Lenient
      /\ Marked(rows) \cap past.deleted = {}
      /\ IF deletes THEN table' = [i \in DOMAIN table \ hit |-> table[i]]
         ELSE \E column \in {"k", "v"}, value \in Values :
                table' = [i \in DOMAIN table |-> IF i \in hit THEN TableRows!Put(table[i], column, value) ELSE table[i]]
      /\ past' = [past EXCEPT !.writes = @ + 1, !.hit = hit, !.meant = Marked(rows), !.seen = <<>>, !.stale = TRUE,
                             !.changed = changed, !.deleted = deleted, !.twice = twice]
      /\ TableRows!KeyHolds(table')
      /\ UNCHANGED <<driver, browser, export>>
  BY DEF TableRows!Change, Marked
<1>2. RowsTyped /\ KeysTell
  BY DEF RowsInv
<1>3. rows \in SUBSET ShownRow
  <2>1. browser.shown \in Seq(ShownRow)
    BY <1>2 DEF RowsTyped, PageSet
  <2> QED
    BY <2>1 DEF ShownNow
<1>4. Marked(rows) \subseteq Ids
  BY <1>3 DEF Marked, ShownRow
<1>5. past.quiet /\ ~twice => hit \subseteq Marked(rows)
  <2> SUFFICES ASSUME past.quiet, ~twice PROVE hit \subseteq Marked(rows)
    OBVIOUS
  <2>1. \A r \in rows : r.id \notin past.changed \cup past.deleted
    BY <1>1 DEF Marked
  <2>2. \A r \in rows : r.id \in DOMAIN table /\ table[r.id] = r.row
    BY <2>1 DEF RowsInv, RowsThere, ShownNow
  <2> QED
    BY <1>1, <1>2, <1>3, <2>2, ReachesWhatWasMarked
<1>6. hit \subseteq DOMAIN table
  <2>1. TableRows!Named(rows) \subseteq DOMAIN table
    BY DEF TableRows!Named, TableRows!Key, TableRows!ClickHouseMatched, TableRows!SnowflakeMatched
  <2>2. hit \subseteq TableRows!Named(rows)
    <3> DEFINE ids == TableRows!Named(rows)
    <3> HIDE DEF ids
    <3>1. driver.kind \in KindsOfTable
      BY <1>2 DEF RowsTyped, TableSet
    <3>2. TableRows!Changes(ids, TableRows!Cardinality(rows)) \subseteq ids
      BY <3>1 DEF KindsOfTable, TableRows!Changes, TableRows!MySqlChanges, TableRows!PostgresChanges, TableRows!SqlServerChanges,
           TableRows!SqliteChanges, TableRows!LibsqlChanges, TableRows!DuckChanges, TableRows!ClickHouseChanges,
           TableRows!SnowflakeChanges
    <3> QED
      BY <3>2 DEF ids
  <2> QED
    BY <2>1, <2>2
<1> HIDE DEF hit
<1>7. /\ DOMAIN table' \subseteq DOMAIN table
      /\ table' \in [DOMAIN table' -> Cells]
      /\ \A i \in DOMAIN table \ hit : i \in DOMAIN table' /\ table'[i] = table[i]
  <2>1. \A i \in DOMAIN table : table[i] \in Cells
    BY <1>2 DEF RowsTyped
  <2>2. CASE deletes
    BY <1>1, <2>1, <2>2
  <2>3. CASE ~deletes
    <3>1. PICK column \in {"k", "v"}, value \in Values :
            table' = [i \in DOMAIN table |-> IF i \in hit THEN TableRows!Put(table[i], column, value) ELSE table[i]]
      BY <1>1, <2>3
    <3>2. \A i \in DOMAIN table : TableRows!Put(table[i], column, value) \in Cells
      BY <2>1, PutCells DEF TableRows!TablesFit
    <3> QED
      BY <2>1, <3>1, <3>2
  <2> QED
    BY <2>2, <2>3
<1>8. past' \in PastSet
  <2>1. past \in PastSet
    BY <1>2 DEF RowsTyped
  <2>2. past.writes + 1 \in Nat /\ hit \in SUBSET Ids
    BY <1>2, <1>6, <2>1 DEF PastSet, RowsTyped
  <2>3. changed \in SUBSET Ids /\ deleted \in SUBSET Ids /\ twice \in BOOLEAN
    BY <1>4, <2>1 DEF PastSet
  <2>4. <<>> \in Seq(Ids)
    OBVIOUS
  <2> HIDE DEF changed, deleted, twice
  <2> QED
    BY <1>1, <1>4, <2>1, <2>2, <2>3, <2>4 DEF PastSet
<1>9. past'.stale /\ past'.quiet = past.quiet /\ past'.hit = hit /\ past'.meant = Marked(rows)
      /\ past'.changed = changed /\ past'.deleted = deleted /\ past'.twice = twice
  <2> HIDE DEF changed, deleted, twice
  <2> QED
    BY <1>1, <1>2 DEF RowsTyped, PastSet
<1>10. RowsTyped'
  BY <1>1, <1>2, <1>7, <1>8 DEF RowsTyped
<1>11. TotalFits' /\ CountedFits'
  BY <1>1, <1>9 DEF RowsInv, TotalFits, CountedFits
<1>12. RowsThere'
  <2>1. changed \cup deleted = (past.changed \cup past.deleted) \cup Marked(rows)
    OBVIOUS
  <2>2. ~twice => ~past.twice
    OBVIOUS
  <2> HIDE DEF changed, deleted, twice
  <2> QED
    BY <1>1, <1>5, <1>7, <1>9, <2>1, <2>2 DEF RowsInv, RowsThere
<1>13. KeysTell'
  BY <1>1 DEF KeysTell, TableRows!KeyHolds
<1>14. TableRows!ChangesWhatWasMarked'
  <2> HIDE DEF changed, deleted, twice
  <2> QED
    BY <1>5, <1>9 DEF TableRows!ChangesWhatWasMarked
<1> QED
  BY <1>10, <1>11, <1>12, <1>13, <1>14 DEF RowsInv

LEMMA OthersKeep ==
  ASSUME TableRows!TablesFit, RowsInv, TableRows!OthersWrite
  PROVE  RowsInv'
<1>1. /\ past' = [past EXCEPT !.writes = @ + 1, !.quiet = FALSE, !.stale = TRUE, !.seen = <<>>]
      /\ UNCHANGED <<driver, browser>>
  BY DEF TableRows!OthersWrite
<1>2. past' \in PastSet /\ ~past'.quiet /\ past'.stale
  <2>1. past \in PastSet
    BY DEF RowsInv, RowsTyped
  <2>2. past.writes + 1 \in Nat /\ <<>> \in Seq(Ids)
    BY <2>1 DEF PastSet
  <2> QED
    BY <1>1, <2>1, <2>2 DEF PastSet
<1>3. DOMAIN table' \subseteq Ids /\ table' \in [DOMAIN table' -> Cells]
  <2>1. CASE \E i \in DOMAIN table : table' = [j \in DOMAIN table \ {i} |-> table[j]]
    BY <1>1, <2>1 DEF RowsInv, RowsTyped
  <2>2. CASE table' = [j \in DOMAIN table \cup {4} |->
                         IF j = 4 THEN [k |-> IF driver.kind \in TableRows!Lenient THEN 1 ELSE 4, v |-> 0] ELSE table[j]]
    <3>1. [k |-> IF driver.kind \in TableRows!Lenient THEN 1 ELSE 4, v |-> 0] \in Cells
      BY DEF Cells
    <3>2. \A i \in DOMAIN table' : table'[i] \in Cells
      BY <2>2, <3>1 DEF RowsInv, RowsTyped
    <3> QED
      BY <2>2, <3>2 DEF RowsInv, RowsTyped, Ids
  <2> QED
    BY <2>1, <2>2 DEF TableRows!OthersWrite
<1>4. RowsTyped'
  BY <1>1, <1>2, <1>3 DEF RowsInv, RowsTyped
<1>6. KeysTell'
  BY <1>1 DEF TableRows!OthersWrite, KeysTell, TableRows!KeyHolds
<1>5. TotalFits' /\ CountedFits' /\ RowsThere' /\ TableRows!ChangesWhatWasMarked'
  BY <1>1, <1>2 DEF RowsInv, TotalFits, CountedFits, RowsThere, TableRows!ChangesWhatWasMarked
<1> QED
  BY <1>3, <1>4, <1>5, <1>6 DEF RowsInv

LEMMA ExportsKeepRows ==
  ASSUME RowsInv, UNCHANGED <<table, driver, browser, past>>
  PROVE  RowsInv'
<1>1. TotalFits'
  BY SaysOfTheSame DEF RowsInv, TotalFits, TableRows!NoTotal
<1> QED
  BY <1>1 DEF RowsInv, RowsTyped, CountedFits, RowsThere, KeysTell, TableRows!KeyHolds, TableRows!ChangesWhatWasMarked

LEMMA RowsStart ==
  ASSUME TableRows!TablesFit, TableRows!Init
  PROVE  RowsInv
<1>1. driver \in TableSet /\ (driver.keyed /\ driver.repeats => driver.kind \in TableRows!Lenient)
  BY DEF TableRows!Init, TableRows!TablesFit, TableRows!Lenient, TableSet, KindsOfTable
<1>2. DOMAIN table \subseteq Ids /\ table \in [DOMAIN table -> Cells]
      /\ (~driver.repeats => \A i \in DOMAIN table : table[i].k = i)
  <2>1. CASE driver.repeats
    <3>1. table = <<[k |-> 1, v |-> 1], [k |-> 1, v |-> 2], [k |-> 2, v |-> 1]>>
      BY <2>1 DEF TableRows!Init
    <3> QED
      BY <2>1, <3>1 DEF Ids, Cells
  <2>2. CASE ~driver.repeats
    <3>1. table = <<[k |-> 1, v |-> 1], [k |-> 2, v |-> 0]>>
      BY <2>2 DEF TableRows!Init
    <3> QED
      BY <3>1 DEF Ids, Cells
  <2> QED
    BY <2>1, <2>2
<1>3. browser \in PageSet /\ browser.shown = <<>> /\ browser.total = TableRows!NoTotal
  <2>1. TableRows!NoTotal \in Totals /\ TableRows!NoSort \in [column : {"none", "k", "v"}, descending : BOOLEAN]
        /\ "all" \in TableRows!Filters /\ <<>> \in Seq(ShownRow)
    BY DEF TableRows!NoTotal, Totals, TableRows!NoSort, TableRows!Filters
  <2> QED
    BY <2>1 DEF TableRows!Init, PageSet
<1>4. past \in PastSet /\ past.hit = {}
  <2>1. <<>> \in Seq(Ids)
    OBVIOUS
  <2> QED
    BY <2>1 DEF TableRows!Init, PastSet
<1>5. TotalFits /\ CountedFits /\ RowsThere /\ KeysTell /\ TableRows!ChangesWhatWasMarked
  BY <1>1, <1>2, <1>3, <1>4 DEF TotalFits, CountedFits, RowsThere, KeysTell, TableRows!KeyHolds, TableRows!ChangesWhatWasMarked
<1> QED
  BY <1>1, <1>2, <1>3, <1>4, <1>5 DEF RowsInv, RowsTyped

LEMMA RowsSteps ==
  ASSUME TableRows!TablesFit, RowsInv, [TableRows!Next]_(TableRows!rowVars)
  PROVE  RowsInv'
<1>1. CASE TableRows!Reload
  BY <1>1, ReloadKeepsRows
<1>2. CASE \E forward \in BOOLEAN : TableRows!Turn(forward)
  BY <1>2, TurnKeeps
<1>3. CASE TableRows!SortBy("v")
  BY <1>3, SortKeeps
<1>4. CASE \E filter \in TableRows!Filters : TableRows!FilterBy(filter)
  BY <1>4, FilterKeeps
<1>5. CASE \E marked \in SUBSET ShownNow, deletes \in BOOLEAN : TableRows!Change(marked, deletes)
  BY <1>5, ChangeKeeps
<1>6. CASE TableRows!OthersWrite
  BY <1>6, OthersKeep
<1>7. CASE (\E limit \in {0, 1} : TableRows!StartExport(limit)) \/ TableRows!ExportChunk
  <2>1. UNCHANGED <<table, driver, browser, past>>
    BY <1>7 DEF TableRows!StartExport, TableRows!ExportChunk
  <2> QED
    BY <2>1, ExportsKeepRows
<1>8. CASE UNCHANGED TableRows!rowVars
  <2>1. UNCHANGED <<table, driver, browser, past>>
    BY <1>8 DEF TableRows!rowVars
  <2> QED
    BY <2>1, ExportsKeepRows
<1> QED
  BY <1>1, <1>2, <1>3, <1>4, <1>5, <1>6, <1>7, <1>8 DEF TableRows!Next, ShownNow

LEMMA RowsHold == ASSUME TableRows!TablesFit PROVE TableRows!Spec => []RowsInv
<1>1. TableRows!Init => RowsInv
  BY RowsStart
<1>2. RowsInv /\ [TableRows!Next]_(TableRows!rowVars) => RowsInv'
  BY RowsSteps
<1> QED
  BY <1>1, <1>2, PTL DEF TableRows!Spec

\* For every driver: until rows were written that were not counted again, or pages that could not be
\* turned led past the last row, the total that is shown is the number of rows its filter leaves, or an
\* estimate of them all that is large enough to be shown (TotalIsTrue)
THEOREM TotalsAreTrue == ASSUME TableRows!TablesFit PROVE TableRows!Spec => []TableRows!TotalIsTrue
<1>1. RowsInv => TableRows!TotalIsTrue
  BY DEF RowsInv, TotalFits, CountedFits, TableRows!TotalIsTrue
<1> QED
  BY <1>1, RowsHold, PTL

\* For every driver and however many rows are marked: while nobody else writes and no row is changed
\* and deleted at once, what a change or a deletion reaches are rows that were marked, though keys
\* repeat, are changed themselves and columns cannot be compared (ChangesWhatWasMarked)
THEOREM ReachesNoOtherRow == ASSUME TableRows!TablesFit PROVE TableRows!Spec => []TableRows!ChangesWhatWasMarked
<1>1. RowsInv => TableRows!ChangesWhatWasMarked
  BY DEF RowsInv
<1> QED
  BY <1>1, RowsHold, PTL

=============================================================================
