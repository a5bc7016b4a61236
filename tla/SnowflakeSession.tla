-------------------------- MODULE SnowflakeSession --------------------------
(***************************************************************************)
(* The session a tql signed in to Snowflake through SSO talks over          *)
(* (src/app/database/snowflake/session.rs): it is kept in the store, taken  *)
(* up by the next tql, renewed as it expires, and moved to the database and *)
(* schema each request wants.  A tql sends two requests at once.            *)
(***************************************************************************)
EXTENDS Naturals, Sequences

CONSTANTS
  Tqls,
  Threads,       \* of each tql, the requests it may have under way at once
  Databases,
  First,         \* the database of the saved connection
  MaxTokens,     \* how many session tokens Snowflake hands out: bounds the model
  MaxAsks, MaxUses

\* No database is called as a session that is in none is
DatabasesFit == First \in Databases /\ "none" \notin Databases

VARIABLES
  tokens,  \* those handed out, in order: the session each is of, whether it is good
  places,  \* the database and schema of each session, at Snowflake
  saved,   \* the token in the store
  tql,     \* each tql: its token, where it thinks its session is, where it wants to be
  asking,  \* each thread: what it sends next, with which token
  past     \* tokens spent, requests, switches; whether two tqls shared a
           \* session, one took up the session of another under way, one ran elsewhere

sessionVars == <<tokens, places, saved, tql, asking, past>>

NoToken == 0
Nowhere == [database |-> "none", schema |-> "none"]
In(database) == [database |-> database, schema |-> "public"]
Rests == [at |-> "rest", token |-> NoToken, retried |-> FALSE]

Init ==
  /\ tokens = <<>> /\ places = <<>> /\ saved = NoToken
  /\ tql = [t \in Tqls |-> [on |-> FALSE, token |-> NoToken, believed |-> Nowhere, wanted |-> First]]
  /\ asking = [t \in Tqls |-> [h \in Threads[t] |-> Rests]]
  /\ past = [asks |-> 0, uses |-> 0, shared |-> FALSE, taken |-> FALSE, astray |-> FALSE]

Good(token) == token # NoToken /\ tokens[token].good
SessionOf(token) == tokens[token].of
Renewable(token) == token # NoToken /\ tokens[token].master
SharedBy(tqls) ==
  \E t, u \in Tqls : t # u /\ tqls[t].on /\ tqls[u].on /\ SessionOf(tqls[t].token) = SessionOf(tqls[u].token)

-----------------------------------------------------------------------------
\* Session::open: the saved tokens if they are good or can be renewed, or the browser
SignIn(database) ==
  /\ Len(tokens) < MaxTokens
  /\ tokens' = Append(tokens, [of |-> Len(places) + 1, good |-> TRUE, master |-> TRUE])
  /\ places' = Append(places, In(database))
  /\ saved' = Len(tokens) + 1

Open(t) ==
  /\ ~tql[t].on
  /\ \/ /\ Good(saved) \/ Renewable(saved)
        /\ tql' = [tql EXCEPT ![t] = [@ EXCEPT !.on = TRUE, !.token = saved, !.believed = Nowhere, !.wanted = First]]
        /\ past' = [past EXCEPT !.shared = @ \/ SharedBy(tql')]
        /\ UNCHANGED <<tokens, places, saved>>
     \/ /\ ~(Good(saved) \/ Renewable(saved))
        /\ SignIn(First)
        /\ tql' = [tql EXCEPT ![t] = [@ EXCEPT !.on = TRUE, !.token = saved', !.believed = In(First), !.wanted = First]]
        /\ UNCHANGED past
  /\ UNCHANGED asking

Close(t) ==
  /\ tql[t].on /\ \A h \in Threads[t] : asking[t][h].at = "rest"
  /\ tql' = [tql EXCEPT ![t].on = FALSE]
  /\ UNCHANGED <<tokens, places, saved, asking, past>>

\* Snowflake::use_database: the requests that settle the schema want the other database
Use(t) ==
  /\ tql[t].on /\ past.uses < MaxUses /\ \A h \in Threads[t] : asking[t][h].at = "rest"
  /\ \E database \in Databases \ {tql[t].wanted} : tql' = [tql EXCEPT ![t].wanted = database]
  /\ past' = [past EXCEPT !.uses = @ + 1]
  /\ UNCHANGED <<tokens, places, saved, asking>>

-----------------------------------------------------------------------------
\* Session::ask

Sets(t, h, asks) == asking' = [asking EXCEPT ![t][h] = asks]
Ask(t, h) ==
  /\ tql[t].on /\ asking[t][h].at = "rest" /\ past.asks < MaxAsks
  /\ Sets(t, h, [Rests EXCEPT !.at = "align"])
  /\ past' = [past EXCEPT !.asks = @ + 1]
  /\ UNCHANGED <<tokens, places, saved, tql>>

\* align: "use database" unless the session is thought to be there, and with the token at hand
AlignOnce(t, h) ==
  /\ asking[t][h].at = "align"
  /\ Sets(t, h, [asking[t][h] EXCEPT
       !.at = IF tql[t].believed.database \in {tql[t].wanted, "none"} THEN "query" ELSE "use"])
  /\ UNCHANGED <<tokens, places, saved, tql, past>>

Align(t, h) ==
  /\ asking[t][h].at = "align"
  /\ Sets(t, h, [asking[t][h] EXCEPT
       !.at = IF tql[t].believed.database = tql[t].wanted THEN "query" ELSE "use"])
  /\ UNCHANGED <<tokens, places, saved, tql, past>>

\* query takes the token, refreshing one that is about to expire
Take(t, h) ==
  /\ asking[t][h].at \in {"use", "query"} /\ asking[t][h].token = NoToken
  /\ Good(tql[t].token)
  /\ Sets(t, h, [asking[t][h] EXCEPT !.token = tql[t].token])
  /\ UNCHANGED <<tokens, places, saved, tql, past>>

\* The statement is run where the session is, and the answer says where that is
Answer(t, h) ==
  /\ Good(asking[t][h].token)
  /\ LET a == asking[t][h] s == SessionOf(a.token) IN
     IF a.at = "use"
     THEN /\ places' = [places EXCEPT ![s] = In(tql[t].wanted)]
          /\ tql' = [tql EXCEPT ![t].believed = In(tql[t].wanted)]
          /\ Sets(t, h, [Rests EXCEPT !.at = "query"]) /\ UNCHANGED past
     ELSE /\ UNCHANGED places /\ Sets(t, h, Rests)
          /\ tql' = [tql EXCEPT ![t].believed = places[s]]
          /\ past' = [past EXCEPT !.astray = @ \/ places[s].database # tql[t].wanted]
  /\ UNCHANGED <<tokens, saved>>

\* refresh(stale), which holds the lock on the tokens: another thread may have refreshed them;
\* the store may hold those of another tql; they are renewed, or the browser is opened
Refresh(t, h) ==
  /\ asking[t][h].at \in {"use", "query"}
  /\ LET a == asking[t][h] stale == IF a.token = NoToken THEN tql[t].token ELSE a.token
         again == [a EXCEPT !.token = NoToken, !.retried = a.token # NoToken] IN
     /\ ~Good(stale) /\ stale # NoToken
     /\ IF a.retried /\ a.token # NoToken THEN Sets(t, h, Rests) /\ UNCHANGED <<tokens, places, saved, tql, past>>
        ELSE /\ Sets(t, h, again)
             /\ \/ /\ tql[t].token # stale
                   /\ UNCHANGED <<tokens, places, saved, tql, past>>
                \/ /\ tql[t].token = stale /\ saved # stale /\ Good(saved)
                   /\ tql' = [tql EXCEPT ![t] = [@ EXCEPT !.token = saved, !.believed = Nowhere]]
                   /\ past' = [past EXCEPT !.taken = TRUE]
                   /\ UNCHANGED <<tokens, places, saved>>
                \/ /\ tql[t].token = stale /\ (saved = stale \/ ~Good(saved))
                   /\ Renewable(stale) /\ Len(tokens) < MaxTokens
                   /\ tokens' = Append([tokens EXCEPT ![stale].master = FALSE],
                                       [of |-> SessionOf(stale), good |-> TRUE, master |-> TRUE])
                   /\ saved' = Len(tokens) + 1 /\ tql' = [tql EXCEPT ![t].token = saved']
                   /\ UNCHANGED <<places, past>>
                \/ /\ tql[t].token = stale /\ (saved = stale \/ ~Good(saved)) /\ ~Renewable(stale)
                   /\ SignIn(tql[t].believed.database)
                   /\ tql' = [tql EXCEPT ![t] = [@ EXCEPT !.token = saved']]
                   /\ UNCHANGED past

\* Snowflake: a token expires, and may not be renewed for longer than about four hours
Expire(token) ==
  /\ tokens[token].good
  /\ \E renewable \in BOOLEAN :
       tokens' = [tokens EXCEPT ![token].good = FALSE, ![token].master = @ /\ renewable]
  /\ UNCHANGED <<places, saved, tql, asking, past>>

\* :sign-out clears what the store keeps
SignOut ==
  /\ saved # NoToken /\ saved' = NoToken
  /\ UNCHANGED <<tokens, places, tql, asking, past>>

Next ==
  \/ \E t \in Tqls : Open(t) \/ Close(t) \/ Use(t)
  \/ \E t \in Tqls : \E h \in Threads[t] :
       Ask(t, h) \/ Align(t, h) \/ Take(t, h) \/ Answer(t, h) \/ Refresh(t, h)
  \/ \E token \in 1..Len(tokens) : Expire(token)
  \/ SignOut

Spec == Init /\ [][Next]_sessionVars

-----------------------------------------------------------------------------
\* However sessions expire, are renewed, signed in to anew and taken up by the next tql: until
\* two tqls share one, or a request takes up the one another tql saved since, every statement
\* runs in the database its tql wants
RunsWhereWanted == past.astray => past.shared \/ past.taken
=============================================================================
