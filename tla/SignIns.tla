------------------------------ MODULE SignIns ------------------------------
(***************************************************************************)
(* Signing in to Snowflake through the browser, of two kinds: OAuth         *)
(* (src/app/database/snowflake_oauth.rs), whose sign-in is remembered by    *)
(* the tql, saved with the connection and renewed as it runs out, and SSO   *)
(* (src/app/database/snowflake/browser.rs), what of which is kept and       *)
(* renewed is SnowflakeSession's.  Several tqls share the store; the        *)
(* threads of one share the session; Snowflake may hand out a new refresh   *)
(* token with each renewal, and then takes the old one no more.             *)
(***************************************************************************)
EXTENDS Naturals, Sequences

CONSTANTS
  Tqls,
  Main,         \* the thread that opens a connection
  Threads,      \* of each tql, those that ask Snowflake, Main among them
  Connections,  \* those saved, by name: their kind, account and role, and the sign-in saved with them
  Granted,      \* what those were handed out
  Roles,        \* that a connection may be given
  Scoped,       \* a role as scoped_role has it: in capitals unless it is quoted
  Ports,        \* that are free to listen on
  MaxGrants, MaxAttempts, MaxCalls

VARIABLES
  grants,    \* the tokens Snowflake handed out, in order: the account and role each is for
  attempts,  \* sign-ins in the browser, in order: what for, and the port it comes back to
  rows,      \* the connections in the store, each with the sign-in saved with it
  tql,       \* each tql: the sign-ins it remembers, and its session
  work,      \* each thread: how far it is with its request
  calls      \* how many times a connection was opened, asked and edited

signVars == <<grants, attempts, rows, tql, work, calls>>

None == 0
NoTokens == [access |-> None, refresh |-> None]
NotSaved == [of |-> <<>>, refresh |-> None, by |-> "nobody"]  \* by: who wrote it, if it is known to be there
Rests == [at |-> "rest", why |-> "none", token |-> None, attempt |-> None, code |-> None, again |-> FALSE]
Wants == [Rests EXCEPT !.at = "wants"]

\* cache_key: the account and the role as it is asked for
Key(base, role) == <<base, Scoped[role]>>
KeyOf(row) == Key(row.base, row.role)
Keys == {Key(Connections[c].base, role) : c \in DOMAIN Connections, role \in Roles}

\* What was handed out at first is what is saved, and nobody saved it in this run
AllKeys == Keys \cup {Granted[i] : i \in DOMAIN Granted}
GrantsFit ==
  /\ Granted \in Seq(AllKeys)
  /\ \A c \in DOMAIN Connections :
       LET signIn == Connections[c].signIn IN
       /\ signIn \in [of : AllKeys \cup {<<>>}, refresh : {None} \cup DOMAIN Granted, by : {"nobody"}]
       /\ Connections[c].role \in Roles /\ Connections[c].kind \in {"oauth", "sso"}
       /\ signIn.refresh # None => Granted[signIn.refresh] = signIn.of
  /\ "nobody" \notin Tqls /\ \A t \in Tqls : Main \in Threads[t] /\ "nobody" \notin Threads[t]

Closed == [phase |-> "closed", row |-> "none", kind |-> "none", key |-> <<>>, tokens |-> NoTokens,
           saved |-> None, holder |-> "nobody"]

Init ==
  /\ grants = Granted /\ attempts = <<>>
  /\ rows = [c \in DOMAIN Connections |->
       [kind |-> Connections[c].kind, base |-> Connections[c].base, role |-> Connections[c].role, signIn |-> Connections[c].signIn]]
  /\ tql = [t \in Tqls |-> [signedIn |-> [k \in Keys |-> NoTokens], session |-> Closed]]
  /\ work = [t \in Tqls |-> [h \in Threads[t] |-> Rests]]
  /\ calls = 0

-----------------------------------------------------------------------------
\* One thread of a tql takes a step: of its own, and of the session they share
Steps(t, h, session, doing) ==
  /\ tql' = [tql EXCEPT ![t].session = session]
  /\ work' = [work EXCEPT ![t][h] = doing]

\* A session that fails to start is none, and one that fails to renew goes on with what it has
Fails(t, h) ==
  LET s == tql[t].session IN
  Steps(t, h, IF s.phase = "starting" THEN Closed ELSE [s EXCEPT !.holder = "nobody"], Rests)

\* Session::renewed: with the refresh token, if there is one
Renewal(refresh) == IF refresh = None THEN "sign in" ELSE "refresh"

\* Session::start: what this tql remembers, what was saved for just this account and role, or the browser
\* A mutant of SavedFor: whatever was saved
SavedForAny(row) == row.signIn.refresh
SavedFor(row) == IF row.signIn.of = KeyOf(row) THEN row.signIn.refresh ELSE None
Open(t, c) ==
  /\ tql[t].session.phase = "closed" /\ calls < MaxCalls /\ calls' = calls + 1
  /\ LET row == rows[c] key == KeyOf(row) remembered == tql[t].signedIn[key] saved == SavedFor(row) IN
     Steps(t, Main,
       [Closed EXCEPT !.phase = "starting", !.row = c, !.kind = row.kind, !.key = key, !.holder = Main,
          !.tokens = IF row.kind = "oauth" THEN remembered ELSE NoTokens,
          !.saved = IF row.kind = "oauth" THEN saved ELSE None],
       [Rests EXCEPT !.why = "start",
          !.at = IF row.kind = "sso" THEN "sign in" ELSE IF remembered # NoTokens THEN "remember" ELSE Renewal(saved)])
  /\ UNCHANGED <<grants, attempts, rows>>

\* refreshed: Snowflake may answer with another refresh token, or not at all, or turn down any token
Refresh(t, h) ==
  /\ work[t][h].at = "refresh"
  /\ LET s == tql[t].session refresh == IF s.phase = "starting" THEN s.saved ELSE s.tokens.refresh new == Len(grants) + 1 IN
     \/ Steps(t, h, s, [work[t][h] EXCEPT !.at = "sign in"]) /\ UNCHANGED grants
     \/ /\ Len(grants) < MaxGrants /\ grants' = Append(grants, grants[refresh])
        /\ \E another \in {refresh, new} :
             Steps(t, h, [s EXCEPT !.tokens = [access |-> new, refresh |-> another]], [work[t][h] EXCEPT !.at = "remember"])
  /\ UNCHANGED <<attempts, rows, calls>>

\* A port of its own, and the browser, which may not open
Listening(port) ==
  \E t \in Tqls : \E h \in Threads[t] : work[t][h].at = "listening" /\ attempts[work[t][h].attempt].port = port
Listens(t, h) ==
  /\ work[t][h].at = "sign in"
  /\ \/ /\ Len(attempts) < MaxAttempts
        /\ \E port \in Ports :
             ~Listening(port) /\ attempts' = Append(attempts, [of |-> tql[t].session.key, port |-> port])
        /\ Steps(t, h, tql[t].session, [work[t][h] EXCEPT !.at = "listening", !.attempt = Len(attempts) + 1])
     \/ Fails(t, h) /\ UNCHANGED attempts
  /\ UNCHANGED <<grants, rows, calls>>
SignIn(t, h) == tql[t].session.kind = "oauth" /\ Listens(t, h)
SignInBySso(t, h) == tql[t].session.kind = "sso" /\ Listens(t, h)

\* A tab comes back to the port of its sign-in, whoever listens on it by then
Comes(t, h, a) == work[t][h].at = "listening" /\ attempts[a].port = attempts[work[t][h].attempt].port
Caught(t, h, a) == Steps(t, h, tql[t].session, [work[t][h] EXCEPT !.at = "exchange", !.code = a])

\* answered: what comes back is of this sign-in if it has its state
\* A mutant of IsAnswer: whatever comes to the port
IsAnyAnswer(attempt, a) == TRUE
IsAnswer(attempt, a) == attempt = a
Arrive(t, h, a) ==
  /\ tql[t].session.kind = "oauth" /\ Comes(t, h, a) /\ IsAnswer(work[t][h].attempt, a)
  /\ Caught(t, h, a) \/ Fails(t, h)
  /\ UNCHANGED <<grants, attempts, rows, calls>>

\* token_from: by SSO there is no state
Catch(t, h, a) ==
  /\ tql[t].session.kind = "sso" /\ Comes(t, h, a) /\ Caught(t, h, a)
  /\ UNCHANGED <<grants, attempts, rows, calls>>

\* awaited, caught: three minutes went by
TimesOut(t, h) ==
  /\ work[t][h].at = "listening" /\ Fails(t, h)
  /\ UNCHANGED <<grants, attempts, rows, calls>>

\* Snowflake takes no code but that of the sign-in whose verifier, or proof, comes with it
Taken(t, h, refreshes) ==
  /\ work[t][h].code = work[t][h].attempt
  /\ Len(grants) < MaxGrants /\ grants' = Append(grants, attempts[work[t][h].attempt].of)
  /\ \E refresh \in refreshes :
       Steps(t, h, [tql[t].session EXCEPT !.tokens = [access |-> Len(grants) + 1, refresh |-> refresh]],
             [work[t][h] EXCEPT !.at = "remember"])

\* requested: for an access token, and perhaps one to renew with
Exchange(t, h) ==
  /\ tql[t].session.kind = "oauth" /\ work[t][h].at = "exchange"
  /\ Taken(t, h, {None, Len(grants) + 1}) \/ (Fails(t, h) /\ UNCHANGED grants)
  /\ UNCHANGED <<attempts, rows, calls>>

\* The login-request of SSO
LogIn(t, h) ==
  /\ tql[t].session.kind = "sso" /\ work[t][h].at = "exchange"
  /\ Taken(t, h, {None}) \/ (Fails(t, h) /\ UNCHANGED grants)
  /\ UNCHANGED <<attempts, rows, calls>>

\* saves_sign_in: whether the store could be written is not looked at
Stored(s, t, fails) ==
  [rows EXCEPT ![s.row].signIn =
     IF fails THEN [@ EXCEPT !.by = "nobody"] ELSE [of |-> s.key, refresh |-> s.tokens.refresh, by |-> t]]

\* Session::remember: by this tql, and with the connection unless that is what is saved.  Then the
\* lock is let go; a session that starts asks where it is.
Saves(s) == s.kind = "oauth" /\ s.tokens.refresh # None /\ s.saved # s.tokens.refresh
Remember(t, h) ==
  /\ work[t][h].at = "remember"
  /\ LET s == tql[t].session doing == work[t][h] IN
     /\ work' = [work EXCEPT ![t] =
          IF doing.why = "start" THEN [g \in Threads[t] |-> Wants]
          ELSE [@ EXCEPT ![h] =
            IF doing.why = "early" THEN [doing EXCEPT !.at = "ask", !.attempt = None, !.code = None, !.token = s.tokens.access]
            ELSE [doing EXCEPT !.at = "wants", !.attempt = None, !.code = None, !.token = None]]]
     /\ tql' = [tql EXCEPT
          ![t].signedIn = IF s.kind = "oauth" THEN [@ EXCEPT ![s.key] = s.tokens] ELSE @,
          ![t].session = [s EXCEPT !.phase = "open", !.holder = "nobody",
                            !.saved = IF Saves(s) THEN s.tokens.refresh ELSE @]]
     /\ IF Saves(s) THEN \E fails \in BOOLEAN : rows' = Stored(s, t, fails) ELSE UNCHANGED rows
  /\ UNCHANGED <<grants, attempts, calls>>

-----------------------------------------------------------------------------
\* Snowflake::sent
Ask(t, h) ==
  /\ tql[t].session.phase = "open" /\ work[t][h].at = "rest" /\ calls < MaxCalls
  /\ work' = [work EXCEPT ![t][h] = Wants]
  /\ calls' = calls + 1
  /\ UNCHANGED <<grants, attempts, rows, tql>>

\* access_token, with the lock: the token at hand, unless it is about to run out
Take(t, h) ==
  /\ work[t][h].at = "wants" /\ tql[t].session.holder = "nobody"
  /\ LET s == tql[t].session IN
     \/ Steps(t, h, s, [work[t][h] EXCEPT !.at = "ask", !.token = s.tokens.access])
     \/ /\ s.kind = "oauth"
        /\ Steps(t, h, [s EXCEPT !.holder = h], [work[t][h] EXCEPT !.at = Renewal(s.tokens.refresh), !.why = "early"])
  /\ UNCHANGED <<grants, attempts, rows, calls>>

\* The answer, or a 401 when the token has run out, which is looked at once
Answer(t, h) ==
  /\ work[t][h].at = "ask"
  /\ \/ work' = [work EXCEPT ![t][h] = Rests]
     \/ /\ ~work[t][h].again /\ tql[t].session.kind = "oauth"
        /\ work' = [work EXCEPT ![t][h].at = "rejected", ![t][h].again = TRUE]
  /\ UNCHANGED <<grants, attempts, rows, tql, calls>>

\* Session::renew(rejected), with the lock: another thread may have renewed it
\* A mutant of Replaced: each thread renews for itself
ReplacedNever(s, rejected) == FALSE
Replaced(s, rejected) == s.tokens.access # rejected
Renew(t, h) ==
  /\ work[t][h].at = "rejected" /\ tql[t].session.holder = "nobody"
  /\ LET s == tql[t].session IN
     IF Replaced(s, work[t][h].token)
     THEN Steps(t, h, s, [work[t][h] EXCEPT !.at = "wants", !.token = None])
     ELSE Steps(t, h, [s EXCEPT !.holder = h], [work[t][h] EXCEPT !.at = Renewal(s.tokens.refresh), !.why = "renew"])
  /\ UNCHANGED <<grants, attempts, rows, calls>>

-----------------------------------------------------------------------------
\* The session is dropped, and with the tql all it remembers
Close(t) ==
  /\ tql[t].session.phase = "open" /\ \A h \in Threads[t] : work[t][h].at = "rest"
  /\ \E quits \in BOOLEAN :
       tql' = [tql EXCEPT ![t].session = Closed, ![t].signedIn = IF quits THEN [k \in Keys |-> NoTokens] ELSE @]
  /\ UNCHANGED <<grants, attempts, rows, work, calls>>

\* Picker::sign_out: of the row that is highlighted, and of all that is remembered
SignOut(t, c) ==
  /\ tql[t].session.phase = "closed" /\ rows[c].signIn # NotSaved
  /\ calls < MaxCalls /\ calls' = calls + 1
  /\ rows' = [rows EXCEPT ![c].signIn = NotSaved]
  /\ tql' = [tql EXCEPT ![t].signedIn = [k \in Keys |-> NoTokens]]
  /\ UNCHANGED <<grants, attempts, work>>

\* The connection form: another role, and the sign-in stays with the row
Edit(c) ==
  /\ calls < MaxCalls
  /\ \E role \in Roles \ {rows[c].role} : rows' = [rows EXCEPT ![c].role = role]
  /\ calls' = calls + 1
  /\ UNCHANGED <<grants, attempts, tql, work>>

Next ==
  \/ \E t \in Tqls : Close(t) \/ \E c \in DOMAIN Connections : Open(t, c) \/ SignOut(t, c)
  \/ \E t \in Tqls : \E h \in Threads[t] :
       \/ Refresh(t, h) \/ SignIn(t, h) \/ SignInBySso(t, h) \/ TimesOut(t, h) \/ Exchange(t, h) \/ LogIn(t, h)
       \/ Remember(t, h) \/ Ask(t, h) \/ Take(t, h) \/ Answer(t, h) \/ Renew(t, h)
       \/ \E a \in 1..Len(attempts) : Arrive(t, h, a) \/ Catch(t, h, a)
  \/ \E c \in DOMAIN Connections : Edit(c)

Spec == Init /\ [][Next]_signVars

-----------------------------------------------------------------------------
Renewing(t, h) == work[t][h].at \in {"refresh", "sign in", "listening", "exchange", "remember"}

\* Every request goes out with a token for the account and the role its connection had when it was
\* opened, whatever was saved, remembered, edited or came back to the port since
RunsAsAsked ==
  \A t \in Tqls : \A h \in Threads[t] :
    work[t][h].at = "ask" => grants[work[t][h].token] = tql[t].session.key

\* One thread of a session renews it at a time, and one that was refused renews the token that was
OneRenews ==
  \A t \in Tqls : \A h \in Threads[t] : Renewing(t, h) =>
    /\ \A g \in Threads[t] \ {h} : ~Renewing(t, g)
    /\ work[t][h].why = "renew" /\ work[t][h].at # "remember" => tql[t].session.tokens.access = work[t][h].token

\* A sign-in is not ended by what comes back of another
EndsByItsOwn ==
  \A t \in Tqls : \A h \in Threads[t] :
    work[t][h].at = "exchange" /\ tql[t].session.kind = "oauth" => work[t][h].code = work[t][h].attempt

\* What a tql saved last with a connection, while nobody else wrote there, is what it could renew with
SavedIsTheLast ==
  \A t \in Tqls :
    LET s == tql[t].session IN
    s.phase = "open" /\ s.holder = "nobody" /\ s.tokens.refresh # None /\ rows[s.row].signIn.by = t =>
      rows[s.row].signIn.refresh = s.tokens.refresh

SignInsAreTrue == RunsAsAsked /\ OneRenews /\ EndsByItsOwn /\ SavedIsTheLast
=============================================================================
