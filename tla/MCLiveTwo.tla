----------------------------- MODULE MCLiveTwo -----------------------------
(***************************************************************************)
(* Two tqls, in two small instances of Live of which `which` says the one  *)
(* that runs: one tql on each of two connections, which two agents call    *)
(* while the tqls open and the first quits or crashes; and both on one     *)
(* connection, used now and then, which only one of the agents calls,      *)
(* twice.  The invariants are those of Live, whose constants here bound    *)
(* both.                                                                   *)
(***************************************************************************)
EXTENDS MCLive

VARIABLE which

Apart == INSTANCE Live WITH
  ConnectionOf <- [t \in Tqls |-> IF t = t1 THEN shop ELSE bank],
  FreshenEvery <- 1, MaxTime <- 0, MaxCalls <- 1, MayQuit <- TRUE, MayCrash <- TRUE

Together == INSTANCE Live WITH
  Connections <- {shop}, ConnectionOf <- SameConnection, MayQuit <- FALSE, MayCrash <- FALSE

varsTwo == <<which, vars>>

InitTwo == which \in {"apart", "together"} /\ Init

NextTwo ==
  /\ UNCHANGED which
  /\ \/ which = "apart" /\ Apart!Next /\ phase'[t2] \in {"closed", "locked"} \cup Serving
     \/ which = "together" /\ Together!Next /\ \E a \in Agents : calls'[a] = 0

SpecTwo == InitTwo /\ [][NextTwo]_varsTwo

=============================================================================
