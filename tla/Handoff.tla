------------------------------- MODULE Handoff -------------------------------
(***************************************************************************)
(* What an agent may rely on when it hands SQL to a tql, with the files    *)
(* left out: a statement <<agent, n>> is handed over at most once, is then *)
(* pending, and is shown at most once or replaced before it is seen; what  *)
(* an agent handed over last is never overtaken by what it handed over     *)
(* first.  It promises no more than that: a statement may be dropped on    *)
(* the way, and where agents write at once a piece of one may be handed    *)
(* over in its place.                                                      *)
(***************************************************************************)
EXTENDS Integers, Sequences

CONSTANTS Tqls, Statements, Pieces

VARIABLES
  handed,   \* everything ever handed to each tql
  pending,  \* what a tql has been handed and has not shown
  shown     \* what its editor was given, in order

vars == <<handed, pending, shown>>

Init ==
  /\ handed = [t \in Tqls |-> {}]
  /\ pending = [t \in Tqls |-> {}]
  /\ shown = [t \in Tqls |-> <<>>]

\* Something is handed over; it may replace some of what was pending
Hand(t, s) ==
  /\ handed' = [handed EXCEPT ![t] = @ \cup {s}]
  /\ \E kept \in SUBSET pending[t] :
       pending' = [pending EXCEPT ![t] = kept \cup {s}]
  /\ UNCHANGED shown

\* A statement is newer than all its agent has handed to any tql
Newest(s) ==
  \A u \in Tqls : \A other \in handed[u] \cap Statements :
    other[1] = s[1] => other[2] < s[2]

\* Something pending is shown, and all else that was pending is lost
Show(t, s) ==
  /\ s \in pending[t]
  /\ shown' = [shown EXCEPT ![t] = Append(@, s)]
  /\ pending' = [pending EXCEPT ![t] = {}]
  /\ UNCHANGED handed

\* The tql quits, or what a dead one left is swept away
Lose(t) ==
  /\ \E kept \in SUBSET pending[t] : pending' = [pending EXCEPT ![t] = kept]
  /\ UNCHANGED <<handed, shown>>

Next ==
  \E t \in Tqls :
    \/ \E s \in Statements : Newest(s) /\ Hand(t, s)
    \/ \E s \in Pieces : Hand(t, s)
    \/ \E s \in Statements \cup Pieces : Show(t, s)
    \/ Lose(t)

Spec == Init /\ [][Next]_vars
=============================================================================
