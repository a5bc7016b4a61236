------------------------------- MODULE MCLive -------------------------------
(***************************************************************************)
(* Small instances of Live.                                                *)
(***************************************************************************)
EXTENDS Live, TLC

CONSTANTS t1, t2, a1, a2, shop, bank

\* Every tql on one connection
SameConnection == [t \in Tqls |-> shop]

\* Three calls at most between two agents: one of them calls twice
ThreeCalls == \E a \in Agents : \A b \in Agents \ {a} : calls[b] <= 1

\* Agents are interchangeable
AgentSymmetry == Permutations(Agents)
=============================================================================
