---------------------------- MODULE MCTunnelKey ----------------------------
(***************************************************************************)
(* Tunnel with two connections that have no port of their own, for the      *)
(* default ports of two drivers behind one bastion: key_for takes an unset  *)
(* port as it is, so both have one place in the table.                      *)
(***************************************************************************)
EXTENDS Tunnel

OneKey == [c \in {"mysql", "redis"} |-> 1]
OwnPort == [mysql |-> 3306, redis |-> 6379]
=============================================================================
