------------------------------ MODULE MCEdits ------------------------------
(***************************************************************************)
(* A small instance of Edits: two tables, listed in this order.             *)
(***************************************************************************)
EXTENDS Edits

CONSTANTS people, orders

TheOrder == <<people, orders>>

\* Two changes only where both are added rows, and each write was answered
AddsTogether == changes <= 1 \/ (deletes = <<>> /\ updates = <<>> /\ unanswered = {})

\* Two changes only where none is in doubt and no load is queued
DoubtAlone == changes <= 1 \/ (doubtful = {} /\ ~pending)
=============================================================================
