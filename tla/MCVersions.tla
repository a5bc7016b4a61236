----------------------------- MODULE MCVersions -----------------------------
(***************************************************************************)
(* Small instances of Versions.                                            *)
(***************************************************************************)
EXTENDS Versions

CONSTANTS p1, p2
=============================================================================
