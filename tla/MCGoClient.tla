----------------------------- MODULE MCGoClient -----------------------------
(***************************************************************************)
(* Instances of GoClient for TLC: contents f1 and f2 are descriptor sets,  *)
(* f3 is not.                                                              *)
(***************************************************************************)
EXTENDS GoClient

CONSTANTS c1, c2, f1, f2, f3

Both == {"version", "polling"}
VersionBased == {"version"}
=============================================================================
