------------------------ MODULE MCChangeNotification ------------------------
(***************************************************************************)
(* Instances of ChangeNotification for TLC: one schema, and contents f1    *)
(* and f2 with different messages.                                         *)
(***************************************************************************)
EXTENDS ChangeNotification

CONSTANTS t1, t2, s1, f1, f2

Differing == {<<old, new>> \in Files \X Files : old # new}
=============================================================================
