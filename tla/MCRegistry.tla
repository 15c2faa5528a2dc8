----------------------------- MODULE MCRegistry -----------------------------
(***************************************************************************)
(* Instances of Registry for TLC.  Names are sequences of segments: <<"a">> *)
(* and <<"a", "b">> stand for "a" and "a-b".                               *)
(***************************************************************************)
EXTENDS Registry

CONSTANTS p1, p2, f1, f2, f3

\* One namespace with one schema; two namespaces with the same schema name.
OneNamespace == {<<"a">>}
OneName == {<<"c">>}
TwoNamespaces == {<<"a">>, <<"b">>}

Proto == {"protobuf"}
Backward == {"backward"}
BackwardOrNone == {"backward", "none"}

AllParse == Formats \X Files
AllAllowed == Compats \X Files \X Files
\* f2 may follow f1 but not the other way round; nothing else is compatible
\* with anything but itself.  Mode none allows everything.
ChainAllowed ==
    {<<m, new, prev>> \in Compats \X Files \X Files :
        m = "none" \/ new = prev \/ (new = f2 /\ prev = f1)}

Row(c) == [format |-> "protobuf", compat |-> c]
WithNamespaces == {[n \in Namespaces |-> Row("backward")]}

Everyone(S) == [p \in Procs |-> S]
\* check and get are in OneCreator.
ChangesAgainstDeletes ==
    [p \in Procs |-> IF p = p1 THEN OpNames \ {"check", "get"}
                     ELSE {"create", "deleteVersion", "deleteSchema", "nsDelete"}]
OneCreator ==
    [p \in Procs |-> IF p = p1 THEN {"create", "check"}
                     ELSE {"get", "getLatest", "updateMetadata", "nsUpdate"}]
Creators == Everyone({"create"})
CreateDeleteRead == Everyone({"create", "getLatest", "deleteVersion"})
=============================================================================
