---------------------------- MODULE VersionStore ----------------------------
(***************************************************************************)
(* What the registry promises to whoever publishes and reads versions: a   *)
(* versioned store in which every operation is atomic.                     *)
(***************************************************************************)
EXTENDS Naturals

CONSTANTS Schemas, Files

VARIABLE contents   \* the versions that exist: records [schema, version, file]

Entries == [schema : Schemas, version : Nat \ {0}, file : Files]

Init == contents = {}

\* A content the schema does not have yet becomes its newest version.
Publish(n) ==
    /\ n \in Entries
    /\ \A e \in contents : e.schema = n.schema => e.version < n.version /\ e.file # n.file
    /\ contents' = contents \cup {n}

\* One version disappears.
Remove(e) == contents' = contents \ {e}

\* Whole schemas disappear, with all their versions.
RemoveAll(ks) == contents' = {e \in contents : e.schema \notin ks}

Next ==
    \/ \E n \in contents' : Publish(n)
    \/ \E e \in contents : Remove(e)
    \/ \E ks \in SUBSET Schemas : RemoveAll(ks)

Spec == Init /\ [][Next]_contents
=============================================================================
