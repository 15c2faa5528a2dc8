----------------------------- MODULE TypeGraph ------------------------------
(***************************************************************************)
(* The two searches over the types of a descriptor set: the change         *)
(* detector's search for the schemas that a changed schema impacts         *)
(* (core/changedetector/proto_change_detector_service.go) and the lineage  *)
(* of a type (core/schema/lineage.go).  A type is named by its segments:   *)
(* <<"A", "N">> is the type N declared in the message A.                   *)
(***************************************************************************)
EXTENDS Integers, FiniteSets, SequencesExt

CONSTANTS
    Messages, Enums,   \* the types, top-level and nested
    Graphs,            \* sets of fields: pairs <<message, type of a field>>
    Changes,           \* each type against the previous set: same, changed, absent
    Depths,            \* SchemaChange.Depth, or the depth of a reconciliation
    Levels, Names      \* level and type_name of a lineage request

Types == Messages \cup Enums
Verdicts == {"same", "changed", "absent"}
Dirs == {"downstream", "upstream"}
MaxInt32 == 2147483647

TopLevel(t) == Len(t) = 1
Within(m) == {t \in Types : IsPrefix(m, t)}

ASSUME TypesAssumption ==
    /\ IsFiniteSet(Types) /\ \A t \in Types : Len(t) \in Nat \ {0}
    /\ \A t \in Types : ~TopLevel(t) => Front(t) \in Messages
ASSUME GraphsAssumption == Graphs \subseteq SUBSET (Messages \X Types)
\* What is declared in a message that is new is new.
ASSUME ChangesAssumption ==
    /\ Changes \subseteq [Types -> Verdicts]
    /\ \A c \in Changes, m \in Messages :
         c[m] = "absent" => \A t \in Within(m) : c[t] = "absent"
\* A serialized descriptor set is shorter than 2^31 bytes.
ASSUME SizeAssumption == Cardinality(Types) <= MaxInt32
ASSUME BoundsAssumption == Depths \subseteq Int /\ Levels \subseteq Int

VARIABLES
    uses,      \* the fields of the current descriptor set
    change,    \* its comparison with the previous one
    call,      \* the request at work
    pc,
    todo,      \* the walks that are left: records [root, dir]
    walk,      \* the walk at work
    visited, queue, nextQueue, size,
    round,     \* what is left of the depth, or the level that is reached
    found,     \* the result of the walk
    impacted,  \* sce.ImpactedSchemas
    lineage    \* resp.Downstream and resp.Upstream

search == <<visited, queue, nextQueue, size, round, found>>
vars == <<uses, change, call, pc, todo, walk, search, impacted, lineage>>

NoCall == [op |-> "none", limit |-> 0, name |-> <<>>, dirs |-> {}]
NoWalk == [root |-> <<>>, dir |-> "downstream"]
Node(t, l, p) == [name |-> t, level |-> l, path |-> p]

Init ==
    /\ uses \in Graphs
    /\ change = [t \in Types |-> "same"]
    /\ call = NoCall /\ pc = "idle" /\ todo = {} /\ walk = NoWalk
    /\ visited = {} /\ queue = <<>> /\ nextQueue = <<>> /\ size = 0 /\ round = 0 /\ found = <<>>
    /\ impacted = <<>> /\ lineage = [d \in Dirs |-> <<>>]

-----------------------------------------------------------------------------
(***************************************************************************)
(* The change detector.                                                    *)
(***************************************************************************)
\* setDirectlyImpactedSchemasAndFields: a message differs if anything declared
\* in it does; enums count on their own, also directly inside a message that
\* the previous set has.
UpdatedSchemas(c) ==
    {m \in Messages : TopLevel(m) /\ \E t \in Within(m) : c[t] # "same"}
        \cup {e \in Enums : /\ c[e] # "same"
                            /\ \/ TopLevel(e)
                               \/ Len(e) = 2 /\ c[Front(e)] # "absent"}

\* IdentifySchemaChange up to the first walk.  A negative depth has no limit.
IdentifySchemaChange ==
    /\ pc = "idle"
    /\ \E d \in Depths :
         call' = [op |-> "impact", limit |-> IF d < 0 THEN MaxInt32 ELSE d, name |-> <<>>, dirs |-> {}]
    /\ change' \in Changes
    /\ todo' = {[root |-> u, dir |-> "downstream"] : u \in UpdatedSchemas(change')}
    /\ pc' = "next"
    /\ UNCHANGED <<uses, walk, search, impacted, lineage>>

\* getReverseDependencies: the fields of top-level messages only.
ReverseDependencies == {<<f[2], f[1]>> : f \in {g \in uses : TopLevel(g[1])}}

\* buildDependencyMaps: the fields of every message.
ForwardDeps == uses
ReverseDeps == {<<f[2], f[1]>> : f \in uses}

Relation(op, dir) ==
    IF op = "impact" THEN ReverseDependencies
    ELSE IF dir = "downstream" THEN ReverseDeps ELSE ForwardDeps

\* The unvisited neighbours of t, in the order of the fields that name them.
Neighbours(t) ==
    SetToSeqs({u \in Types : <<t, u>> \in Relation(call.op, walk.dir) /\ u \notin visited})

Begin(w, n) ==
    /\ walk' = w
    /\ visited' = {w.root} /\ queue' = <<n>> /\ nextQueue' = <<>> /\ size' = 0 /\ found' = <<>>

StartImpact ==
    /\ pc = "next" /\ call.op = "impact"
    /\ \E w \in todo : Begin(w, w.root) /\ todo' = todo \ {w}
    /\ round' = call.limit
    /\ pc' = "round"
    /\ UNCHANGED <<uses, change, call, impacted, lineage>>

\* Mutants: the empty queue is not noticed; as many rounds as the depth says.
MoreImpactUnchecked == round >= 0
MoreImpactShort == queue # <<>> /\ round > 0

MoreImpact == queue # <<>> /\ round >= 0

ImpactRound ==
    /\ pc = "round" /\ call.op = "impact" /\ MoreImpact
    /\ size' = Len(queue)
    /\ pc' = "visit"
    /\ UNCHANGED <<uses, change, call, todo, walk, visited, queue, nextQueue, round, found, impacted,
                   lineage>>

ImpactVisit ==
    /\ pc = "visit" /\ call.op = "impact"
    /\ found' = Append(found, Head(queue))
    /\ \E s \in Neighbours(Head(queue)) :
         queue' = Tail(queue) \o s /\ visited' = visited \cup Range(s)
    /\ size' = size - 1
    /\ IF size = 1 THEN pc' = "round" /\ round' = round - 1 ELSE UNCHANGED <<pc, round>>
    /\ UNCHANGED <<uses, change, call, todo, walk, nextQueue, impacted, lineage>>

\* appendImpactedDependents.
ImpactDone ==
    /\ pc = "round" /\ call.op = "impact" /\ ~MoreImpact
    /\ impacted' = [r \in DOMAIN impacted \cup {walk.root} |->
                      IF r = walk.root THEN found ELSE impacted[r]]
    /\ pc' = "next"
    /\ UNCHANGED <<uses, change, call, todo, walk, search, lineage>>

-----------------------------------------------------------------------------
(***************************************************************************)
(* Lineage.                                                                *)
(***************************************************************************)
Listed(s) == {s[i].name : i \in DOMAIN s}

\* findRootFQNs, a map that computeLineage ranges over in any order.
Roots(n) == {t \in Types : IsSuffix(n, t)}

\* GetLineage: level 0 or less means 10; no direction means both.
GetLineage ==
    /\ pc = "idle"
    /\ \E n \in Names, l \in Levels, ds \in {{d} : d \in Dirs} \cup {Dirs} :
         /\ call' = [op |-> "lineage", limit |-> IF l <= 0 THEN 10 ELSE l, name |-> n, dirs |-> ds]
         /\ todo' = [root : Roots(n), dir : ds]
    /\ pc' = "next"
    /\ UNCHANGED <<uses, change, walk, search, impacted, lineage>>

StartLineage ==
    /\ pc = "next" /\ call.op = "lineage"
    /\ \E w \in todo : Begin(w, Node(w.root, 0, <<w.root>>)) /\ todo' = todo \ {w}
    /\ round' = 0
    /\ pc' = "round"
    /\ UNCHANGED <<uses, change, call, impacted, lineage>>

\* Mutant: one level too many.
MoreLineageLong == queue # <<>> /\ round <= call.limit

MoreLineage == queue # <<>> /\ round < call.limit

LineageRound ==
    /\ pc = "round" /\ call.op = "lineage" /\ MoreLineage
    /\ round' = round + 1
    /\ pc' = "visit"
    /\ UNCHANGED <<uses, change, call, todo, walk, visited, queue, nextQueue, size, found, impacted,
                   lineage>>

\* One pass of the loop over the queue of walkLineage.
LineageVisit ==
    /\ pc = "visit" /\ call.op = "lineage"
    /\ \E s \in Neighbours(Head(queue).name) :
         LET nodes == [i \in 1..Len(s) |-> Node(s[i], round, Append(Head(queue).path, s[i]))]
         IN  /\ visited' = visited \cup Range(s)
             /\ found' = found \o nodes
             /\ IF Len(queue) = 1
                THEN queue' = nextQueue \o nodes /\ nextQueue' = <<>> /\ pc' = "round"
                ELSE queue' = Tail(queue) /\ nextQueue' = nextQueue \o nodes /\ UNCHANGED pc
    /\ UNCHANGED <<uses, change, call, todo, walk, size, round, impacted, lineage>>

\* Mutant: what other roots have led to is listed again.
KeepUnseenAll(seen, nodes) == seen \o nodes

\* The nodes that no earlier root has led to, after those that one has: the
\* loop over the nodes with its map of names seen.
KeepUnseen(seen, nodes) ==
    LET kept[k \in 0..Len(nodes)] ==
          IF k = 0 THEN seen
          ELSE IF nodes[k].name \in Listed(kept[k - 1]) THEN kept[k - 1]
          ELSE Append(kept[k - 1], nodes[k])
    IN  kept[Len(nodes)]

LineageDone ==
    /\ pc = "round" /\ call.op = "lineage" /\ ~MoreLineage
    /\ lineage' = [lineage EXCEPT ![walk.dir] = KeepUnseen(@, found)]
    /\ pc' = "next"
    /\ UNCHANGED <<uses, change, call, todo, walk, search, impacted>>

-----------------------------------------------------------------------------
Return ==
    /\ pc = "next" /\ todo = {}
    /\ pc' = "done"
    /\ UNCHANGED <<uses, change, call, todo, walk, search, impacted, lineage>>

Quiet == pc = "done" /\ UNCHANGED vars

Next ==
    \/ IdentifySchemaChange \/ StartImpact \/ ImpactRound \/ ImpactVisit \/ ImpactDone
    \/ GetLineage \/ StartLineage \/ LineageRound \/ LineageVisit \/ LineageDone
    \/ Return \/ Quiet

Spec == Init /\ [][Next]_vars

-----------------------------------------------------------------------------
\* The types one step of relation R away from S.
Succ(R, S) == {u \in Types : \E t \in S : <<t, u>> \in R}

\* The types at most k steps away from r in relation R, for k up to n; from the
\* number of all types on there are no more.
Balls(R, r, n) ==
    LET b[k \in 0..n] == IF k = 0 THEN {r} ELSE b[k - 1] \cup Succ(R, b[k - 1]) IN b
Ball(R, r) ==
    LET n == Cardinality(Types) IN [k \in Nat |-> Balls(R, r, n)[IF k < n THEN k ELSE n]]

\* Every variable has its type.
TypeOK ==
    /\ uses \in SUBSET (Messages \X Types)
    /\ change \in [Types -> Verdicts]
    /\ call \in [op : {"none", "impact", "lineage"}, limit : Nat, name : Names \cup {<<>>},
                 dirs : SUBSET Dirs]
    /\ pc \in {"idle", "next", "round", "visit", "done"}
    /\ todo \in SUBSET [root : Types, dir : Dirs]
    /\ walk \in [root : Types \cup {<<>>}, dir : Dirs]
    /\ visited \in SUBSET Types
    /\ size \in Nat /\ round \in Int
    /\ pc = "visit" => queue # <<>>
    /\ DOMAIN impacted \subseteq Types /\ DOMAIN lineage = Dirs

\* The impacted schemas of an updated schema are itself and the messages whose
\* fields lead to it in at most depth steps, each listed once; recursive
\* messages neither repeat nor hide anything (getDependentImpactedSchemas).
ImpactIsExact ==
    \A r \in DOMAIN impacted :
        /\ Range(impacted[r]) = Ball(ReverseDependencies, r)[call.limit]
        /\ \A i, j \in DOMAIN impacted[r] : impacted[r][i] = impacted[r][j] => i = j

\* As the docs put it, each changed schema is reported with the top-level
\* messages that lead to it through fields, those of nested messages included,
\* up to the depth, which counts the changed schema: "If depth is `2` then the
\* `impacted_schemas` for `Address` in below sample would contain only `Address`
\* and `Friend` message" (guides/5_schema_change.md).  "If empty or -1, it will
\* process all indirectly impacted schemas" (server/overview.md).
ImpactAsDocumented ==
    pc = "done" /\ call.op = "impact" /\ call.limit >= 1 =>
        \A r \in UpdatedSchemas(change) :
            LET far == IF call.limit = MaxInt32 THEN Cardinality(Types) ELSE call.limit - 1
            IN  /\ r \in DOMAIN impacted
                /\ {m \in Range(impacted[r]) : TopLevel(m)} =
                     {m \in Ball(ReverseDeps, r)[far] : TopLevel(m)}

\* The answer lists, once each, the types within the level of some root other
\* than that root (computeLineage).
LineageIsComplete ==
    pc = "done" /\ call.op = "lineage" =>
        \A d \in call.dirs :
            LET s == lineage[d]
            IN  /\ Listed(s) = UNION {Ball(Relation("lineage", d), r)[call.limit] \ {r} :
                                        r \in Roots(call.name)}
                /\ \A i, j \in DOMAIN s : s[i].name = s[j].name => i = j

\* The level of a type is its distance from a root that the request names, and
\* its path is a shortest one from that root, whatever other roots or cycles
\* lead to it (walkLineage).
LevelsAreDistances ==
    \A d \in Dirs : \A i \in DOMAIN lineage[d] :
        LET n == lineage[d][i]
            R == Relation("lineage", d)
            r == n.path[1]
        IN  /\ r \in Roots(call.name) /\ n.name = n.path[Len(n.path)]
            /\ Len(n.path) = n.level + 1 /\ n.level \in 1..call.limit
            /\ \A k \in 1..n.level : <<n.path[k], n.path[k + 1]>> \in R
            /\ n.name \notin Ball(R, r)[n.level - 1]
=============================================================================
