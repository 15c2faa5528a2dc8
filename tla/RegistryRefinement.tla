------------------------- MODULE RegistryRefinement -------------------------
(***************************************************************************)
(* Registry implements VersionStore: the commit of a create is a Publish,  *)
(* the first statement of a delete is a Remove or a RemoveAll, and every   *)
(* other step leaves the contents alone.                                   *)
(***************************************************************************)
EXTENDS RegistryIntegrity

Entry(r) == [schema |-> r.schema, version |-> r.version, file |-> r.id.file]

\* The join of versions and map rows is the versions, each with the file its
\* id was made from.
LEMMA ContentsRows == RowsOK => Contents = {Entry(r) : r \in versions}
<1> SUFFICES ASSUME RowsOK
             PROVE  Contents = {Entry(r) : r \in versions}
  OBVIOUS
<1>1. ASSUME NEW r \in versions PROVE Entry(r) \in Contents
  <2> DEFINE m == [version_id |-> r.id, file |-> r.id.file]
  <2>1. m \in vsf
    BY DEF RowsOK
  <2>2. <<r, m>> \in {x \in versions \X vsf : x[1].id = x[2].version_id}
    BY <2>1
  <2> QED
    BY <2>2 DEF Contents, Entry
<1>2. ASSUME NEW e \in Contents PROVE \E r \in versions : e = Entry(r)
  <2>1. PICK x \in {y \in versions \X vsf : y[1].id = y[2].version_id} :
           e = [schema |-> x[1].schema, version |-> x[1].version, file |-> x[2].file]
    BY <1>2 DEF Contents
  <2>2. x[1] \in versions /\ x[2] \in vsf /\ x[1].id = x[2].version_id
    BY <2>1
  <2>3. x[2].file = x[1].id.file
    BY <2>2 DEF RowsOK
  <2> QED
    BY <2>1, <2>2, <2>3 DEF Entry
<1> QED
  BY <1>1, <1>2

LEMMA ContentsNext == RowsOK' => Contents' = {Entry(r) : r \in versions'}
<1>1. (RowsOK => Contents = {Entry(r) : r \in versions})'
  BY ContentsRows, PTL
<1> QED
  BY <1>1 DEF Entry

\* A step that leaves the version rows alone leaves the contents alone.
LEMMA SameRows ==
    ASSUME RowsOK, RowsOK', versions' = versions
    PROVE  UNCHANGED Contents
  BY ContentsRows, ContentsNext

\* The commit of a create publishes: its number is above every number of the
\* schema, and none of the schema's versions has its content.
LEMMA PublishRefines ==
    ASSUME TInv, IInv, RowsOK', NEW p \in Procs, pc[p] = "txCommit", Publish(p)
    PROVE  Store!Next
<1> DEFINE row == [schema |-> Key(p), version |-> loc[p].ver, id |-> CreateID(p)]
           n == [schema |-> Key(p), version |-> loc[p].ver, file |-> req[p].file]
<1>1. /\ loc[p].ver \in Nat \ {0} /\ Key(p) \in Schemas /\ req[p].file \in Files
      /\ versions \subseteq VersionRows
  BY HandlerFacts DEF TInv, HandlerOK, TxSteps, Locals, Tables
<1>2. n \in Store!Entries
  BY <1>1 DEF Store!Entries
<1>3. Entry(row) = n
  BY DEF Entry, CreateID, VersionID
<1>4. Contents' = Contents \cup {n}
  <2>1. versions' = versions \cup {row}
    BY DEF Publish
  <2> HIDE DEF row, n
  <2> QED
    BY <1>3, <2>1, ContentsRows, ContentsNext DEF IInv
<1>5. ASSUME NEW e \in Contents, e.schema = n.schema
      PROVE  e.version < n.version /\ e.file # n.file
  <2>1. PICK r \in versions : e = Entry(r)
    BY ContentsRows DEF IInv
  <2>2. r.schema = Key(p) /\ e.version = r.version /\ e.file = r.id.file
    BY <1>5, <2>1 DEF Entry
  <2>3. r.id # CreateID(p) /\ r.version < loc[p].ver
    BY <2>2 DEF IInv, TxOK
  <2>4. r.id.joined = Joined(Key(p)) /\ r.id = [joined |-> r.id.joined, file |-> r.id.file]
    BY <1>1, <2>2 DEF IInv, RowsOK, VersionRows, VersionIDs
  <2> QED
    BY <2>2, <2>3, <2>4 DEF CreateID, VersionID
<1>6. Store!Publish(n)
  BY <1>2, <1>4, <1>5 DEF Store!Publish
<1> QED
  BY <1>4, <1>6 DEF Store!Next

\* Deleting schemas or a namespace removes all versions of the schemas.
LEMMA RemoveAllRefines ==
    ASSUME RowsOK, RowsOK', NEW ks \in SUBSET Schemas,
           versions' = versions \ {r \in versions : r.schema \in ks}
    PROVE  Store!Next
<1>1. Contents' = {e \in Contents : e.schema \notin ks}
  <2>1. \A r : Entry(r).schema = r.schema
    BY DEF Entry
  <2> QED
    BY <2>1, ContentsRows, ContentsNext
<1> QED
  BY <1>1 DEF Store!Next, Store!RemoveAll

\* Deleting a version removes the one row with its number, if there is one.
LEMMA RemoveRefines ==
    ASSUME IInv, RowsOK', NEW k, NEW v,
           versions' = versions \ {r \in RowsOf(k) : r.version = v}
    PROVE  Store!Next \/ UNCHANGED Contents
<1>1. CASE {r \in RowsOf(k) : r.version = v} = {}
  BY <1>1, SameRows DEF IInv
<1>2. CASE {r \in RowsOf(k) : r.version = v} # {}
  <2>1. PICK d \in versions : d.schema = k /\ d.version = v
    BY <1>2 DEF RowsOf
  <2>2. versions' = versions \ {d}
    BY <2>1 DEF RowsOf, IInv, RowsOK
  <2>3. \A r \in versions : Entry(r) = Entry(d) => r = d
    BY <2>1 DEF Entry, IInv, RowsOK
  <2>4. Contents' = Contents \ {Entry(d)}
    BY <2>2, <2>3, ContentsRows, ContentsNext DEF IInv
  <2>5. Entry(d) \in Contents
    BY <2>1, ContentsRows DEF IInv
  <2> QED
    BY <2>4, <2>5 DEF Store!Next, Store!Remove
<1> QED
  BY <1>1, <1>2

LEMMA DeleteRefines ==
    ASSUME IInv, RowsOK', NEW p \in Procs, Delete(p)
    PROVE  Store!Next \/ UNCHANGED Contents
<1>1. DeletedSchemas(p) \in SUBSET Schemas
  BY DEF DeletedSchemas
<1>2. CASE DeleteSchema(p) \/ NamespaceDelete(p)
  BY <1>1, <1>2, RemoveAllRefines DEF DeleteSchema, NamespaceDelete, Cascade, IInv
<1>3. CASE DeleteVersion(p)
  BY <1>3, RemoveRefines DEF DeleteVersion, Cascade
<1>4. CASE SelectOrphans(p) \/ DeleteOrphans(p)
  BY <1>4, SameRows DEF SelectOrphans, DeleteOrphans, tables, IInv
<1> QED
  BY <1>2, <1>3, <1>4 DEF Delete

LEMMA StepRefines ==
    ASSUME TInv, IInv, IInv', [Next]_vars
    PROVE  [Store!Next]_Contents
<1> USE DEF IInv
<1>1. ASSUME NEW p \in Procs, Start(p) \/ Read(p) \/ Write(p) \/ DbError(p)
      PROVE  UNCHANGED Contents
  BY <1>1, SameRows DEF Start, Read, NamespaceGet, GetLatestVersion, GetMetadata, CacheGet,
     GetVersionID, GetSchemaData, CacheSet, Write, UpdateMetadata, NamespaceCreate,
     NamespaceUpdate, DbError, tables
<1>2. ASSUME NEW p \in Procs, Tx(p) PROVE Store!Next \/ UNCHANGED Contents
  <2>1. CASE TxBegin(p) \/ TxSchema(p) \/ TxVersion(p)
    BY <2>1, SameRows DEF TxBegin, TxSchema, TxVersion, tables
  <2>2. CASE TxCommit(p)
    BY <2>2, PublishRefines DEF TxCommit
  <2> QED
    BY <1>2, <2>1, <2>2 DEF Tx
<1>3. ASSUME NEW p \in Procs, Delete(p) PROVE Store!Next \/ UNCHANGED Contents
  BY <1>3, DeleteRefines
<1>4. ASSUME NEW p \in Procs, CommitAnswerLost(p) PROVE Store!Next
  BY <1>4, PublishRefines DEF CommitAnswerLost
<1>5. ASSUME NEW p \in Procs, NEW q \in Procs, TxFileSwept(p, q) PROVE UNCHANGED Contents
  BY <1>5, SameRows DEF TxFileSwept
<1>6. CASE Evict \/ Crash \/ UNCHANGED vars
  BY <1>6, SameRows DEF Evict, Crash, vars, tables
<1> QED
  BY <1>1, <1>2, <1>3, <1>4, <1>5, <1>6 DEF Next, Handle, Quiet

(***************************************************************************)
(* The registry implements the abstract store, whatever the interleaving   *)
(* of creates (SchemaRepository.Create), deletes and sweeps, the database  *)
(* errors and the crashes.                                                 *)
(***************************************************************************)
THEOREM Refinement == Spec => ImplementsVersionStore
<1>1. Init => Store!Init
  BY DEF Init, Store!Init, Contents
<1>2. TInv /\ IInv /\ IInv' /\ [Next]_vars => [Store!Next]_Contents
  BY StepRefines
<1> QED
  BY <1>1, <1>2, Invariance, PTL DEF Spec, ImplementsVersionStore, Store!Spec
=============================================================================
