------------------------------ MODULE Registry ------------------------------
(***************************************************************************)
(* The schema registry server: concurrent requests of core/schema.Service  *)
(* and core/namespace.Service over the PostgreSQL repositories and the     *)
(* in-process cache.                                                       *)
(*                                                                         *)
(* A request is a process of Procs with a program counter.  Every SQL      *)
(* statement is one atomic step (READ COMMITTED); what the code computes   *)
(* between two statements is part of the step before.  The transaction of  *)
(* SchemaRepository.Create is the statements "txBegin", "txSchema",        *)
(* "txVersion" and "txCommit": its rows become visible at the commit, and  *)
(* the row of the schema stays locked from the upsert to the commit.       *)
(***************************************************************************)
EXTENDS Naturals, FiniteSets, Sequences

CONSTANTS
    Procs,       \* request handlers of the server
    Namespaces,  \* namespace ids, each a sequence of dash-free segments
    Names,       \* schema names, likewise
    Files,       \* schema contents; sf.ID is a hash of the content
    Formats,     \* serialisation formats
    Compats,     \* compatibility modes
    Parses,      \* <<format, file>> : ParseSchema(format, file) succeeds
    Allowed,     \* <<mode, new, prev>> : the checker of mode accepts new after prev
    NsSetup,     \* what the namespaces table may hold when the run starts
    Ops,         \* [Procs -> sets of operations]: who calls what
    MaxOps,      \* bound on the number of requests
    MaxFaults,   \* bound on database errors and server crashes
    Nil          \* the empty string, the missing row

Meta == [format : Formats, compat : Compats]
OpNames == {"create", "check", "get", "getLatest", "deleteSchema",
            "deleteVersion", "updateMetadata",
            "nsCreate", "nsUpdate", "nsDelete"}

ASSUME NilAssumption ==
    /\ Nil \notin Files \cup Formats \cup Compats
    /\ Nil \notin Meta
ASSUME BoundAssumption == MaxOps \in Nat /\ MaxFaults \in Nat
ASSUME NsSetupAssumption == NsSetup \subseteq [Namespaces -> Meta \cup {Nil}]
ASSUME OpsAssumption == Ops \in [Procs -> SUBSET OpNames]

(***************************************************************************)
(* Keys.  "%s-%s" joins a namespace and a schema name; with names written  *)
(* as sequences of dash-free segments the join is concatenation, and it    *)
(* is not injective.                                                       *)
(***************************************************************************)
Schemas == [ns : Namespaces, name : Names]
Joined(k) == k.ns \o k.name
JoinedNames == {Joined(k) : k \in Schemas}

\* Mutant: the namespace is left out of the hashed key.
VersionIDWithoutNamespace(k, f) == [joined |-> k.name, file |-> f]

\* getIDforSchema: SHA1 of "ns-schema-fileID", taken as injective.
VersionID(k, f) == [joined |-> Joined(k), file |-> f]
VersionIDs == [joined : JoinedNames, file : Files]

VARIABLES
    nsTab,     \* table namespaces: [Namespaces -> Meta or Nil]
    schemas,   \* table schemas: [Schemas -> Meta or Nil]
    versions,  \* table versions: rows [schema, version, id]
    vsf,       \* table versions_schema_files: rows [version_id, file]
    files,     \* table schema_files: ids
    cache,     \* ristretto: entries [joined, version, data]
    pc, req, loc, resp,  \* per handler: step, request, locals, response
    cand,      \* per handler: rows its running orphan DELETE has selected
    ops, faults,         \* requests accepted, failures so far
    stored     \* history: every version ever committed

tables == <<nsTab, schemas, versions, vsf, files>>
vars == <<nsTab, schemas, versions, vsf, files, cache, pc, req, loc, resp,
          cand, ops, faults, stored>>

-----------------------------------------------------------------------------
\* What the handlers keep.
CreateCalls ==
    [op : {"create"}, ns : Namespaces, name : Names, file : Files,
     version : {0}, format : Formats \cup {Nil}, compat : Compats \cup {Nil}]
CheckCalls ==
    [op : {"check"}, ns : Namespaces, name : Names, file : Files,
     version : {0}, format : {Nil}, compat : Compats \cup {Nil}]
VersionCalls ==
    [op : {"get", "deleteVersion"}, ns : Namespaces, name : Names,
     file : {Nil}, version : 1..MaxOps, format : {Nil}, compat : {Nil}]
SchemaCalls ==
    [op : {"getLatest", "deleteSchema"}, ns : Namespaces, name : Names,
     file : {Nil}, version : {0}, format : {Nil}, compat : {Nil}]
MetadataCalls ==
    [op : {"updateMetadata"}, ns : Namespaces, name : Names,
     file : {Nil}, version : {0}, format : {Nil}, compat : Compats]
NamespaceCalls ==
    [op : {"nsCreate", "nsUpdate"}, ns : Namespaces, name : {Nil},
     file : {Nil}, version : {0}, format : Formats, compat : Compats]
    \cup
    [op : {"nsDelete"}, ns : Namespaces, name : {Nil},
     file : {Nil}, version : {0}, format : {Nil}, compat : {Nil}]
Requests == CreateCalls \cup CheckCalls \cup VersionCalls \cup SchemaCalls
            \cup MetadataCalls \cup NamespaceCalls

Locals ==
    [format : Formats \cup {Nil},      \* merged format
     compat : Compats \cup {Nil},      \* merged compatibility
     ver : Nat,                        \* version number in hand
     prevFormat : Formats \cup {Nil},  \* prevMeta.Format
     id : VersionIDs \cup {Nil},       \* versionID inside repo.Get
     data : Files \cup {Nil},
     ret : {"reply", "check", "prev"}, \* who called GetLatest / Get
     status : {"ok", "unknown"}]       \* result of the delete statement

Statuses == {"none", "ok", "noRows", "conflict", "unknown", "parseError",
             "incompatible"}
Responses == [status : Statuses, version : Nat, data : Files \cup {Nil}]

ReadSteps == {"latest", "meta", "versionId", "data"}
PCs == {"idle", "namespace", "cacheGet", "cacheSet", "txBegin", "txSchema",
        "txVersion", "txCommit", "delete", "orphans", "sweep", "write"}
       \cup ReadSteps

NoLocals == [format |-> Nil, compat |-> Nil, ver |-> 0, prevFormat |-> Nil,
             id |-> Nil, data |-> Nil, ret |-> "reply", status |-> "ok"]
NoResponse == [status |-> "none", version |-> 0, data |-> Nil]

Key(p) == [ns |-> req[p].ns, name |-> req[p].name]
\* Mutant: no default.
GetFirst(a, b) == a
GetNonEmpty(a, b) == IF a # Nil THEN a ELSE b

\* The steps at which a handler's transaction holds the row of its schema
\* (or its unique-index entry, for a schema not committed yet).
HoldsRow(p) == pc[p] \in {"txVersion", "txCommit"}
Locked(k) == \E p \in Procs : HoldsRow(p) /\ Key(p) = k

\* schema_files rows a pending transaction references (FOR KEY SHARE).
FileLocked(f) == \E p \in Procs : pc[p] = "txCommit" /\ req[p].file = f

RowsOf(k) == {r \in versions : r.schema = k}
MaxVersion(k) ==
    IF RowsOf(k) = {} THEN 0
    ELSE CHOOSE v \in {r.version : r \in RowsOf(k)} :
           \A r \in RowsOf(k) : r.version <= v

Init ==
    /\ nsTab \in NsSetup
    /\ schemas = [k \in Schemas |-> Nil]
    /\ versions = {} /\ vsf = {} /\ files = {} /\ cache = {}
    /\ pc = [p \in Procs |-> "idle"]
    /\ req = [p \in Procs |-> Nil]
    /\ loc = [p \in Procs |-> NoLocals]
    /\ resp = [p \in Procs |-> NoResponse]
    /\ cand = [p \in Procs |-> {}]
    /\ ops = 0 /\ faults = 0
    /\ stored = {}

-----------------------------------------------------------------------------
(***************************************************************************)
(* Moves of a handler.  Goto and Reply set the control of p and nothing    *)
(* else; l are the locals it goes on with.                                 *)
(***************************************************************************)
Goto(p, step, l) ==
    /\ pc' = [pc EXCEPT ![p] = step]
    /\ loc' = [loc EXCEPT ![p] = l]
    /\ UNCHANGED <<req, resp, ops>>

Reply(p, status, v, d) ==
    /\ pc' = [pc EXCEPT ![p] = "idle"]
    /\ loc' = [loc EXCEPT ![p] = NoLocals]
    /\ resp' = [resp EXCEPT ![p] = [status |-> status, version |-> v, data |-> d]]
    /\ UNCHANGED <<req, ops>>

Fail(p, status) == Reply(p, status, 0, Nil)

FirstStep(op) ==
    CASE op \in {"create", "check"} -> "namespace"
      [] op = "get" -> "meta"
      [] op = "getLatest" -> "latest"
      [] op \in {"deleteSchema", "deleteVersion", "nsDelete"} -> "delete"
      [] op \in {"updateMetadata", "nsCreate", "nsUpdate"} -> "write"

\* A request arrives at an idle handler.
Start(p) ==
    /\ pc[p] = "idle" /\ ops < MaxOps
    /\ \E r \in {q \in Requests : q.op \in Ops[p]} :
         /\ req' = [req EXCEPT ![p] = r]
         /\ pc' = [pc EXCEPT ![p] = FirstStep(r.op)]
         /\ loc' = [loc EXCEPT ![p] = [NoLocals EXCEPT !.ver = r.version]]
    /\ resp' = [resp EXCEPT ![p] = NoResponse]
    /\ ops' = ops + 1
    /\ UNCHANGED <<tables, cache, cand, faults, stored>>

-----------------------------------------------------------------------------
(***************************************************************************)
(* Reading: Service.GetLatest, Get, withMetadata, cachedGetSchema and      *)
(* SchemaRepository.Get, called by the read requests (ret = "reply"), by   *)
(* checkCompatibility ("check") and by Create for the data that change     *)
(* detection compares with ("prev").                                       *)
(***************************************************************************)

\* After checkCompatibility returned nil.
Checked(p) ==
    IF req[p].op = "check"
    THEN Reply(p, "ok", 0, Nil)
    ELSE Goto(p, "latest", [loc[p] EXCEPT !.ret = "prev", !.data = Nil, !.id = Nil])

\* Mutant: a read that finds nothing starts over.
NotFoundRetries(p) ==
    IF loc[p].ret = "reply" THEN Goto(p, "latest", loc[p])
    ELSE IF loc[p].ret = "check" THEN Checked(p)
    ELSE Goto(p, "txBegin", [loc[p] EXCEPT !.ver = 0])

\* GetLatest / Get returned store.NoRowsErr: checkCompatibility takes it as
\* "no previous version".
NotFound(p) ==
    CASE loc[p].ret = "reply" -> Fail(p, "noRows")
      [] loc[p].ret = "check" -> Checked(p)
      [] loc[p].ret = "prev"  -> Goto(p, "txBegin", [loc[p] EXCEPT !.ver = 0])

\* Mutant: the checker gets its arguments the wrong way round.
GotSwapped(p, d) ==
    CASE loc[p].ret = "reply" -> Reply(p, "ok", loc[p].ver, d)
      [] loc[p].ret = "check" ->
           IF <<loc[p].prevFormat, d>> \notin Parses
           THEN Fail(p, "parseError")
           ELSE IF <<loc[p].compat, d, req[p].file>> \notin Allowed
           THEN Fail(p, "incompatible")
           ELSE Checked(p)
      [] loc[p].ret = "prev" -> Goto(p, "txBegin", [loc[p] EXCEPT !.ver = 0])

\* GetLatest / Get returned the data d.
Got(p, d) ==
    CASE loc[p].ret = "reply" -> Reply(p, "ok", loc[p].ver, d)
      [] loc[p].ret = "check" ->
           IF <<loc[p].prevFormat, d>> \notin Parses
           THEN Fail(p, "parseError")
           ELSE IF <<loc[p].compat, req[p].file, d>> \notin Allowed
           THEN Fail(p, "incompatible")
           ELSE Checked(p)
      [] loc[p].ret = "prev" -> Goto(p, "txBegin", [loc[p] EXCEPT !.ver = 0])

\* namespaceService.Get, the merge of the request with the namespace's
\* defaults, and ParseSchema.  Create parses with the merged format,
\* CheckCompatibility with the namespace's.
NamespaceGet(p) ==
    /\ pc[p] = "namespace"
    /\ LET row == nsTab[req[p].ns]
           format == GetNonEmpty(req[p].format, row.format)
       IN  IF row = Nil THEN Fail(p, "noRows")
           ELSE IF <<format, req[p].file>> \notin Parses THEN Fail(p, "parseError")
           ELSE Goto(p, "latest",
                     [loc[p] EXCEPT !.format = format, !.ret = "check",
                                    !.compat = GetNonEmpty(req[p].compat, row.compat)])
    /\ UNCHANGED <<tables, cache, cand, faults, stored>>

\* SELECT COALESCE(MAX(version), 0): 0, not NoRows, without a version.
GetLatestVersion(p) ==
    /\ pc[p] = "latest"
    /\ Goto(p, "meta", [loc[p] EXCEPT !.ver = MaxVersion(Key(p))])
    /\ UNCHANGED <<tables, cache, cand, faults, stored>>

GetMetadata(p) ==
    /\ pc[p] = "meta"
    /\ IF schemas[Key(p)] = Nil
       THEN NotFound(p)
       ELSE Goto(p, "cacheGet", [loc[p] EXCEPT !.prevFormat = schemas[Key(p)].format])
    /\ UNCHANGED <<tables, cache, cand, faults, stored>>

\* Mutant: the version is left out of the cache key.
CacheHitsAnyVersion(p) == {e \in cache : e.joined = Joined(Key(p))}

\* schemaKeyFunc: the cache key is "ns-schema-version".
CacheHits(p) == {e \in cache : e.joined = Joined(Key(p)) /\ e.version = loc[p].ver}

CacheGet(p) ==
    /\ pc[p] = "cacheGet"
    /\ \/ CacheHits(p) = {} /\ Goto(p, "versionId", loc[p])
       \/ \E e \in CacheHits(p) : Got(p, e.data)
    /\ UNCHANGED <<tables, cache, cand, faults, stored>>

\* The two queries of SchemaRepository.Get.
GetVersionID(p) ==
    /\ pc[p] = "versionId"
    /\ LET rows == {r \in RowsOf(Key(p)) : r.version = loc[p].ver}
       IN  \/ rows = {} /\ NotFound(p)
           \/ \E r \in rows : Goto(p, "data", [loc[p] EXCEPT !.id = r.id])
    /\ UNCHANGED <<tables, cache, cand, faults, stored>>

GetSchemaData(p) ==
    /\ pc[p] = "data"
    /\ LET rows == {m \in vsf : /\ m.version_id = loc[p].id
                                /\ m.file \in files
                                /\ \E r \in versions : r.id = m.version_id}
       IN  \/ rows = {} /\ NotFound(p)
           \/ \E m \in rows : Goto(p, "cacheSet", [loc[p] EXCEPT !.data = m.file])
    /\ UNCHANGED <<tables, cache, cand, faults, stored>>

\* Mutant: the entry is keyed by the latest version at the time of the Set.
CacheSetAsLatest(p) ==
    /\ pc[p] = "cacheSet"
    /\ cache' = (cache \ CacheHits(p)) \cup
         {[joined |-> Joined(Key(p)), version |-> MaxVersion(Key(p)), data |-> loc[p].data]}
    /\ Got(p, loc[p].data)
    /\ UNCHANGED <<tables, cand, faults, stored>>

\* cache.Set: ristretto may drop the entry.
CacheSet(p) ==
    /\ pc[p] = "cacheSet"
    /\ \/ cache' = (cache \ CacheHits(p)) \cup
                   {[joined |-> Joined(Key(p)), version |-> loc[p].ver, data |-> loc[p].data]}
       \/ cache' = cache
    /\ Got(p, loc[p].data)
    /\ UNCHANGED <<tables, cand, faults, stored>>

\* Ristretto evicts an entry.
Evict ==
    /\ \E e \in cache : cache' = cache \ {e}
    /\ UNCHANGED <<tables, pc, req, loc, resp, cand, ops, faults, stored>>

-----------------------------------------------------------------------------
(***************************************************************************)
(* SchemaRepository.Create: one transaction of three statements.           *)
(***************************************************************************)
CreateID(p) == VersionID(Key(p), req[p].file)

\* getSchemaVersionByID: a version id that exists ends the transaction.
TxBegin(p) ==
    /\ pc[p] = "txBegin"
    /\ LET rows == {r \in versions : r.id = CreateID(p)}
       IN  \/ rows = {} /\ Goto(p, "txSchema", loc[p])
           \/ \E r \in rows : Reply(p, "ok", r.version, Nil)
    /\ UNCHANGED <<tables, cache, cand, faults, stored>>

\* Mutant: the upsert leaves the row unlocked (ON CONFLICT DO NOTHING).
TxSchemaNoWait(p) ==
    /\ pc[p] = "txSchema"
    /\ IF nsTab[req[p].ns] = Nil
       THEN Fail(p, "unknown")
       ELSE Goto(p, "txVersion", loc[p])
    /\ UNCHANGED <<tables, cache, cand, faults, stored>>

\* schemaInsertQuery waits for the row while another transaction holds it;
\* without the namespace its foreign key fails.
TxSchema(p) ==
    /\ pc[p] = "txSchema"
    /\ ~Locked(Key(p))
    /\ IF nsTab[req[p].ns] = Nil
       THEN Fail(p, "unknown")
       ELSE Goto(p, "txVersion", loc[p])
    /\ UNCHANGED <<tables, cache, cand, faults, stored>>

\* versionInsertQuery waits while another transaction has a pending row with
\* the same version id or the same new file.
WaitsForPendingRow(p) ==
    \E q \in Procs \ {p} :
        /\ pc[q] = "txCommit"
        /\ \/ CreateID(q) = CreateID(p)
           \/ req[q].file = req[p].file /\ req[p].file \notin files

\* Mutant: the number is not incremented.
TxVersionSameNumber(p) ==
    /\ pc[p] = "txVersion"
    /\ ~WaitsForPendingRow(p)
    /\ LET v == MaxVersion(Key(p))
       IN  IF \E r \in versions : r.id = CreateID(p) \/ (r.schema = Key(p) /\ r.version = v)
           THEN Fail(p, "conflict")
           ELSE Goto(p, "txCommit", [loc[p] EXCEPT !.ver = v])
    /\ UNCHANGED <<tables, cache, cand, faults, stored>>

TxVersion(p) ==
    /\ pc[p] = "txVersion"
    /\ ~WaitsForPendingRow(p)
    /\ LET v == MaxVersion(Key(p)) + 1
       IN  IF \E r \in versions : r.id = CreateID(p) \/ (r.schema = Key(p) /\ r.version = v)
           THEN Fail(p, "conflict")
           ELSE Goto(p, "txCommit", [loc[p] EXCEPT !.ver = v])
    /\ UNCHANGED <<tables, cache, cand, faults, stored>>

\* Mutant: the map row is inserted only with a new file.
PublishMapsNewFile(p) ==
    /\ schemas' = IF schemas[Key(p)] # Nil THEN schemas
                  ELSE [schemas EXCEPT ![Key(p)] =
                          [format |-> loc[p].format, compat |-> loc[p].compat]]
    /\ versions' = versions \cup
         {[schema |-> Key(p), version |-> loc[p].ver, id |-> CreateID(p)]}
    /\ vsf' = vsf \cup {m \in {[version_id |-> CreateID(p), file |-> req[p].file]} :
                           m.file \notin files}
    /\ files' = files \cup {req[p].file}
    /\ stored' = stored \cup
         {[schema |-> Key(p), version |-> loc[p].ver, file |-> req[p].file,
           compat |-> loc[p].compat]}
    /\ UNCHANGED nsTab

\* The rows of the transaction become visible.  An existing schema row keeps
\* its metadata, an existing file is left alone.
Publish(p) ==
    /\ schemas' = IF schemas[Key(p)] # Nil THEN schemas
                  ELSE [schemas EXCEPT ![Key(p)] =
                          [format |-> loc[p].format, compat |-> loc[p].compat]]
    /\ versions' = versions \cup
         {[schema |-> Key(p), version |-> loc[p].ver, id |-> CreateID(p)]}
    /\ vsf' = vsf \cup {[version_id |-> CreateID(p), file |-> req[p].file]}
    /\ files' = files \cup {req[p].file}
    /\ stored' = stored \cup
         {[schema |-> Key(p), version |-> loc[p].ver, file |-> req[p].file,
           compat |-> loc[p].compat]}
    /\ UNCHANGED nsTab

TxCommit(p) ==
    /\ pc[p] = "txCommit"
    /\ Publish(p)
    /\ Reply(p, "ok", loc[p].ver, Nil)
    /\ UNCHANGED <<cache, cand, faults>>

-----------------------------------------------------------------------------
(***************************************************************************)
(* Deletes: one statement whose foreign keys cascade, then a second        *)
(* statement, deleteOrphanedData, whose result is ignored.                 *)
(***************************************************************************)
Cascade(rows) ==
    /\ versions' = versions \ rows
    /\ vsf' = {m \in vsf : \A r \in rows : r.id # m.version_id}

DeletedSchemas(p) ==
    {k \in Schemas : /\ k.ns = req[p].ns
                     /\ req[p].op = "nsDelete" \/ k.name = req[p].name
                     /\ schemas[k] # Nil}

\* A delete waits for the rows a transaction holds; a schema row that is not
\* committed yet holds the row of its namespace (FOR KEY SHARE).
DeleteSchema(p) ==
    /\ pc[p] = "delete" /\ req[p].op = "deleteSchema"
    /\ \A k \in DeletedSchemas(p) : ~Locked(k)
    /\ schemas' = [k \in Schemas |-> IF k \in DeletedSchemas(p) THEN Nil ELSE schemas[k]]
    /\ Cascade({r \in versions : r.schema \in DeletedSchemas(p)})
    /\ Goto(p, "orphans", loc[p])
    /\ UNCHANGED <<nsTab, files, cache, cand, faults, stored>>

NamespaceDelete(p) ==
    /\ pc[p] = "delete" /\ req[p].op = "nsDelete"
    /\ nsTab[req[p].ns] # Nil => \A k \in Schemas : k.ns = req[p].ns => ~Locked(k)
    /\ nsTab' = [nsTab EXCEPT ![req[p].ns] = Nil]
    /\ schemas' = [k \in Schemas |-> IF k \in DeletedSchemas(p) THEN Nil ELSE schemas[k]]
    /\ Cascade({r \in versions : r.schema \in DeletedSchemas(p)})
    /\ Goto(p, "orphans", loc[p])
    /\ UNCHANGED <<files, cache, cand, faults, stored>>

DeleteVersion(p) ==
    /\ pc[p] = "delete" /\ req[p].op = "deleteVersion"
    /\ Cascade({r \in RowsOf(Key(p)) : r.version = req[p].version})
    /\ Goto(p, "orphans", loc[p])
    /\ UNCHANGED <<nsTab, schemas, files, cache, cand, faults, stored>>

\* deleteOrphanedData reads the map in its snapshot ...
SelectOrphans(p) ==
    /\ pc[p] = "orphans"
    /\ cand' = [cand EXCEPT ![p] = {f \in files : \A m \in vsf : m.file # f}]
    /\ Goto(p, "sweep", loc[p])
    /\ UNCHANGED <<tables, cache, faults, stored>>

\* ... and deletes: it waits for a transaction that references a selected
\* row, and fails as a whole when a selected row is referenced by then.  A
\* row one sweep deletes is gone from the selection of every other.
Sweep(fs) ==
    /\ files' = files \ fs
    /\ cand' = [q \in Procs |-> cand[q] \ fs]

\* Mutant: no foreign key protects a row that is referenced again.
DeleteOrphansUnchecked(p) ==
    /\ pc[p] = "sweep"
    /\ Sweep(cand[p])
    /\ Reply(p, loc[p].status, 0, Nil)
    /\ UNCHANGED <<nsTab, schemas, versions, vsf, cache, faults, stored>>

DeleteOrphans(p) ==
    /\ pc[p] = "sweep"
    /\ \A f \in cand[p] : ~FileLocked(f)
    /\ IF \E m \in vsf : m.file \in cand[p]
       THEN files' = files /\ cand' = [cand EXCEPT ![p] = {}]
       ELSE Sweep(cand[p])
    /\ Reply(p, loc[p].status, 0, Nil)
    /\ UNCHANGED <<nsTab, schemas, versions, vsf, cache, faults, stored>>

\* The sweep of q deletes the file between p's ON CONFLICT DO NOTHING and the
\* foreign-key check of p's map row: p's transaction fails.
TxFileSwept(p, q) ==
    /\ pc[p] = "txVersion" /\ pc[q] = "sweep"
    /\ req[p].file \in cand[q]
    /\ \A f \in cand[q] : ~FileLocked(f)
    /\ \A m \in vsf : m.file \notin cand[q]
    /\ Sweep(cand[q])
    /\ Fail(p, "unknown")
    /\ UNCHANGED <<nsTab, schemas, versions, vsf, cache, faults, stored>>

-----------------------------------------------------------------------------
\* The single-statement writes: UpdateMetadata, which waits for the row, and
\* Create and Update of a namespace.
UpdateMetadata(p) ==
    /\ pc[p] = "write" /\ req[p].op = "updateMetadata"
    /\ IF schemas[Key(p)] = Nil
       THEN UNCHANGED schemas /\ Fail(p, "noRows")
       ELSE /\ ~Locked(Key(p))
            /\ schemas' = [schemas EXCEPT ![Key(p)].compat = req[p].compat]
            /\ Reply(p, "ok", 0, Nil)
    /\ UNCHANGED <<nsTab, versions, vsf, files, cache, cand, faults, stored>>

NamespaceRow(p) == [format |-> req[p].format, compat |-> req[p].compat]

NamespaceCreate(p) ==
    /\ pc[p] = "write" /\ req[p].op = "nsCreate"
    /\ IF nsTab[req[p].ns] # Nil
       THEN UNCHANGED nsTab /\ Fail(p, "conflict")
       ELSE nsTab' = [nsTab EXCEPT ![req[p].ns] = NamespaceRow(p)] /\ Reply(p, "ok", 0, Nil)
    /\ UNCHANGED <<schemas, versions, vsf, files, cache, cand, faults, stored>>

NamespaceUpdate(p) ==
    /\ pc[p] = "write" /\ req[p].op = "nsUpdate"
    /\ IF nsTab[req[p].ns] = Nil
       THEN UNCHANGED nsTab /\ Fail(p, "noRows")
       ELSE nsTab' = [nsTab EXCEPT ![req[p].ns] = NamespaceRow(p)] /\ Reply(p, "ok", 0, Nil)
    /\ UNCHANGED <<schemas, versions, vsf, files, cache, cand, faults, stored>>

-----------------------------------------------------------------------------
(***************************************************************************)
(* Failures.  A statement may return an error, a commit may be lost after  *)
(* it took effect, and the server may stop: handlers and cache vanish, the *)
(* open transactions roll back, the tables stay.                           *)
(***************************************************************************)
DbError(p) ==
    /\ pc[p] \notin {"idle", "cacheGet", "cacheSet"} /\ faults < MaxFaults
    /\ CASE pc[p] \in ReadSteps /\ loc[p].ret = "prev" ->
              Goto(p, "txBegin", [loc[p] EXCEPT !.ver = 0])
         [] pc[p] = "delete" -> Goto(p, "orphans", [loc[p] EXCEPT !.status = "unknown"])
         [] pc[p] \in {"orphans", "sweep"} -> Reply(p, loc[p].status, 0, Nil)
         [] OTHER -> Fail(p, "unknown")
    /\ cand' = [cand EXCEPT ![p] = {}]
    /\ faults' = faults + 1
    /\ UNCHANGED <<tables, cache, stored>>

CommitAnswerLost(p) ==
    /\ pc[p] = "txCommit" /\ faults < MaxFaults
    /\ Publish(p)
    /\ Fail(p, "unknown")
    /\ faults' = faults + 1
    /\ UNCHANGED <<cache, cand>>

Crash ==
    /\ faults < MaxFaults
    /\ pc' = [p \in Procs |-> "idle"]
    /\ loc' = [p \in Procs |-> NoLocals]
    /\ resp' = [p \in Procs |-> NoResponse]
    /\ cand' = [p \in Procs |-> {}]
    /\ cache' = {}
    /\ faults' = faults + 1
    /\ UNCHANGED <<tables, req, ops, stored>>

-----------------------------------------------------------------------------
\* The server is quiet and the run's requests are used up.
Quiet ==
    /\ ops = MaxOps /\ \A p \in Procs : pc[p] = "idle"
    /\ UNCHANGED vars

Read(p) ==
    \/ NamespaceGet(p) \/ GetLatestVersion(p) \/ GetMetadata(p)
    \/ CacheGet(p) \/ GetVersionID(p) \/ GetSchemaData(p) \/ CacheSet(p)
Tx(p) == TxBegin(p) \/ TxSchema(p) \/ TxVersion(p) \/ TxCommit(p)
Delete(p) ==
    \/ DeleteSchema(p) \/ NamespaceDelete(p) \/ DeleteVersion(p)
    \/ SelectOrphans(p) \/ DeleteOrphans(p)
Write(p) == UpdateMetadata(p) \/ NamespaceCreate(p) \/ NamespaceUpdate(p)

Handle(p) == Read(p) \/ Tx(p) \/ Delete(p) \/ Write(p)

Next ==
    \/ \E p \in Procs : Start(p) \/ Handle(p) \/ DbError(p) \/ CommitAnswerLost(p)
    \/ \E p, q \in Procs : TxFileSwept(p, q)
    \/ Evict \/ Crash \/ Quiet

Spec == Init /\ [][Next]_vars

\* The Go scheduler runs every handler, PostgreSQL serves every statement.
FairSpec == Spec /\ \A p \in Procs : WF_vars(Handle(p))

-----------------------------------------------------------------------------
(***************************************************************************)
(* Properties.                                                             *)
(***************************************************************************)
VersionRows == [schema : Schemas, version : Nat \ {0}, id : VersionIDs]
MapRows == [version_id : VersionIDs, file : Files]
CacheEntries == [joined : JoinedNames, version : Nat, data : Files]
StoredVersions == [schema : Schemas, version : Nat \ {0}, file : Files,
                   compat : Compats]

\* Every variable has its type, and a handler at work has the request and the
\* locals its step reads.
TypeOK ==
    /\ nsTab \in [Namespaces -> Meta \cup {Nil}]
    /\ schemas \in [Schemas -> Meta \cup {Nil}]
    /\ versions \subseteq VersionRows
    /\ vsf \subseteq MapRows
    /\ files \subseteq Files
    /\ cache \subseteq CacheEntries
    /\ pc \in [Procs -> PCs]
    /\ req \in [Procs -> Requests \cup {Nil}]
    /\ loc \in [Procs -> Locals]
    /\ resp \in [Procs -> Responses]
    /\ cand \in [Procs -> SUBSET Files]
    /\ ops \in Nat /\ faults \in Nat
    /\ stored \subseteq StoredVersions

\* No row of any table refers to a missing row, whatever deletes, sweeps,
\* errors and crashes the creates run into (SchemaRepository.Create, Delete,
\* DeleteVersion, NamespaceRepository.Delete and the foreign keys).
NoDanglingRows ==
    /\ \A k \in Schemas : schemas[k] # Nil => nsTab[k.ns] # Nil
    /\ \A r \in versions : schemas[r.schema] # Nil
    /\ \A m \in vsf : \E r \in versions : r.id = m.version_id
    /\ \A m \in vsf : m.file \in files

\* Every version a client can list can be read: its id leads to one map row
\* and to a file that deleteOrphanedData has left in place.
VersionsReadable ==
    \A r \in versions :
        \E m \in vsf : /\ m.version_id = r.id /\ m.file \in files
                       /\ \A n \in vsf : n.version_id = r.id => n = m

\* A schema has no two versions with the same number and no two with the same
\* content, however its creates interleave: the upload of a known content
\* "won't create new version again".
VersionsDistinct ==
    \A r, s \in versions :
        r.schema = s.schema /\ (r.version = s.version \/ r.id.file = s.id.file) => r = s

\* A create is refused with ConflictErr only because the same content was
\* stored under its version id; the locked schema row keeps the numbering of
\* concurrent creates from colliding.
ConflictMeansSameContent ==
    \A p \in Procs :
        req[p] # Nil /\ req[p].op = "create" /\ resp[p].status = "conflict" =>
            \E s \in stored : VersionID(s.schema, s.file) = CreateID(p)

\* A create that answers with a version number has stored, or found stored,
\* its content under that number of its schema.
CreatedIsStored ==
    \A p \in Procs :
        req[p] # Nil /\ req[p].op = "create" /\ resp[p].status = "ok" =>
            \E s \in stored : /\ s.schema = Key(p) /\ s.file = req[p].file
                              /\ s.version = resp[p].version

\* A read answers with content that was stored as that version of that
\* schema, whether it comes from the tables or from the cache.
ReadsWereStored ==
    \A p \in Procs :
        req[p] # Nil /\ req[p].op \in {"get", "getLatest"} /\ resp[p].status = "ok" =>
            \E s \in stored : /\ s.schema = Key(p) /\ s.file = resp[p].data
                              /\ s.version = resp[p].version

\* The cache agrees with the tables: an entry holds the content of the
\* version it is keyed by.
CacheIsCurrent ==
    \A e \in cache, r \in versions :
        e.joined = Joined(r.schema) /\ e.version = r.version => e.data = r.id.file

\* Each version is compatible with the version before it, under the mode its
\* create was subject to (checkCompatibility; glossary.md: "new version of a
\* schema would be compatible with earlier version of that schema").
SuccessiveCompatible ==
    \A s, t \in stored :
        s.schema = t.schema /\ t.version = s.version + 1 =>
            <<t.compat, t.file, s.file>> \in Allowed

\* A client that is alone reads as latest the content of the highest version
\* (clients/overview.md: "If new version is available latest file will point
\* to new descriptor file").
LatestIsNewest ==
    \A p \in Procs :
        /\ req[p] # Nil /\ req[p].op = "getLatest" /\ resp[p].status = "ok"
        => \E r \in RowsOf(Key(p)) : /\ r.version = MaxVersion(Key(p))
                                     /\ r.id.file = resp[p].data

(***************************************************************************)
(* The tables as the abstract store: a version row joined with its map row. *)
(***************************************************************************)
Contents ==
    {[schema |-> rm[1].schema, version |-> rm[1].version, file |-> rm[2].file] :
        rm \in {x \in versions \X vsf : x[1].id = x[2].version_id}}

Store == INSTANCE VersionStore WITH contents <- Contents

\* The registry implements the abstract store: a create takes effect at once
\* at its commit, as the newest version and with a new content; a delete
\* takes effect at its first statement; nothing else changes what is stored.
ImplementsVersionStore == Store!Spec

\* Every request is answered: no handler waits forever for a row lock, a
\* pending row or a swept file, and no two wait for each other.
RequestsAnswered == \A p \in Procs : pc[p] # "idle" ~> pc[p] = "idle"
=============================================================================
