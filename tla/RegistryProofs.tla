--------------------------- MODULE RegistryProofs ---------------------------
(***************************************************************************)
(* Proofs about Registry, for every set of handlers, names, files, formats *)
(* and modes and for every bound.                                          *)
(***************************************************************************)
EXTENDS Registry, TLAPS, WellFoundedInduction

(***************************************************************************)
(* What a handler at a step knows of its request and its locals.           *)
(***************************************************************************)
TxSteps == {"txBegin", "txSchema", "txVersion", "txCommit"}
DataSteps == ReadSteps \cup {"cacheGet", "cacheSet"}
Merged(l) == l.format \in Formats /\ l.compat \in Compats

HandlerOK(step, r, l) ==
    step # "idle" =>
        /\ r \in Requests
        /\ step = "namespace" => r.op \in {"create", "check"}
        /\ step \in DataSteps =>
             \/ l.ret = "reply" /\ r.op \in {"get", "getLatest"}
             \/ l.ret = "check" /\ r.op \in {"create", "check"} /\ Merged(l)
             \/ l.ret = "prev" /\ r.op = "create" /\ Merged(l)
        /\ step = "cacheSet" => l.data \in Files
        /\ step \in TxSteps => r.op = "create" /\ Merged(l)
        /\ step = "txCommit" => l.ver # 0
        /\ step \in {"delete", "orphans", "sweep"} =>
             r.op \in {"deleteSchema", "deleteVersion", "nsDelete"}
        /\ step = "write" => r.op \in {"updateMetadata", "nsCreate", "nsUpdate"}

Control ==
    /\ pc \in [Procs -> PCs]
    /\ req \in [Procs -> Requests \cup {Nil}]
    /\ loc \in [Procs -> Locals]
    /\ resp \in [Procs -> Responses]
    /\ ops \in Nat
    /\ \A p \in Procs : HandlerOK(pc[p], req[p], loc[p])

\* The version numbers have an upper bound, so that each schema's set of
\* numbers has a greatest element.
Bounded == \E b \in Nat : \A r \in versions : r.version <= b

Tables ==
    /\ nsTab \in [Namespaces -> Meta \cup {Nil}]
    /\ schemas \in [Schemas -> Meta \cup {Nil}]
    /\ versions \subseteq VersionRows
    /\ vsf \subseteq MapRows
    /\ files \subseteq Files
    /\ cache \subseteq CacheEntries
    /\ cand \in [Procs -> SUBSET Files]
    /\ faults \in Nat
    /\ stored \subseteq StoredVersions
    /\ Bounded

-----------------------------------------------------------------------------
(***************************************************************************)
(* Every nonempty set of naturals with an upper bound has a greatest       *)
(* element: the least upper bound belongs to the set.                      *)
(***************************************************************************)
LEMMA MaximumExists ==
    ASSUME NEW S \in SUBSET Nat, S # {},
           NEW b \in Nat, \A s \in S : s <= b
    PROVE  \E m \in S : \A s \in S : s <= m
<1> DEFINE U == {u \in Nat : \A s \in S : s <= u}
<1> DEFINE R == OpToRel(<, Nat)
<1>1. U \subseteq Nat /\ U # {}
  OBVIOUS
<1>2. PICK u \in U : \A y \in U : <<y, u>> \notin R
  <2> HIDE DEF U, R
  <2>1. IsWellFoundedOn(R, Nat)
    BY NatLessThanWellFounded DEF R
  <2> QED
    BY <1>1, <2>1, WFMin
<1>3. \A y \in U : ~(y < u)
  BY <1>2 DEF OpToRel
<1>4. u \in S
  <2> SUFFICES ASSUME u \notin S PROVE FALSE
    OBVIOUS
  <2>1. PICK s \in S : TRUE
    OBVIOUS
  <2>2. u \in Nat /\ s \in Nat /\ s < u
    BY <2>1
  <2>3. u - 1 \in Nat /\ \A t \in S : t <= u - 1
    BY <2>2
  <2> QED
    BY <1>3, <2>2, <2>3
<1> QED
  BY <1>4

(***************************************************************************)
(* The fields of a request, by operation.                                  *)
(***************************************************************************)
LEMMA RequestFields ==
    ASSUME NEW r \in Requests
    PROVE  /\ r.op \in OpNames /\ r.ns \in Namespaces /\ r.version \in Nat
           /\ r.format \in Formats \cup {Nil} /\ r.compat \in Compats \cup {Nil}
           /\ r.op \notin {"nsCreate", "nsUpdate", "nsDelete"} =>
                [ns |-> r.ns, name |-> r.name] \in Schemas
           /\ r.op \in {"create", "check"} => r.file \in Files
           /\ r.op = "updateMetadata" => r.compat \in Compats
           /\ r.op \in {"nsCreate", "nsUpdate"} => r.format \in Formats /\ r.compat \in Compats
  BY BoundAssumption DEF Requests, CreateCalls, CheckCalls, VersionCalls, SchemaCalls,
     MetadataCalls, NamespaceCalls, Schemas, OpNames

(***************************************************************************)
(* Moving a handler to a step that suits it keeps the control in order.    *)
(***************************************************************************)
LEMMA GotoKeepsControl ==
    ASSUME Control, NEW p \in Procs, NEW step \in PCs, NEW l \in Locals,
           Goto(p, step, l), HandlerOK(step, req[p], l)
    PROVE  Control'
  BY DEF Control, Goto

LEMMA ReplyKeepsControl ==
    ASSUME Control, NEW p \in Procs, NEW status \in Statuses, NEW v \in Nat,
           NEW d \in Files \cup {Nil}, Reply(p, status, v, d)
    PROVE  Control'
<1>1. NoLocals \in Locals
  BY DEF NoLocals, Locals
<1>2. [status |-> status, version |-> v, data |-> d] \in Responses
  BY DEF Responses
<1> QED
  BY <1>1, <1>2 DEF Control, Reply, HandlerOK, PCs

LEMMA FailKeepsControl ==
    ASSUME Control, NEW p \in Procs, NEW status \in Statuses, Fail(p, status)
    PROVE  Control'
  BY ReplyKeepsControl DEF Fail

LEMMA CheckedKeepsControl ==
    ASSUME Control, NEW p \in Procs, pc[p] \in DataSteps, loc[p].ret = "check", Checked(p)
    PROVE  Control'
<1>1. loc[p] \in Locals /\ HandlerOK(pc[p], req[p], loc[p]) /\ pc[p] # "idle"
  BY DEF Control, DataSteps, ReadSteps
<1> DEFINE l == [loc[p] EXCEPT !.ret = "prev", !.data = Nil, !.id = Nil]
<1>2. l \in Locals /\ l.ret = "prev" /\ l.format = loc[p].format /\ l.compat = loc[p].compat
  BY <1>1 DEF Locals
<1>3. CASE req[p].op = "check"
  BY <1>3, ReplyKeepsControl DEF Checked, Statuses
<1>4. CASE req[p].op # "check"
  <2> HIDE DEF l
  <2>1. HandlerOK("latest", req[p], l)
    BY <1>1, <1>2, <1>4 DEF HandlerOK, DataSteps, ReadSteps, TxSteps, Merged
  <2>2. Goto(p, "latest", l)
    BY <1>4 DEF Checked, l
  <2> QED
    BY <1>2, <2>1, <2>2, GotoKeepsControl DEF PCs, ReadSteps
<1> QED
  BY <1>3, <1>4

\* Create goes on with its transaction once change detection has its data.
LEMMA ToTxKeepsControl ==
    ASSUME Control, NEW p \in Procs, pc[p] \in DataSteps, loc[p].ret = "prev",
           Goto(p, "txBegin", [loc[p] EXCEPT !.ver = 0])
    PROVE  Control'
<1>1. loc[p] \in Locals /\ HandlerOK(pc[p], req[p], loc[p]) /\ pc[p] # "idle"
  BY DEF Control, DataSteps, ReadSteps
<1> DEFINE l == [loc[p] EXCEPT !.ver = 0]
<1>2. l \in Locals /\ l.format = loc[p].format /\ l.compat = loc[p].compat
  BY <1>1 DEF Locals
<1> HIDE DEF l
<1>3. HandlerOK("txBegin", req[p], l)
  BY <1>1, <1>2 DEF HandlerOK, DataSteps, ReadSteps, TxSteps, Merged
<1> QED
  BY <1>2, <1>3, GotoKeepsControl DEF PCs, l

LEMMA NotFoundKeepsControl ==
    ASSUME Control, NEW p \in Procs, pc[p] \in DataSteps, NotFound(p)
    PROVE  Control'
<1>1. loc[p].ret \in {"reply", "check", "prev"}
  BY DEF Control, Locals
<1>2. CASE loc[p].ret = "reply"
  BY <1>2, FailKeepsControl DEF NotFound, Statuses
<1>3. CASE loc[p].ret = "check"
  BY <1>3, CheckedKeepsControl DEF NotFound
<1>4. CASE loc[p].ret = "prev"
  BY <1>4, ToTxKeepsControl DEF NotFound
<1> QED
  BY <1>1, <1>2, <1>3, <1>4

LEMMA GotKeepsControl ==
    ASSUME Control, NEW p \in Procs, pc[p] \in DataSteps, NEW d \in Files, Got(p, d)
    PROVE  Control'
<1>1. loc[p].ret \in {"reply", "check", "prev"} /\ loc[p].ver \in Nat
  BY DEF Control, Locals
<1>2. CASE loc[p].ret = "reply"
  BY <1>1, <1>2, ReplyKeepsControl DEF Got, Statuses
<1>3. CASE loc[p].ret = "check"
  <2>1. Fail(p, "parseError") \/ Fail(p, "incompatible") \/ Checked(p)
    BY <1>3 DEF Got
  <2> QED
    BY <1>3, <2>1, FailKeepsControl, CheckedKeepsControl DEF Statuses
<1>4. CASE loc[p].ret = "prev"
  BY <1>4, ToTxKeepsControl DEF Got
<1> QED
  BY <1>1, <1>2, <1>3, <1>4

-----------------------------------------------------------------------------
(***************************************************************************)
(* The type invariant, with the control invariant it rests on.             *)
(***************************************************************************)
TInv == Control /\ Tables

LEMMA InitType == Init => TInv
<1>1. NoLocals \in Locals /\ NoResponse \in Responses
  BY DEF NoLocals, Locals, NoResponse, Responses, Statuses
<1> QED
  BY <1>1, NsSetupAssumption DEF Init, TInv, Control, Tables, Bounded, HandlerOK, PCs

LEMMA StartType ==
    ASSUME TInv, NEW p \in Procs, Start(p)
    PROVE  TInv'
<1>1. PICK r \in Requests :
         /\ req' = [req EXCEPT ![p] = r]
         /\ pc' = [pc EXCEPT ![p] = FirstStep(r.op)]
         /\ loc' = [loc EXCEPT ![p] = [NoLocals EXCEPT !.ver = r.version]]
  BY DEF Start
<1> DEFINE l == [NoLocals EXCEPT !.ver = r.version]
<1>2. r.op \in OpNames /\ r.version \in Nat
  BY RequestFields
<1>3. l \in Locals /\ l.ret = "reply"
  BY <1>2 DEF NoLocals, Locals
<1>4. FirstStep(r.op) \in PCs /\ HandlerOK(FirstStep(r.op), r, l)
  BY <1>2, <1>3 DEF FirstStep, OpNames, PCs, ReadSteps, HandlerOK, DataSteps, TxSteps
<1>5. NoResponse \in Responses
  BY DEF NoResponse, Responses, Statuses
<1>6. Control'
  <2> HIDE DEF l
  <2>0. loc' = [loc EXCEPT ![p] = l]
    BY <1>1 DEF l
  <2>1. /\ pc' \in [Procs -> PCs] /\ req' \in [Procs -> Requests \cup {Nil}]
        /\ loc' \in [Procs -> Locals] /\ resp' \in [Procs -> Responses] /\ ops' \in Nat
    BY <1>1, <2>0, <1>3, <1>4, <1>5 DEF TInv, Control, Start
  <2>2. ASSUME NEW q \in Procs PROVE HandlerOK(pc'[q], req'[q], loc'[q])
    <3>1. CASE q = p
      <4>1. pc'[q] = FirstStep(r.op) /\ req'[q] = r /\ loc'[q] = l
        BY <1>1, <2>0, <3>1 DEF TInv, Control
      <4> QED BY <4>1, <1>4
    <3>2. CASE q # p
      <4>1. pc'[q] = pc[q] /\ req'[q] = req[q] /\ loc'[q] = loc[q]
        BY <1>1, <2>0, <3>2 DEF TInv, Control
      <4> QED BY <4>1 DEF TInv, Control
    <3> QED BY <3>1, <3>2
  <2> QED
    BY <2>1, <2>2 DEF Control
<1> QED
  BY <1>6 DEF TInv, Tables, Bounded, Start, tables

\* The facts every step of a handler starts from.
LEMMA HandlerFacts ==
    ASSUME Control, NEW p \in Procs, pc[p] # "idle"
    PROVE  /\ req[p] \in Requests /\ loc[p] \in Locals
           /\ HandlerOK(pc[p], req[p], loc[p])
           /\ req[p].ns \in Namespaces
           /\ pc[p] \in DataSteps \cup TxSteps \cup {"namespace"} => Key(p) \in Schemas
           /\ pc[p] \in TxSteps \cup {"namespace"} => req[p].file \in Files
<1>1. req[p] \in Requests /\ loc[p] \in Locals /\ HandlerOK(pc[p], req[p], loc[p])
  BY DEF Control, HandlerOK
<1> QED
  BY <1>1, RequestFields DEF HandlerOK, Key, DataSteps, TxSteps, ReadSteps

LEMMA NamespaceGetType ==
    ASSUME TInv, NEW p \in Procs, NamespaceGet(p)
    PROVE  TInv'
<1> DEFINE row == nsTab[req[p].ns]
           format == GetNonEmpty(req[p].format, row.format)
           l == [loc[p] EXCEPT !.format = format, !.ret = "check",
                               !.compat = GetNonEmpty(req[p].compat, row.compat)]
<1>1. Control /\ Tables /\ pc[p] = "namespace"
  BY DEF TInv, NamespaceGet
<1>2. req[p] \in Requests /\ loc[p] \in Locals /\ HandlerOK("namespace", req[p], loc[p])
  BY <1>1, HandlerFacts
<1>3. Fail(p, "noRows") \/ Fail(p, "parseError") \/ (row # Nil /\ Goto(p, "latest", l))
  BY DEF NamespaceGet
<1>4. CASE Fail(p, "noRows") \/ Fail(p, "parseError")
  <2>1. Control'
    BY <1>1, <1>4, FailKeepsControl DEF Statuses
  <2> QED
    BY <1>1, <2>1 DEF TInv, Tables, Bounded, NamespaceGet, tables
<1>5. CASE row # Nil /\ Goto(p, "latest", l)
  <2>1. row \in Meta
    BY <1>1, <1>2, <1>5, RequestFields DEF Tables
  <2>2. row.format \in Formats /\ row.compat \in Compats
    BY <2>1 DEF Meta
  <2>3. /\ format \in Formats
        /\ GetNonEmpty(req[p].compat, row.compat) \in Compats
    BY <1>2, <2>2, RequestFields, NilAssumption DEF GetNonEmpty
  <2>4. l \in Locals /\ l.ret = "check" /\ Merged(l)
    <3> HIDE DEF row, format
    <3> QED BY <1>2, <2>3 DEF Locals, Merged
  <2>5. HandlerOK("latest", req[p], l)
    <3> HIDE DEF l
    <3> QED BY <1>2, <2>4 DEF HandlerOK, DataSteps, ReadSteps, TxSteps
  <2>6. Control'
    <3> HIDE DEF l
    <3> QED BY <1>1, <1>5, <2>4, <2>5, GotoKeepsControl DEF PCs, ReadSteps
  <2> QED
    BY <1>1, <2>6 DEF TInv, Tables, Bounded, NamespaceGet, tables
<1> QED
  BY <1>3, <1>4, <1>5

(***************************************************************************)
(* MaxVersion is the greatest version number, once the numbers are bounded. *)
(***************************************************************************)
LEMMA MaxVersionIsMax ==
    ASSUME versions \subseteq VersionRows, Bounded, NEW k
    PROVE  /\ MaxVersion(k) \in Nat
           /\ \A r \in versions : r.schema = k => r.version <= MaxVersion(k)
<1> DEFINE S == {r.version : r \in RowsOf(k)}
<1>1. CASE RowsOf(k) = {}
  BY <1>1 DEF MaxVersion, RowsOf
<1>2. CASE RowsOf(k) # {}
  <2>1. S \in SUBSET Nat /\ S # {}
    BY <1>2 DEF RowsOf, VersionRows
  <2>2. PICK b \in Nat : \A s \in S : s <= b
    BY DEF Bounded, RowsOf
  <2>3. \E m \in S : \A s \in S : s <= m
    <3> HIDE DEF S
    <3> QED BY <2>1, <2>2, MaximumExists
  <2>4. MaxVersion(k) = CHOOSE v \in S : \A r \in RowsOf(k) : r.version <= v
    BY <1>2 DEF MaxVersion
  <2>5. \E v \in S : \A r \in RowsOf(k) : r.version <= v
    BY <2>3
  <2>6. MaxVersion(k) \in S /\ \A r \in RowsOf(k) : r.version <= MaxVersion(k)
    <3> HIDE DEF S
    <3> QED BY <2>4, <2>5
  <2> QED
    BY <2>1, <2>6 DEF RowsOf
<1> QED
  BY <1>1, <1>2

\* A handler that moves on with locals that differ only in what the next step
\* may overwrite.
LEMMA ReadMoves ==
    ASSUME Control, NEW p \in Procs, pc[p] \in DataSteps, NEW step \in DataSteps,
           NEW l \in Locals, l.ret = loc[p].ret, l.format = loc[p].format,
           l.compat = loc[p].compat, step = "cacheSet" => l.data \in Files,
           Goto(p, step, l)
    PROVE  Control'
<1>1. HandlerOK(pc[p], req[p], loc[p]) /\ pc[p] # "idle"
  BY DEF Control, DataSteps, ReadSteps
<1>2. HandlerOK(step, req[p], l)
  BY <1>1 DEF HandlerOK, DataSteps, ReadSteps, TxSteps, Merged
<1> QED
  BY <1>2, GotoKeepsControl DEF PCs, DataSteps

LEMMA GetLatestVersionType ==
    ASSUME TInv, NEW p \in Procs, GetLatestVersion(p)
    PROVE  TInv'
<1> DEFINE l == [loc[p] EXCEPT !.ver = MaxVersion(Key(p))]
<1>1. Control /\ Tables /\ pc[p] = "latest" /\ loc[p] \in Locals
  BY HandlerFacts DEF TInv, GetLatestVersion
<1>2. MaxVersion(Key(p)) \in Nat
  BY <1>1, MaxVersionIsMax DEF Tables
<1>3. l \in Locals /\ l.ret = loc[p].ret /\ l.format = loc[p].format /\ l.compat = loc[p].compat
  BY <1>1, <1>2 DEF Locals
<1>4. Goto(p, "meta", l)
  BY DEF GetLatestVersion
<1> HIDE DEF l
<1>5. Control'
  BY <1>1, <1>3, <1>4, ReadMoves DEF DataSteps, ReadSteps
<1> QED
  BY <1>1, <1>5 DEF TInv, Tables, Bounded, GetLatestVersion, tables

LEMMA GetMetadataType ==
    ASSUME TInv, NEW p \in Procs, GetMetadata(p)
    PROVE  TInv'
<1>1. Control /\ Tables /\ pc[p] = "meta"
  BY DEF TInv, GetMetadata
<1>2. loc[p] \in Locals /\ Key(p) \in Schemas
  BY <1>1, HandlerFacts DEF DataSteps, ReadSteps
<1>3. CASE schemas[Key(p)] = Nil
  <2>1. Control'
    BY <1>1, <1>3, NotFoundKeepsControl DEF GetMetadata, DataSteps, ReadSteps
  <2> QED
    BY <1>1, <2>1 DEF TInv, Tables, Bounded, GetMetadata, tables
<1>4. CASE schemas[Key(p)] # Nil
  <2> DEFINE l == [loc[p] EXCEPT !.prevFormat = schemas[Key(p)].format]
  <2>1. schemas[Key(p)].format \in Formats
    BY <1>1, <1>2, <1>4 DEF Tables, Meta
  <2>2. l \in Locals /\ l.ret = loc[p].ret /\ l.format = loc[p].format /\ l.compat = loc[p].compat
    BY <1>2, <2>1 DEF Locals
  <2>3. Goto(p, "cacheGet", l)
    BY <1>4 DEF GetMetadata
  <2> HIDE DEF l
  <2>4. Control'
    BY <1>1, <2>2, <2>3, ReadMoves DEF DataSteps, ReadSteps
  <2> QED
    BY <1>1, <2>4 DEF TInv, Tables, Bounded, GetMetadata, tables
<1> QED
  BY <1>3, <1>4

LEMMA CacheGetType ==
    ASSUME TInv, NEW p \in Procs, CacheGet(p)
    PROVE  TInv'
<1>1. Control /\ Tables /\ pc[p] = "cacheGet" /\ loc[p] \in Locals
  BY HandlerFacts DEF TInv, CacheGet
<1>2. CASE Goto(p, "versionId", loc[p])
  <2>1. Control'
    BY <1>1, <1>2, ReadMoves DEF DataSteps, ReadSteps
  <2> QED
    BY <1>1, <2>1 DEF TInv, Tables, Bounded, CacheGet, tables
<1>3. ASSUME NEW e \in CacheHits(p), Got(p, e.data) PROVE TInv'
  <2>1. e.data \in Files
    BY <1>1 DEF CacheHits, Tables, CacheEntries
  <2>2. Control'
    BY <1>1, <1>3, <2>1, GotKeepsControl DEF DataSteps, ReadSteps
  <2> QED
    BY <1>1, <2>2 DEF TInv, Tables, Bounded, CacheGet, tables
<1> QED
  BY <1>2, <1>3 DEF CacheGet

LEMMA GetVersionIDType ==
    ASSUME TInv, NEW p \in Procs, GetVersionID(p)
    PROVE  TInv'
<1>1. Control /\ Tables /\ pc[p] = "versionId" /\ loc[p] \in Locals
  BY HandlerFacts DEF TInv, GetVersionID
<1>2. NotFound(p) \/ \E r \in versions : Goto(p, "data", [loc[p] EXCEPT !.id = r.id])
  BY DEF GetVersionID, RowsOf
<1>3. CASE NotFound(p)
  <2>1. Control'
    BY <1>1, <1>3, NotFoundKeepsControl DEF DataSteps, ReadSteps
  <2> QED
    BY <1>1, <2>1 DEF TInv, Tables, Bounded, GetVersionID, tables
<1>4. ASSUME NEW r \in versions, Goto(p, "data", [loc[p] EXCEPT !.id = r.id]) PROVE TInv'
  <2> DEFINE l == [loc[p] EXCEPT !.id = r.id]
  <2>1. r.id \in VersionIDs
    BY <1>1 DEF Tables, VersionRows
  <2>2. l \in Locals /\ l.ret = loc[p].ret /\ l.format = loc[p].format /\ l.compat = loc[p].compat
    BY <1>1, <2>1 DEF Locals
  <2>3. Goto(p, "data", l)
    BY <1>4
  <2> HIDE DEF l
  <2>4. Control'
    BY <1>1, <2>2, <2>3, ReadMoves DEF DataSteps, ReadSteps
  <2> QED
    BY <1>1, <2>4 DEF TInv, Tables, Bounded, GetVersionID, tables
<1> QED
  BY <1>2, <1>3, <1>4

LEMMA GetSchemaDataType ==
    ASSUME TInv, NEW p \in Procs, GetSchemaData(p)
    PROVE  TInv'
<1>1. Control /\ Tables /\ pc[p] = "data" /\ loc[p] \in Locals
  BY HandlerFacts DEF TInv, GetSchemaData
<1>2. NotFound(p) \/ \E m \in vsf : Goto(p, "cacheSet", [loc[p] EXCEPT !.data = m.file])
  BY DEF GetSchemaData
<1>3. CASE NotFound(p)
  <2>1. Control'
    BY <1>1, <1>3, NotFoundKeepsControl DEF DataSteps, ReadSteps
  <2> QED
    BY <1>1, <2>1 DEF TInv, Tables, Bounded, GetSchemaData, tables
<1>4. ASSUME NEW m \in vsf, Goto(p, "cacheSet", [loc[p] EXCEPT !.data = m.file]) PROVE TInv'
  <2> DEFINE l == [loc[p] EXCEPT !.data = m.file]
  <2>1. m.file \in Files
    BY <1>1 DEF Tables, MapRows
  <2>2. /\ l \in Locals /\ l.ret = loc[p].ret /\ l.format = loc[p].format
        /\ l.compat = loc[p].compat /\ l.data \in Files
    BY <1>1, <2>1 DEF Locals
  <2>3. Goto(p, "cacheSet", l)
    BY <1>4
  <2> HIDE DEF l
  <2>4. Control'
    BY <1>1, <2>2, <2>3, ReadMoves DEF DataSteps, ReadSteps
  <2> QED
    BY <1>1, <2>4 DEF TInv, Tables, Bounded, GetSchemaData, tables
<1> QED
  BY <1>2, <1>3, <1>4

LEMMA CacheSetType ==
    ASSUME TInv, NEW p \in Procs, CacheSet(p)
    PROVE  TInv'
<1>1. Control /\ Tables /\ pc[p] = "cacheSet"
  BY DEF TInv, CacheSet
<1>2. loc[p] \in Locals /\ Key(p) \in Schemas /\ loc[p].data \in Files
  BY <1>1, HandlerFacts DEF HandlerOK, DataSteps
<1>3. Control'
  BY <1>1, <1>2, GotKeepsControl DEF CacheSet, DataSteps
<1>4. [joined |-> Joined(Key(p)), version |-> loc[p].ver, data |-> loc[p].data] \in CacheEntries
  BY <1>2 DEF CacheEntries, JoinedNames, Locals
<1>5. cache' \subseteq CacheEntries
  BY <1>1, <1>4 DEF CacheSet, Tables
<1> QED
  BY <1>1, <1>3, <1>5 DEF TInv, Tables, Bounded, CacheSet, tables

-----------------------------------------------------------------------------
\* A transaction goes on to its next statement, with a version number when
\* the next statement is the commit.
LEMMA TxMoves ==
    ASSUME Control, NEW p \in Procs, pc[p] \in TxSteps, NEW step \in TxSteps,
           NEW v \in Nat, step = "txCommit" => v # 0,
           Goto(p, step, [loc[p] EXCEPT !.ver = v])
    PROVE  Control'
<1> DEFINE l == [loc[p] EXCEPT !.ver = v]
<1>1. loc[p] \in Locals /\ HandlerOK(pc[p], req[p], loc[p]) /\ pc[p] # "idle"
  BY DEF Control, TxSteps
<1>2. l \in Locals /\ l.ver = v /\ l.format = loc[p].format /\ l.compat = loc[p].compat
  BY <1>1 DEF Locals
<1> HIDE DEF l
<1>3. HandlerOK(step, req[p], l)
  BY <1>1, <1>2 DEF HandlerOK, DataSteps, ReadSteps, TxSteps, Merged
<1> QED
  BY <1>2, <1>3, GotoKeepsControl DEF PCs, TxSteps, l

\* The same with the locals as they are.
LEMMA TxStays ==
    ASSUME Control, NEW p \in Procs, pc[p] \in TxSteps,
           NEW step \in TxSteps \ {"txCommit"}, Goto(p, step, loc[p])
    PROVE  Control'
<1>1. loc[p] \in Locals /\ HandlerOK(pc[p], req[p], loc[p]) /\ pc[p] # "idle"
  BY DEF Control, TxSteps
<1>2. HandlerOK(step, req[p], loc[p])
  BY <1>1 DEF HandlerOK, DataSteps, ReadSteps, TxSteps, Merged
<1> QED
  BY <1>1, <1>2, GotoKeepsControl DEF PCs, TxSteps

LEMMA TxBeginType ==
    ASSUME TInv, NEW p \in Procs, TxBegin(p)
    PROVE  TInv'
<1>1. Control /\ Tables /\ pc[p] = "txBegin"
  BY DEF TInv, TxBegin
<1>2. Goto(p, "txSchema", loc[p]) \/ \E r \in versions : Reply(p, "ok", r.version, Nil)
  BY DEF TxBegin
<1>3. Control'
  BY <1>1, <1>2, TxStays, ReplyKeepsControl DEF TxSteps, Statuses, Tables, VersionRows
<1> QED
  BY <1>1, <1>3 DEF TInv, Tables, Bounded, TxBegin, tables

LEMMA TxSchemaType ==
    ASSUME TInv, NEW p \in Procs, TxSchema(p)
    PROVE  TInv'
<1>1. Control /\ Tables /\ pc[p] = "txSchema"
  BY DEF TInv, TxSchema
<1>2. Fail(p, "unknown") \/ Goto(p, "txVersion", loc[p])
  BY DEF TxSchema
<1>3. Control'
  BY <1>1, <1>2, TxStays, FailKeepsControl DEF TxSteps, Statuses
<1> QED
  BY <1>1, <1>3 DEF TInv, Tables, Bounded, TxSchema, tables

LEMMA TxVersionType ==
    ASSUME TInv, NEW p \in Procs, TxVersion(p)
    PROVE  TInv'
<1>1. Control /\ Tables /\ pc[p] = "txVersion"
  BY DEF TInv, TxVersion
<1> DEFINE v == MaxVersion(Key(p)) + 1
<1>2. v \in Nat /\ v # 0
  BY <1>1, MaxVersionIsMax DEF Tables
<1>3. Fail(p, "conflict") \/ Goto(p, "txCommit", [loc[p] EXCEPT !.ver = v])
  BY DEF TxVersion
<1> HIDE DEF v
<1>4. Control'
  BY <1>1, <1>2, <1>3, TxMoves, FailKeepsControl DEF TxSteps, Statuses
<1> QED
  BY <1>1, <1>4 DEF TInv, Tables, Bounded, TxVersion, tables

LEMMA PublishType ==
    ASSUME Control, Tables, NEW p \in Procs, pc[p] = "txCommit", Publish(p),
           UNCHANGED cache, cand' \in [Procs -> SUBSET Files], faults' \in Nat
    PROVE  Tables'
<1>1. /\ loc[p] \in Locals /\ Merged(loc[p]) /\ loc[p].ver # 0
      /\ Key(p) \in Schemas /\ req[p].file \in Files
  BY HandlerFacts DEF HandlerOK, TxSteps
<1>2. loc[p].ver \in Nat \ {0}
  BY <1>1 DEF Locals
<1>3. CreateID(p) \in VersionIDs
  BY <1>1 DEF CreateID, VersionID, VersionIDs, JoinedNames
<1>4. [format |-> loc[p].format, compat |-> loc[p].compat] \in Meta
  BY <1>1 DEF Merged, Meta
<1>5. schemas' \in [Schemas -> Meta \cup {Nil}]
  BY <1>1, <1>4 DEF Publish, Tables
<1>6. versions' \subseteq VersionRows
  BY <1>1, <1>2, <1>3 DEF Publish, Tables, VersionRows
<1>7. vsf' \subseteq MapRows /\ files' \subseteq Files
  BY <1>1, <1>3 DEF Publish, Tables, MapRows
<1>8. stored' \subseteq StoredVersions
  BY <1>1, <1>2 DEF Publish, Tables, StoredVersions, Merged
<1>9. Bounded'
  <2>1. PICK b \in Nat : \A r \in versions : r.version <= b
    BY DEF Tables, Bounded
  <2>2. PICK c \in Nat : b <= c /\ loc[p].ver <= c
    BY <1>2
  <2>3. \A r \in versions' : r.version <= c
    BY <1>2, <2>1, <2>2 DEF Publish, Tables, VersionRows
  <2> QED
    BY <2>3 DEF Bounded
<1> QED
  BY <1>5, <1>6, <1>7, <1>8, <1>9 DEF Tables, Publish

LEMMA TxCommitType ==
    ASSUME TInv, NEW p \in Procs, TxCommit(p)
    PROVE  TInv'
<1>1. Control /\ Tables /\ pc[p] = "txCommit" /\ Publish(p)
  BY DEF TInv, TxCommit
<1>2. loc[p] \in Locals
  BY <1>1, HandlerFacts
<1>3. Control'
  BY <1>1, <1>2, ReplyKeepsControl DEF TxCommit, Statuses, Locals
<1>4. Tables'
  BY <1>1, PublishType DEF TxCommit, Tables
<1> QED
  BY <1>3, <1>4 DEF TInv

-----------------------------------------------------------------------------
LEMMA ToOrphansKeepsControl ==
    ASSUME Control, NEW p \in Procs, pc[p] = "delete", NEW l \in Locals, Goto(p, "orphans", l)
    PROVE  Control'
<1>1. HandlerOK("orphans", req[p], l)
  BY HandlerFacts DEF HandlerOK, DataSteps, ReadSteps, TxSteps
<1> QED
  BY <1>1, GotoKeepsControl DEF PCs

LEMMA CascadeType ==
    ASSUME NEW rows, versions \subseteq VersionRows, vsf \subseteq MapRows, Bounded, Cascade(rows)
    PROVE  versions' \subseteq VersionRows /\ vsf' \subseteq MapRows /\ Bounded'
  BY DEF Cascade, Bounded

LEMMA DeleteSchemaType ==
    ASSUME TInv, NEW p \in Procs, DeleteSchema(p)
    PROVE  TInv'
<1>1. Control /\ Tables /\ pc[p] = "delete" /\ loc[p] \in Locals
  BY HandlerFacts DEF TInv, DeleteSchema
<1>2. Control'
  BY <1>1, ToOrphansKeepsControl DEF DeleteSchema
<1>3. versions' \subseteq VersionRows /\ vsf' \subseteq MapRows /\ Bounded'
  BY <1>1, CascadeType DEF DeleteSchema, Tables
<1>4. schemas' \in [Schemas -> Meta \cup {Nil}]
  BY <1>1 DEF DeleteSchema, Tables
<1> QED
  BY <1>1, <1>2, <1>3, <1>4 DEF TInv, Tables, DeleteSchema

LEMMA NamespaceDeleteType ==
    ASSUME TInv, NEW p \in Procs, NamespaceDelete(p)
    PROVE  TInv'
<1>1. Control /\ Tables /\ pc[p] = "delete" /\ loc[p] \in Locals
  BY HandlerFacts DEF TInv, NamespaceDelete
<1>2. Control'
  BY <1>1, ToOrphansKeepsControl DEF NamespaceDelete
<1>3. versions' \subseteq VersionRows /\ vsf' \subseteq MapRows /\ Bounded'
  BY <1>1, CascadeType DEF NamespaceDelete, Tables
<1>4. /\ schemas' \in [Schemas -> Meta \cup {Nil}]
      /\ nsTab' \in [Namespaces -> Meta \cup {Nil}]
  BY <1>1 DEF NamespaceDelete, Tables
<1> QED
  BY <1>1, <1>2, <1>3, <1>4 DEF TInv, Tables, NamespaceDelete

LEMMA DeleteVersionType ==
    ASSUME TInv, NEW p \in Procs, DeleteVersion(p)
    PROVE  TInv'
<1>1. Control /\ Tables /\ pc[p] = "delete" /\ loc[p] \in Locals
  BY HandlerFacts DEF TInv, DeleteVersion
<1>2. Control'
  BY <1>1, ToOrphansKeepsControl DEF DeleteVersion
<1>3. versions' \subseteq VersionRows /\ vsf' \subseteq MapRows /\ Bounded'
  BY <1>1, CascadeType DEF DeleteVersion, Tables
<1> QED
  BY <1>1, <1>2, <1>3 DEF TInv, Tables, DeleteVersion

LEMMA SelectOrphansType ==
    ASSUME TInv, NEW p \in Procs, SelectOrphans(p)
    PROVE  TInv'
<1>1. Control /\ Tables /\ pc[p] = "orphans" /\ loc[p] \in Locals
  BY HandlerFacts DEF TInv, SelectOrphans
<1>2. HandlerOK("sweep", req[p], loc[p])
  BY <1>1, HandlerFacts DEF HandlerOK, DataSteps, ReadSteps, TxSteps
<1>3. Control'
  BY <1>1, <1>2, GotoKeepsControl DEF SelectOrphans, PCs
<1> QED
  BY <1>1, <1>3 DEF TInv, Tables, Bounded, SelectOrphans, tables

LEMMA DeleteOrphansType ==
    ASSUME TInv, NEW p \in Procs, DeleteOrphans(p)
    PROVE  TInv'
<1>1. Control /\ Tables /\ pc[p] = "sweep" /\ loc[p] \in Locals
  BY HandlerFacts DEF TInv, DeleteOrphans
<1>2. Control'
  BY <1>1, ReplyKeepsControl DEF DeleteOrphans, Statuses, Locals
<1>3. files' \subseteq Files /\ cand' \in [Procs -> SUBSET Files]
  BY <1>1 DEF DeleteOrphans, Sweep, Tables
<1> QED
  BY <1>1, <1>2, <1>3 DEF TInv, Tables, Bounded, DeleteOrphans

LEMMA TxFileSweptType ==
    ASSUME TInv, NEW p \in Procs, NEW q \in Procs, TxFileSwept(p, q)
    PROVE  TInv'
<1>1. Control /\ Tables
  BY DEF TInv
<1>2. Control'
  BY <1>1, FailKeepsControl DEF TxFileSwept, Statuses
<1>3. files' \subseteq Files /\ cand' \in [Procs -> SUBSET Files]
  BY <1>1 DEF TxFileSwept, Sweep, Tables
<1> QED
  BY <1>1, <1>2, <1>3 DEF TInv, Tables, Bounded, TxFileSwept

-----------------------------------------------------------------------------
LEMMA WriteType ==
    ASSUME TInv, NEW p \in Procs, Write(p)
    PROVE  TInv'
<1>1. Control /\ Tables
  BY DEF TInv
<1>2. pc[p] = "write" /\ pc[p] # "idle"
  BY DEF Write, UpdateMetadata, NamespaceCreate, NamespaceUpdate
<1>3. req[p] \in Requests
  BY <1>1, <1>2, HandlerFacts
<1>4. Fail(p, "noRows") \/ Fail(p, "conflict") \/ Reply(p, "ok", 0, Nil)
  BY DEF Write, UpdateMetadata, NamespaceCreate, NamespaceUpdate
<1>5. Control'
  BY <1>1, <1>4, FailKeepsControl, ReplyKeepsControl DEF Statuses
<1>6. CASE UpdateMetadata(p)
  <2>1. Key(p) \in Schemas /\ req[p].compat \in Compats
    BY <1>3, <1>6, RequestFields DEF UpdateMetadata, Key
  <2>2. schemas' \in [Schemas -> Meta \cup {Nil}]
    <3>1. CASE schemas[Key(p)] = Nil
      BY <1>1, <1>6, <3>1 DEF UpdateMetadata, Tables
    <3>2. CASE schemas[Key(p)] # Nil
      <4> DEFINE m == [schemas[Key(p)] EXCEPT !.compat = req[p].compat]
      <4>1. schemas[Key(p)] \in Meta
        BY <1>1, <2>1, <3>2 DEF Tables
      <4>2. m \in Meta
        BY <2>1, <4>1 DEF Meta
      <4>3. schemas' = [schemas EXCEPT ![Key(p)] = m]
        BY <1>6, <3>2 DEF UpdateMetadata
      <4> HIDE DEF m
      <4> QED
        BY <1>1, <2>1, <4>2, <4>3 DEF Tables
    <3> QED
      BY <3>1, <3>2
  <2> QED
    BY <1>1, <1>5, <1>6, <2>2 DEF TInv, Tables, Bounded, UpdateMetadata
<1>7. CASE NamespaceCreate(p) \/ NamespaceUpdate(p)
  <2>1. req[p].ns \in Namespaces /\ NamespaceRow(p) \in Meta
    BY <1>3, <1>7, RequestFields DEF NamespaceCreate, NamespaceUpdate, NamespaceRow, Meta
  <2>2. nsTab' = nsTab \/ nsTab' = [nsTab EXCEPT ![req[p].ns] = NamespaceRow(p)]
    BY <1>7 DEF NamespaceCreate, NamespaceUpdate
  <2>3. nsTab' \in [Namespaces -> Meta \cup {Nil}]
    BY <1>1, <2>1, <2>2 DEF Tables
  <2> QED
    BY <1>1, <1>5, <1>7, <2>3 DEF TInv, Tables, Bounded, NamespaceCreate, NamespaceUpdate
<1> QED
  BY <1>6, <1>7 DEF Write

LEMMA DbErrorType ==
    ASSUME TInv, NEW p \in Procs, DbError(p)
    PROVE  TInv'
<1>1. Control /\ Tables /\ pc[p] # "idle" /\ loc[p] \in Locals
  BY HandlerFacts DEF TInv, DbError
<1>2. Control'
  <2>1. CASE pc[p] \in ReadSteps /\ loc[p].ret = "prev"
    <3>1. Goto(p, "txBegin", [loc[p] EXCEPT !.ver = 0])
      BY <2>1, Zenon DEF DbError, ReadSteps
    <3> QED
      BY <1>1, <2>1, <3>1, ToTxKeepsControl DEF DataSteps
  <2>2. CASE pc[p] = "delete"
    <3> DEFINE l == [loc[p] EXCEPT !.status = "unknown"]
    <3>1. l \in Locals
      BY <1>1 DEF Locals
    <3>2. Goto(p, "orphans", l)
      BY <2>2 DEF DbError, ReadSteps
    <3> HIDE DEF l
    <3> QED
      BY <1>1, <2>2, <3>1, <3>2, ToOrphansKeepsControl
  <2>3. CASE pc[p] \in {"orphans", "sweep"}
    <3>1. Reply(p, loc[p].status, 0, Nil)
      BY <2>3 DEF DbError, ReadSteps
    <3> QED
      BY <1>1, <3>1, ReplyKeepsControl DEF Statuses, Locals
  <2>4. CASE ~(pc[p] \in ReadSteps /\ loc[p].ret = "prev") /\ pc[p] \notin {"delete", "orphans", "sweep"}
    <3>1. Fail(p, "unknown")
      BY <2>4 DEF DbError
    <3> QED
      BY <1>1, <3>1, FailKeepsControl DEF Statuses
  <2> QED
    BY <2>1, <2>2, <2>3, <2>4
<1> QED
  BY <1>1, <1>2 DEF TInv, Tables, Bounded, DbError, tables

LEMMA CommitAnswerLostType ==
    ASSUME TInv, NEW p \in Procs, CommitAnswerLost(p)
    PROVE  TInv'
<1>1. Control /\ Tables /\ pc[p] = "txCommit" /\ Publish(p)
  BY DEF TInv, CommitAnswerLost
<1>2. Control'
  BY <1>1, FailKeepsControl DEF CommitAnswerLost, Statuses
<1>3. Tables'
  BY <1>1, PublishType DEF CommitAnswerLost, Tables
<1> QED
  BY <1>2, <1>3 DEF TInv

LEMMA CrashType ==
    ASSUME TInv, Crash
    PROVE  TInv'
<1>1. NoLocals \in Locals /\ NoResponse \in Responses
  BY DEF NoLocals, Locals, NoResponse, Responses, Statuses
<1>2. Control'
  BY <1>1 DEF TInv, Control, Crash, HandlerOK, PCs
<1> QED
  BY <1>2 DEF TInv, Tables, Bounded, Crash, tables

LEMMA EvictType ==
    ASSUME TInv, Evict
    PROVE  TInv'
  BY DEF TInv, Control, Tables, Bounded, Evict, tables

LEMMA StutterType ==
    ASSUME TInv, UNCHANGED vars
    PROVE  TInv'
  BY DEF TInv, Control, Tables, Bounded, vars

LEMMA NextType == TInv /\ [Next]_vars => TInv'
<1> SUFFICES ASSUME TInv, [Next]_vars PROVE TInv'
  OBVIOUS
<1>1. ASSUME NEW p \in Procs, Start(p) PROVE TInv'
  BY <1>1, StartType
<1>2. ASSUME NEW p \in Procs, Read(p) PROVE TInv'
  BY <1>2, NamespaceGetType, GetLatestVersionType, GetMetadataType, CacheGetType,
     GetVersionIDType, GetSchemaDataType, CacheSetType DEF Read
<1>3. ASSUME NEW p \in Procs, Tx(p) PROVE TInv'
  BY <1>3, TxBeginType, TxSchemaType, TxVersionType, TxCommitType DEF Tx
<1>4. ASSUME NEW p \in Procs, Delete(p) PROVE TInv'
  BY <1>4, DeleteSchemaType, NamespaceDeleteType, DeleteVersionType,
     SelectOrphansType, DeleteOrphansType DEF Delete
<1>5. ASSUME NEW p \in Procs, Write(p) PROVE TInv'
  BY <1>5, WriteType
<1>6. ASSUME NEW p \in Procs, DbError(p) \/ CommitAnswerLost(p) PROVE TInv'
  BY <1>6, DbErrorType, CommitAnswerLostType
<1>7. ASSUME NEW p \in Procs, NEW q \in Procs, TxFileSwept(p, q) PROVE TInv'
  BY <1>7, TxFileSweptType
<1>8. CASE Evict \/ Crash \/ Quiet \/ UNCHANGED vars
  BY <1>8, EvictType, CrashType, StutterType DEF Quiet
<1> QED
  BY <1>1, <1>2, <1>3, <1>4, <1>5, <1>6, <1>7, <1>8 DEF Next, Handle

(***************************************************************************)
(* In every reachable state of the registry the tables, the cache and the  *)
(* handlers have their types, for any handlers, names, files and bounds.   *)
(***************************************************************************)
THEOREM TypeCorrect == Spec => []TypeOK
<1>1. TInv => TypeOK
  BY DEF TInv, Control, Tables, TypeOK
<1>2. Init => TInv
  BY InitType
<1>3. TInv /\ [Next]_vars => TInv'
  BY NextType
<1> QED
  BY <1>1, <1>2, <1>3, PTL DEF Spec
=============================================================================
