-------------------------- MODULE RegistryIntegrity --------------------------
(***************************************************************************)
(* The safety properties of Registry, proved from one inductive invariant: *)
(* what the rows of the tables have to do with each other, what an open    *)
(* transaction knows of them, and where the data in flight comes from.     *)
(***************************************************************************)
EXTENDS RegistryProofs

\* The tables: foreign keys, unique keys, and version ids made of the schema's
\* name and the content.
RowsOK ==
    /\ \A k \in Schemas : schemas[k] # Nil => nsTab[k.ns] # Nil
    /\ \A r \in versions : schemas[r.schema] # Nil
    /\ \A r \in versions : r.id.joined = Joined(r.schema)
    /\ \A r, s \in versions : r.id = s.id => r = s
    /\ \A r, s \in versions : r.schema = s.schema /\ r.version = s.version => r = s
    /\ \A r \in versions : [version_id |-> r.id, file |-> r.id.file] \in vsf
    /\ \A m \in vsf : \E r \in versions : r.id = m.version_id
    /\ \A m \in vsf : m.version_id.file = m.file /\ m.file \in files

\* The open transactions: one per schema row and per version id, each in a
\* namespace that exists, and a pending version is new and the greatest.
TxOK ==
    /\ \A p, q \in Procs : HoldsRow(p) /\ HoldsRow(q) /\ Key(p) = Key(q) => p = q
    /\ \A p, q \in Procs :
         pc[p] = "txCommit" /\ pc[q] = "txCommit" /\ CreateID(p) = CreateID(q) => p = q
    /\ \A p \in Procs : HoldsRow(p) => nsTab[req[p].ns] # Nil
    /\ \A p \in Procs : pc[p] = "txCommit" =>
         \A r \in versions : /\ r.id # CreateID(p)
                             /\ r.schema = Key(p) => r.version < loc[p].ver

\* The history knows where a version, a cache entry and the data in a
\* handler's hands come from, up to the join of the names.
WasStored(j, v, f) ==
    \E s \in stored : Joined(s.schema) = j /\ s.version = v /\ s.file = f

InHandOK(p) ==
    /\ pc[p] = "data" => WasStored(Joined(Key(p)), loc[p].ver, loc[p].id.file)
    /\ pc[p] = "cacheSet" => WasStored(Joined(Key(p)), loc[p].ver, loc[p].data)

HistoryOK ==
    /\ \A r \in versions :
         \E s \in stored : s.schema = r.schema /\ s.version = r.version /\ s.file = r.id.file
    /\ \A e \in cache : WasStored(e.joined, e.version, e.data)
    /\ \A p \in Procs : InHandOK(p)

\* The answers given so far, up to the join of the names.
AnswerOK(p) ==
    req[p] # Nil =>
        /\ req[p].op = "create" /\ resp[p].status = "ok" =>
             WasStored(Joined(Key(p)), resp[p].version, req[p].file)
        /\ req[p].op = "create" /\ resp[p].status = "conflict" =>
             \E s \in stored : VersionID(s.schema, s.file) = CreateID(p)
        /\ req[p].op \in {"get", "getLatest"} /\ resp[p].status = "ok" =>
             WasStored(Joined(Key(p)), resp[p].version, resp[p].data)

AnswersOK == \A p \in Procs : AnswerOK(p)

IInv == RowsOK /\ TxOK /\ HistoryOK /\ AnswersOK

-----------------------------------------------------------------------------
(***************************************************************************)
(* Frames: a step of one handler leaves the others alone.                  *)
(***************************************************************************)
Moves(p) ==
    /\ req' = req
    /\ \A q \in Procs : q # p => pc'[q] = pc[q] /\ loc'[q] = loc[q] /\ resp'[q] = resp[q]

LEMMA GotoMoves ==
    ASSUME Control, NEW p \in Procs, NEW step, NEW l, Goto(p, step, l)
    PROVE  Moves(p) /\ pc'[p] = step /\ loc'[p] = l /\ resp'[p] = resp[p]
  BY DEF Control, Goto, Moves

LEMMA ReplyMoves ==
    ASSUME Control, NEW p \in Procs, NEW status, NEW v, NEW d, Reply(p, status, v, d)
    PROVE  /\ Moves(p) /\ pc'[p] = "idle"
           /\ resp'[p] = [status |-> status, version |-> v, data |-> d]
  BY DEF Control, Reply, Moves

\* Rows of the tables that stay keep their relations.
LEMMA RowsFrame ==
    ASSUME RowsOK, UNCHANGED tables
    PROVE  RowsOK'
  BY DEF RowsOK, tables

LEMMA TxFrame ==
    ASSUME TxOK, NEW p \in Procs, Moves(p), pc'[p] \notin {"txVersion", "txCommit"},
           versions' \subseteq versions,
           \A q \in Procs : q # p /\ HoldsRow(q) => nsTab'[req[q].ns] # Nil
    PROVE  TxOK'
<1>1. \A q \in Procs : HoldsRow(q)' => q # p /\ HoldsRow(q) /\ pc'[q] = pc[q] /\ loc'[q] = loc[q]
  BY DEF Moves, HoldsRow
<1>2. \A q \in Procs : Key(q)' = Key(q) /\ CreateID(q)' = CreateID(q)
  BY DEF Moves, Key, CreateID, VersionID
<1>3. \A q \in Procs : pc'[q] = "txCommit" => HoldsRow(q)' /\ pc[q] = "txCommit"
  BY <1>1 DEF HoldsRow
<1>4. (\A q, t \in Procs : HoldsRow(q) /\ HoldsRow(t) /\ Key(q) = Key(t) => q = t)'
  BY <1>1, <1>2 DEF TxOK
<1>5. (\A q, t \in Procs :
         pc[q] = "txCommit" /\ pc[t] = "txCommit" /\ CreateID(q) = CreateID(t) => q = t)'
  BY <1>2, <1>3 DEF TxOK
<1>6. (\A q \in Procs : HoldsRow(q) => nsTab[req[q].ns] # Nil)'
  BY <1>1 DEF Moves
<1>7. (\A q \in Procs : pc[q] = "txCommit" =>
         \A r \in versions : r.id # CreateID(q) /\ (r.schema = Key(q) => r.version < loc[q].ver))'
  BY <1>1, <1>2, <1>3 DEF TxOK
<1> QED
  BY <1>4, <1>5, <1>6, <1>7 DEF TxOK

LEMMA HistoryFrame ==
    ASSUME HistoryOK, NEW p \in Procs, Moves(p), versions' \subseteq versions,
           cache' \subseteq cache, stored \subseteq stored', InHandOK(p)'
    PROVE  HistoryOK'
<1>1. \A j, v, f : WasStored(j, v, f) => WasStored(j, v, f)'
  BY DEF WasStored
<1>2. ASSUME NEW q \in Procs, q # p PROVE InHandOK(q)'
  BY <1>1, <1>2 DEF HistoryOK, InHandOK, Moves, Key
<1> QED
  BY <1>1, <1>2 DEF HistoryOK

LEMMA AnswersFrame ==
    ASSUME AnswersOK, NEW p \in Procs, Moves(p), stored \subseteq stored',
           resp'[p] = resp[p] \/ AnswerOK(p)'
    PROVE  AnswersOK'
<1>1. \A j, v, f : WasStored(j, v, f) => WasStored(j, v, f)'
  BY DEF WasStored
<1>2. ASSUME NEW q \in Procs, resp'[q] = resp[q] PROVE AnswerOK(q)'
  BY <1>1, <1>2 DEF AnswersOK, AnswerOK, Moves, Key, CreateID, VersionID
<1> QED
  BY <1>2 DEF AnswersOK, Moves

\* A step that touches neither the tables nor the cache.
LEMMA QuietStep ==
    ASSUME IInv, NEW p \in Procs, Moves(p), UNCHANGED <<tables, cache, stored>>,
           pc'[p] \notin {"txVersion", "txCommit"}, InHandOK(p)',
           resp'[p] = resp[p] \/ AnswerOK(p)'
    PROVE  IInv'
<1>1. RowsOK'
  BY RowsFrame DEF IInv
<1>2. TxOK'
  BY TxFrame DEF IInv, TxOK, tables
<1>3. HistoryOK'
  BY HistoryFrame DEF IInv, tables
<1>4. AnswersOK'
  BY AnswersFrame DEF IInv
<1> QED
  BY <1>1, <1>2, <1>3, <1>4 DEF IInv

-----------------------------------------------------------------------------
(***************************************************************************)
(* The read steps.                                                         *)
(***************************************************************************)
\* An answer that claims nothing is in order.
LEMMA PlainAnswer ==
    ASSUME Control, NEW p \in Procs, NEW status, NEW v, NEW d, Reply(p, status, v, d),
           \/ status \notin {"ok", "conflict"}
           \/ req[p].op \notin {"create", "get", "getLatest"}
    PROVE  Moves(p) /\ pc'[p] = "idle" /\ AnswerOK(p)'
<1>1. /\ Moves(p) /\ pc'[p] = "idle"
      /\ resp'[p] = [status |-> status, version |-> v, data |-> d]
  BY ReplyMoves
<1> QED
  BY <1>1 DEF AnswerOK, Moves

LEMMA CheckedOutcome ==
    ASSUME Control, NEW p \in Procs, pc[p] \in DataSteps, Checked(p)
    PROVE  /\ Moves(p) /\ pc'[p] \in {"idle", "latest"}
           /\ resp'[p] = resp[p] \/ AnswerOK(p)'
<1>1. CASE req[p].op = "check"
  BY <1>1, PlainAnswer DEF Checked
<1>2. CASE req[p].op # "check"
  BY <1>2, GotoMoves DEF Checked
<1> QED
  BY <1>1, <1>2

LEMMA NotFoundOutcome ==
    ASSUME Control, NEW p \in Procs, pc[p] \in DataSteps, NotFound(p)
    PROVE  /\ Moves(p) /\ pc'[p] \in {"idle", "latest", "txBegin"}
           /\ resp'[p] = resp[p] \/ AnswerOK(p)'
<1>1. loc[p].ret \in {"reply", "check", "prev"}
  BY DEF Control, Locals
<1>2. CASE loc[p].ret = "reply"
  BY <1>2, PlainAnswer DEF NotFound, Fail
<1>3. CASE loc[p].ret = "check"
  <2>1. Checked(p)
    BY <1>3 DEF NotFound
  <2> QED BY <2>1, CheckedOutcome
<1>4. CASE loc[p].ret = "prev"
  <2>1. Goto(p, "txBegin", [loc[p] EXCEPT !.ver = 0])
    BY <1>4 DEF NotFound
  <2> QED BY <2>1, GotoMoves
<1> QED
  BY <1>1, <1>2, <1>3, <1>4

LEMMA GotOutcome ==
    ASSUME Control, NEW p \in Procs, pc[p] \in DataSteps, NEW d, Got(p, d),
           WasStored(Joined(Key(p)), loc[p].ver, d), stored' = stored
    PROVE  /\ Moves(p) /\ pc'[p] \in {"idle", "latest", "txBegin"}
           /\ resp'[p] = resp[p] \/ AnswerOK(p)'
<1>1. /\ loc[p].ret \in {"reply", "check", "prev"}
      /\ HandlerOK(pc[p], req[p], loc[p]) /\ pc[p] # "idle"
  BY DEF Control, Locals, DataSteps, ReadSteps
<1>2. CASE loc[p].ret = "reply"
  <2>1. Reply(p, "ok", loc[p].ver, d)
    BY <1>2 DEF Got
  <2>2. /\ Moves(p) /\ pc'[p] = "idle"
        /\ resp'[p] = [status |-> "ok", version |-> loc[p].ver, data |-> d]
    BY <2>1, ReplyMoves
  <2>3. req[p].op # "create"
    BY <1>1, <1>2 DEF HandlerOK
  <2>4. AnswerOK(p)'
    BY <2>2, <2>3 DEF AnswerOK, Moves, WasStored, Key
  <2> QED BY <2>2, <2>4
<1>3. CASE loc[p].ret = "check"
  <2>1. Fail(p, "parseError") \/ Fail(p, "incompatible") \/ Checked(p)
    BY <1>3 DEF Got
  <2> QED BY <2>1, CheckedOutcome, PlainAnswer DEF Fail
<1>4. CASE loc[p].ret = "prev"
  <2>1. Goto(p, "txBegin", [loc[p] EXCEPT !.ver = 0])
    BY <1>4 DEF Got
  <2> QED BY <2>1, GotoMoves
<1> QED
  BY <1>1, <1>2, <1>3, <1>4

\* The conclusion for a step that ends a read.
LEMMA EndOfRead ==
    ASSUME IInv, NEW p \in Procs, Moves(p), pc'[p] \in {"idle", "latest", "txBegin"},
           resp'[p] = resp[p] \/ AnswerOK(p)', UNCHANGED <<tables, cache, stored>>
    PROVE  IInv'
<1>1. InHandOK(p)'
  BY DEF InHandOK
<1> QED
  BY <1>1, QuietStep

LEMMA NamespaceGetKeeps ==
    ASSUME TInv, IInv, NEW p \in Procs, NamespaceGet(p)
    PROVE  IInv'
<1>1. Control /\ UNCHANGED <<tables, cache, stored>>
  BY DEF TInv, NamespaceGet
<1>2. CASE Fail(p, "noRows") \/ Fail(p, "parseError")
  BY <1>1, <1>2, PlainAnswer, EndOfRead DEF Fail
<1>3. ASSUME NEW l, Goto(p, "latest", l) PROVE IInv'
  BY <1>1, <1>3, GotoMoves, EndOfRead
<1> QED
  BY <1>2, <1>3 DEF NamespaceGet

LEMMA GetLatestVersionKeeps ==
    ASSUME TInv, IInv, NEW p \in Procs, GetLatestVersion(p)
    PROVE  IInv'
<1>1. /\ Moves(p) /\ pc'[p] = "meta" /\ resp'[p] = resp[p]
      /\ UNCHANGED <<tables, cache, stored>>
  BY GotoMoves DEF TInv, GetLatestVersion
<1>2. InHandOK(p)'
  BY <1>1 DEF InHandOK
<1> QED
  BY <1>1, <1>2, QuietStep

LEMMA GetMetadataKeeps ==
    ASSUME TInv, IInv, NEW p \in Procs, GetMetadata(p)
    PROVE  IInv'
<1>1. Control /\ UNCHANGED <<tables, cache, stored>> /\ pc[p] \in DataSteps
  BY DEF TInv, GetMetadata, DataSteps, ReadSteps
<1>2. CASE schemas[Key(p)] = Nil
  BY <1>1, <1>2, NotFoundOutcome, EndOfRead DEF GetMetadata
<1>3. CASE schemas[Key(p)] # Nil
  <2>1. Moves(p) /\ pc'[p] = "cacheGet" /\ resp'[p] = resp[p]
    BY <1>1, <1>3, GotoMoves DEF GetMetadata
  <2>2. InHandOK(p)'
    BY <2>1 DEF InHandOK
  <2> QED
    BY <1>1, <2>1, <2>2, QuietStep
<1> QED
  BY <1>2, <1>3

LEMMA CacheGetKeeps ==
    ASSUME TInv, IInv, NEW p \in Procs, CacheGet(p)
    PROVE  IInv'
<1>1. Control /\ UNCHANGED <<tables, cache, stored>> /\ pc[p] \in DataSteps
  BY DEF TInv, CacheGet, DataSteps
<1>2. CASE Goto(p, "versionId", loc[p])
  <2>1. Moves(p) /\ pc'[p] = "versionId" /\ resp'[p] = resp[p]
    BY <1>1, <1>2, GotoMoves
  <2>2. InHandOK(p)'
    BY <2>1 DEF InHandOK
  <2> QED
    BY <1>1, <2>1, <2>2, QuietStep
<1>3. ASSUME NEW e \in CacheHits(p), Got(p, e.data) PROVE IInv'
  <2>1. WasStored(Joined(Key(p)), loc[p].ver, e.data)
    BY DEF CacheHits, IInv, HistoryOK
  <2>2. /\ Moves(p) /\ pc'[p] \in {"idle", "latest", "txBegin"}
        /\ resp'[p] = resp[p] \/ AnswerOK(p)'
    BY <1>1, <1>3, <2>1, GotOutcome
  <2> QED
    BY <1>1, <2>2, EndOfRead
<1> QED
  BY <1>2, <1>3 DEF CacheGet

LEMMA GetVersionIDKeeps ==
    ASSUME TInv, IInv, NEW p \in Procs, GetVersionID(p)
    PROVE  IInv'
<1>1. Control /\ UNCHANGED <<tables, cache, stored>> /\ pc[p] \in DataSteps
  BY DEF TInv, GetVersionID, DataSteps, ReadSteps
<1>2. CASE NotFound(p)
  BY <1>1, <1>2, NotFoundOutcome, EndOfRead
<1>3. ASSUME NEW r \in versions, r.schema = Key(p), r.version = loc[p].ver,
             Goto(p, "data", [loc[p] EXCEPT !.id = r.id])
      PROVE  IInv'
  <2>1. loc[p] \in Locals /\ r.id \in VersionIDs
    BY <1>1 DEF Control, TInv, Tables, VersionRows
  <2>2. /\ Moves(p) /\ pc'[p] = "data" /\ resp'[p] = resp[p]
        /\ loc'[p] = [loc[p] EXCEPT !.id = r.id]
    BY <1>1, <1>3, GotoMoves
  <2>3. loc'[p].id = r.id /\ loc'[p].ver = loc[p].ver
    BY <2>1, <2>2 DEF Locals
  <2>4. WasStored(Joined(Key(p)), loc[p].ver, r.id.file)
    BY <1>3 DEF IInv, HistoryOK, WasStored
  <2>5. InHandOK(p)'
    BY <1>1, <2>2, <2>3, <2>4 DEF InHandOK, WasStored, Moves, Key
  <2> QED
    BY <1>1, <2>2, <2>5, QuietStep
<1> QED
  BY <1>2, <1>3 DEF GetVersionID, RowsOf

LEMMA GetSchemaDataKeeps ==
    ASSUME TInv, IInv, NEW p \in Procs, GetSchemaData(p)
    PROVE  IInv'
<1>1. /\ Control /\ UNCHANGED <<tables, cache, stored>> /\ pc[p] \in DataSteps
      /\ pc[p] = "data" /\ loc[p] \in Locals
  BY HandlerFacts DEF TInv, GetSchemaData, DataSteps, ReadSteps
<1>2. CASE NotFound(p)
  BY <1>1, <1>2, NotFoundOutcome, EndOfRead
<1>3. ASSUME NEW m \in vsf, m.version_id = loc[p].id,
             Goto(p, "cacheSet", [loc[p] EXCEPT !.data = m.file])
      PROVE  IInv'
  <2>1. /\ Moves(p) /\ pc'[p] = "cacheSet" /\ resp'[p] = resp[p]
        /\ loc'[p] = [loc[p] EXCEPT !.data = m.file]
    BY <1>1, <1>3, GotoMoves
  <2>2. loc'[p].data = m.file /\ loc'[p].ver = loc[p].ver
    BY <1>1, <2>1 DEF Locals
  <2>3. m.file = loc[p].id.file
    BY <1>3 DEF IInv, RowsOK
  <2>4. WasStored(Joined(Key(p)), loc[p].ver, m.file)
    BY <1>1, <2>3 DEF IInv, HistoryOK, InHandOK
  <2>5. InHandOK(p)'
    BY <1>1, <2>1, <2>2, <2>4 DEF InHandOK, WasStored, Moves, Key
  <2> QED
    BY <1>1, <2>1, <2>5, QuietStep
<1> QED
  BY <1>2, <1>3 DEF GetSchemaData

LEMMA CacheSetKeeps ==
    ASSUME TInv, IInv, NEW p \in Procs, CacheSet(p)
    PROVE  IInv'
<1>1. Control /\ UNCHANGED <<tables, stored>> /\ pc[p] = "cacheSet" /\ pc[p] \in DataSteps
  BY DEF TInv, CacheSet, DataSteps
<1>2. WasStored(Joined(Key(p)), loc[p].ver, loc[p].data)
  BY <1>1 DEF IInv, HistoryOK, InHandOK
<1>3. /\ Moves(p) /\ pc'[p] \in {"idle", "latest", "txBegin"}
      /\ resp'[p] = resp[p] \/ AnswerOK(p)'
  BY <1>1, <1>2, GotOutcome DEF CacheSet
<1>4. InHandOK(p)'
  BY <1>3 DEF InHandOK
<1>5. \A j, v, f : WasStored(j, v, f)' = WasStored(j, v, f)
  BY <1>1 DEF WasStored
<1>6. \A e \in cache' : WasStored(e.joined, e.version, e.data)
  BY <1>2 DEF CacheSet, IInv, HistoryOK
<1>7. \A q \in Procs : InHandOK(q)'
  BY <1>3, <1>4, <1>5 DEF InHandOK, Moves, Key, IInv, HistoryOK
<1>8. HistoryOK'
  BY <1>1, <1>5, <1>6, <1>7 DEF IInv, HistoryOK, tables
<1>9. RowsOK' /\ TxOK' /\ AnswersOK'
  BY <1>1, <1>3, RowsFrame, TxFrame, AnswersFrame DEF IInv, tables, TxOK
<1> QED
  BY <1>8, <1>9 DEF IInv

-----------------------------------------------------------------------------
(***************************************************************************)
(* The transaction.                                                        *)
(***************************************************************************)
LEMMA TxBeginKeeps ==
    ASSUME TInv, IInv, NEW p \in Procs, TxBegin(p)
    PROVE  IInv'
<1>1. Control /\ UNCHANGED <<tables, cache, stored>> /\ pc[p] = "txBegin"
  BY DEF TInv, TxBegin
<1>2. CASE Goto(p, "txSchema", loc[p])
  <2>1. Moves(p) /\ pc'[p] = "txSchema" /\ resp'[p] = resp[p]
    BY <1>1, <1>2, GotoMoves
  <2>2. InHandOK(p)'
    BY <2>1 DEF InHandOK
  <2> QED
    BY <1>1, <2>1, <2>2, QuietStep
<1>3. ASSUME NEW r \in versions, r.id = CreateID(p), Reply(p, "ok", r.version, Nil)
      PROVE  IInv'
  <2>1. /\ Moves(p) /\ pc'[p] = "idle"
        /\ resp'[p] = [status |-> "ok", version |-> r.version, data |-> Nil]
    BY <1>1, <1>3, ReplyMoves
  <2>2. req[p].op = "create"
    BY <1>1, HandlerFacts DEF HandlerOK, TxSteps
  <2>3. r.id.joined = Joined(Key(p)) /\ r.id.file = req[p].file
    BY <1>3 DEF CreateID, VersionID
  <2>4. Joined(r.schema) = Joined(Key(p))
    BY <2>3 DEF IInv, RowsOK
  <2>5. WasStored(Joined(Key(p)), r.version, req[p].file)
    BY <2>3, <2>4 DEF IInv, HistoryOK, WasStored
  <2>6. AnswerOK(p)'
    BY <1>1, <2>1, <2>2, <2>5 DEF AnswerOK, Moves, WasStored, Key
  <2> QED
    BY <1>1, <2>1, <2>6, EndOfRead
<1> QED
  BY <1>2, <1>3 DEF TxBegin

LEMMA TxSchemaKeeps ==
    ASSUME TInv, IInv, NEW p \in Procs, TxSchema(p)
    PROVE  IInv'
<1>1. Control /\ UNCHANGED <<tables, cache, stored>> /\ pc[p] = "txSchema" /\ ~Locked(Key(p))
  BY DEF TInv, TxSchema
<1>2. CASE Fail(p, "unknown")
  BY <1>1, <1>2, PlainAnswer, EndOfRead DEF Fail
<1>3. CASE nsTab[req[p].ns] # Nil /\ Goto(p, "txVersion", loc[p])
  <2>1. Moves(p) /\ pc'[p] = "txVersion" /\ resp'[p] = resp[p]
    BY <1>1, <1>3, GotoMoves
  <2>2. InHandOK(p)'
    BY <2>1 DEF InHandOK
  <2>3. RowsOK' /\ HistoryOK' /\ AnswersOK'
    BY <1>1, <2>1, <2>2, RowsFrame, HistoryFrame, AnswersFrame DEF IInv, tables
  <2>4. \A q \in Procs : Key(q)' = Key(q) /\ CreateID(q)' = CreateID(q)
    BY <2>1 DEF Moves, Key, CreateID, VersionID
  <2>5. \A q \in Procs : HoldsRow(q)' => q = p \/ (HoldsRow(q) /\ Key(q) # Key(p))
    BY <1>1, <2>1 DEF HoldsRow, Moves, Locked
  <2>6. \A q \in Procs : pc'[q] = "txCommit" => pc[q] = "txCommit" /\ loc'[q] = loc[q]
    BY <2>1 DEF Moves
  <2>7. TxOK'
    <3>1. (\A q, t \in Procs : HoldsRow(q) /\ HoldsRow(t) /\ Key(q) = Key(t) => q = t)'
      BY <2>4, <2>5 DEF IInv, TxOK
    <3>2. (\A q, t \in Procs :
             pc[q] = "txCommit" /\ pc[t] = "txCommit" /\ CreateID(q) = CreateID(t) => q = t)'
      BY <2>4, <2>6 DEF IInv, TxOK
    <3>3. (\A q \in Procs : HoldsRow(q) => nsTab[req[q].ns] # Nil)'
      BY <1>1, <1>3, <2>1, <2>5 DEF IInv, TxOK, Moves, tables
    <3>4. (\A q \in Procs : pc[q] = "txCommit" =>
             \A r \in versions : r.id # CreateID(q) /\ (r.schema = Key(q) => r.version < loc[q].ver))'
      BY <1>1, <2>4, <2>6 DEF IInv, TxOK, tables
    <3> QED
      BY <3>1, <3>2, <3>3, <3>4 DEF TxOK
  <2> QED
    BY <2>3, <2>7 DEF IInv
<1> QED
  BY <1>2, <1>3 DEF TxSchema

LEMMA TxVersionKeeps ==
    ASSUME TInv, IInv, NEW p \in Procs, TxVersion(p)
    PROVE  IInv'
<1> DEFINE v == MaxVersion(Key(p)) + 1
           l == [loc[p] EXCEPT !.ver = v]
<1>1. /\ Control /\ UNCHANGED <<tables, cache, stored>> /\ pc[p] = "txVersion"
      /\ ~WaitsForPendingRow(p)
  BY DEF TInv, TxVersion
<1>2. v \in Nat /\ \A r \in versions : r.schema = Key(p) => r.version < v
  <2>1. /\ MaxVersion(Key(p)) \in Nat
        /\ \A r \in versions : r.schema = Key(p) => r.version <= MaxVersion(Key(p))
    BY MaxVersionIsMax DEF TInv, Tables
  <2>2. \A r \in versions : r.version \in Nat
    BY DEF TInv, Tables, VersionRows
  <2> QED
    BY <2>1, <2>2
<1>3. ASSUME Fail(p, "conflict"), NEW r \in versions,
             r.id = CreateID(p) \/ (r.schema = Key(p) /\ r.version = v)
      PROVE  IInv'
  <2>1. r.id = CreateID(p)
    BY <1>2, <1>3 DEF TInv, Tables, VersionRows
  <2>2. PICK s \in stored : s.schema = r.schema /\ s.file = r.id.file
    BY DEF IInv, HistoryOK
  <2>3. VersionID(s.schema, s.file) = CreateID(p)
    BY <2>1, <2>2 DEF IInv, RowsOK, VersionID, CreateID
  <2>4. /\ Moves(p) /\ pc'[p] = "idle"
        /\ resp'[p] = [status |-> "conflict", version |-> 0, data |-> Nil]
    BY <1>1, <1>3, ReplyMoves DEF Fail
  <2>5. req[p].op = "create"
    BY <1>1, HandlerFacts DEF HandlerOK, TxSteps
  <2>6. CreateID(p)' = CreateID(p)
    BY <2>4 DEF Moves, CreateID, VersionID, Key
  <2>7. AnswerOK(p)'
    BY <1>1, <2>3, <2>4, <2>5, <2>6 DEF AnswerOK, Moves
  <2> QED
    BY <1>1, <2>4, <2>7, EndOfRead
<1>4. ASSUME Goto(p, "txCommit", l), \A r \in versions : r.id # CreateID(p)
      PROVE  IInv'
  <2>1. Moves(p) /\ pc'[p] = "txCommit" /\ resp'[p] = resp[p] /\ loc'[p] = l
    BY <1>1, <1>4, GotoMoves
  <2>2. l.ver = v
    BY <1>1 DEF Control, Locals
  <2>3. InHandOK(p)'
    BY <2>1 DEF InHandOK
  <2>4. RowsOK' /\ HistoryOK' /\ AnswersOK'
    BY <1>1, <2>1, <2>3, RowsFrame, HistoryFrame, AnswersFrame DEF IInv, tables
  <2>5. \A q \in Procs : Key(q)' = Key(q) /\ CreateID(q)' = CreateID(q)
    BY <2>1 DEF Moves, Key, CreateID, VersionID
  <2>6. \A q \in Procs : HoldsRow(q)' => HoldsRow(q)
    BY <1>1, <2>1 DEF HoldsRow, Moves
  <2>7. \A q \in Procs : pc'[q] = "txCommit" =>
          q = p \/ (pc[q] = "txCommit" /\ loc'[q] = loc[q] /\ CreateID(q) # CreateID(p))
    BY <1>1, <2>1 DEF Moves, WaitsForPendingRow
  <2>8. TxOK'
    <3>1. (\A q, t \in Procs : HoldsRow(q) /\ HoldsRow(t) /\ Key(q) = Key(t) => q = t)'
      BY <2>5, <2>6 DEF IInv, TxOK
    <3>2. (\A q, t \in Procs :
             pc[q] = "txCommit" /\ pc[t] = "txCommit" /\ CreateID(q) = CreateID(t) => q = t)'
      BY <2>5, <2>7 DEF IInv, TxOK
    <3>3. (\A q \in Procs : HoldsRow(q) => nsTab[req[q].ns] # Nil)'
      BY <1>1, <2>1, <2>6 DEF IInv, TxOK, Moves, tables
    <3>4. (\A q \in Procs : pc[q] = "txCommit" =>
             \A r \in versions : r.id # CreateID(q) /\ (r.schema = Key(q) => r.version < loc[q].ver))'
      <4> HIDE DEF v, l
      <4>1. ASSUME NEW r \in versions, r.schema = Key(p) PROVE r.version < loc'[p].ver
        BY <1>2, <2>1, <2>2, <4>1
      <4>2. ASSUME NEW q \in Procs, q # p, pc'[q] = "txCommit", NEW r \in versions
            PROVE  r.id # CreateID(q) /\ (r.schema = Key(q) => r.version < loc'[q].ver)
        BY <2>7, <4>2 DEF IInv, TxOK
      <4> QED
        BY <1>1, <1>4, <2>5, <4>1, <4>2 DEF tables
    <3> QED
      BY <3>1, <3>2, <3>3, <3>4 DEF TxOK
  <2> QED
    BY <2>4, <2>8 DEF IInv
<1> QED
  BY <1>3, <1>4 DEF TxVersion

\* The commit: the pending rows join the tables.
LEMMA PublishKeeps ==
    ASSUME TInv, IInv, NEW p \in Procs, pc[p] = "txCommit", Publish(p), UNCHANGED cache,
           Moves(p), pc'[p] = "idle", AnswerOK(p)'
    PROVE  IInv'
<1> DEFINE k == Key(p)  f == req[p].file  v == loc[p].ver  id == CreateID(p)
           row == [schema |-> k, version |-> v, id |-> id]
           m == [version_id |-> id, file |-> f]
<1>1. /\ Control /\ Tables /\ loc[p] \in Locals /\ Merged(loc[p]) /\ v \in Nat \ {0}
      /\ k \in Schemas /\ f \in Files /\ HoldsRow(p)
  BY HandlerFacts DEF TInv, HandlerOK, TxSteps, Locals, HoldsRow
<1>2. /\ versions' = versions \cup {row} /\ vsf' = vsf \cup {m}
      /\ files' = files \cup {f} /\ nsTab' = nsTab
  BY DEF Publish
<1>3. id.joined = Joined(k) /\ id.file = f /\ m.version_id = id /\ m.file = f
  BY DEF CreateID, VersionID
<1>4. row.schema = k /\ row.version = v /\ row.id = id
  OBVIOUS
<1>5. \A r \in versions : r.id # id /\ (r.schema = k => r.version < v)
  BY DEF IInv, TxOK
<1>6. /\ \A j \in Schemas : schemas[j] # Nil => schemas'[j] # Nil
      /\ schemas'[k] # Nil
      /\ \A j \in Schemas : schemas'[j] # Nil => schemas[j] # Nil \/ j = k
  <2>1. [format |-> loc[p].format, compat |-> loc[p].compat] # Nil
    BY <1>1, NilAssumption DEF Merged, Meta
  <2> QED
    BY <1>1, <2>1 DEF Publish, Tables
<1>7. k.ns = req[p].ns
  BY DEF Key
<1> HIDE DEF k, f, v, id, row, m
<1>8. RowsOK'
  <2>1. (\A j \in Schemas : schemas[j] # Nil => nsTab[j.ns] # Nil)'
    BY <1>1, <1>2, <1>6, <1>7 DEF IInv, RowsOK, TxOK
  <2>2. (\A r \in versions : schemas[r.schema] # Nil)'
    BY <1>1, <1>2, <1>4, <1>6 DEF IInv, RowsOK, Tables, VersionRows
  <2>3. (\A r \in versions : r.id.joined = Joined(r.schema))'
    BY <1>2, <1>3, <1>4 DEF IInv, RowsOK
  <2>4. (\A r, s \in versions : r.id = s.id => r = s)'
    BY <1>2, <1>4, <1>5 DEF IInv, RowsOK
  <2>5. (\A r, s \in versions : r.schema = s.schema /\ r.version = s.version => r = s)'
    <3>1. \A r \in versions : r.schema = k => r.version # v
      BY <1>1, <1>5 DEF Tables, VersionRows
    <3> QED
      BY <1>2, <1>4, <3>1 DEF IInv, RowsOK
  <2>6. (\A r \in versions : [version_id |-> r.id, file |-> r.id.file] \in vsf)'
    <3>1. [version_id |-> row.id, file |-> row.id.file] = m
      BY <1>3, <1>4 DEF m
    <3> QED
      BY <1>2, <3>1 DEF IInv, RowsOK
  <2>7. (\A n \in vsf : \E r \in versions : r.id = n.version_id)'
    BY <1>2, <1>3, <1>4 DEF IInv, RowsOK
  <2>8. (\A n \in vsf : n.version_id.file = n.file /\ n.file \in files)'
    BY <1>2, <1>3 DEF IInv, RowsOK
  <2> QED
    BY <2>1, <2>2, <2>3, <2>4, <2>5, <2>6, <2>7, <2>8 DEF RowsOK
<1>9. TxOK'
  <2>1. \A q \in Procs : HoldsRow(q)' =>
          q # p /\ HoldsRow(q) /\ pc'[q] = pc[q] /\ loc'[q] = loc[q] /\ Key(q) # k
    BY <1>1 DEF Moves, HoldsRow, IInv, TxOK, k
  <2>2. \A q \in Procs : Key(q)' = Key(q) /\ CreateID(q)' = CreateID(q)
    BY DEF Moves, Key, CreateID, VersionID
  <2>3. \A q \in Procs : pc'[q] = "txCommit" =>
          HoldsRow(q)' /\ pc[q] = "txCommit" /\ CreateID(q) # id
    <3>1. \A q \in Procs : pc'[q] = "txCommit" => HoldsRow(q)' /\ pc[q] = "txCommit" /\ q # p
      BY <2>1 DEF HoldsRow
    <3> QED
      BY <3>1 DEF IInv, TxOK, id
  <2>4. (\A q, t \in Procs : HoldsRow(q) /\ HoldsRow(t) /\ Key(q) = Key(t) => q = t)'
    BY <2>1, <2>2 DEF IInv, TxOK
  <2>5. (\A q, t \in Procs :
           pc[q] = "txCommit" /\ pc[t] = "txCommit" /\ CreateID(q) = CreateID(t) => q = t)'
    BY <2>2, <2>3 DEF IInv, TxOK
  <2>6. (\A q \in Procs : HoldsRow(q) => nsTab[req[q].ns] # Nil)'
    BY <1>2, <2>1 DEF Moves, IInv, TxOK
  <2>7. (\A q \in Procs : pc[q] = "txCommit" =>
           \A r \in versions : r.id # CreateID(q) /\ (r.schema = Key(q) => r.version < loc[q].ver))'
    <3>1. ASSUME NEW q \in Procs, pc'[q] = "txCommit", NEW r \in versions
          PROVE  r.id # CreateID(q) /\ (r.schema = Key(q) => r.version < loc'[q].ver)
      BY <2>1, <2>3, <3>1 DEF IInv, TxOK
    <3>2. ASSUME NEW q \in Procs, pc'[q] = "txCommit"
          PROVE  row.id # CreateID(q) /\ row.schema # Key(q)
      BY <1>4, <2>1, <2>3, <3>2
    <3> QED
      BY <1>2, <2>2, <3>1, <3>2
  <2> QED
    BY <2>4, <2>5, <2>6, <2>7 DEF TxOK
<1>10. HistoryOK'
  <2>1. stored' = stored \cup {[schema |-> k, version |-> v, file |-> f, compat |-> loc[p].compat]}
    BY DEF Publish, k, v, f
  <2>2. \A j, n, g : WasStored(j, n, g) => WasStored(j, n, g)'
    BY <2>1 DEF WasStored
  <2>3. \A r \in versions' :
          \E s \in stored' : s.schema = r.schema /\ s.version = r.version /\ s.file = r.id.file
    <3> DEFINE st == [schema |-> k, version |-> v, file |-> f, compat |-> loc[p].compat]
    <3>1. st \in stored' /\ st.schema = k /\ st.version = v /\ st.file = f
      BY <2>1
    <3> HIDE DEF st
    <3>2. row.id.file = f
      BY <1>3, <1>4
    <3>3. \E s \in stored' :
            s.schema = row.schema /\ s.version = row.version /\ s.file = row.id.file
      BY <1>4, <3>1, <3>2
    <3>4. \A r \in versions :
            \E s \in stored' : s.schema = r.schema /\ s.version = r.version /\ s.file = r.id.file
      BY <2>1 DEF IInv, HistoryOK
    <3> QED
      BY <1>2, <3>3, <3>4
  <2>4. \A q \in Procs : InHandOK(q)'
    BY <2>2 DEF IInv, HistoryOK, InHandOK, Moves, Key
  <2> QED
    BY <2>2, <2>3, <2>4 DEF IInv, HistoryOK
<1>11. AnswersOK'
  BY AnswersFrame DEF IInv, Publish
<1> QED
  BY <1>8, <1>9, <1>10, <1>11 DEF IInv

LEMMA TxCommitKeeps ==
    ASSUME TInv, IInv, NEW p \in Procs, TxCommit(p)
    PROVE  IInv'
<1>1. Control /\ pc[p] = "txCommit" /\ Publish(p)
  BY DEF TInv, TxCommit
<1>2. /\ Moves(p) /\ pc'[p] = "idle"
      /\ resp'[p] = [status |-> "ok", version |-> loc[p].ver, data |-> Nil]
  BY <1>1, ReplyMoves DEF TxCommit
<1>3. \E s \in stored' : /\ Joined(s.schema) = Joined(Key(p))
                         /\ s.version = loc[p].ver /\ s.file = req[p].file
  <2> DEFINE s == [schema |-> Key(p), version |-> loc[p].ver, file |-> req[p].file,
                   compat |-> loc[p].compat]
  <2>1. s \in stored' /\ s.schema = Key(p) /\ s.version = loc[p].ver /\ s.file = req[p].file
    BY <1>1 DEF Publish
  <2> HIDE DEF s
  <2> QED
    BY <2>1
<1>4. req[p].op = "create"
  BY <1>1, HandlerFacts DEF HandlerOK, TxSteps
<1>5. AnswerOK(p)'
  BY <1>2, <1>3, <1>4 DEF AnswerOK, WasStored, Moves, Key
<1> QED
  BY <1>1, <1>2, <1>5, PublishKeeps DEF TxCommit

LEMMA CommitAnswerLostKeeps ==
    ASSUME TInv, IInv, NEW p \in Procs, CommitAnswerLost(p)
    PROVE  IInv'
<1>1. Control /\ pc[p] = "txCommit" /\ Publish(p)
  BY DEF TInv, CommitAnswerLost
<1>2. Moves(p) /\ pc'[p] = "idle" /\ AnswerOK(p)'
  BY <1>1, PlainAnswer DEF CommitAnswerLost, Fail
<1> QED
  BY <1>1, <1>2, PublishKeeps DEF CommitAnswerLost

-----------------------------------------------------------------------------
(***************************************************************************)
(* Deletes and sweeps.                                                     *)
(***************************************************************************)
\* Rows that go with everything that refers to them leave the rest intact.
LEMMA CascadeKeepsRows ==
    ASSUME TInv, IInv, NEW rows \in SUBSET versions, Cascade(rows), UNCHANGED files,
           \A j \in Schemas : schemas'[j] # Nil => nsTab'[j.ns] # Nil,
           \A r \in versions \ rows : schemas'[r.schema] # Nil
    PROVE  RowsOK'
<1>1. versions' = versions \ rows /\ vsf' = {m \in vsf : \A r \in rows : r.id # m.version_id}
  BY DEF Cascade
<1>2. (\A r \in versions : r.id.joined = Joined(r.schema))'
  BY <1>1 DEF IInv, RowsOK
<1>3. (\A r, s \in versions : r.id = s.id => r = s)'
  BY <1>1 DEF IInv, RowsOK
<1>4. (\A r, s \in versions : r.schema = s.schema /\ r.version = s.version => r = s)'
  BY <1>1 DEF IInv, RowsOK
<1>5. (\A r \in versions : [version_id |-> r.id, file |-> r.id.file] \in vsf)'
  <2>1. ASSUME NEW r \in versions \ rows
        PROVE  [version_id |-> r.id, file |-> r.id.file] \in vsf'
    <3> DEFINE m == [version_id |-> r.id, file |-> r.id.file]
    <3>1. m \in vsf /\ m.version_id = r.id
      BY DEF IInv, RowsOK
    <3>2. \A s \in rows : s.id # r.id
      BY DEF IInv, RowsOK
    <3> HIDE DEF m
    <3>3. m \in vsf'
      BY <1>1, <3>1, <3>2
    <3> QED BY <3>3 DEF m
  <2> QED BY <1>1, <2>1
<1>6. (\A m \in vsf : \E r \in versions : r.id = m.version_id)'
  BY <1>1 DEF IInv, RowsOK
<1>7. (\A m \in vsf : m.version_id.file = m.file /\ m.file \in files)'
  BY <1>1 DEF IInv, RowsOK
<1> QED
  BY <1>1, <1>2, <1>3, <1>4, <1>5, <1>6, <1>7 DEF RowsOK

LEMMA DeleteSchemaKeeps ==
    ASSUME TInv, IInv, NEW p \in Procs, DeleteSchema(p)
    PROVE  IInv'
<1>1. Control /\ Moves(p) /\ pc'[p] = "orphans" /\ resp'[p] = resp[p]
  BY GotoMoves DEF TInv, DeleteSchema
<1> DEFINE rows == {r \in versions : r.schema \in DeletedSchemas(p)}
<1>2. /\ Cascade(rows) /\ UNCHANGED <<nsTab, files, cache, stored>>
      /\ schemas' = [k \in Schemas |-> IF k \in DeletedSchemas(p) THEN Nil ELSE schemas[k]]
  BY DEF DeleteSchema
<1>3. \A j \in Schemas : schemas'[j] # Nil => nsTab'[j.ns] # Nil
  BY <1>2 DEF IInv, RowsOK
<1>4. \A r \in versions \ rows : schemas'[r.schema] # Nil
  BY <1>2 DEF IInv, RowsOK, TInv, Tables, VersionRows
<1>5. RowsOK'
  BY <1>2, <1>3, <1>4, CascadeKeepsRows
<1>6. InHandOK(p)' /\ versions' \subseteq versions
  BY <1>1, <1>2 DEF InHandOK, Cascade
<1>7. TxOK' /\ HistoryOK' /\ AnswersOK'
  BY <1>1, <1>2, <1>6, TxFrame, HistoryFrame, AnswersFrame DEF IInv, TxOK
<1> QED
  BY <1>5, <1>7 DEF IInv

LEMMA NamespaceDeleteKeeps ==
    ASSUME TInv, IInv, NEW p \in Procs, NamespaceDelete(p)
    PROVE  IInv'
<1>1. Control /\ Tables /\ Moves(p) /\ pc'[p] = "orphans" /\ resp'[p] = resp[p]
  BY GotoMoves DEF TInv, NamespaceDelete
<1>2. req[p].ns \in Namespaces
  BY <1>1, HandlerFacts DEF NamespaceDelete
<1> DEFINE rows == {r \in versions : r.schema \in DeletedSchemas(p)}
<1>3. /\ Cascade(rows) /\ UNCHANGED <<files, cache, stored>>
      /\ nsTab' = [nsTab EXCEPT ![req[p].ns] = Nil]
      /\ schemas' = [k \in Schemas |-> IF k \in DeletedSchemas(p) THEN Nil ELSE schemas[k]]
  BY DEF NamespaceDelete
<1>4. \A j \in Schemas : schemas'[j] # Nil => nsTab'[j.ns] # Nil
  <2>1. ASSUME NEW j \in Schemas, schemas'[j] # Nil PROVE nsTab'[j.ns] # Nil
    <3>1. schemas[j] # Nil /\ j \notin DeletedSchemas(p)
      BY <1>3, <2>1
    <3>2. j.ns # req[p].ns
      BY <3>1 DEF DeletedSchemas, NamespaceDelete
    <3>3. nsTab[j.ns] # Nil /\ j.ns \in Namespaces
      BY <3>1 DEF IInv, RowsOK, Schemas
    <3> QED
      BY <1>1, <1>3, <3>2, <3>3 DEF Tables
  <2> QED BY <2>1
<1>5. \A r \in versions \ rows : schemas'[r.schema] # Nil
  BY <1>1, <1>3 DEF IInv, RowsOK, Tables, VersionRows
<1>6. RowsOK'
  BY <1>3, <1>4, <1>5, CascadeKeepsRows
<1>7. InHandOK(p)' /\ versions' \subseteq versions
  BY <1>1, <1>3 DEF InHandOK, Cascade
<1>8. ASSUME NEW q \in Procs, HoldsRow(q) PROVE nsTab'[req[q].ns] # Nil
  <2>1. /\ Key(q) \in Schemas /\ Key(q).ns = req[q].ns /\ req[q].ns \in Namespaces
        /\ nsTab[req[q].ns] # Nil
    BY <1>1, <1>8, HandlerFacts DEF HoldsRow, TxSteps, Key, IInv, TxOK
  <2>2. Locked(Key(q))
    BY <1>8 DEF Locked
  <2>3. req[q].ns # req[p].ns
    BY <2>1, <2>2 DEF NamespaceDelete
  <2> QED
    BY <1>1, <1>3, <2>1, <2>3 DEF Tables
<1>9. TxOK'
  BY <1>1, <1>7, <1>8, TxFrame DEF IInv
<1>10. HistoryOK' /\ AnswersOK'
  BY <1>1, <1>3, <1>7, HistoryFrame, AnswersFrame DEF IInv
<1> QED
  BY <1>6, <1>9, <1>10 DEF IInv

LEMMA DeleteVersionKeeps ==
    ASSUME TInv, IInv, NEW p \in Procs, DeleteVersion(p)
    PROVE  IInv'
<1>1. Control /\ Moves(p) /\ pc'[p] = "orphans" /\ resp'[p] = resp[p]
  BY GotoMoves DEF TInv, DeleteVersion
<1> DEFINE rows == {r \in RowsOf(Key(p)) : r.version = req[p].version}
<1>2. /\ Cascade(rows) /\ UNCHANGED <<nsTab, schemas, files, cache, stored>>
      /\ rows \in SUBSET versions
  BY DEF DeleteVersion, RowsOf
<1> HIDE DEF rows
<1>3. RowsOK'
  <2>1. \A r \in versions \ rows : schemas'[r.schema] # Nil
    BY <1>2 DEF IInv, RowsOK
  <2>2. \A j \in Schemas : schemas'[j] # Nil => nsTab'[j.ns] # Nil
    BY <1>2 DEF IInv, RowsOK
  <2> QED
    BY <1>2, <2>1, <2>2, CascadeKeepsRows
<1>4. InHandOK(p)' /\ versions' \subseteq versions
  BY <1>1, <1>2 DEF InHandOK, Cascade
<1>5. TxOK' /\ HistoryOK' /\ AnswersOK'
  BY <1>1, <1>2, <1>4, TxFrame, HistoryFrame, AnswersFrame DEF IInv, TxOK
<1> QED
  BY <1>3, <1>5 DEF IInv

LEMMA SelectOrphansKeeps ==
    ASSUME TInv, IInv, NEW p \in Procs, SelectOrphans(p)
    PROVE  IInv'
<1>1. Moves(p) /\ pc'[p] = "sweep" /\ resp'[p] = resp[p] /\ UNCHANGED <<tables, cache, stored>>
  BY GotoMoves DEF TInv, SelectOrphans
<1>2. InHandOK(p)'
  BY <1>1 DEF InHandOK
<1> QED
  BY <1>1, <1>2, QuietStep

\* Files no map row refers to may go.
LEMMA SweepStep ==
    ASSUME TInv, IInv, NEW p \in Procs, Moves(p), pc'[p] = "idle", AnswerOK(p)',
           UNCHANGED <<nsTab, schemas, versions, vsf, cache, stored>>,
           \A m \in vsf : m.file \in files'
    PROVE  IInv'
<1>1. RowsOK'
  BY DEF IInv, RowsOK
<1>2. InHandOK(p)'
  BY DEF InHandOK
<1>3. TxOK' /\ HistoryOK' /\ AnswersOK'
  BY <1>2, TxFrame, HistoryFrame, AnswersFrame DEF IInv, TxOK
<1> QED
  BY <1>1, <1>3 DEF IInv

LEMMA DeleteOrphansKeeps ==
    ASSUME TInv, IInv, NEW p \in Procs, DeleteOrphans(p)
    PROVE  IInv'
<1>1. Control /\ pc[p] = "sweep" /\ Reply(p, loc[p].status, 0, Nil)
  BY DEF TInv, DeleteOrphans
<1>2. req[p].op \in {"deleteSchema", "deleteVersion", "nsDelete"}
  BY <1>1, HandlerFacts DEF HandlerOK
<1>3. Moves(p) /\ pc'[p] = "idle" /\ AnswerOK(p)'
  BY <1>1, <1>2, PlainAnswer
<1>4. \A m \in vsf : m.file \in files'
  <2>1. CASE \E m \in vsf : m.file \in cand[p]
    BY <2>1 DEF DeleteOrphans, IInv, RowsOK
  <2>2. CASE \A m \in vsf : m.file \notin cand[p]
    <3>1. files' = files \ cand[p]
      BY <2>2 DEF DeleteOrphans, Sweep
    <3> QED
      BY <2>2, <3>1 DEF IInv, RowsOK
  <2> QED
    BY <2>1, <2>2
<1> QED
  BY <1>3, <1>4, SweepStep DEF DeleteOrphans

LEMMA TxFileSweptKeeps ==
    ASSUME TInv, IInv, NEW p \in Procs, NEW q \in Procs, TxFileSwept(p, q)
    PROVE  IInv'
<1>1. Control /\ Fail(p, "unknown")
  BY DEF TInv, TxFileSwept
<1>2. Moves(p) /\ pc'[p] = "idle" /\ AnswerOK(p)'
  BY <1>1, PlainAnswer DEF Fail
<1>3. \A m \in vsf : m.file \in files'
  BY DEF TxFileSwept, Sweep, IInv, RowsOK
<1> QED
  BY <1>2, <1>3, SweepStep DEF TxFileSwept

-----------------------------------------------------------------------------
(***************************************************************************)
(* Single-statement writes, arrivals and failures.                         *)
(***************************************************************************)
\* A write that replaces metadata but makes no row appear or vanish, except a
\* new namespace.
LEMMA WriteKeeps ==
    ASSUME TInv, IInv, NEW p \in Procs, Write(p)
    PROVE  IInv'
<1>1. Control /\ Tables /\ pc[p] = "write" /\ pc[p] # "idle"
  BY DEF TInv, Write, UpdateMetadata, NamespaceCreate, NamespaceUpdate
<1>2. req[p] \in Requests /\ req[p].op \in {"updateMetadata", "nsCreate", "nsUpdate"}
  BY <1>1, HandlerFacts DEF HandlerOK
<1>3. Fail(p, "noRows") \/ Fail(p, "conflict") \/ Reply(p, "ok", 0, Nil)
  BY DEF Write, UpdateMetadata, NamespaceCreate, NamespaceUpdate
<1>4. Moves(p) /\ pc'[p] = "idle" /\ AnswerOK(p)'
  BY <1>1, <1>2, <1>3, PlainAnswer DEF Fail
<1>5. UNCHANGED <<versions, vsf, files, cache, stored>>
  BY DEF Write, UpdateMetadata, NamespaceCreate, NamespaceUpdate
<1>6. /\ \A n \in Namespaces : nsTab[n] # Nil => nsTab'[n] # Nil
      /\ \A k \in Schemas : schemas'[k] # Nil <=> schemas[k] # Nil
  <2>1. CASE UpdateMetadata(p)
    <3>1. Key(p) \in Schemas /\ req[p].compat \in Compats
      BY <1>2, <2>1, RequestFields DEF UpdateMetadata, Key
    <3>2. CASE schemas[Key(p)] = Nil
      BY <2>1, <3>2 DEF UpdateMetadata
    <3>3. CASE schemas[Key(p)] # Nil
      <4> DEFINE m == [schemas[Key(p)] EXCEPT !.compat = req[p].compat]
      <4>1. schemas[Key(p)] \in Meta
        BY <1>1, <3>1, <3>3 DEF Tables
      <4>2. m \in Meta
        BY <3>1, <4>1 DEF Meta
      <4>3. schemas' = [schemas EXCEPT ![Key(p)] = m] /\ UNCHANGED nsTab
        BY <2>1, <3>3 DEF UpdateMetadata
      <4> HIDE DEF m
      <4> QED
        BY <1>1, <3>1, <3>3, <4>2, <4>3, NilAssumption DEF Tables
    <3> QED BY <3>2, <3>3
  <2>2. CASE NamespaceCreate(p) \/ NamespaceUpdate(p)
    <3>1. req[p].ns \in Namespaces /\ NamespaceRow(p) \in Meta
      BY <1>2, <2>2, RequestFields DEF NamespaceCreate, NamespaceUpdate, NamespaceRow, Meta
    <3>2. nsTab' = nsTab \/ nsTab' = [nsTab EXCEPT ![req[p].ns] = NamespaceRow(p)]
      BY <2>2 DEF NamespaceCreate, NamespaceUpdate
    <3>3. UNCHANGED schemas
      BY <2>2 DEF NamespaceCreate, NamespaceUpdate
    <3> QED
      BY <1>1, <3>1, <3>2, <3>3, NilAssumption DEF Tables
  <2> QED BY <2>1, <2>2 DEF Write
<1>7. RowsOK'
  <2>1. (\A k \in Schemas : schemas[k] # Nil => nsTab[k.ns] # Nil)'
    BY <1>6 DEF IInv, RowsOK, Schemas
  <2>2. (\A r \in versions : schemas[r.schema] # Nil)'
    BY <1>1, <1>5, <1>6 DEF IInv, RowsOK, Tables, VersionRows
  <2> QED
    BY <1>5, <2>1, <2>2 DEF IInv, RowsOK
<1>8. ASSUME NEW q \in Procs, HoldsRow(q) PROVE nsTab'[req[q].ns] # Nil
  BY <1>1, <1>6, <1>8, HandlerFacts DEF HoldsRow, IInv, TxOK
<1>9. InHandOK(p)'
  BY <1>4 DEF InHandOK
<1>10. TxOK' /\ HistoryOK' /\ AnswersOK'
  BY <1>4, <1>5, <1>8, <1>9, TxFrame, HistoryFrame, AnswersFrame DEF IInv
<1> QED
  BY <1>7, <1>10 DEF IInv

LEMMA DbErrorKeeps ==
    ASSUME TInv, IInv, NEW p \in Procs, DbError(p)
    PROVE  IInv'
<1>1. Control /\ pc[p] # "idle" /\ UNCHANGED <<tables, cache, stored>>
  BY DEF TInv, DbError
<1>2. CASE pc[p] \in ReadSteps /\ loc[p].ret = "prev"
  <2>1. Goto(p, "txBegin", [loc[p] EXCEPT !.ver = 0])
    BY <1>2, Zenon DEF DbError, ReadSteps
  <2> QED
    BY <1>1, <2>1, GotoMoves, EndOfRead
<1>3. CASE pc[p] = "delete"
  <2>1. Goto(p, "orphans", [loc[p] EXCEPT !.status = "unknown"])
    BY <1>3 DEF DbError, ReadSteps
  <2>2. Moves(p) /\ pc'[p] = "orphans" /\ resp'[p] = resp[p]
    BY <1>1, <2>1, GotoMoves
  <2>3. InHandOK(p)'
    BY <2>2 DEF InHandOK
  <2> QED
    BY <1>1, <2>2, <2>3, QuietStep
<1>4. CASE pc[p] \in {"orphans", "sweep"}
  <2>1. Reply(p, loc[p].status, 0, Nil)
    BY <1>4 DEF DbError, ReadSteps
  <2>2. req[p].op \notin {"create", "get", "getLatest"}
    BY <1>1, <1>4, HandlerFacts DEF HandlerOK
  <2> QED
    BY <1>1, <2>1, <2>2, PlainAnswer, EndOfRead
<1>5. CASE ~(pc[p] \in ReadSteps /\ loc[p].ret = "prev") /\ pc[p] \notin {"delete", "orphans", "sweep"}
  <2>1. Fail(p, "unknown")
    BY <1>5 DEF DbError
  <2> QED
    BY <1>1, <2>1, PlainAnswer, EndOfRead DEF Fail
<1> QED
  BY <1>2, <1>3, <1>4, <1>5

LEMMA CrashKeeps ==
    ASSUME TInv, IInv, Crash
    PROVE  IInv'
<1>1. RowsOK'
  BY RowsFrame DEF IInv, Crash
<1>2. TxOK'
  BY DEF Crash, TxOK, HoldsRow
<1>3. HistoryOK'
  BY DEF IInv, HistoryOK, InHandOK, Crash, tables
<1>4. AnswersOK'
  BY DEF AnswersOK, AnswerOK, Crash, NoResponse
<1> QED
  BY <1>1, <1>2, <1>3, <1>4 DEF IInv

LEMMA EvictKeeps ==
    ASSUME TInv, IInv, Evict
    PROVE  IInv'
<1>1. cache' \subseteq cache /\ UNCHANGED <<tables, pc, req, loc, resp, stored>>
  BY DEF Evict
<1>2. RowsOK' /\ TxOK'
  BY <1>1 DEF IInv, RowsOK, TxOK, tables, HoldsRow, Key, CreateID, VersionID
<1>3. HistoryOK'
  BY <1>1 DEF IInv, HistoryOK, InHandOK, WasStored, tables, Key
<1>4. AnswersOK'
  BY <1>1 DEF IInv, AnswersOK, AnswerOK, WasStored, Key, CreateID, VersionID
<1> QED
  BY <1>2, <1>3, <1>4 DEF IInv

LEMMA StartKeeps ==
    ASSUME TInv, IInv, NEW p \in Procs, Start(p)
    PROVE  IInv'
<1>1. PICK r \in Requests :
         /\ req' = [req EXCEPT ![p] = r]
         /\ pc' = [pc EXCEPT ![p] = FirstStep(r.op)]
         /\ loc' = [loc EXCEPT ![p] = [NoLocals EXCEPT !.ver = r.version]]
  BY DEF Start
<1>2. FirstStep(r.op) \notin {"txVersion", "txCommit", "data", "cacheSet"}
  BY RequestFields DEF FirstStep, OpNames
<1>3. /\ UNCHANGED <<tables, cache, stored>> /\ resp' = [resp EXCEPT ![p] = NoResponse]
      /\ Control
  BY DEF Start, TInv
<1>4. pc'[p] \notin {"txVersion", "txCommit", "data", "cacheSet"} /\ resp'[p] = NoResponse
  BY <1>1, <1>2, <1>3 DEF Control
<1>5. \A q \in Procs : q # p =>
        /\ pc'[q] = pc[q] /\ loc'[q] = loc[q] /\ resp'[q] = resp[q] /\ req'[q] = req[q]
        /\ Key(q)' = Key(q) /\ CreateID(q)' = CreateID(q)
  BY <1>1, <1>3 DEF Control, Key, CreateID, VersionID
<1>6. RowsOK'
  BY <1>3, RowsFrame DEF IInv
<1>7. TxOK'
  <2>1. \A q \in Procs : HoldsRow(q)' => q # p /\ HoldsRow(q)
    BY <1>4, <1>5 DEF HoldsRow
  <2>2. \A q \in Procs : pc'[q] = "txCommit" => q # p /\ pc[q] = "txCommit"
    BY <1>4, <1>5
  <2>3. (\A q, t \in Procs : HoldsRow(q) /\ HoldsRow(t) /\ Key(q) = Key(t) => q = t)'
    BY <1>5, <2>1 DEF IInv, TxOK
  <2>4. (\A q, t \in Procs :
           pc[q] = "txCommit" /\ pc[t] = "txCommit" /\ CreateID(q) = CreateID(t) => q = t)'
    BY <1>5, <2>2 DEF IInv, TxOK
  <2>5. (\A q \in Procs : HoldsRow(q) => nsTab[req[q].ns] # Nil)'
    BY <1>3, <1>5, <2>1 DEF IInv, TxOK, tables
  <2>6. (\A q \in Procs : pc[q] = "txCommit" =>
           \A s \in versions : s.id # CreateID(q) /\ (s.schema = Key(q) => s.version < loc[q].ver))'
    BY <1>3, <1>5, <2>2 DEF IInv, TxOK, tables
  <2> QED
    BY <2>3, <2>4, <2>5, <2>6 DEF TxOK
<1>8. \A j, v, f : WasStored(j, v, f)' = WasStored(j, v, f)
  BY <1>3 DEF WasStored
<1>9. HistoryOK'
  <2>1. \A q \in Procs : InHandOK(q)'
    BY <1>4, <1>5, <1>8 DEF IInv, HistoryOK, InHandOK
  <2> QED
    BY <1>3, <1>8, <2>1 DEF IInv, HistoryOK, tables
<1>10. AnswersOK'
  <2>1. AnswerOK(p)'
    BY <1>4 DEF AnswerOK, NoResponse
  <2>2. ASSUME NEW q \in Procs, q # p PROVE AnswerOK(q)'
    BY <1>3, <1>5, <1>8, <2>2 DEF IInv, AnswersOK, AnswerOK
  <2> QED
    BY <2>1, <2>2 DEF AnswersOK
<1> QED
  BY <1>6, <1>7, <1>9, <1>10 DEF IInv

-----------------------------------------------------------------------------
LEMMA InitIInv == Init => IInv
<1> SUFFICES ASSUME Init PROVE IInv
  OBVIOUS
<1>1. RowsOK
  BY DEF Init, RowsOK
<1>2. TxOK
  BY DEF Init, TxOK, HoldsRow
<1>3. HistoryOK
  BY DEF Init, HistoryOK, InHandOK
<1>4. AnswersOK
  BY DEF Init, AnswersOK, AnswerOK
<1> QED
  BY <1>1, <1>2, <1>3, <1>4 DEF IInv

LEMMA NextIInv == TInv /\ IInv /\ [Next]_vars => IInv'
<1> SUFFICES ASSUME TInv, IInv, [Next]_vars PROVE IInv'
  OBVIOUS
<1>1. ASSUME NEW p \in Procs, Start(p) PROVE IInv'
  BY <1>1, StartKeeps
<1>2. ASSUME NEW p \in Procs, Read(p) PROVE IInv'
  BY <1>2, NamespaceGetKeeps, GetLatestVersionKeeps, GetMetadataKeeps, CacheGetKeeps,
     GetVersionIDKeeps, GetSchemaDataKeeps, CacheSetKeeps DEF Read
<1>3. ASSUME NEW p \in Procs, Tx(p) PROVE IInv'
  BY <1>3, TxBeginKeeps, TxSchemaKeeps, TxVersionKeeps, TxCommitKeeps DEF Tx
<1>4. ASSUME NEW p \in Procs, Delete(p) PROVE IInv'
  BY <1>4, DeleteSchemaKeeps, NamespaceDeleteKeeps, DeleteVersionKeeps,
     SelectOrphansKeeps, DeleteOrphansKeeps DEF Delete
<1>5. ASSUME NEW p \in Procs, Write(p) PROVE IInv'
  BY <1>5, WriteKeeps
<1>6. ASSUME NEW p \in Procs, DbError(p) \/ CommitAnswerLost(p) PROVE IInv'
  BY <1>6, DbErrorKeeps, CommitAnswerLostKeeps
<1>7. ASSUME NEW p \in Procs, NEW q \in Procs, TxFileSwept(p, q) PROVE IInv'
  BY <1>7, TxFileSweptKeeps
<1>8. CASE Evict \/ Crash
  BY <1>8, EvictKeeps, CrashKeeps
<1>9. CASE UNCHANGED vars
  <2>1. UNCHANGED <<tables, cache, stored, pc, req, loc, resp>>
    BY <1>9 DEF vars, tables
  <2>2. RowsOK'
    BY <2>1, RowsFrame DEF IInv, tables
  <2>3. TxOK'
    BY <2>1 DEF IInv, TxOK, HoldsRow, Key, CreateID, VersionID, tables
  <2>4. HistoryOK'
    BY <2>1 DEF IInv, HistoryOK, InHandOK, WasStored, Key, tables
  <2>5. AnswersOK'
    BY <2>1 DEF IInv, AnswersOK, AnswerOK, WasStored, Key, CreateID, VersionID
  <2> QED
    BY <2>2, <2>3, <2>4, <2>5 DEF IInv
<1> QED
  BY <1>1, <1>2, <1>3, <1>4, <1>5, <1>6, <1>7, <1>8, <1>9 DEF Next, Handle, Quiet

(***************************************************************************)
(* The inductive invariant holds in every reachable state.                 *)
(***************************************************************************)
THEOREM Invariance == Spec => [](TInv /\ IInv)
<1>1. Init => TInv /\ IInv
  BY InitType, InitIInv
<1>2. TInv /\ IInv /\ [Next]_vars => TInv' /\ IInv'
  BY NextType, NextIInv
<1> QED
  BY <1>1, <1>2, PTL DEF Spec

(***************************************************************************)
(* No row of any table ever refers to a missing row (foreign keys,         *)
(* cascades and deleteOrphanedData under every interleaving and failure).  *)
(***************************************************************************)
THEOREM ReferentialIntegrity == Spec => []NoDanglingRows
<1>1. TInv /\ IInv => NoDanglingRows
  BY DEF IInv, RowsOK, NoDanglingRows
<1> QED
  BY <1>1, Invariance, PTL

(***************************************************************************)
(* Every listed version can be read: SchemaRepository.Get finds one map    *)
(* row and its file.                                                       *)
(***************************************************************************)
THEOREM Readability == Spec => []VersionsReadable
<1>1. TInv /\ IInv => VersionsReadable
  <2> SUFFICES ASSUME TInv, IInv, NEW r \in versions
               PROVE  \E m \in vsf : /\ m.version_id = r.id /\ m.file \in files
                                     /\ \A n \in vsf : n.version_id = r.id => n = m
    BY DEF VersionsReadable
  <2> DEFINE m == [version_id |-> r.id, file |-> r.id.file]
  <2>1. m \in vsf /\ m.version_id = r.id /\ m.file = r.id.file
    BY DEF IInv, RowsOK
  <2>2. \A n \in vsf : n.version_id = r.id => n = m
    BY DEF IInv, RowsOK, TInv, Tables, MapRows
  <2> HIDE DEF m
  <2> QED
    BY <2>1, <2>2 DEF IInv, RowsOK
<1> QED
  BY <1>1, Invariance, PTL

(***************************************************************************)
(* Versions of a schema differ in number and in content, however the       *)
(* transactions of concurrent creates interleave.                          *)
(***************************************************************************)
THEOREM Distinctness == Spec => []VersionsDistinct
<1>1. TInv /\ IInv => VersionsDistinct
  <2> SUFFICES ASSUME TInv, IInv, NEW r \in versions, NEW s \in versions, r.schema = s.schema,
                      r.version = s.version \/ r.id.file = s.id.file
               PROVE  r = s
    BY DEF VersionsDistinct
  <2>1. CASE r.version = s.version
    BY <2>1 DEF IInv, RowsOK
  <2>2. CASE r.id.file = s.id.file
    <3>1. r.id.joined = s.id.joined
      BY DEF IInv, RowsOK
    <3>2. r.id \in VersionIDs /\ s.id \in VersionIDs
      BY DEF TInv, Tables, VersionRows
    <3>3. r.id = s.id
      BY <2>2, <3>1, <3>2 DEF VersionIDs
    <3> QED
      BY <3>3 DEF IInv, RowsOK
  <2> QED
    BY <2>1, <2>2
<1> QED
  BY <1>1, Invariance, PTL

(***************************************************************************)
(* ConflictErr is only ever returned for a content that was stored.        *)
(***************************************************************************)
THEOREM ConflictsAreGenuine == Spec => []ConflictMeansSameContent
<1>1. TInv /\ IInv => ConflictMeansSameContent
  BY DEF IInv, AnswersOK, AnswerOK, ConflictMeansSameContent
<1> QED
  BY <1>1, Invariance, PTL

\* "ns-schema" names one schema only: no two pairs of names join to the same.
NamesDistinct == \A k, j \in Schemas : Joined(k) = Joined(j) => k = j

(***************************************************************************)
(* Where the joined names are distinct, the version number a create        *)
(* answers with is the number of its own content in its own schema.        *)
(***************************************************************************)
THEOREM CreatesAreStored ==
    ASSUME NamesDistinct
    PROVE  Spec => []CreatedIsStored
<1>1. TInv /\ IInv => CreatedIsStored
  <2> SUFFICES ASSUME TInv, IInv, NEW p \in Procs, req[p] # Nil,
                      req[p].op = "create", resp[p].status = "ok"
               PROVE  \E s \in stored : /\ s.schema = Key(p) /\ s.file = req[p].file
                                        /\ s.version = resp[p].version
    BY DEF CreatedIsStored
  <2>1. PICK s \in stored : /\ Joined(s.schema) = Joined(Key(p))
                            /\ s.version = resp[p].version /\ s.file = req[p].file
    BY DEF IInv, AnswersOK, AnswerOK, WasStored
  <2>2. s.schema \in Schemas
    BY DEF TInv, Tables, StoredVersions
  <2>3. Key(p) \in Schemas
    BY RequestFields DEF TInv, Control, Key
  <2> QED
    BY <2>1, <2>2, <2>3 DEF NamesDistinct
<1> QED
  BY <1>1, Invariance, PTL

(***************************************************************************)
(* Where the joined names are distinct, a read returns, from the tables or *)
(* from the cache, what was stored as that version of that schema.         *)
(***************************************************************************)
THEOREM ReadsAreStored ==
    ASSUME NamesDistinct
    PROVE  Spec => []ReadsWereStored
<1>1. TInv /\ IInv => ReadsWereStored
  <2> SUFFICES ASSUME TInv, IInv, NEW p \in Procs, req[p] # Nil,
                      req[p].op \in {"get", "getLatest"}, resp[p].status = "ok"
               PROVE  \E s \in stored : /\ s.schema = Key(p) /\ s.file = resp[p].data
                                        /\ s.version = resp[p].version
    BY DEF ReadsWereStored
  <2>1. PICK s \in stored : /\ Joined(s.schema) = Joined(Key(p))
                            /\ s.version = resp[p].version /\ s.file = resp[p].data
    BY DEF IInv, AnswersOK, AnswerOK, WasStored
  <2>2. s.schema \in Schemas
    BY DEF TInv, Tables, StoredVersions
  <2>3. Key(p) \in Schemas
    BY RequestFields DEF TInv, Control, Key
  <2> QED
    BY <2>1, <2>2, <2>3 DEF NamesDistinct
<1> QED
  BY <1>1, Invariance, PTL

-----------------------------------------------------------------------------
(***************************************************************************)
(* A registry from which nothing is deleted.  A number is never given out  *)
(* again, and the tables go on holding what the history holds.             *)
(***************************************************************************)
Deletes == {"deleteSchema", "deleteVersion", "nsDelete"}
NoDeletes == \A p \in Procs : Ops[p] \cap Deletes = {}

\* A handler at work has one of its own requests.
Asked == \A p \in Procs : pc[p] # "idle" => req[p].op \in Ops[p]

\* Every version that was ever committed is still in the table.
NothingLost ==
    \A s \in stored :
        \E r \in versions : r.schema = s.schema /\ r.version = s.version /\ r.id.file = s.file

\* A step of a handler at work is its own and no one else's.
LEMMA StepMoves ==
    ASSUME TInv, NEW p \in Procs, Handle(p) \/ DbError(p) \/ CommitAnswerLost(p)
    PROVE  Moves(p) /\ pc[p] # "idle"
<1>c. Control
  BY DEF TInv
<1>1. ASSUME NEW step, NEW l, Goto(p, step, l) PROVE Moves(p)
  BY <1>c, <1>1, GotoMoves
<1>2. ASSUME NEW status, NEW v, NEW d, Reply(p, status, v, d) PROVE Moves(p)
  BY <1>c, <1>2, ReplyMoves
<1>3. ASSUME pc[p] \in DataSteps, (NotFound(p) \/ \E d : Got(p, d)) PROVE Moves(p)
  <2>1. loc[p].ret \in {"reply", "check", "prev"}
    BY <1>c DEF Control, Locals
  <2>. QED
    BY <1>1, <1>2, <1>3, <2>1 DEF NotFound, Got, Checked, Fail
<1>4. CASE NamespaceGet(p) \/ GetLatestVersion(p)
  BY <1>1, <1>2, <1>4 DEF NamespaceGet, GetLatestVersion, Fail
<1>5. CASE GetMetadata(p) \/ GetVersionID(p) \/ GetSchemaData(p)
  BY <1>1, <1>3, <1>5 DEF GetMetadata, GetVersionID, GetSchemaData, DataSteps, ReadSteps
<1>6. CASE CacheGet(p) \/ CacheSet(p)
  BY <1>1, <1>3, <1>6 DEF CacheGet, CacheSet, DataSteps
<1>7. CASE Tx(p)
  BY <1>1, <1>2, <1>7 DEF Tx, TxBegin, TxSchema, TxVersion, TxCommit, Fail
<1>8. CASE Delete(p)
  BY <1>1, <1>2, <1>8
     DEF Delete, DeleteSchema, NamespaceDelete, DeleteVersion, SelectOrphans, DeleteOrphans
<1>9. CASE Write(p)
  BY <1>2, <1>9 DEF Write, UpdateMetadata, NamespaceCreate, NamespaceUpdate, Fail
<1>10. CASE DbError(p) \/ CommitAnswerLost(p)
  BY <1>1, <1>2, <1>10 DEF DbError, CommitAnswerLost, Fail
<1>. QED
  BY <1>4, <1>5, <1>6, <1>7, <1>8, <1>9, <1>10 DEF Handle, Read

\* A step starts a request, or leaves the requests and wakes no idle handler.
LEMMA RequestsStay ==
    ASSUME TInv, [Next]_vars, ~\E p \in Procs : Start(p)
    PROVE  req' = req /\ \A q \in Procs : pc'[q] # "idle" => pc[q] # "idle"
<1>1. ASSUME NEW p \in Procs, Handle(p) \/ DbError(p) \/ CommitAnswerLost(p)
      PROVE  req' = req /\ \A q \in Procs : pc'[q] # "idle" => pc[q] # "idle"
  BY <1>1, StepMoves DEF Moves
<1>2. ASSUME NEW p \in Procs, NEW q \in Procs, TxFileSwept(p, q)
      PROVE  req' = req /\ \A t \in Procs : pc'[t] # "idle" => pc[t] # "idle"
  BY <1>2, ReplyMoves DEF TInv, TxFileSwept, Fail, Moves
<1>3. CASE Evict \/ Crash \/ UNCHANGED vars
  BY <1>3 DEF Evict, Crash, vars
<1>. QED
  BY <1>1, <1>2, <1>3 DEF Next, Quiet

\* Asked is inductive.
LEMMA AskedStep == TInv /\ Asked /\ [Next]_vars => Asked'
<1>. SUFFICES ASSUME TInv, Asked, [Next]_vars PROVE Asked'
  OBVIOUS
<1>1. CASE \E p \in Procs : Start(p)
  <2>1. PICK p \in Procs : Start(p)
    BY <1>1
  <2>2. pc \in [Procs -> PCs] /\ req \in [Procs -> Requests \cup {Nil}]
    BY DEF TInv, Control
  <2>. QED
    BY <2>1, <2>2 DEF Start, Asked
<1>2. CASE ~\E p \in Procs : Start(p)
  BY <1>2, RequestsStay DEF Asked
<1>. QED
  BY <1>1, <1>2

\* Without deletes the versions change by a commit, or not at all.
LEMMA OnlyCommits ==
    ASSUME TInv, Asked, NoDeletes, [Next]_vars
    PROVE  \/ UNCHANGED <<versions, stored>>
           \/ \E p \in Procs : /\ pc[p] = "txCommit" /\ Publish(p) /\ pc'[p] = "idle"
                               /\ UNCHANGED cache /\ Moves(p)
<1>1. ASSUME NEW p \in Procs, Start(p) \/ Read(p) \/ Write(p) \/ DbError(p)
      PROVE  UNCHANGED <<versions, stored>>
  BY <1>1 DEF Start, Read, NamespaceGet, GetLatestVersion, GetMetadata, CacheGet, GetVersionID,
     GetSchemaData, CacheSet, Write, UpdateMetadata, NamespaceCreate, NamespaceUpdate, DbError,
     tables
<1>2. ASSUME NEW p \in Procs, Tx(p), ~TxCommit(p)
      PROVE  UNCHANGED <<versions, stored>>
  BY <1>2 DEF Tx, TxBegin, TxSchema, TxVersion, tables
<1>3. ASSUME NEW p \in Procs, Delete(p)
      PROVE  UNCHANGED <<versions, stored>>
  <2>1. pc[p] \in {"delete", "orphans", "sweep"}
    BY <1>3 DEF Delete, DeleteSchema, NamespaceDelete, DeleteVersion, SelectOrphans,
       DeleteOrphans
  <2>2. req[p].op \in Deletes
    BY <2>1, HandlerFacts DEF TInv, HandlerOK, Deletes
  <2>. QED
    BY <2>1, <2>2 DEF NoDeletes, Asked
<1>4. ASSUME NEW p \in Procs, TxCommit(p) \/ CommitAnswerLost(p)
      PROVE  pc[p] = "txCommit" /\ Publish(p) /\ pc'[p] = "idle" /\ UNCHANGED cache /\ Moves(p)
  BY <1>4, ReplyMoves DEF TInv, TxCommit, CommitAnswerLost, Fail
<1>5. ASSUME NEW p \in Procs, NEW q \in Procs, TxFileSwept(p, q)
      PROVE  UNCHANGED <<versions, stored>>
  BY <1>5 DEF TxFileSwept
<1>6. CASE Evict \/ Crash \/ UNCHANGED vars
  BY <1>6 DEF Evict, Crash, vars, tables
<1>. QED
  BY <1>1, <1>2, <1>3, <1>4, <1>5, <1>6 DEF Next, Handle, Quiet

\* NothingLost is inductive: a commit adds a version to the table and the history.
LEMMA NothingLostStep ==
    ASSUME TInv, Asked, NothingLost, NoDeletes, [Next]_vars
    PROVE  NothingLost'
<1>1. CASE UNCHANGED <<versions, stored>>
  BY <1>1 DEF NothingLost
<1>2. ASSUME NEW p \in Procs, Publish(p) PROVE NothingLost'
  <2>. DEFINE row == [schema |-> Key(p), version |-> loc[p].ver, id |-> CreateID(p)]
              st == [schema |-> Key(p), version |-> loc[p].ver, file |-> req[p].file,
                     compat |-> loc[p].compat]
  <2>1. versions' = versions \cup {row} /\ stored' = stored \cup {st}
    BY <1>2 DEF Publish
  <2>2. row.schema = st.schema /\ row.version = st.version /\ row.id.file = st.file
    BY DEF CreateID, VersionID
  <2>. HIDE DEF row, st
  <2>. QED
    BY <2>1, <2>2 DEF NothingLost
<1>. QED
  BY <1>1, <1>2, OnlyCommits

\* The file of a version that was stored under the joined name is its file.
LEMMA StoredFile ==
    ASSUME TInv, IInv, NothingLost, NamesDistinct, NEW k \in Schemas, NEW v, NEW f,
           WasStored(Joined(k), v, f)
    PROVE  /\ \E r \in versions : r.schema = k /\ r.version = v /\ r.id.file = f
           /\ \A r \in versions : r.schema = k /\ r.version = v => r.id.file = f
<1>1. PICK s \in stored : Joined(s.schema) = Joined(k) /\ s.version = v /\ s.file = f
  BY DEF WasStored
<1>2. s.schema = k
  BY <1>1 DEF NamesDistinct, TInv, Tables, StoredVersions
<1>3. PICK r \in versions : r.schema = k /\ r.version = v /\ r.id.file = f
  BY <1>1, <1>2 DEF NothingLost
<1>. QED
  BY <1>3 DEF IInv, RowsOK

\* Both hold where nothing is deleted.
LEMMA Lasting ==
    ASSUME NoDeletes
    PROVE  Spec => [](TInv /\ IInv /\ Asked /\ NothingLost)
<1>1. Init => Asked /\ NothingLost
  BY DEF Init, Asked, NothingLost
<1>2. TInv /\ Asked /\ NothingLost /\ [Next]_vars => Asked' /\ NothingLost'
  BY AskedStep, NothingLostStep
<1>. QED
  BY <1>1, <1>2, Invariance, PTL DEF Spec

(***************************************************************************)
(* Where the joined names are distinct and nothing is deleted, the cache   *)
(* agrees with the tables, whatever is created and read at the same time   *)
(* and whatever fails (cachedGetSchema, which never removes an entry).     *)
(***************************************************************************)
THEOREM CacheStaysCurrent ==
    ASSUME NamesDistinct, NoDeletes
    PROVE  Spec => []CacheIsCurrent
<1>1. TInv /\ IInv /\ NothingLost => CacheIsCurrent
  <2>. SUFFICES ASSUME TInv, IInv, NothingLost, NEW e \in cache, NEW r \in versions,
                       e.joined = Joined(r.schema), e.version = r.version
                PROVE  e.data = r.id.file
    BY DEF CacheIsCurrent
  <2>1. r.schema \in Schemas
    BY DEF TInv, Tables, VersionRows
  <2>2. WasStored(Joined(r.schema), r.version, e.data)
    BY DEF IInv, HistoryOK
  <2>. QED
    BY <2>1, <2>2, StoredFile
<1>. QED
  BY <1>1, Lasting, PTL

-----------------------------------------------------------------------------
(***************************************************************************)
(* One handler that creates.  What it checked its content against is still *)
(* the latest version when it commits, although the check and the          *)
(* transaction are separate.                                               *)
(***************************************************************************)
SingleCreator ==
    \A p, q \in Procs : "create" \in Ops[p] /\ "create" \in Ops[q] => p = q

\* The content of p may follow the latest version of its schema.
Compatible(p) ==
    \A r \in versions :
        r.schema = Key(p) /\ r.version = MaxVersion(Key(p)) =>
            <<loc[p].compat, req[p].file, r.id.file>> \in Allowed

\* What a create knows of the latest version while it checks, and after.
CreateOK(p) ==
    pc[p] # "idle" /\ req[p].op = "create" =>
        /\ pc[p] \in DataSteps \ {"latest"} /\ loc[p].ret = "check" =>
             loc[p].ver = MaxVersion(Key(p))
        /\ pc[p] = "data" /\ loc[p].ret = "check" => \E r \in versions : r.id = loc[p].id
        /\ pc[p] \in TxSteps \/ (pc[p] \in DataSteps /\ loc[p].ret = "prev") => Compatible(p)
        /\ pc[p] = "txCommit" => loc[p].ver = MaxVersion(Key(p)) + 1

CreatesOK == \A p \in Procs : CreateOK(p)

\* Only the versions, the request and the mode matter to Compatible.
LEMMA CompatibleStays ==
    ASSUME NEW p, UNCHANGED versions, req'[p] = req[p]
    PROVE  /\ Key(p)' = Key(p) /\ MaxVersion(Key(p))' = MaxVersion(Key(p))
           /\ loc'[p].compat = loc[p].compat => (Compatible(p)' <=> Compatible(p))
<1>1. Key(p)' = Key(p)
  BY DEF Key
<1>2. MaxVersion(Key(p))' = MaxVersion(Key(p))
  BY <1>1 DEF MaxVersion, RowsOf
<1>. QED
  BY <1>1, <1>2 DEF Compatible

\* A handler that has stopped, or that creates nothing, knows nothing.
LEMMA NoCreate ==
    ASSUME NEW p, pc'[p] = "idle" \/ req'[p].op # "create"
    PROVE  CreateOK(p)'
  BY DEF CreateOK

\* A create that waits keeps what it knows.
LEMMA CreateFrame ==
    ASSUME NEW p, CreateOK(p), UNCHANGED versions, req'[p] = req[p], pc'[p] = pc[p],
           loc'[p] = loc[p]
    PROVE  CreateOK(p)'
  BY CompatibleStays DEF CreateOK

\* After the check the create goes on with what it has checked.
LEMMA CheckedCreate ==
    ASSUME TInv, NEW p \in Procs, pc[p] \in DataSteps, Checked(p), UNCHANGED versions,
           req[p].op = "create" => Compatible(p)
    PROVE  CreateOK(p)'
<1>1. CASE req[p].op = "check"
  BY <1>1, NoCreate, ReplyMoves DEF TInv, Checked
<1>2. CASE req[p].op # "check"
  <2>1. /\ Moves(p) /\ pc'[p] = "latest"
        /\ loc'[p] = [loc[p] EXCEPT !.ret = "prev", !.data = Nil, !.id = Nil]
    BY <1>2, GotoMoves DEF TInv, Checked
  <2>2. loc'[p].ret = "prev" /\ loc'[p].compat = loc[p].compat
    BY <2>1 DEF TInv, Control, Locals
  <2>3. req'[p] = req[p]
    BY <2>1 DEF Moves
  <2>4. CASE req[p].op = "create"
    BY <2>1, <2>2, <2>3, <2>4, CompatibleStays DEF CreateOK, TxSteps
  <2>. QED
    BY <2>3, <2>4, NoCreate
<1>. QED
  BY <1>1, <1>2

\* A read before the transaction has done its part.
LEMMA ReadForTx ==
    ASSUME TInv, NEW p \in Procs, CreateOK(p), pc[p] \in DataSteps, loc[p].ret = "prev",
           Goto(p, "txBegin", [loc[p] EXCEPT !.ver = 0]), UNCHANGED versions
    PROVE  CreateOK(p)'
<1>1. Moves(p) /\ pc'[p] = "txBegin" /\ loc'[p] = [loc[p] EXCEPT !.ver = 0] /\ req'[p] = req[p]
  BY GotoMoves DEF TInv, Moves
<1>2. loc'[p].compat = loc[p].compat
  BY <1>1 DEF TInv, Control, Locals
<1>3. pc[p] # "idle"
  BY DEF DataSteps, ReadSteps
<1>. QED
  BY <1>1, <1>2, <1>3, CompatibleStays DEF CreateOK, DataSteps, ReadSteps

\* A read that finds nothing ends, or leaves nothing to be compatible with.
LEMMA NotFoundCreate ==
    ASSUME TInv, NEW p \in Procs, CreateOK(p), pc[p] \in DataSteps, NotFound(p),
           UNCHANGED versions,
           req[p].op = "create" /\ loc[p].ret = "check" => Compatible(p)
    PROVE  CreateOK(p)'
<1>1. loc[p].ret \in {"reply", "check", "prev"}
  BY DEF TInv, Control, Locals
<1>2. CASE loc[p].ret = "reply"
  BY <1>2, NoCreate, ReplyMoves DEF TInv, NotFound, Fail
<1>3. CASE loc[p].ret = "check"
  BY <1>3, CheckedCreate DEF NotFound
<1>4. CASE loc[p].ret = "prev"
  BY <1>4, ReadForTx DEF NotFound
<1>. QED
  BY <1>1, <1>2, <1>3, <1>4

\* What a read returns to the check is the file of the latest version.
LEMMA GotCreate ==
    ASSUME TInv, IInv, NothingLost, NamesDistinct, NEW p \in Procs, CreateOK(p),
           pc[p] \in DataSteps \ {"latest"}, NEW d, Got(p, d), UNCHANGED versions,
           WasStored(Joined(Key(p)), loc[p].ver, d)
    PROVE  CreateOK(p)'
<1>1. loc[p].ret \in {"reply", "check", "prev"} /\ pc[p] # "idle" /\ Key(p) \in Schemas
  BY HandlerFacts DEF TInv, Control, Locals, DataSteps, ReadSteps
<1>2. CASE loc[p].ret = "reply"
  BY <1>2, NoCreate, ReplyMoves DEF TInv, Got
<1>3. CASE loc[p].ret = "check"
  <2>1. CASE Fail(p, "parseError") \/ Fail(p, "incompatible")
    BY <2>1, NoCreate, ReplyMoves DEF TInv, Fail
  <2>2. CASE Checked(p) /\ <<loc[p].compat, req[p].file, d>> \in Allowed
    <3>1. \A r \in versions : r.schema = Key(p) /\ r.version = loc[p].ver => r.id.file = d
      BY <1>1, StoredFile
    <3>2. req[p].op = "create" => loc[p].ver = MaxVersion(Key(p))
      BY <1>1, <1>3 DEF CreateOK
    <3>3. req[p].op = "create" => Compatible(p)
      BY <2>2, <3>1, <3>2 DEF Compatible
    <3>. QED
      BY <2>2, <3>3, CheckedCreate
  <2>. QED
    BY <1>3, <2>1, <2>2 DEF Got
<1>4. CASE loc[p].ret = "prev"
  BY <1>4, ReadForTx DEF Got
<1>. QED
  BY <1>1, <1>2, <1>3, <1>4

\* Each read keeps what its create knows.
LEMMA ReadsKeepCreate ==
    ASSUME TInv, IInv, NothingLost, NamesDistinct, NEW p \in Procs, CreateOK(p), Read(p)
    PROVE  CreateOK(p)'
<1>c. Control /\ loc[p] \in Locals /\ UNCHANGED versions
  BY DEF TInv, Control, Read, NamespaceGet, GetLatestVersion, GetMetadata, CacheGet,
     GetVersionID, GetSchemaData, CacheSet, tables
<1>1. CASE NamespaceGet(p)
  <2>1. CASE Fail(p, "noRows") \/ Fail(p, "parseError")
    BY <1>c, <2>1, NoCreate, ReplyMoves DEF Fail
  <2>2. ASSUME NEW f, NEW c,
               Goto(p, "latest", [loc[p] EXCEPT !.format = f, !.ret = "check", !.compat = c])
        PROVE  CreateOK(p)'
    <3>1. /\ pc'[p] = "latest"
          /\ loc'[p] = [loc[p] EXCEPT !.format = f, !.ret = "check", !.compat = c]
      BY <1>c, <2>2, GotoMoves
    <3>2. loc'[p].ret = "check"
      BY <1>c, <3>1 DEF Locals
    <3>. QED
      BY <3>1, <3>2 DEF CreateOK, TxSteps
  <2>. QED
    BY <1>1, <2>1, <2>2 DEF NamespaceGet
<1>2. CASE GetLatestVersion(p)
  <2>. DEFINE v == MaxVersion(Key(p))
  <2>1. /\ pc[p] = "latest" /\ pc'[p] = "meta" /\ req'[p] = req[p]
        /\ loc'[p] = [loc[p] EXCEPT !.ver = v]
    BY <1>c, <1>2, GotoMoves DEF GetLatestVersion, Moves
  <2>2. loc'[p].ver = v /\ loc'[p].ret = loc[p].ret /\ loc'[p].compat = loc[p].compat
    BY <1>c, <2>1 DEF Locals
  <2>3. v' = v /\ (Compatible(p)' <=> Compatible(p))
    BY <1>c, <2>1, <2>2, CompatibleStays
  <2>. QED
    BY <2>1, <2>2, <2>3 DEF CreateOK, DataSteps, ReadSteps, TxSteps
<1>3. CASE GetMetadata(p)
  <2>1. pc[p] = "meta" /\ pc[p] \in DataSteps \ {"latest"}
    BY <1>3 DEF GetMetadata, DataSteps, ReadSteps
  <2>2. CASE schemas[Key(p)] = Nil
    <3>1. Compatible(p)
      BY <2>2 DEF Compatible, IInv, RowsOK
    <3>. QED
      BY <1>3, <1>c, <2>1, <2>2, <3>1, NotFoundCreate DEF GetMetadata
  <2>3. CASE schemas[Key(p)] # Nil
    <3>1. /\ pc'[p] = "cacheGet" /\ req'[p] = req[p]
          /\ loc'[p] = [loc[p] EXCEPT !.prevFormat = schemas[Key(p)].format]
      BY <1>c, <1>3, <2>3, GotoMoves DEF GetMetadata, Moves
    <3>2. loc'[p].ver = loc[p].ver /\ loc'[p].ret = loc[p].ret /\ loc'[p].compat = loc[p].compat
      BY <1>c, <3>1 DEF Locals
    <3>3. MaxVersion(Key(p))' = MaxVersion(Key(p)) /\ (Compatible(p)' <=> Compatible(p))
      BY <1>c, <3>1, <3>2, CompatibleStays
    <3>. QED
      BY <2>1, <3>1, <3>2, <3>3 DEF CreateOK, DataSteps, ReadSteps, TxSteps
  <2>. QED
    BY <2>2, <2>3
<1>4. CASE CacheGet(p)
  <2>1. pc[p] = "cacheGet" /\ pc[p] \in DataSteps \ {"latest"}
    BY <1>4 DEF CacheGet, DataSteps, ReadSteps
  <2>2. CASE Goto(p, "versionId", loc[p])
    <3>1. pc'[p] = "versionId" /\ req'[p] = req[p] /\ loc'[p] = loc[p]
      BY <1>c, <2>2, GotoMoves DEF Moves
    <3>2. MaxVersion(Key(p))' = MaxVersion(Key(p)) /\ (Compatible(p)' <=> Compatible(p))
      BY <1>c, <3>1, CompatibleStays
    <3>. QED
      BY <2>1, <3>1, <3>2 DEF CreateOK, DataSteps, ReadSteps, TxSteps
  <2>3. ASSUME NEW e \in CacheHits(p), Got(p, e.data) PROVE CreateOK(p)'
    <3>1. WasStored(Joined(Key(p)), loc[p].ver, e.data)
      BY DEF CacheHits, IInv, HistoryOK
    <3>. QED
      BY <1>c, <2>1, <2>3, <3>1, GotCreate
  <2>. QED
    BY <1>4, <2>2, <2>3 DEF CacheGet
<1>5. CASE GetVersionID(p)
  <2>1. pc[p] = "versionId" /\ pc[p] \in DataSteps \ {"latest"} /\ pc[p] # "idle"
    BY <1>5 DEF GetVersionID, DataSteps, ReadSteps
  <2>2. CASE NotFound(p) /\ {r \in RowsOf(Key(p)) : r.version = loc[p].ver} = {}
    <3>1. req[p].op = "create" /\ loc[p].ret = "check" => Compatible(p)
      BY <2>1, <2>2 DEF CreateOK, Compatible, RowsOf
    <3>. QED
      BY <1>c, <2>1, <2>2, <3>1, NotFoundCreate
  <2>3. ASSUME NEW r \in RowsOf(Key(p)), Goto(p, "data", [loc[p] EXCEPT !.id = r.id])
        PROVE  CreateOK(p)'
    <3>1. pc'[p] = "data" /\ req'[p] = req[p] /\ loc'[p] = [loc[p] EXCEPT !.id = r.id]
      BY <1>c, <2>3, GotoMoves DEF Moves
    <3>2. /\ loc'[p].ver = loc[p].ver /\ loc'[p].ret = loc[p].ret
          /\ loc'[p].compat = loc[p].compat /\ loc'[p].id = r.id
      BY <1>c, <3>1 DEF Locals
    <3>3. MaxVersion(Key(p))' = MaxVersion(Key(p)) /\ (Compatible(p)' <=> Compatible(p))
      BY <1>c, <3>1, <3>2, CompatibleStays
    <3>4. r \in versions'
      BY <1>c DEF RowsOf
    <3>. QED
      BY <2>1, <3>1, <3>2, <3>3, <3>4 DEF CreateOK, DataSteps, ReadSteps, TxSteps
  <2>. QED
    BY <1>5, <2>2, <2>3 DEF GetVersionID
<1>6. CASE GetSchemaData(p)
  <2>1. pc[p] = "data" /\ pc[p] \in DataSteps \ {"latest"} /\ pc[p] # "idle"
    BY <1>6 DEF GetSchemaData, DataSteps, ReadSteps
  <2>2. CASE NotFound(p) /\ {m \in vsf : /\ m.version_id = loc[p].id /\ m.file \in files
                                         /\ \E r \in versions : r.id = m.version_id} = {}
    <3>1. ~\E r \in versions : r.id = loc[p].id
      <4>. SUFFICES ASSUME NEW r \in versions, r.id = loc[p].id PROVE FALSE
        OBVIOUS
      <4>. DEFINE m == [version_id |-> r.id, file |-> r.id.file]
      <4>1. m \in vsf /\ m.version_id = r.id /\ m.file \in files
        BY DEF IInv, RowsOK
      <4>. HIDE DEF m
      <4>. QED
        BY <2>2, <4>1
    <3>2. ~(req[p].op = "create" /\ loc[p].ret = "check")
      BY <2>1, <3>1 DEF CreateOK
    <3>. QED
      BY <1>c, <2>1, <2>2, <3>2, NotFoundCreate
  <2>3. ASSUME NEW f, Goto(p, "cacheSet", [loc[p] EXCEPT !.data = f])
        PROVE  CreateOK(p)'
    <3>1. pc'[p] = "cacheSet" /\ req'[p] = req[p] /\ loc'[p] = [loc[p] EXCEPT !.data = f]
      BY <1>c, <2>3, GotoMoves DEF Moves
    <3>2. /\ loc'[p].ver = loc[p].ver /\ loc'[p].ret = loc[p].ret
          /\ loc'[p].compat = loc[p].compat
      BY <1>c, <3>1 DEF Locals
    <3>3. MaxVersion(Key(p))' = MaxVersion(Key(p)) /\ (Compatible(p)' <=> Compatible(p))
      BY <1>c, <3>1, <3>2, CompatibleStays
    <3>. QED
      BY <2>1, <3>1, <3>2, <3>3 DEF CreateOK, DataSteps, ReadSteps, TxSteps
  <2>. QED
    BY <1>6, <2>2, <2>3 DEF GetSchemaData
<1>7. CASE CacheSet(p)
  <2>1. pc[p] = "cacheSet" /\ pc[p] \in DataSteps \ {"latest"} /\ Got(p, loc[p].data)
    BY <1>7 DEF CacheSet, DataSteps, ReadSteps
  <2>2. WasStored(Joined(Key(p)), loc[p].ver, loc[p].data)
    BY <2>1 DEF IInv, HistoryOK, InHandOK
  <2>. QED
    BY <1>c, <2>1, <2>2, GotCreate
<1>. QED
  BY <1>1, <1>2, <1>3, <1>4, <1>5, <1>6, <1>7 DEF Read

\* The transaction keeps it, and takes the number after the latest.
LEMMA TxKeepsCreate ==
    ASSUME TInv, NEW p \in Procs, CreateOK(p), TxBegin(p) \/ TxSchema(p) \/ TxVersion(p)
    PROVE  CreateOK(p)'
<1>c. Control /\ loc[p] \in Locals /\ UNCHANGED versions
  BY DEF TInv, Control, TxBegin, TxSchema, TxVersion, tables
<1>1. ASSUME NEW status, NEW v, NEW d, Reply(p, status, v, d) PROVE CreateOK(p)'
  BY <1>c, <1>1, NoCreate, ReplyMoves
<1>2. ASSUME NEW step \in {"txSchema", "txVersion"}, pc[p] \in TxSteps, Goto(p, step, loc[p])
      PROVE  CreateOK(p)'
  <2>1. pc'[p] = step /\ req'[p] = req[p] /\ loc'[p] = loc[p]
    BY <1>c, <1>2, GotoMoves DEF Moves
  <2>2. Compatible(p)' <=> Compatible(p)
    BY <1>c, <2>1, CompatibleStays
  <2>. QED
    BY <1>2, <2>1, <2>2 DEF CreateOK, DataSteps, ReadSteps, TxSteps
<1>3. CASE TxBegin(p)
  BY <1>1, <1>2, <1>3 DEF TxBegin, TxSteps
<1>4. CASE TxSchema(p)
  BY <1>1, <1>2, <1>4 DEF TxSchema, TxSteps, Fail
<1>5. CASE TxVersion(p)
  <2>. DEFINE v == MaxVersion(Key(p)) + 1
  <2>1. CASE Fail(p, "conflict")
    BY <1>1, <2>1 DEF Fail
  <2>2. CASE Goto(p, "txCommit", [loc[p] EXCEPT !.ver = v])
    <3>1. pc'[p] = "txCommit" /\ req'[p] = req[p] /\ loc'[p] = [loc[p] EXCEPT !.ver = v]
      BY <1>c, <2>2, GotoMoves DEF Moves
    <3>2. loc'[p].ver = v /\ loc'[p].compat = loc[p].compat
      BY <1>c, <3>1 DEF Locals
    <3>3. v' = v /\ (Compatible(p)' <=> Compatible(p))
      BY <1>c, <3>1, <3>2, CompatibleStays
    <3>. QED
      BY <1>5, <3>1, <3>2, <3>3 DEF CreateOK, TxVersion, DataSteps, ReadSteps, TxSteps
  <2>. QED
    BY <1>5, <2>1, <2>2 DEF TxVersion
<1>. QED
  BY <1>3, <1>4, <1>5

\* A failed statement ends the create, or a read that it could do without.
LEMMA DbErrorKeepsCreate ==
    ASSUME TInv, NEW p \in Procs, CreateOK(p), DbError(p)
    PROVE  CreateOK(p)'
<1>c. Control /\ UNCHANGED versions /\ pc[p] # "idle"
  BY DEF TInv, DbError, tables
<1>1. CASE pc[p] \in ReadSteps /\ loc[p].ret = "prev"
  <2>1. Goto(p, "txBegin", [loc[p] EXCEPT !.ver = 0])
    BY <1>1 DEF DbError, ReadSteps
  <2>. QED
    BY <1>c, <1>1, <2>1, ReadForTx DEF DataSteps
<1>2. CASE ~(pc[p] \in ReadSteps /\ loc[p].ret = "prev") /\ pc[p] = "delete"
  <2>1. req[p].op # "create"
    BY <1>c, <1>2, HandlerFacts DEF HandlerOK
  <2>2. req'[p] = req[p]
    BY <1>2 DEF DbError, Goto, ReadSteps
  <2>. QED
    BY <2>1, <2>2, NoCreate
<1>3. CASE ~(pc[p] \in ReadSteps /\ loc[p].ret = "prev") /\ pc[p] # "delete"
  <2>1. \E status, v, d : Reply(p, status, v, d)
    BY <1>3 DEF DbError, Fail
  <2>. QED
    BY <1>c, <2>1, NoCreate, ReplyMoves
<1>. QED
  BY <1>1, <1>2, <1>3

\* A step of the handler itself that commits nothing.
LEMMA OwnStepKeepsCreate ==
    ASSUME TInv, IInv, NothingLost, NamesDistinct, NEW p \in Procs, CreateOK(p),
           Start(p) \/ Handle(p) \/ DbError(p), pc[p] # "txCommit"
    PROVE  CreateOK(p)'
<1>c. Control /\ pc \in [Procs -> PCs] /\ req \in [Procs -> Requests \cup {Nil}]
  BY DEF TInv, Control
<1>1. CASE Start(p)
  <2>1. PICK r \in Requests : req'[p] = r /\ pc'[p] = FirstStep(r.op)
    BY <1>c, <1>1 DEF Start
  <2>2. CASE r.op = "create"
    <3>1. pc'[p] = "namespace"
      BY <2>1, <2>2 DEF FirstStep
    <3>. QED
      BY <3>1 DEF CreateOK, DataSteps, ReadSteps, TxSteps
  <2>. QED
    BY <2>1, <2>2, NoCreate
<1>2. CASE Read(p)
  BY <1>2, ReadsKeepCreate
<1>3. CASE Tx(p)
  BY <1>3, TxKeepsCreate DEF Tx, TxCommit
<1>4. CASE Delete(p)
  <2>1. pc[p] \in {"delete", "orphans", "sweep"} /\ req' = req
    BY <1>4 DEF Delete, DeleteSchema, NamespaceDelete, DeleteVersion, SelectOrphans,
       DeleteOrphans, Goto, Reply
  <2>2. req[p].op # "create"
    BY <1>c, <2>1, HandlerFacts DEF HandlerOK
  <2>. QED
    BY <2>1, <2>2, NoCreate
<1>5. CASE Write(p)
  <2>1. \E status, v, d : Reply(p, status, v, d)
    BY <1>5 DEF Write, UpdateMetadata, NamespaceCreate, NamespaceUpdate, Fail
  <2>. QED
    BY <1>c, <2>1, NoCreate, ReplyMoves
<1>6. CASE DbError(p)
  BY <1>6, DbErrorKeepsCreate
<1>. QED
  BY <1>1, <1>2, <1>3, <1>4, <1>5, <1>6 DEF Handle

\* A step of one handler leaves the locals and the request of the others alone.
LEMMA OthersWait ==
    ASSUME TInv, NEW p \in Procs, Start(p) \/ Handle(p) \/ DbError(p), NEW q \in Procs, q # p
    PROVE  pc'[q] = pc[q] /\ req'[q] = req[q] /\ loc'[q] = loc[q]
<1>c. Control
  BY DEF TInv
<1>0. CASE Start(p)
  BY <1>c, <1>0 DEF Start, Control
<1>1. CASE Handle(p) \/ DbError(p)
  BY <1>1, StepMoves DEF Moves
<1>. QED
  BY <1>0, <1>1

\* A transaction about to commit ends, one way or the other.
LEMMA CommitEnds ==
    ASSUME TInv, NEW p \in Procs, Start(p) \/ Handle(p) \/ DbError(p), pc[p] = "txCommit"
    PROVE  pc'[p] = "idle"
<1>1. CASE TxCommit(p)
  BY <1>1, ReplyMoves DEF TInv, TxCommit
<1>2. CASE DbError(p)
  BY <1>2, ReplyMoves DEF TInv, DbError, Fail, ReadSteps
<1>. QED
  BY <1>1, <1>2 DEF Start, Handle, Read, NamespaceGet, GetLatestVersion, GetMetadata, CacheGet,
     GetVersionID, GetSchemaData, CacheSet, Tx, TxBegin, TxSchema, TxVersion, Delete,
     DeleteSchema, NamespaceDelete, DeleteVersion, SelectOrphans, DeleteOrphans, Write,
     UpdateMetadata, NamespaceCreate, NamespaceUpdate

\* CreatesOK is inductive: no version changes under a create but by itself.
LEMMA CreatesStep ==
    ASSUME TInv, IInv, Asked, NothingLost, CreatesOK, NamesDistinct, NoDeletes, SingleCreator,
           [Next]_vars
    PROVE  CreatesOK'
<1>c. Control /\ pc \in [Procs -> PCs]
  BY DEF TInv, Control
<1>1. ASSUME NEW p \in Procs, pc[p] = "txCommit", pc'[p] = "idle", Moves(p),
             NEW q \in Procs
      PROVE  CreateOK(q)'
  <2>1. CASE q = p
    BY <1>1, <2>1, NoCreate
  <2>2. CASE q # p
    <3>1. pc'[q] = pc[q] /\ req'[q] = req[q]
      BY <1>1, <2>2 DEF Moves
    <3>2. req[p].op = "create"
      BY <1>c, <1>1, HandlerFacts DEF HandlerOK, TxSteps
    <3>3. pc[q] = "idle" \/ req[q].op # "create"
      BY <1>1, <2>2, <3>2 DEF Asked, SingleCreator
    <3>. QED
      BY <3>1, <3>3, NoCreate
  <2>. QED
    BY <2>1, <2>2
<1>2. CASE UNCHANGED <<versions, stored>>
  <2>1. ASSUME NEW p \in Procs, Start(p) \/ Handle(p) \/ DbError(p), NEW q \in Procs
        PROVE  CreateOK(q)'
    <3>1. CASE q = p /\ pc[p] # "txCommit"
      BY <2>1, <3>1, OwnStepKeepsCreate DEF CreatesOK
    <3>2. CASE q = p /\ pc[p] = "txCommit"
      <4>1. pc'[p] = "idle"
        BY <2>1, <3>2, CommitEnds
      <4>. QED
        BY <3>2, <4>1, NoCreate
    <3>3. CASE q # p
      <4>1. pc'[q] = pc[q] /\ req'[q] = req[q] /\ loc'[q] = loc[q]
        BY <2>1, <3>3, OthersWait
      <4>. QED
        BY <1>2, <4>1, CreateFrame DEF CreatesOK
    <3>. QED
      BY <3>1, <3>2, <3>3
  <2>2. ASSUME NEW p \in Procs, CommitAnswerLost(p), NEW q \in Procs
        PROVE  CreateOK(q)'
    BY <1>1, <1>c, <2>2, ReplyMoves DEF CommitAnswerLost, Fail
  <2>3. ASSUME NEW p \in Procs, NEW t \in Procs, TxFileSwept(p, t), NEW q \in Procs
        PROVE  CreateOK(q)'
    <3>1. Moves(p) /\ pc'[p] = "idle"
      BY <1>c, <2>3, ReplyMoves DEF TxFileSwept, Fail
    <3>2. CASE q = p
      BY <3>1, <3>2, NoCreate
    <3>3. CASE q # p
      BY <1>2, <3>1, <3>3, CreateFrame DEF CreatesOK, Moves
    <3>. QED
      BY <3>2, <3>3
  <2>4. CASE Crash
    BY <2>4, NoCreate DEF Crash, CreatesOK
  <2>5. CASE Evict \/ UNCHANGED vars
    BY <1>2, <2>5, CreateFrame DEF Evict, vars, CreatesOK
  <2>. QED
    BY <2>1, <2>2, <2>3, <2>4, <2>5 DEF Next, CreatesOK, Quiet
<1>3. CASE ~UNCHANGED <<versions, stored>>
  BY <1>1, <1>3, OnlyCommits DEF CreatesOK
<1>. QED
  BY <1>2, <1>3

\* A commit adds the number after the latest, with what may follow the latest.
LEMMA CompatibleStep ==
    ASSUME TInv, IInv, Asked, NothingLost, CreatesOK, NoDeletes, SuccessiveCompatible,
           [Next]_vars
    PROVE  SuccessiveCompatible'
<1>1. CASE UNCHANGED <<versions, stored>>
  BY <1>1 DEF SuccessiveCompatible
<1>2. ASSUME NEW p \in Procs, pc[p] = "txCommit", Publish(p) PROVE SuccessiveCompatible'
  <2>. DEFINE k == Key(p)  n == loc[p].ver
              new == [schema |-> k, version |-> n, file |-> req[p].file, compat |-> loc[p].compat]
  <2>1. /\ stored' = stored \cup {new}
        /\ new.schema = k /\ new.version = n /\ new.file = req[p].file /\ new.compat = loc[p].compat
    BY <1>2 DEF Publish
  <2>2. req[p].op = "create" /\ pc[p] # "idle" /\ pc[p] \in TxSteps
    BY <1>2, HandlerFacts DEF TInv, HandlerOK, TxSteps
  <2>3. n = MaxVersion(k) + 1 /\ Compatible(p)
    BY <1>2, <2>2 DEF CreatesOK, CreateOK
  <2>4. MaxVersion(k) \in Nat /\ \A r \in versions : r.schema = k => r.version <= MaxVersion(k)
    BY MaxVersionIsMax DEF TInv, Tables
  <2>5. \A s \in stored : s.version \in Nat
    BY DEF TInv, Tables, StoredVersions
  <2>6. ASSUME NEW s \in stored, s.schema = k
        PROVE  /\ s.version <= MaxVersion(k)
               /\ s.version = MaxVersion(k) => <<loc[p].compat, req[p].file, s.file>> \in Allowed
    <3>1. PICK r \in versions : r.schema = k /\ r.version = s.version /\ r.id.file = s.file
      BY <2>6 DEF NothingLost
    <3>. QED
      BY <2>3, <2>4, <3>1 DEF Compatible
  <2>. HIDE DEF k, n, new
  <2>7. ASSUME NEW s \in stored, NEW t \in stored, s.schema = t.schema, t.version = s.version + 1
        PROVE  <<t.compat, t.file, s.file>> \in Allowed
    BY <2>7 DEF SuccessiveCompatible
  <2>8. ASSUME NEW s \in stored, s.schema = new.schema, new.version = s.version + 1
        PROVE  <<new.compat, new.file, s.file>> \in Allowed
    <3>1. s.version = MaxVersion(k)
      BY <2>1, <2>3, <2>4, <2>5, <2>8
    <3>. QED
      BY <2>1, <2>6, <2>8, <3>1
  <2>9. ASSUME NEW t \in stored, new.schema = t.schema, t.version = new.version + 1
        PROVE  FALSE
    <3>1. t.version <= MaxVersion(k)
      BY <2>1, <2>6, <2>9
    <3>. QED
      BY <2>1, <2>3, <2>4, <2>5, <2>9, <3>1
  <2>10. new.version # new.version + 1
    BY <2>1, <2>3, <2>4
  <2>. QED
    BY <2>1, <2>7, <2>8, <2>9, <2>10 DEF SuccessiveCompatible
<1>. QED
  BY <1>1, <1>2, OnlyCommits

(***************************************************************************)
(* Where the joined names are distinct, nothing is deleted and one handler *)
(* creates, each version is compatible with the one before it: reads,      *)
(* changed defaults, the cache, errors and crashes between the check and   *)
(* the commit do not come in between (checkCompatibility, Create).         *)
(***************************************************************************)
THEOREM VersionsFollow ==
    ASSUME NamesDistinct, NoDeletes, SingleCreator
    PROVE  Spec => []SuccessiveCompatible
<1>1. Init => CreatesOK /\ SuccessiveCompatible
  BY DEF Init, CreatesOK, CreateOK, SuccessiveCompatible
<1>2. /\ TInv /\ IInv /\ Asked /\ NothingLost /\ CreatesOK /\ SuccessiveCompatible
      /\ [Next]_vars
      => CreatesOK' /\ SuccessiveCompatible'
  BY CreatesStep, CompatibleStep
<1>. QED
  BY <1>1, <1>2, Lasting, PTL DEF Spec
=============================================================================
