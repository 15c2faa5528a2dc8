---------------------------- MODULE ServerProofs ----------------------------
(***************************************************************************)
(* Proofs about Server, for any users, command lines, requests, contents,  *)
(* databases and bounds that satisfy the assumptions of Server and Api.    *)
(***************************************************************************)
EXTENDS Server, TLAPS, WellFoundedInduction, FiniteSetTheorems

-----------------------------------------------------------------------------
(***************************************************************************)
(* The shutdown.                                                           *)
(***************************************************************************)
CallsOfUsers == call = [u \in Users |-> call[u]]

\* One user's call is replaced.
LEMMA CallReplaced ==
    ASSUME CallsOfUsers, NEW u \in Users, NEW x, call' = [call EXCEPT ![u] = x]
    PROVE  /\ CallsOfUsers' /\ call'[u] = x
           /\ \A w \in Users : w # u => call'[w] = call[w]
  BY DEF CallsOfUsers

\* The calls that a phase of the shutdown leaves in the server.
Draining ==
    /\ CallsOfUsers
    /\ phase \in {"closingDb", "exiting", "down"} => \A u \in Users : ~InGRPC(u)
    /\ phase \in {"closing", "stopping", "closingDb", "exiting", "down"} =>
         \A u \in Users : InHTTP(u) => forced

\* A step of a call that takes no new way into the server keeps Draining.
LEMMA CallKeepsDraining ==
    ASSUME Draining, NEW u \in Users, NEW x, call' = [call EXCEPT ![u] = x],
           UNCHANGED <<phase, forced>>,
           InGRPC(u)' => InGRPC(u) \/ ConnOpen,
           InHTTP(u)' => InHTTP(u) \/ phase = "serving"
    PROVE  Draining'
<1>1. /\ CallsOfUsers'
      /\ \A w \in Users : w # u => (InGRPC(w)' <=> InGRPC(w)) /\ (InHTTP(w)' <=> InHTTP(w))
  BY CallReplaced DEF Draining, InGRPC, InHTTP, Running
<1>2. phase \in {"closingDb", "exiting", "down"} => ~ConnOpen
  BY DEF ConnOpen
<1>. QED
  BY <1>1, <1>2 DEF Draining

LEMMA DrainingStep == Draining /\ [Next]_vars => Draining'
<1>. SUFFICES ASSUME Draining, [Next]_vars PROVE Draining'
  OBVIOUS
<1>0. \A u \in Users : \A x : x.step = "done" /\ CallsOfUsers /\ call' = [call EXCEPT ![u] = x]
        => ~InGRPC(u)' /\ ~InHTTP(u)'
  BY CallReplaced DEF InGRPC, InHTTP, Running
<1>1. ASSUME NEW u \in CliUsers, NextStep(u) PROVE Draining'
  <2>1. u \in Users /\ UNCHANGED <<phase, forced>>
    BY <1>1 DEF NextStep, Users
  <2>2. CASE UNCHANGED call
    BY <2>1, <2>2 DEF Draining, CallsOfUsers, InGRPC, InHTTP, Running
  <2>3. ASSUME NEW m, NEW in, TakesGRPC,
               call' = [call EXCEPT ![u] = Pending("grpc", m, in, NoBody, "grpc")]
        PROVE  Draining'
    <3>1. ConnOpen
      BY <2>3 DEF TakesGRPC, ConnOpen
    <3>2. ~InHTTP(u)'
      <4>1. call'[u] = Pending("grpc", m, in, NoBody, "grpc")
        BY <2>1, <2>3, CallReplaced DEF Draining
      <4>. QED
        BY <4>1 DEF InHTTP, Pending
    <3>. QED
      BY <2>1, <2>3, <3>1, <3>2, CallKeepsDraining
  <2>. QED
    BY <1>1, <2>2, <2>3 DEF NextStep
<1>2. ASSUME NEW u \in CliUsers, Receive(u) PROVE Draining'
  <2>1. u \in Users /\ UNCHANGED <<phase, forced>> /\ call' = [call EXCEPT ![u] = Nil]
    BY <1>2 DEF Receive, Users
  <2>2. ~InGRPC(u)' /\ ~InHTTP(u)'
    BY <2>1, CallReplaced DEF Draining, InGRPC, InHTTP, Running
  <2>. QED
    BY <2>1, <2>2, CallKeepsDraining
<1>3. ASSUME NEW u \in HttpUsers, HTTPRequest(u) PROVE Draining'
  <2>1. u \in Users /\ UNCHANGED <<phase, forced>> /\ phase = "serving"
    BY <1>3 DEF HTTPRequest, Users
  <2>2. PICK q \in HttpRequests : call' = [call EXCEPT ![u] = Pending(q.via, q.method, q.path, q.body, "http")]
    BY <1>3 DEF HTTPRequest
  <2>3. ConnOpen
    BY <2>1 DEF ConnOpen
  <2>. QED
    BY <2>1, <2>2, <2>3, CallKeepsDraining
<1>4. ASSUME NEW u \in Users, Gateway(u) PROVE Draining'
  <2>. DEFINE c == call[u]
              in == Translate(c.method, c.in, c.body)
  <2>1. InHTTP(u) /\ UNCHANGED <<phase, forced>>
    BY <1>4 DEF Gateway, InHTTP
  <2>2. \/ \E code : call' = [call EXCEPT ![u] = Done(c, code, Nil)]
        \/ ConnOpen /\ call' = [call EXCEPT ![u] = Pending("gateway", c.method, in, c.body, "grpc")]
    BY <1>4 DEF Gateway
  <2>3. ASSUME NEW code, call' = [call EXCEPT ![u] = Done(c, code, Nil)] PROVE Draining'
    <3>1. Done(c, code, Nil).step = "done"
      BY DEF Done
    <3>. QED
      BY <1>0, <2>1, <2>3, <3>1, CallKeepsDraining DEF Draining
  <2>. QED
    BY <2>1, <2>2, <2>3, CallKeepsDraining
<1>5. ASSUME NEW u \in Users, Handle(u) \/ GatewayFails(u) PROVE Draining'
  <2>1. UNCHANGED <<phase, forced>>
    BY <1>5 DEF Handle, GatewayFails
  <2>2. \/ \E code, out : call' = [call EXCEPT ![u] = Done(call[u], code, out)]
        \/ \E at : call' = [call EXCEPT ![u] = GoesOn(call[u], at)]
    BY <1>5 DEF Handle, GatewayFails, CallAfter
  <2>3. ASSUME NEW code, NEW out, call' = [call EXCEPT ![u] = Done(call[u], code, out)] PROVE Draining'
    <3>1. Done(call[u], code, out).step = "done"
      BY DEF Done
    <3>. QED
      BY <1>0, <2>1, <2>3, <3>1, CallKeepsDraining DEF Draining
  <2>4. ASSUME NEW at, call' = [call EXCEPT ![u] = GoesOn(call[u], at)] PROVE Draining'
    <3>. DEFINE x == GoesOn(call[u], at)
    <3>1. call'[u] = x
      BY <2>4, CallReplaced DEF Draining
    <3>2. x.step = call[u].step /\ x.via = call[u].via
      BY DEF GoesOn
    <3>3. Running(u)
      BY <1>5 DEF Handle, GatewayFails, InGRPC
    <3>. HIDE DEF x
    <3>4. (InGRPC(u)' => InGRPC(u)) /\ (InHTTP(u)' => InHTTP(u))
      BY <3>1, <3>2, <3>3 DEF InGRPC, InHTTP, Running
    <3>. QED
      BY <2>1, <2>4, <3>4, CallKeepsDraining DEF x
  <2>. QED
    BY <2>2, <2>3, <2>4
<1>6. ASSUME NEW u \in CliUsers, RunCommand(u) \/ DialFails(u) \/ Dial(u) PROVE Draining'
  BY <1>6 DEF RunCommand, DialFails, Dial, Draining, CallsOfUsers, InGRPC, InHTTP, Running
<1>7. CASE Evict \/ Listen \/ Signal \/ Idle \/ UNCHANGED vars
  <2>1. UNCHANGED <<call, forced>> /\ (phase' = phase \/ phase' \in {"serving", "deaf", "draining"})
    BY <1>7 DEF Evict, Listen, Signal, Idle, Goto, vars
  <2>. QED
    BY <2>1 DEF Draining, CallsOfUsers, InGRPC, InHTTP, Running
<1>8. CASE Drained \/ DrainTimeout \/ CloseConn \/ GracefulStop \/ CloseDb
  <2>1. UNCHANGED call /\ \A u \in Users : (InGRPC(u)' <=> InGRPC(u)) /\ (InHTTP(u)' <=> InHTTP(u))
    BY <1>8 DEF Drained, DrainTimeout, CloseConn, GracefulStop, CloseDb, Goto, InGRPC, InHTTP, Running
  <2>. QED
    BY <1>8, <2>1 DEF Drained, DrainTimeout, CloseConn, GracefulStop, CloseDb, Goto, Draining,
       CallsOfUsers
<1>9. CASE ExitProcess \/ StopPanics
  <2>1. ProcessEnds
    BY <1>9 DEF ExitProcess, StopPanics
  <2>2. CallsOfUsers' /\ \A u \in Users : ~Running(u)'
    <3>1. \A c, code, out : Done(c, code, out).step = "done"
      BY DEF Done
    <3>2. \A u \in Users :
            call'[u] = IF ~Running(u) THEN call[u]
                       ELSE Done(call[u], IF u \in CliUsers THEN "Unavailable" ELSE "reset", Nil)
      BY <2>1 DEF ProcessEnds
    <3>3. CallsOfUsers'
      BY <2>1 DEF ProcessEnds, CallsOfUsers
    <3>. QED
      BY <3>1, <3>2, <3>3 DEF Running
  <2>. QED
    BY <2>2 DEF Draining, InGRPC, InHTTP
<1>. QED
  BY <1>1, <1>2, <1>3, <1>4, <1>5, <1>6, <1>7, <1>8, <1>9 DEF Next, Commanding, Serving, Stopping

\* The pool is closed after the gRPC handlers are through, and under an HTTP
\* handler only after a Shutdown that timed out (Start's cleanUp,
\* runWithGracefulShutdown).
THEOREM PoolClosedLast == Spec => []DbOutlivesCalls
<1>1. Init => Draining
  BY DEF Init, Draining, CallsOfUsers, InGRPC, InHTTP, Running
<1>2. Draining => DbOutlivesCalls
  BY DEF Draining, DbOutlivesCalls, DbOpen
<1>. QED
  BY <1>1, <1>2, DrainingStep, PTL DEF Spec

-----------------------------------------------------------------------------
(***************************************************************************)
(* The database and the schema service.                                    *)
(***************************************************************************)

\* A nonempty set of numbers with an upper bound has a maximum.
LEMMA MaximumExists ==
    ASSUME NEW S \in SUBSET Nat, S # {}, NEW b \in Nat, \A s \in S : s <= b
    PROVE  Max(S) \in S /\ \A s \in S : s <= Max(S)
<1>. DEFINE U == {u \in Nat : \A s \in S : s <= u}
<1>. DEFINE R == OpToRel(<, Nat)
<1>1. U \subseteq Nat /\ U # {}
  OBVIOUS
<1>2. PICK u \in U : \A y \in U : <<y, u>> \notin R
  <2>. HIDE DEF U, R
  <2>1. IsWellFoundedOn(R, Nat)
    BY NatLessThanWellFounded DEF R
  <2>. QED
    BY <1>1, <2>1, WFMin
<1>3. \A y \in U : ~(y < u)
  BY <1>2 DEF OpToRel
<1>4. u \in S
  <2>. SUFFICES ASSUME u \notin S PROVE FALSE
    OBVIOUS
  <2>1. PICK s \in S : TRUE
    OBVIOUS
  <2>2. u \in Nat /\ s \in Nat /\ s < u
    BY <2>1
  <2>3. u - 1 \in Nat /\ \A t \in S : t <= u - 1
    BY <2>2
  <2>. QED
    BY <1>3, <2>2, <2>3
<1>5. \E x \in S : \A y \in S : x >= y
  BY <1>4
<1>. QED
  BY <1>5 DEF Max

\* The fields of a database.
LEMMA DatabaseFields ==
    ASSUME NEW d \in Databases
    PROVE  /\ d.namespaces \in [NamespaceIds -> Metadata \cup {Nil}]
           /\ d.schemas \in [Keys -> Metadata \cup {Nil}]
           /\ d.versions \in [Keys -> [Numbers -> Contents \cup {Nil}]]
           /\ d.cache \in [Keys -> [Numbers -> Contents \cup {Nil}]]
  BY DEF Databases, Files

\* A database is made of its four fields.
LEMMA DatabaseOf ==
    ASSUME NEW ns \in [NamespaceIds -> Metadata \cup {Nil}], NEW sc \in [Keys -> Metadata \cup {Nil}],
           NEW vs \in [Keys -> [Numbers -> Contents \cup {Nil}]],
           NEW ca \in [Keys -> [Numbers -> Contents \cup {Nil}]],
           NEW d, d = [namespaces |-> ns, schemas |-> sc, versions |-> vs, cache |-> ca]
    PROVE  /\ d \in Databases
           /\ d.namespaces = ns /\ d.schemas = sc /\ d.versions = vs /\ d.cache = ca
  BY DEF Databases, Files

\* Latest is the greatest number of a version, or 0.
LEMMA LatestIsMax ==
    ASSUME NEW d \in Databases, NEW k \in Keys
    PROVE  /\ Latest(d, k) \in 0..MaxVersion
           /\ Latest(d, k) # 0 => Latest(d, k) \in Numbers /\ d.versions[k][Latest(d, k)] # Nil
           /\ \A v \in Numbers : d.versions[k][v] # Nil => v <= Latest(d, k)
<1>. DEFINE S == {0} \cup {v \in Numbers : d.versions[k][v] # Nil}
<1>1. S \in SUBSET Nat /\ S # {} /\ MaxVersion \in Nat /\ \A s \in S : s <= MaxVersion
  BY MaxVersionAssumption DEF Numbers
<1>2. Max(S) \in S /\ \A s \in S : s <= Max(S)
  <2>. HIDE DEF S
  <2>. QED
    BY <1>1, MaximumExists
<1>3. Latest(d, k) = Max(S)
  BY DEF Latest
<1>. HIDE DEF Latest
<1>. QED
  BY <1>1, <1>2, <1>3 DEF Numbers

\* Reading leaves the tables alone; the cache takes what they have, and may
\* lose it.
OnlyReads(d, e) ==
    /\ e \in Databases
    /\ e.namespaces = d.namespaces /\ e.schemas = d.schemas /\ e.versions = d.versions
    /\ \A k \in Keys, v \in Numbers : e.cache[k][v] \in {d.cache[k][v], d.versions[k][v], Nil}

LEMMA FetchedFile ==
    ASSUME NEW d \in Databases, NEW k \in Keys, NEW v
    PROVE  /\ Fetched(d, k, v) \in Contents \cup {Nil}
           /\ Fetched(d, k, v) # Nil =>
                /\ v \in Numbers /\ d.schemas[k] # Nil
                /\ Fetched(d, k, v) \in {d.cache[k][v], d.versions[k][v]}
  BY DatabaseFields DEF Fetched

LEMMA CachedOnlyReads ==
    ASSUME NEW d \in Databases, NEW k \in Keys, NEW v
    PROVE  OnlyReads(d, Cached(d, k, v))
<1>. DEFINE x == Fetched(d, k, v)
            e == [d EXCEPT !.cache[k][v] = x]
<1>1. CASE x = Nil
  BY <1>1 DEF Cached, OnlyReads
<1>2. CASE x # Nil
  <2>1. v \in Numbers /\ x \in Contents \cup {Nil} /\ x \in {d.cache[k][v], d.versions[k][v]}
    BY <1>2, FetchedFile
  <2>. HIDE DEF x
  <2>2. e \in Databases
    BY <2>1 DEF Databases, Files
  <2>3. /\ e.namespaces = d.namespaces /\ e.schemas = d.schemas /\ e.versions = d.versions
        /\ e.cache = [d.cache EXCEPT ![k][v] = x]
    BY DEF Databases
  <2>4. \A j \in Keys, w \in Numbers : e.cache[j][w] = IF j = k /\ w = v THEN x ELSE d.cache[j][w]
    BY <2>1, <2>3, DatabaseFields
  <2>5. Cached(d, k, v) = e
    BY <1>2 DEF Cached, x
  <2>. HIDE DEF e
  <2>. QED
    BY <2>1, <2>2, <2>3, <2>4, <2>5 DEF OnlyReads
<1>. QED
  BY <1>1, <1>2

\* A handler's result: its database, its code and its answer from R.
HandlerCodes == {"OK", "NotFound", "AlreadyExists", "InvalidArgument", "Unknown"}
Proper(res, R) ==
    res.db \in Databases /\ res.code \in HandlerCodes /\ (res.code = "OK" => res.out \in R)

LEMMA ProperResults ==
    ASSUME NEW d \in Databases, NEW R
    PROVE  /\ \A o \in R : Proper(Reply(d, o), R)
           /\ \A c \in HandlerCodes : c # "OK" => Proper(Refuse(d, c), R)
           /\ \A o : Reply(d, o).db = d /\ Reply(d, o).code = "OK" /\ Reply(d, o).out = o
           /\ \A c : Refuse(d, c).db = d /\ Refuse(d, c).code = c
  BY DEF Proper, Reply, Refuse, HandlerCodes

LEMMA ReadResult ==
    ASSUME NEW d \in Databases, NEW k \in Keys, NEW v
    PROVE  /\ Proper(Read(d, k, v), [data : Contents])
           /\ OnlyReads(d, Read(d, k, v).db)
           /\ Read(d, k, v).code = "OK" =>
                /\ v \in Numbers /\ d.schemas[k] # Nil
                /\ Read(d, k, v).out.data \in {d.cache[k][v], d.versions[k][v]}
                /\ Read(d, k, v).out.data # Nil
<1>1. CASE Fetched(d, k, v) = Nil
  BY <1>1, ProperResults DEF Read, HandlerCodes, OnlyReads
<1>2. CASE Fetched(d, k, v) # Nil
  <2>. DEFINE o == [data |-> Fetched(d, k, v)]
  <2>1. /\ Fetched(d, k, v) \in Contents /\ v \in Numbers /\ d.schemas[k] # Nil
        /\ Fetched(d, k, v) \in {d.cache[k][v], d.versions[k][v]}
    BY <1>2, FetchedFile
  <2>2. o \in [data : Contents] /\ o.data = Fetched(d, k, v)
    BY <2>1
  <2>3. Cached(d, k, v) \in Databases /\ OnlyReads(d, Cached(d, k, v))
    BY CachedOnlyReads DEF OnlyReads
  <2>4. Read(d, k, v) = Reply(Cached(d, k, v), o)
    BY <1>2 DEF Read
  <2>. HIDE DEF o
  <2>5. Proper(Reply(Cached(d, k, v), o), [data : Contents])
    BY <2>2, <2>3, ProperResults
  <2>6. Reply(Cached(d, k, v), o).db = Cached(d, k, v) /\ Reply(Cached(d, k, v), o).out = o
    BY DEF Reply
  <2>. QED
    BY <1>2, <2>1, <2>2, <2>3, <2>4, <2>5, <2>6
<1>. QED
  BY <1>1, <1>2

LEMMA ReadAnswer ==
    ASSUME NEW d \in Databases, NEW k \in Keys, NEW v, NEW res, res = Read(d, k, v)
    PROVE  /\ Proper(res, [data : Contents]) /\ OnlyReads(d, res.db)
           /\ res.code = "OK" =>
                /\ d.schemas[k] # Nil /\ res.out.data # Nil
                /\ \E w \in Numbers : res.out.data \in {d.cache[k][w], d.versions[k][w]}
<1>1. /\ Proper(res, [data : Contents]) /\ OnlyReads(d, res.db)
      /\ res.code = "OK" =>
           /\ v \in Numbers /\ d.schemas[k] # Nil
           /\ res.out.data \in {d.cache[k][v], d.versions[k][v]} /\ res.out.data # Nil
  BY ReadResult
<1>. QED
  BY <1>1

LEMMA CheckCodes ==
    ASSUME NEW d, NEW k, NEW format, NEW mode, NEW data
    PROVE  /\ CheckLatest(d, k, format, mode, data) \in {"OK", "Unknown", "InvalidArgument"}
           /\ /\ CheckLatest(d, k, format, mode, data) = "OK"
              /\ Fetched(d, k, Latest(d, k)) # Nil /\ ~Unchecked(mode)
              => format = d.schemas[k].format
  BY DEF CheckLatest, Accepts

\* A number above all that k has, and a content that k does not have.
Newer(d, k, n, data) ==
    \A v \in Numbers : d.versions[k][v] # Nil => v < n /\ d.versions[k][v] # data

\* A new version of k: one number more has a file, and the row of the schema
\* keeps its metadata if it has some.
NewVersionStored(d, e, k, meta, data) ==
    /\ e \in Databases /\ e.namespaces = d.namespaces /\ e.cache = d.cache
    /\ e.schemas[k] = IF d.schemas[k] = Nil THEN meta ELSE d.schemas[k]
    /\ \A j \in Keys : j # k => e.schemas[j] = d.schemas[j] /\ e.versions[j] = d.versions[j]
    /\ \E n \in Numbers :
         /\ d.versions[k][n] = Nil /\ e.versions[k][n] = data /\ Newer(d, k, n, data)
         /\ \A v \in Numbers : v # n => e.versions[k][v] = d.versions[k][v]

\* What an upload carries from its check to its insert: metadata that its file
\* parses in, and whether there was a version.
Carried(at, data) ==
    /\ at = Continuation(at.step, at.meta, at.first)
    /\ at.step \in {"lookup", "insert"} /\ at.meta \in Metadata /\ at.first \in BOOLEAN
    /\ <<at.meta.format, data>> \in Parses

LEMMA ContinuationCarried ==
    ASSUME NEW step \in {"lookup", "insert"}, NEW meta \in Metadata, NEW first \in BOOLEAN, NEW data,
           <<meta.format, data>> \in Parses, NEW at, at = Continuation(step, meta, first)
    PROVE  Carried(at, data) /\ at.step = step /\ at.meta = meta /\ at.first = first
<1>1. at.step = step /\ at.meta = meta /\ at.first = first
  BY DEF Continuation
<1>. QED
  BY <1>1 DEF Carried

LEMMA InsertResult ==
    ASSUME NEW d \in Databases, NEW k \in Keys, NEW meta \in Metadata, NEW data \in Contents
    PROVE  LET res == Insert(d, k, meta, data)
           IN  /\ Proper(res, CreateSchemaResponse)
               /\ res.code \in {"OK", "AlreadyExists"} => \E v \in Numbers : res.db.versions[k][v] = data
               /\ OnlyReads(d, res.db) \/ (res.code = "OK" /\ NewVersionStored(d, res.db, k, meta, data))
<1>. DEFINE there == data \in Range(d.versions[k])
            next == Latest(d, k) + 1
            res == Insert(d, k, meta, data)
            Goal == /\ Proper(res, CreateSchemaResponse)
                    /\ res.code \in {"OK", "AlreadyExists"} => \E v \in Numbers : res.db.versions[k][v] = data
                    /\ OnlyReads(d, res.db) \/ (res.code = "OK" /\ NewVersionStored(d, res.db, k, meta, data))
<1>. SUFFICES Goal
  OBVIOUS
<1>0. /\ Numbers \subseteq VersionIds /\ Numbers \subseteq Nat /\ MaxVersion \in Nat
      /\ \A v \in Numbers : v <= MaxVersion
      /\ OnlyReads(d, d)
  BY MaxVersionAssumption DEF Numbers, OnlyReads
<1>1. there <=> \E v \in Numbers : d.versions[k][v] = data
  <2>1. DOMAIN d.versions[k] = Numbers
    BY DatabaseFields
  <2>. QED
    BY <2>1 DEF Range
<1>2. CASE d.namespaces[k[1]] = Nil \/ (d.namespaces[k[1]] # Nil /\ ~there /\ next \notin Numbers)
  <2>1. res = Refuse(d, "Unknown")
    BY <1>2 DEF Insert
  <2>. HIDE DEF res
  <2>. QED
    BY <1>0, <2>1, ProperResults DEF HandlerCodes
<1>3. CASE d.namespaces[k[1]] # Nil /\ there
  <2>1. res = Refuse(d, "AlreadyExists")
    BY <1>3 DEF Insert
  <2>. HIDE DEF res, there
  <2>. QED
    BY <1>0, <1>1, <1>3, <2>1, ProperResults DEF HandlerCodes
<1>4. CASE d.namespaces[k[1]] # Nil /\ ~there /\ next \in Numbers
  <2>. DEFINE e == [d EXCEPT !.schemas[k] = IF @ = Nil THEN meta ELSE @, !.versions[k][next] = data]
              o == [version |-> next]
  <2>1. d.versions[k][next] = Nil
    BY <1>0, <1>4, LatestIsMax
  <2>2. res = Reply(e, o)
    BY <1>4 DEF Insert
  <2>0. Newer(d, k, next, data)
    <3>. SUFFICES ASSUME NEW v \in Numbers, d.versions[k][v] # Nil
                  PROVE  v < next /\ d.versions[k][v] # data
      BY DEF Newer
    <3>1. v <= Latest(d, k) /\ Latest(d, k) \in Nat /\ v \in Nat
      BY <1>0, LatestIsMax
    <3>2. d.versions[k][v] # data
      <4>. HIDE DEF there
      <4>. QED
        BY <1>1, <1>4
    <3>3. v < next
      <4>. HIDE DEF Latest
      <4>. QED
        BY <3>1
    <3>. QED
      BY <3>2, <3>3
  <2>. HIDE DEF next, there
  <2>3. e \in Databases
    BY <1>4 DEF Databases, Files
  <2>4. /\ e.namespaces = d.namespaces /\ e.cache = d.cache
        /\ e.schemas = [d.schemas EXCEPT ![k] = IF @ = Nil THEN meta ELSE @]
        /\ e.versions = [d.versions EXCEPT ![k][next] = data]
    BY DEF Databases
  <2>5. NewVersionStored(d, e, k, meta, data)
    <3>. HIDE DEF e
    <3>. QED
      BY <1>4, <2>0, <2>1, <2>3, <2>4, DatabaseFields DEF NewVersionStored
  <2>6. o \in CreateSchemaResponse
    BY <1>0, <1>4 DEF CreateSchemaResponse, next
  <2>. HIDE DEF e, o
  <2>7. Proper(res, CreateSchemaResponse)
    BY <2>2, <2>3, <2>6, ProperResults
  <2>8. res.db = e /\ res.code = "OK"
    BY <2>2 DEF Reply
  <2>9. \E v \in Numbers : e.versions[k][v] = data
    BY <2>5 DEF NewVersionStored
  <2>. HIDE DEF res
  <2>. QED
    BY <2>5, <2>7, <2>8, <2>9
<1>. QED
  BY <1>2, <1>3, <1>4

\* An upload after its check: it goes on, or ends; if it ends well, or with a
\* conflict, its content is there.
LEMMA StoreResult ==
    ASSUME NEW d \in Databases, NEW k \in Keys, NEW data \in Contents, NEW at, Carried(at, data)
    PROVE  LET res == Store(d, k, at, data)
           IN  \/ /\ res.code = "more" /\ OnlyReads(d, res.db)
                  /\ Carried(res.out, data) /\ res.out.meta = at.meta /\ res.out.first = at.first
               \/ /\ Proper(res, CreateSchemaResponse)
                  /\ res.code \in {"OK", "AlreadyExists"} => \E v \in Numbers : res.db.versions[k][v] = data
                  /\ \/ OnlyReads(d, res.db)
                     \/ /\ res.code = "OK" /\ at.step = "insert"
                        /\ NewVersionStored(d, res.db, k, at.meta, data)
<1>. DEFINE same == {v \in Numbers : d.versions[k][v] = data}
            c == AfterCheck(d, k)
            res == Store(d, k, at, data)
            Goal == \/ /\ res.code = "more" /\ OnlyReads(d, res.db)
                       /\ Carried(res.out, data) /\ res.out.meta = at.meta /\ res.out.first = at.first
                    \/ /\ Proper(res, CreateSchemaResponse)
                       /\ res.code \in {"OK", "AlreadyExists"} => \E v \in Numbers : res.db.versions[k][v] = data
                       /\ \/ OnlyReads(d, res.db)
                          \/ /\ res.code = "OK" /\ at.step = "insert"
                             /\ NewVersionStored(d, res.db, k, at.meta, data)
<1>. SUFFICES Goal
  OBVIOUS
<1>0. /\ at.step \in {"lookup", "insert"} /\ at.meta \in Metadata /\ at.first \in BOOLEAN
      /\ <<at.meta.format, data>> \in Parses /\ at = Continuation(at.step, at.meta, at.first)
  BY DEF Carried
<1>1. OnlyReads(d, c) /\ c \in Databases /\ c.versions = d.versions
  BY CachedOnlyReads DEF AfterCheck, OnlyReads
<1>2. CASE at.step = "lookup" /\ same # {}
  <2>0. Numbers \subseteq VersionIds /\ Numbers \subseteq Nat /\ MaxVersion \in Nat
        /\ \A v \in Numbers : v <= MaxVersion
    BY MaxVersionAssumption DEF Numbers
  <2>1. Max(same) \in same
    <3>1. same \in SUBSET Nat /\ \A s \in same : s <= MaxVersion
      BY <2>0
    <3>. HIDE DEF same
    <3>. QED
      BY <1>2, <2>0, <3>1, MaximumExists
  <2>. DEFINE o == [version |-> Max(same)]
  <2>2. res = Reply(c, o)
    BY <1>2 DEF Store, Lookup
  <2>3. o \in CreateSchemaResponse
    BY <2>0, <2>1 DEF CreateSchemaResponse
  <2>. HIDE DEF o, c, res
  <2>4. Proper(res, CreateSchemaResponse) /\ res.db = c /\ res.code = "OK"
    BY <1>1, <2>2, <2>3, ProperResults
  <2>5. \E v \in Numbers : c.versions[k][v] = data
    BY <1>1, <2>1
  <2>. QED
    BY <1>1, <2>4, <2>5
<1>3. CASE at.step = "lookup" /\ same = {}
  <2>. DEFINE y == [at EXCEPT !.step = "insert"]
  <2>1. res = Proceed(c, y)
    BY <1>3 DEF Store, Lookup
  <2>2. y = Continuation("insert", at.meta, at.first)
    BY <1>0 DEF Continuation
  <2>. HIDE DEF y, c, res
  <2>3. Carried(y, data) /\ y.meta = at.meta /\ y.first = at.first
    BY <1>0, <2>2, ContinuationCarried
  <2>4. res.code = "more" /\ res.db = c /\ res.out = y
    BY <2>1 DEF Proceed
  <2>. QED
    BY <1>1, <2>3, <2>4
<1>4. CASE at.step = "insert"
  <2>1. res = Insert(d, k, at.meta, data)
    BY <1>4 DEF Store
  <2>. HIDE DEF res
  <2>. QED
    BY <1>0, <1>4, <2>1, InsertResult
<1>. QED
  BY <1>0, <1>2, <1>3, <1>4

\* What the check of an upload says of the row it will meet, until something is
\* deleted: a version was there, and a row of the upload's format with it.
Met(d, k, at) ==
    ~at.first /\ ~Unchecked(at.meta.compatibility) =>
        d.schemas[k] # Nil /\ d.schemas[k].format = at.meta.format

\* The check is through, and the upload goes on.
Continues(d, k, data, res) ==
    /\ res.code = "more" /\ OnlyReads(d, res.db)
    /\ Carried(res.out, data) /\ Met(res.db, k, res.out)

\* An upload up to its check: it goes on, or is refused.
LEMMA CreateResult ==
    ASSUME NEW d \in Databases, NEW k \in Keys, NEW format, NEW data \in Contents,
           NEW mode \in Schema_Compatibility \cup {Blank, "other"}
    PROVE  LET res == Create(d, k, format, mode, data)
           IN  \/ Continues(d, k, data, res)
               \/ /\ res.code \in HandlerCodes \ {"OK", "AlreadyExists"}
                  /\ OnlyReads(d, res.db)
<1>. DEFINE ns == d.namespaces[k[1]]
            meta == [format |-> GetNonEmpty(format, ns.format),
                     compatibility |-> GetNonEmpty(mode, ns.compatibility)]
            checked == CheckLatest(d, k, meta.format, meta.compatibility, data)
            c == AfterCheck(d, k)
            prev == Fetched(d, k, Latest(d, k))
            first == (prev = Nil)
            at == Continuation("lookup", meta, first)
            res == Create(d, k, format, mode, data)
            Goal == \/ Continues(d, k, data, res)
                    \/ res.code \in HandlerCodes \ {"OK", "AlreadyExists"} /\ OnlyReads(d, res.db)
<1>. SUFFICES Goal
  OBVIOUS
<1>0. OnlyReads(d, d) /\ OnlyReads(d, c) /\ c \in Databases /\ k[1] \in NamespaceIds
  BY CachedOnlyReads DEF AfterCheck, OnlyReads, Keys
<1>1. res = Checked(d, k, meta.format, meta.compatibility, meta, data)
  BY DEF Create
<1>2. CASE ns = Nil \/ (ns # Nil /\ <<meta.format, data>> \notin Parses)
  <2>1. res = Refuse(d, "NotFound") \/ res = Refuse(d, "Unknown")
    BY <1>1, <1>2 DEF Checked
  <2>2. res.db = d /\ res.code \in {"NotFound", "Unknown"}
    BY <2>1 DEF Refuse
  <2>. HIDE DEF res
  <2>. QED
    BY <1>0, <2>2 DEF HandlerCodes
<1>3. CASE ns # Nil /\ <<meta.format, data>> \in Parses /\ checked # "OK"
  <2>1. res = Refuse(c, checked)
    BY <1>1, <1>3 DEF Checked
  <2>2. checked \in {"Unknown", "InvalidArgument"}
    BY <1>3, CheckCodes
  <2>. HIDE DEF checked, c, res
  <2>3. res.db = c /\ res.code = checked
    BY <2>1 DEF Refuse
  <2>. QED
    BY <1>0, <2>2, <2>3 DEF HandlerCodes
<1>4. CASE ns # Nil /\ <<meta.format, data>> \in Parses /\ checked = "OK"
  <2>1. res = Proceed(c, at)
    BY <1>1, <1>4 DEF Checked
  <2>2. meta \in Metadata
    <3>1. ns \in Metadata
      BY <1>0, <1>4, DatabaseFields
    <3>2. meta.format \in Schema_Format
      BY <1>4, ParsesAssumption
    <3>3. meta.compatibility \in Schema_Compatibility \cup {"other"}
      BY <3>1 DEF GetNonEmpty, Metadata
    <3>. QED
      BY <3>2, <3>3 DEF Metadata
  <2>3. /\ prev # Nil => d.schemas[k] # Nil
        /\ prev # Nil /\ ~Unchecked(meta.compatibility) => meta.format = d.schemas[k].format
    BY <1>4, CheckCodes, FetchedFile
  <2>4. c.schemas = d.schemas
    BY <1>0 DEF OnlyReads
  <2>5. <<meta.format, data>> \in Parses
    BY <1>4
  <2>. HIDE DEF meta, c, checked, prev, res
  <2>6. first \in BOOLEAN /\ (~first <=> prev # Nil)
    OBVIOUS
  <2>. HIDE DEF first, at
  <2>7. Carried(at, data) /\ at.meta = meta /\ at.first = first
    BY <2>2, <2>5, <2>6, ContinuationCarried DEF at
  <2>8. Met(c, k, at)
    BY <2>3, <2>4, <2>6, <2>7 DEF Met
  <2>9. res.code = "more" /\ res.db = c /\ res.out = at
    BY <2>1 DEF Proceed
  <2>. QED
    BY <1>0, <2>7, <2>8, <2>9 DEF Continues
<1>. QED
  BY <1>2, <1>3, <1>4

LEMMA CheckResult ==
    ASSUME NEW d \in Databases, NEW k \in Keys, NEW mode, NEW data
    PROVE  /\ Proper(Check(d, k, mode, data), CheckCompatibilityResponse)
           /\ OnlyReads(d, Check(d, k, mode, data).db)
<1>. DEFINE ns == d.namespaces[k[1]]
            checked == CheckLatest(d, k, ns.format, GetNonEmpty(mode, ns.compatibility), data)
            c == AfterCheck(d, k)
            res == Check(d, k, mode, data)
<1>0. OnlyReads(d, d) /\ OnlyReads(d, c) /\ c \in Databases
  BY CachedOnlyReads DEF AfterCheck, OnlyReads
<1>1. checked \in {"OK", "Unknown", "InvalidArgument"} /\ NoFields \in CheckCompatibilityResponse
  BY CheckCodes DEF CheckCompatibilityResponse
<1>2. \/ res = Refuse(d, "NotFound") \/ res = Refuse(d, "Unknown")
      \/ res = Reply(c, NoFields) \/ (checked # "OK" /\ res = Refuse(c, checked))
  BY DEF Check
<1>. HIDE DEF checked, c, res
<1>3. ASSUME NEW x \in Databases, OnlyReads(d, x), NEW code \in HandlerCodes \ {"OK"}, res = Refuse(x, code)
      PROVE  Proper(res, CheckCompatibilityResponse) /\ OnlyReads(d, res.db)
  BY <1>3, ProperResults
<1>4. ASSUME res = Reply(c, NoFields)
      PROVE  Proper(res, CheckCompatibilityResponse) /\ OnlyReads(d, res.db)
  BY <1>0, <1>1, <1>4 DEF Proper, Reply, HandlerCodes
<1>5. "NotFound" \in HandlerCodes \ {"OK"} /\ "Unknown" \in HandlerCodes \ {"OK"}
      /\ (checked # "OK" => checked \in HandlerCodes \ {"OK"})
  BY <1>1 DEF HandlerCodes
<1>6. Proper(res, CheckCompatibilityResponse) /\ OnlyReads(d, res.db)
  BY <1>0, <1>2, <1>3, <1>4, <1>5
<1>. QED
  BY <1>6 DEF res

-----------------------------------------------------------------------------
(***************************************************************************)
(* The handlers.                                                           *)
(***************************************************************************)

\* What the writing handlers leave behind.
NamespaceWritten(d, e, n) ==
    /\ e \in Databases /\ e.schemas = d.schemas /\ e.versions = d.versions /\ e.cache = d.cache
    /\ e.namespaces[n] # Nil
    /\ \A m \in NamespaceIds : m # n => e.namespaces[m] = d.namespaces[m]
SchemaEdited(d, e) ==
    /\ e \in Databases
    /\ e.namespaces = d.namespaces /\ e.versions = d.versions /\ e.cache = d.cache
    /\ \A k \in Keys : IF d.schemas[k] = Nil THEN e.schemas[k] = Nil
                       ELSE e.schemas[k] # Nil /\ e.schemas[k].format = d.schemas[k].format
\* The files of some schemas go, or one file.
Emptied(d, e) ==
    \/ \E ks \in SUBSET Keys : \A k \in Keys, v \in Numbers :
         e.versions[k][v] = IF k \in ks THEN Nil ELSE d.versions[k][v]
    \/ \E k \in Keys, n \in VersionIds : \A j \in Keys, v \in Numbers :
         e.versions[j][v] = IF j = k /\ v = n THEN Nil ELSE d.versions[j][v]
Removed(d, e) ==
    /\ e \in Databases /\ Emptied(d, e)
    /\ \A n \in NamespaceIds : e.namespaces[n] \in {d.namespaces[n], Nil}
    /\ \A k \in Keys, v \in Numbers : e.versions[k][v] \in {d.versions[k][v], Nil}

\* The answers of the namespace handlers.
LEMMA NamespaceProto ==
    ASSUME NEW d \in Databases, NEW n \in NamespaceIds
    PROVE  /\ NamespaceToProto(d, n) \in Namespace
           /\ [namespace |-> NamespaceToProto(d, n)] \in [namespace : Namespace]
<1>1. \A x : FormatValue(x) \in Schema_Format /\ CompatibilityValue(x) \in Schema_Compatibility
  BY DEF FormatValue, CompatibilityValue, Schema_Format, Schema_Compatibility
<1>2. NamespaceToProto(d, n) \in Namespace
  BY <1>1 DEF NamespaceToProto, Namespace
<1>. QED
  BY <1>2

\* A row of the namespace table is replaced.
LEMMA NamespaceRowResult ==
    ASSUME NEW d \in Databases, NEW in \in Namespace
    PROVE  LET e == [d EXCEPT !.namespaces[in.id] = NamespaceRow(in)]
           IN  /\ NamespaceWritten(d, e, in.id)
               /\ Proper(Reply(e, [namespace |-> in]), [namespace : Namespace])
<1>. DEFINE row == NamespaceRow(in)
            n == in.id
            e == [d EXCEPT !.namespaces[n] = row]
            o == [namespace |-> in]
<1>1. row \in Metadata /\ row # Nil /\ n \in NamespaceIds
  BY NilAssumption DEF NamespaceRow, Metadata, Namespace
<1>2. o \in [namespace : Namespace]
  OBVIOUS
<1>. HIDE DEF row, n, o
<1>3. e \in Databases
  BY <1>1 DEF Databases
<1>4. /\ e.schemas = d.schemas /\ e.versions = d.versions /\ e.cache = d.cache
      /\ e.namespaces = [d.namespaces EXCEPT ![n] = row]
  BY DEF Databases
<1>. HIDE DEF e
<1>5. NamespaceWritten(d, e, n)
  BY <1>1, <1>3, <1>4, DatabaseFields DEF NamespaceWritten
<1>6. Proper(Reply(e, o), [namespace : Namespace])
  BY <1>2, <1>3, ProperResults
<1>. QED
  BY <1>5, <1>6 DEF e, n, row, o

LEMMA CreateNamespaceResult ==
    ASSUME NEW d \in Databases, NEW in \in CreateNamespaceRequest
    PROVE  LET res == CreateNamespace(d, in)
           IN  /\ Proper(res, CreateNamespaceResponse)
               /\ res.code \in {"OK", "AlreadyExists"}
               /\ res.code = "OK" => NamespaceWritten(d, res.db, in.id)
               /\ res.code = "AlreadyExists" => res.db = d /\ d.namespaces[in.id] # Nil
<1>. USE DEF CreateNamespaceRequest, CreateNamespaceResponse
<1>1. CASE d.namespaces[in.id] # Nil
  <2>1. CreateNamespace(d, in) = Refuse(d, "AlreadyExists")
    BY <1>1 DEF CreateNamespace
  <2>. QED
    BY <1>1, <2>1 DEF Proper, Refuse, HandlerCodes
<1>2. CASE d.namespaces[in.id] = Nil
  <2>. DEFINE e == [d EXCEPT !.namespaces[in.id] = NamespaceRow(in)]
  <2>1. CreateNamespace(d, in) = Reply(e, [namespace |-> in])
    BY <1>2 DEF CreateNamespace
  <2>2. NamespaceWritten(d, e, in.id) /\ Proper(Reply(e, [namespace |-> in]), [namespace : Namespace])
    BY NamespaceRowResult
  <2>3. Reply(e, [namespace |-> in]).code = "OK" /\ Reply(e, [namespace |-> in]).db = e
    BY DEF Reply
  <2>. HIDE DEF e
  <2>. QED
    BY <2>1, <2>2, <2>3
<1>. QED
  BY <1>1, <1>2

LEMMA UpdateNamespaceResult ==
    ASSUME NEW d \in Databases, NEW in \in UpdateNamespaceRequest
    PROVE  LET res == UpdateNamespace(d, in)
           IN  /\ Proper(res, UpdateNamespaceResponse)
               /\ res.code = "OK" => NamespaceWritten(d, res.db, in.id) /\ d.namespaces[in.id] # Nil
               /\ res.code # "OK" => res.db = d
<1>. USE DEF UpdateNamespaceRequest, UpdateNamespaceResponse
<1>1. CASE d.namespaces[in.id] = Nil
  <2>1. UpdateNamespace(d, in) = Refuse(d, "NotFound")
    BY <1>1 DEF UpdateNamespace
  <2>. QED
    BY <1>1, <2>1 DEF Proper, Refuse, HandlerCodes
<1>2. CASE d.namespaces[in.id] # Nil
  <2>. DEFINE e == [d EXCEPT !.namespaces[in.id] = NamespaceRow(in)]
  <2>1. UpdateNamespace(d, in) = Reply(e, [namespace |-> in])
    BY <1>2 DEF UpdateNamespace
  <2>2. NamespaceWritten(d, e, in.id) /\ Proper(Reply(e, [namespace |-> in]), [namespace : Namespace])
    BY NamespaceRowResult
  <2>3. Reply(e, [namespace |-> in]).code = "OK" /\ Reply(e, [namespace |-> in]).db = e
    BY DEF Reply
  <2>. HIDE DEF e
  <2>. QED
    BY <1>2, <2>1, <2>2, <2>3
<1>. QED
  BY <1>1, <1>2

LEMMA DeleteNamespaceResult ==
    ASSUME NEW d \in Databases, NEW in \in DeleteNamespaceRequest
    PROVE  LET res == DeleteNamespace(d, in)
           IN  /\ Proper(res, DeleteNamespaceResponse) /\ res.code = "OK" /\ Removed(d, res.db)
<1>. DEFINE n == in.id
            sc == [k \in Keys |-> IF k[1] = n THEN Nil ELSE d.schemas[k]]
            vs == [k \in Keys |-> IF k[1] = n THEN NoFiles ELSE d.versions[k]]
            ns == [d.namespaces EXCEPT ![n] = Nil]
            e == [d EXCEPT !.namespaces[n] = Nil, !.schemas = sc, !.versions = vs]
<1>1. n \in NamespaceIds
  BY DEF DeleteNamespaceRequest
<1>. HIDE DEF n
<1>2. /\ sc \in [Keys -> Metadata \cup {Nil}] /\ vs \in [Keys -> [Numbers -> Contents \cup {Nil}]]
      /\ ns \in [NamespaceIds -> Metadata \cup {Nil}]
  BY <1>1, DatabaseFields DEF NoFiles
<1>3. e.schemas = sc /\ e.versions = vs /\ e.namespaces = ns
  BY DEF Databases
<1>4. e \in Databases
  <2>. HIDE DEF sc, vs
  <2>. QED
    BY <1>1, <1>2 DEF Databases, Files
<1>5. /\ \A m \in NamespaceIds : ns[m] \in {d.namespaces[m], Nil}
      /\ \A k \in Keys, v \in Numbers : vs[k][v] \in {d.versions[k][v], Nil}
  BY <1>1, DatabaseFields DEF NoFiles
<1>6. Removed(d, e)
  <2>. DEFINE ks == {k \in Keys : k[1] = n}
  <2>1. \A k \in Keys, v \in Numbers : vs[k][v] = IF k \in ks THEN Nil ELSE d.versions[k][v]
    BY DEF NoFiles
  <2>2. ks \in SUBSET Keys
    OBVIOUS
  <2>. HIDE DEF e, sc, vs, ns, ks
  <2>3. Emptied(d, e)
    BY <1>3, <2>1, <2>2 DEF Emptied
  <2>. QED
    BY <1>3, <1>4, <1>5, <2>3 DEF Removed
<1>7. DeleteNamespace(d, in) = Reply(e, Success)
  BY DEF DeleteNamespace, n
<1>8. Success \in DeleteNamespaceResponse
  BY DEF Success, DeleteNamespaceResponse
<1>. HIDE DEF e
<1>. QED
  BY <1>4, <1>6, <1>7, <1>8 DEF Proper, Reply, HandlerCodes

LEMMA ListNamespacesResult ==
    ASSUME NEW d \in Databases
    PROVE  Proper(ListNamespaces(d), ListNamespacesResponse) /\ ListNamespaces(d).db = d
<1>. DEFINE all == {NamespaceToProto(d, n) : n \in {i \in NamespaceIds : d.namespaces[i] # Nil}}
            o == [namespaces |-> all]
<1>1. all \in SUBSET Namespace
  BY NamespaceProto
<1>2. o \in ListNamespacesResponse /\ ListNamespaces(d) = Reply(d, o)
  <2>1. ListNamespaces(d) = Reply(d, o)
    BY DEF ListNamespaces
  <2>. HIDE DEF all
  <2>. QED
    BY <1>1, <2>1 DEF ListNamespacesResponse
<1>. HIDE DEF o
<1>. QED
  BY <1>2 DEF Proper, Reply, HandlerCodes

LEMMA GetNamespaceResult ==
    ASSUME NEW d \in Databases, NEW in \in GetNamespaceRequest
    PROVE  Proper(GetNamespace(d, in), GetNamespaceResponse) /\ GetNamespace(d, in).db = d
<1>. DEFINE o == [namespace |-> NamespaceToProto(d, in.id)]
<1>1. o \in GetNamespaceResponse
  BY NamespaceProto DEF GetNamespaceRequest, GetNamespaceResponse
<1>2. GetNamespace(d, in) \in {Refuse(d, "NotFound"), Reply(d, o)}
  BY DEF GetNamespace
<1>. HIDE DEF o
<1>. QED
  BY <1>1, <1>2 DEF Proper, Reply, Refuse, HandlerCodes

LEMMA ListSchemasResult ==
    ASSUME NEW d \in Databases, NEW in \in ListSchemasRequest
    PROVE  Proper(ListSchemas(d, in), ListSchemasResponse) /\ ListSchemas(d, in).db = d
<1>. DEFINE names == {s \in SchemaIds : d.schemas[<<in.id, s>>] # Nil}
            Row(s) == MetadataToProto(d.schemas[<<in.id, s>>])
            all == {[name |-> s, format |-> Row(s).format, compatibility |-> Row(s).compatibility] : s \in names}
            o == [schemas |-> all]
<1>1. \A x : FormatValue(x) \in Schema_Format /\ CompatibilityValue(x) \in Schema_Compatibility
  BY DEF FormatValue, CompatibilityValue, Schema_Format, Schema_Compatibility
<1>2. \A s \in names : [name |-> s, format |-> Row(s).format, compatibility |-> Row(s).compatibility] \in Schema
  BY <1>1 DEF MetadataToProto, Schema
<1>3. all \in SUBSET Schema
  BY <1>2
<1>4. ListSchemas(d, in) = Reply(d, o)
  BY DEF ListSchemas
<1>5. o \in ListSchemasResponse
  <2>. HIDE DEF all
  <2>. QED
    BY <1>3 DEF ListSchemasResponse
<1>. HIDE DEF o
<1>. QED
  BY <1>4, <1>5 DEF Proper, Reply, HandlerCodes

\* The answers about a schema's metadata.
LEMMA MetadataProto ==
    ASSUME NEW meta
    PROVE  /\ MetadataToProto(meta) \in [format : Schema_Format, compatibility : Schema_Compatibility]
           /\ meta.format \in Schema_Format => MetadataToProto(meta).format = meta.format
<1>1. \A x : FormatValue(x) \in Schema_Format /\ CompatibilityValue(x) \in Schema_Compatibility
  BY DEF FormatValue, CompatibilityValue, Schema_Format, Schema_Compatibility
<1>2. \A x \in Schema_Format : FormatValue(x) = x
  BY DEF FormatValue
<1>. QED
  BY <1>1, <1>2 DEF MetadataToProto

LEMMA GetSchemaMetadataResult ==
    ASSUME NEW d \in Databases, NEW in \in GetSchemaMetadataRequest
    PROVE  LET res == GetSchemaMetadata(d, in)
           IN  /\ Proper(res, GetSchemaMetadataResponse) /\ res.db = d
               /\ res.code = "OK" => /\ d.schemas[Key(in)] # Nil
                                     /\ res.out.format = d.schemas[Key(in)].format
<1>. DEFINE meta == d.schemas[Key(in)]
            o == MetadataToProto(meta)
<1>1. Key(in) \in Keys
  BY DEF Key, Keys, GetSchemaMetadataRequest
<1>2. o \in GetSchemaMetadataResponse
  BY MetadataProto DEF GetSchemaMetadataResponse
<1>3. CASE meta = Nil
  <2>1. GetSchemaMetadata(d, in) = Refuse(d, "NotFound")
    BY <1>3 DEF GetSchemaMetadata
  <2>. QED
    BY <2>1 DEF Proper, Refuse, HandlerCodes
<1>4. CASE meta # Nil
  <2>1. GetSchemaMetadata(d, in) = Reply(d, o)
    BY <1>4 DEF GetSchemaMetadata
  <2>2. meta.format \in Schema_Format
    BY <1>1, <1>4, DatabaseFields DEF Metadata
  <2>3. o.format = meta.format
    BY <2>2, MetadataProto
  <2>. HIDE DEF o
  <2>. QED
    BY <1>2, <1>4, <2>1, <2>3 DEF Proper, Reply, HandlerCodes
<1>. QED
  BY <1>3, <1>4

LEMMA UpdateSchemaMetadataResult ==
    ASSUME NEW d \in Databases, NEW in \in UpdateSchemaMetadataRequest
    PROVE  LET res == UpdateSchemaMetadata(d, in)
           IN  /\ Proper(res, UpdateSchemaMetadataResponse)
               /\ res.code = "OK" => SchemaEdited(d, res.db)
               /\ res.code # "OK" => res.db = d
<1>. DEFINE k == Key(in)
            old == d.schemas[k]
            meta == [old EXCEPT !.compatibility = in.compatibility]
            e == [d EXCEPT !.schemas[k] = meta]
            o == MetadataToProto(meta)
<1>1. k \in Keys /\ in.compatibility \in Schema_Compatibility
  BY DEF Key, Keys, UpdateSchemaMetadataRequest
<1>2. o \in UpdateSchemaMetadataResponse
  BY MetadataProto DEF UpdateSchemaMetadataResponse
<1>3. CASE old = Nil
  <2>1. UpdateSchemaMetadata(d, in) = Refuse(d, "NotFound")
    BY <1>3 DEF UpdateSchemaMetadata
  <2>. QED
    BY <2>1 DEF Proper, Refuse, HandlerCodes
<1>4. CASE old # Nil
  <2>1. UpdateSchemaMetadata(d, in) = Reply(e, o)
    BY <1>4 DEF UpdateSchemaMetadata
  <2>2. old \in Metadata
    BY <1>1, <1>4, DatabaseFields
  <2>3. meta \in Metadata /\ meta.format = old.format /\ meta # Nil
    BY <1>1, <2>2, NilAssumption DEF Metadata
  <2>. HIDE DEF k, meta, o
  <2>4. e \in Databases
    BY <1>1, <2>3 DEF Databases
  <2>5. /\ e.namespaces = d.namespaces /\ e.versions = d.versions /\ e.cache = d.cache
        /\ e.schemas = [d.schemas EXCEPT ![k] = meta]
    BY DEF Databases
  <2>. HIDE DEF e
  <2>6. SchemaEdited(d, e)
    BY <1>1, <1>4, <2>3, <2>4, <2>5, DatabaseFields DEF SchemaEdited
  <2>. QED
    BY <1>2, <2>1, <2>4, <2>6 DEF Proper, Reply, HandlerCodes
<1>. QED
  BY <1>3, <1>4

LEMMA DeleteSchemaResult ==
    ASSUME NEW d \in Databases, NEW in \in DeleteSchemaRequest
    PROVE  LET res == DeleteSchema(d, in)
           IN  /\ Proper(res, DeleteSchemaResponse) /\ res.code = "OK" /\ Removed(d, res.db)
<1>. DEFINE k == Key(in)
            e == [d EXCEPT !.schemas[k] = Nil, !.versions[k] = NoFiles]
<1>1. k \in Keys /\ NoFiles \in [Numbers -> Contents \cup {Nil}] /\ \A v \in Numbers : NoFiles[v] = Nil
  BY DEF Key, Keys, DeleteSchemaRequest, NoFiles
<1>2. DeleteSchema(d, in) = Reply(e, Success)
  BY DEF DeleteSchema
<1>. HIDE DEF k
<1>3. e \in Databases
  BY <1>1 DEF Databases, Files
<1>4. e.namespaces = d.namespaces /\ e.versions = [d.versions EXCEPT ![k] = NoFiles]
  BY DEF Databases
<1>5. Success \in DeleteSchemaResponse
  BY DEF Success, DeleteSchemaResponse
<1>. HIDE DEF e
<1>6. Removed(d, e)
  <2>. DEFINE ks == {k}
  <2>1. \A j \in Keys, v \in Numbers : e.versions[j][v] = IF j \in ks THEN Nil ELSE d.versions[j][v]
    BY <1>1, <1>4, DatabaseFields
  <2>2. Emptied(d, e)
    <3>1. ks \in SUBSET Keys
      BY <1>1
    <3>. HIDE DEF ks
    <3>. QED
      BY <2>1, <3>1 DEF Emptied
  <2>. QED
    BY <1>1, <1>3, <1>4, <2>1, <2>2, DatabaseFields DEF Removed
<1>. QED
  BY <1>2, <1>3, <1>5, <1>6 DEF Proper, Reply, HandlerCodes

LEMMA DeleteVersionResult ==
    ASSUME NEW d \in Databases, NEW in \in DeleteVersionRequest
    PROVE  LET res == DeleteVersion(d, in)
           IN  /\ Proper(res, DeleteVersionResponse) /\ res.code = "OK" /\ Removed(d, res.db)
<1>. DEFINE k == Key(in)
            fs == [v \in Numbers |-> IF v = in.version_id THEN Nil ELSE d.versions[k][v]]
            e == [d EXCEPT !.versions[k] = fs]
<1>1. k \in Keys
  BY DEF Key, Keys, DeleteVersionRequest
<1>2. DeleteVersion(d, in) = Reply(e, Success)
  <2>1. [d EXCEPT !.versions[k] = [v \in Numbers |-> IF v = in.version_id THEN Nil ELSE @[v]]] = e
    OBVIOUS
  <2>. QED
    BY <2>1 DEF DeleteVersion
<1>3. /\ fs \in [Numbers -> Contents \cup {Nil}] /\ \A v \in Numbers : fs[v] \in {d.versions[k][v], Nil}
      /\ \A v \in Numbers : fs[v] = IF v = in.version_id THEN Nil ELSE d.versions[k][v]
  BY <1>1, DatabaseFields
<1>. HIDE DEF k, fs
<1>4. e \in Databases
  BY <1>1, <1>3 DEF Databases, Files
<1>5. e.namespaces = d.namespaces /\ e.versions = [d.versions EXCEPT ![k] = fs]
  BY DEF Databases
<1>6. Success \in DeleteVersionResponse
  BY DEF Success, DeleteVersionResponse
<1>. HIDE DEF e
<1>7. Removed(d, e)
  <2>. DEFINE n == in.version_id
  <2>1. \A j \in Keys, v \in Numbers : e.versions[j][v] = IF j = k /\ v = n THEN Nil ELSE d.versions[j][v]
    BY <1>1, <1>3, <1>5, DatabaseFields
  <2>2. Emptied(d, e)
    <3>1. n \in VersionIds
      BY DEF DeleteVersionRequest
    <3>. HIDE DEF n
    <3>. QED
      BY <1>1, <2>1, <3>1 DEF Emptied
  <2>. QED
    BY <1>1, <1>3, <1>4, <1>5, <2>2, DatabaseFields DEF Removed
<1>. QED
  BY <1>2, <1>4, <1>6, <1>7 DEF Proper, Reply, HandlerCodes

LEMMA ListVersionsResult ==
    ASSUME NEW d \in Databases, NEW in
    PROVE  Proper(ListVersions(d, in), ListVersionsResponse) /\ ListVersions(d, in).db = d
<1>. DEFINE all == {v \in Numbers : d.versions[Key(in)][v] # Nil}
            o == [versions |-> all]
<1>1. all \in SUBSET VersionIds
  BY MaxVersionAssumption DEF Numbers
<1>2. ListVersions(d, in) = Reply(d, o)
  BY DEF ListVersions
<1>3. o \in ListVersionsResponse
  <2>. HIDE DEF all
  <2>. QED
    BY <1>1 DEF ListVersionsResponse
<1>. HIDE DEF o
<1>. QED
  BY <1>2, <1>3 DEF Proper, Reply, HandlerCodes

\* The hits of a search are finitely many, and Cardinality counts them.
LEMMA SearchResult ==
    ASSUME NEW d \in Databases, NEW in
    PROVE  Proper(Search(d, in), SearchResponse) /\ Search(d, in).db = d
<1>. DEFINE version == IF in.version \in [version_id : VersionIds] THEN in.version.version_id ELSE 0
            history == in.version \in [history : {TRUE}]
            Asked(k, v) ==
                /\ in.namespace_id \in {Blank, k[1]} /\ in.schema_id \in {Blank, k[2]}
                /\ IF version = 0 /\ ~history THEN v = Latest(d, k) ELSE version \in {0, v}
            Places == [namespace_id : NamespaceIds, schema_id : SchemaIds, version_id : Numbers]
            Found(h) ==
                LET file == d.versions[Key(h)][h.version_id]
                IN  Asked(Key(h), h.version_id) /\ file # Nil /\ <<in.query, file>> \in Matches
            hits == {h \in Places : Found(h)}
            o == [hits |-> hits, meta |-> [total |-> Cardinality(hits)]]
<1>1. IsFiniteSet(Places)
  <2>. DEFINE Triples == (NamespaceIds \X SchemaIds) \X Numbers
              f == [t \in Triples |-> [namespace_id |-> t[1][1], schema_id |-> t[1][2], version_id |-> t[2]]]
  <2>1. IsFiniteSet(Numbers)
    BY MaxVersionAssumption, FS_Interval DEF Numbers
  <2>2. IsFiniteSet(Triples)
    BY <2>1, IdsAssumption, FS_Product
  <2>3. f \in Surjection(Triples, Places)
    <3>1. f \in [Triples -> Places]
      OBVIOUS
    <3>2. ASSUME NEW h \in Places PROVE \E t \in Triples : f[t] = h
      <4>. DEFINE t == <<<<h.namespace_id, h.schema_id>>, h.version_id>>
      <4>1. t \in Triples
        OBVIOUS
      <4>2. f[t] = h
        BY <4>1
      <4>. QED
        BY <4>1, <4>2
    <3>. QED
      BY <3>1, <3>2 DEF Surjection
  <2>. HIDE DEF Triples, Places, f
  <2>. QED
    BY <2>2, <2>3, FS_Surjection
<1>2. hits \in SUBSET Places
  <2>. HIDE DEF Found
  <2>. QED
    OBVIOUS
<1>3. IsFiniteSet(hits) /\ Cardinality(hits) \in Nat
  <2>. HIDE DEF hits, Places
  <2>. QED
    BY <1>1, <1>2, FS_Subset, FS_CardinalityType
<1>4. Places \subseteq SearchHits
  BY MaxVersionAssumption DEF SearchHits, Numbers
<1>5. o \in SearchResponse
  <2>. HIDE DEF hits, Places
  <2>. QED
    BY <1>2, <1>3, <1>4 DEF SearchResponse, SearchMeta
<1>6. Search(d, in) \in {Refuse(d, "Unknown"), Reply(d, o)}
  BY DEF Search
<1>. HIDE DEF o
<1>. QED
  BY <1>5, <1>6 DEF Proper, Reply, Refuse, HandlerCodes

\* The methods, and the messages of each.
LEMMA MethodNames ==
    Methods =
      {"ListNamespaces", "GetNamespace", "CreateNamespace", "UpdateNamespace", "DeleteNamespace",
       "ListSchemas", "CreateSchema", "CheckCompatibility", "GetSchemaMetadata",
       "UpdateSchemaMetadata", "GetLatestSchema", "DeleteSchema", "GetSchema", "ListVersions",
       "DeleteVersion", "Search"}
  BY DEF Methods, RequestOf

LEMMA MessagesOf ==
    /\ RequestOf["ListNamespaces"] = ListNamespacesRequest
    /\ ResponseOf["ListNamespaces"] = ListNamespacesResponse
    /\ RequestOf["GetNamespace"] = GetNamespaceRequest
    /\ ResponseOf["GetNamespace"] = GetNamespaceResponse
    /\ RequestOf["CreateNamespace"] = CreateNamespaceRequest
    /\ ResponseOf["CreateNamespace"] = CreateNamespaceResponse
    /\ RequestOf["UpdateNamespace"] = UpdateNamespaceRequest
    /\ ResponseOf["UpdateNamespace"] = UpdateNamespaceResponse
    /\ RequestOf["DeleteNamespace"] = DeleteNamespaceRequest
    /\ ResponseOf["DeleteNamespace"] = DeleteNamespaceResponse
    /\ RequestOf["ListSchemas"] = ListSchemasRequest
    /\ ResponseOf["ListSchemas"] = ListSchemasResponse
    /\ RequestOf["CreateSchema"] = CreateSchemaRequest
    /\ ResponseOf["CreateSchema"] = CreateSchemaResponse
    /\ RequestOf["CheckCompatibility"] = CheckCompatibilityRequest
    /\ ResponseOf["CheckCompatibility"] = CheckCompatibilityResponse
    /\ RequestOf["GetSchemaMetadata"] = GetSchemaMetadataRequest
    /\ ResponseOf["GetSchemaMetadata"] = GetSchemaMetadataResponse
    /\ RequestOf["UpdateSchemaMetadata"] = UpdateSchemaMetadataRequest
    /\ ResponseOf["UpdateSchemaMetadata"] = UpdateSchemaMetadataResponse
    /\ RequestOf["GetLatestSchema"] = GetLatestSchemaRequest
    /\ ResponseOf["GetLatestSchema"] = GetLatestSchemaResponse
    /\ RequestOf["DeleteSchema"] = DeleteSchemaRequest
    /\ ResponseOf["DeleteSchema"] = DeleteSchemaResponse
    /\ RequestOf["GetSchema"] = GetSchemaRequest
    /\ ResponseOf["GetSchema"] = GetSchemaResponse
    /\ RequestOf["ListVersions"] = ListVersionsRequest
    /\ ResponseOf["ListVersions"] = ListVersionsResponse
    /\ RequestOf["DeleteVersion"] = DeleteVersionRequest
    /\ ResponseOf["DeleteVersion"] = DeleteVersionResponse
    /\ RequestOf["Search"] = SearchRequest
    /\ ResponseOf["Search"] = SearchResponse
  BY DEF RequestOf, ResponseOf

\* What a request of a method or a route may do to the database.
Effect(m, in, d, res) ==
    \/ OnlyReads(d, res.db)
    \/ /\ res.code = "OK" /\ m \in {"CreateNamespace", "UpdateNamespace"}
       /\ NamespaceWritten(d, res.db, in.id)
       /\ in.id # Blank \/ d.namespaces[in.id] # Nil
    \/ res.code = "OK" /\ m = "UpdateSchemaMetadata" /\ SchemaEdited(d, res.db)
    \/ /\ res.code = "OK" /\ m \in {"DeleteNamespace", "DeleteSchema", "DeleteVersion"}
       /\ Removed(d, res.db)

\* What the code of an answer says about the database.
Answer(m, in, d, res) ==
    /\ m = "CreateNamespace" =>
         /\ res.code = "OK" => res.db.namespaces[in.id] # Nil
         /\ res.code = "AlreadyExists" => d.namespaces[in.id] # Nil /\ res.db = d
    /\ m = "CreateSchema" => res.code \notin {"OK", "AlreadyExists"}
    /\ m \in {"GetSchema", "GetLatestSchema"} /\ res.code = "OK" =>
         /\ d.schemas[Key(in)] # Nil /\ res.out.data # Nil
         /\ \E v \in Numbers : res.out.data \in {d.cache[Key(in)][v], d.versions[Key(in)][v]}
    /\ m = "GetSchemaMetadata" /\ res.code = "OK" =>
         d.schemas[Key(in)] # Nil /\ res.out.format = d.schemas[Key(in)].format

\* The keys that messages name.
LEMMA MessageKeys ==
    ASSUME NEW in
    PROVE  in \in CreateSchemaRequest \cup CheckCompatibilityRequest \cup GetSchemaMetadataRequest
                 \cup GetLatestSchemaRequest \cup GetSchemaRequest \cup UploadRequest \cup VersionPath
             => Key(in) \in Keys
  BY DEF Key, Keys, CreateSchemaRequest, CheckCompatibilityRequest, GetSchemaMetadataRequest,
     GetLatestSchemaRequest, GetSchemaRequest, UploadRequest, VersionPath

\* An upload whose check is through.
Begun(m, in, d, res) ==
    /\ m \in UploadMethods /\ (m = "CreateSchema" => in.data # Empty)
    /\ Key(in) \in Keys /\ in.data \in Contents /\ Continues(d, Key(in), in.data, res)

\* Every method, behind the validator.
LEMMA ServeGRPCResult ==
    ASSUME NEW d \in Databases, NEW m \in Methods, NEW in \in RequestOf[m]
    PROVE  LET res == ServeGRPC(d, m, in)
           IN  \/ Begun(m, in, d, res)
               \/ Proper(res, ResponseOf[m]) /\ Effect(m, in, d, res) /\ Answer(m, in, d, res)
<1>. DEFINE res == ServeGRPC(d, m, in)
            Ended == Proper(res, ResponseOf[m]) /\ Effect(m, in, d, res) /\ Answer(m, in, d, res)
            Goal == Begun(m, in, d, res) \/ Ended
<1>. SUFFICES Goal
  OBVIOUS
<1>0. OnlyReads(d, d)
  BY DEF OnlyReads
<1>1. CASE Missing(m, in)
  <2>1. res = Refuse(d, "InvalidArgument")
    BY <1>1 DEF ServeGRPC
  <2>. HIDE DEF res
  <2>. QED
    BY <1>0, <2>1 DEF Proper, Effect, Answer, Refuse, HandlerCodes
<1>2. CASE ~Missing(m, in) /\ m \in NamespaceMethods
  <2>1. res = DispatchNamespace(d, m, in)
    BY <1>2 DEF ServeGRPC
  <2>2. CASE m = "ListNamespaces"
    <3>1. res = ListNamespaces(d)
      BY <2>1, <2>2 DEF DispatchNamespace
    <3>2. in \in ListNamespacesRequest /\ ResponseOf[m] = ListNamespacesResponse
      BY <2>2, MessagesOf
    <3>3. Proper(ListNamespaces(d), ListNamespacesResponse) /\ ListNamespaces(d).db = d
      BY <3>2, ListNamespacesResult
    <3>. HIDE DEF res
    <3>. QED
      BY <1>0, <2>2, <3>1, <3>2, <3>3 DEF Effect, Answer
  <2>3. CASE m = "GetNamespace"
    <3>1. res = GetNamespace(d, in)
      BY <2>1, <2>3 DEF DispatchNamespace
    <3>2. in \in GetNamespaceRequest /\ ResponseOf[m] = GetNamespaceResponse
      BY <2>3, MessagesOf
    <3>3. Proper(GetNamespace(d, in), GetNamespaceResponse) /\ GetNamespace(d, in).db = d
      BY <3>2, GetNamespaceResult
    <3>. HIDE DEF res
    <3>. QED
      BY <1>0, <2>3, <3>1, <3>2, <3>3 DEF Effect, Answer
  <2>4. CASE m = "ListSchemas"
    <3>1. res = ListSchemas(d, in)
      BY <2>1, <2>4 DEF DispatchNamespace
    <3>2. in \in ListSchemasRequest /\ ResponseOf[m] = ListSchemasResponse
      BY <2>4, MessagesOf
    <3>3. Proper(ListSchemas(d, in), ListSchemasResponse) /\ ListSchemas(d, in).db = d
      BY <3>2, ListSchemasResult
    <3>. HIDE DEF res
    <3>. QED
      BY <1>0, <2>4, <3>1, <3>2, <3>3 DEF Effect, Answer
  <2>5. CASE m = "CreateNamespace"
    <3>1. res = CreateNamespace(d, in)
      BY <2>1, <2>5 DEF DispatchNamespace
    <3>2. in \in CreateNamespaceRequest /\ ResponseOf[m] = CreateNamespaceResponse
      BY <2>5, MessagesOf
    <3>3. in.id # Blank
      BY <1>2, <2>5 DEF Missing, RequiredFields
    <3>4. /\ Proper(res, CreateNamespaceResponse) /\ res.code \in {"OK", "AlreadyExists"}
          /\ res.code = "OK" => NamespaceWritten(d, res.db, in.id)
          /\ res.code = "AlreadyExists" => res.db = d /\ d.namespaces[in.id] # Nil
      BY <3>1, <3>2, CreateNamespaceResult
    <3>. HIDE DEF res
    <3>. QED
      BY <1>0, <2>5, <3>2, <3>3, <3>4 DEF Effect, Answer, NamespaceWritten
  <2>6. CASE m = "UpdateNamespace"
    <3>1. res = UpdateNamespace(d, in)
      BY <2>1, <2>6 DEF DispatchNamespace
    <3>2. in \in UpdateNamespaceRequest /\ ResponseOf[m] = UpdateNamespaceResponse
      BY <2>6, MessagesOf
    <3>3. /\ Proper(res, UpdateNamespaceResponse)
          /\ res.code = "OK" => NamespaceWritten(d, res.db, in.id) /\ d.namespaces[in.id] # Nil
          /\ res.code # "OK" => res.db = d
      BY <3>1, <3>2, UpdateNamespaceResult
    <3>. HIDE DEF res
    <3>. QED
      BY <1>0, <2>6, <3>2, <3>3 DEF Effect, Answer
  <2>7. CASE m = "DeleteNamespace"
    <3>1. res = DeleteNamespace(d, in)
      BY <2>1, <2>7 DEF DispatchNamespace
    <3>2. in \in DeleteNamespaceRequest /\ ResponseOf[m] = DeleteNamespaceResponse
      BY <2>7, MessagesOf
    <3>3. Proper(res, DeleteNamespaceResponse) /\ res.code = "OK" /\ Removed(d, res.db)
      BY <3>1, <3>2, DeleteNamespaceResult
    <3>. HIDE DEF res
    <3>. QED
      BY <2>7, <3>2, <3>3 DEF Effect, Answer
  <2>. QED
    BY <1>2, <2>2, <2>3, <2>4, <2>5, <2>6, <2>7 DEF NamespaceMethods
<1>3. CASE ~Missing(m, in) /\ m \notin NamespaceMethods
  <2>1. res = DispatchSchema(d, m, in)
    BY <1>3 DEF ServeGRPC
  <2>2. CASE m = "ListVersions"
    <3>1. res = ListVersions(d, in)
      BY <2>1, <2>2 DEF DispatchSchema
    <3>2. in \in ListVersionsRequest /\ ResponseOf[m] = ListVersionsResponse
      BY <2>2, MessagesOf
    <3>3. Proper(ListVersions(d, in), ListVersionsResponse) /\ ListVersions(d, in).db = d
      BY <3>2, ListVersionsResult
    <3>. HIDE DEF res
    <3>. QED
      BY <1>0, <2>2, <3>1, <3>2, <3>3 DEF Effect, Answer
  <2>3. CASE m = "Search"
    <3>1. res = Search(d, in)
      BY <2>1, <2>3 DEF DispatchSchema
    <3>2. in \in SearchRequest /\ ResponseOf[m] = SearchResponse
      BY <2>3, MessagesOf
    <3>3. Proper(Search(d, in), SearchResponse) /\ Search(d, in).db = d
      BY <3>2, SearchResult
    <3>. HIDE DEF res
    <3>. QED
      BY <1>0, <2>3, <3>1, <3>2, <3>3 DEF Effect, Answer
  <2>4. CASE m = "DeleteSchema"
    <3>1. res = DeleteSchema(d, in)
      BY <2>1, <2>4 DEF DispatchSchema
    <3>2. in \in DeleteSchemaRequest /\ ResponseOf[m] = DeleteSchemaResponse
      BY <2>4, MessagesOf
    <3>3. Proper(res, DeleteSchemaResponse) /\ res.code = "OK" /\ Removed(d, res.db)
      BY <3>1, <3>2, DeleteSchemaResult
    <3>. HIDE DEF res
    <3>. QED
      BY <2>4, <3>2, <3>3 DEF Effect, Answer
  <2>5. CASE m = "DeleteVersion"
    <3>1. res = DeleteVersion(d, in)
      BY <2>1, <2>5 DEF DispatchSchema
    <3>2. in \in DeleteVersionRequest /\ ResponseOf[m] = DeleteVersionResponse
      BY <2>5, MessagesOf
    <3>3. Proper(res, DeleteVersionResponse) /\ res.code = "OK" /\ Removed(d, res.db)
      BY <3>1, <3>2, DeleteVersionResult
    <3>. HIDE DEF res
    <3>. QED
      BY <2>5, <3>2, <3>3 DEF Effect, Answer
  <2>6. CASE m = "CreateSchema"
    <3>1. res = Create(d, Key(in), in.format, in.compatibility, in.data)
      BY <2>1, <2>6 DEF DispatchSchema, CreateSchema
    <3>2. in \in CreateSchemaRequest /\ ResponseOf[m] = CreateSchemaResponse
      BY <2>6, MessagesOf
    <3>3. /\ Key(in) \in Keys /\ in.data \in Contents
          /\ in.compatibility \in Schema_Compatibility \cup {Blank, "other"}
      BY <3>2, MessageKeys DEF CreateSchemaRequest
    <3>4. in.data # Empty
      BY <1>3, <2>6 DEF Missing, RequiredFields
    <3>5. \/ Continues(d, Key(in), in.data, res)
          \/ res.code \in HandlerCodes \ {"OK", "AlreadyExists"} /\ OnlyReads(d, res.db)
      BY <3>1, <3>3, CreateResult
    <3>. HIDE DEF res
    <3>6. CASE Continues(d, Key(in), in.data, res)
      BY <2>6, <3>3, <3>4, <3>6 DEF Begun, UploadMethods
    <3>7. CASE res.code \in HandlerCodes \ {"OK", "AlreadyExists"} /\ OnlyReads(d, res.db)
      <4>1. Proper(res, ResponseOf[m])
        BY <3>7 DEF Proper, OnlyReads
      <4>2. Effect(m, in, d, res)
        BY <3>7 DEF Effect
      <4>3. Answer(m, in, d, res)
        BY <2>6, <3>7 DEF Answer
      <4>. QED
        BY <4>1, <4>2, <4>3
    <3>. QED
      BY <3>5, <3>6, <3>7
  <2>7. CASE m = "CheckCompatibility"
    <3>1. res = Check(d, Key(in), in.compatibility, in.data)
      BY <2>1, <2>7 DEF DispatchSchema, CheckCompatibility
    <3>2. in \in CheckCompatibilityRequest /\ ResponseOf[m] = CheckCompatibilityResponse
      BY <2>7, MessagesOf
    <3>3. Proper(res, CheckCompatibilityResponse) /\ OnlyReads(d, res.db)
      BY <3>1, <3>2, MessageKeys, CheckResult
    <3>. HIDE DEF res
    <3>. QED
      BY <2>7, <3>2, <3>3 DEF Effect, Answer
  <2>8. CASE m = "GetSchemaMetadata"
    <3>1. res = GetSchemaMetadata(d, in)
      BY <2>1, <2>8 DEF DispatchSchema
    <3>2. in \in GetSchemaMetadataRequest /\ ResponseOf[m] = GetSchemaMetadataResponse
      BY <2>8, MessagesOf
    <3>3. /\ Proper(res, GetSchemaMetadataResponse) /\ res.db = d
          /\ res.code = "OK" => d.schemas[Key(in)] # Nil /\ res.out.format = d.schemas[Key(in)].format
      BY <3>1, <3>2, GetSchemaMetadataResult
    <3>. HIDE DEF res
    <3>. QED
      BY <1>0, <2>8, <3>2, <3>3 DEF Effect, Answer
  <2>9. CASE m = "UpdateSchemaMetadata"
    <3>1. res = UpdateSchemaMetadata(d, in)
      BY <2>1, <2>9 DEF DispatchSchema
    <3>2. in \in UpdateSchemaMetadataRequest /\ ResponseOf[m] = UpdateSchemaMetadataResponse
      BY <2>9, MessagesOf
    <3>3. /\ Proper(res, UpdateSchemaMetadataResponse)
          /\ res.code = "OK" => SchemaEdited(d, res.db)
          /\ res.code # "OK" => res.db = d
      BY <3>1, <3>2, UpdateSchemaMetadataResult
    <3>. HIDE DEF res
    <3>. QED
      BY <1>0, <2>9, <3>2, <3>3 DEF Effect, Answer
  <2>10. CASE m = "GetLatestSchema"
    <3>1. res = Read(d, Key(in), Latest(d, Key(in)))
      BY <2>1, <2>10 DEF DispatchSchema, GetLatestSchema
    <3>2. in \in GetLatestSchemaRequest /\ ResponseOf[m] = [data : Contents]
      BY <2>10, MessagesOf DEF GetLatestSchemaResponse
    <3>3. Key(in) \in Keys
      BY <3>2, MessageKeys
    <3>4. /\ Proper(res, [data : Contents]) /\ OnlyReads(d, res.db)
          /\ res.code = "OK" =>
               /\ d.schemas[Key(in)] # Nil /\ res.out.data # Nil
               /\ \E v \in Numbers : res.out.data \in {d.cache[Key(in)][v], d.versions[Key(in)][v]}
      BY <3>1, <3>3, ReadAnswer
    <3>. HIDE DEF res
    <3>. QED
      BY <2>10, <3>2, <3>4 DEF Effect, Answer
  <2>11. CASE m = "GetSchema"
    <3>1. res = Read(d, Key(in), in.version_id)
      BY <2>1, <2>11 DEF DispatchSchema, GetSchema
    <3>2. in \in GetSchemaRequest /\ ResponseOf[m] = [data : Contents]
      BY <2>11, MessagesOf DEF GetSchemaResponse
    <3>3. Key(in) \in Keys
      BY <3>2, MessageKeys
    <3>4. /\ Proper(res, [data : Contents]) /\ OnlyReads(d, res.db)
          /\ res.code = "OK" =>
               /\ d.schemas[Key(in)] # Nil /\ res.out.data # Nil
               /\ \E v \in Numbers : res.out.data \in {d.cache[Key(in)][v], d.versions[Key(in)][v]}
      BY <3>1, <3>3, ReadAnswer
    <3>. HIDE DEF res
    <3>. QED
      BY <2>11, <3>2, <3>4 DEF Effect, Answer
  <2>. QED
    BY <1>3, MethodNames, <2>2, <2>3, <2>4, <2>5, <2>6, <2>7, <2>8, <2>9, <2>10, <2>11 DEF NamespaceMethods
<1>. QED
  BY <1>1, <1>2, <1>3

\* A route that only reads.
LEMMA ReadingRoute ==
    ASSUME NEW m \in {"HTTPCheckCompatibility", "HTTPLatestSchema", "HTTPGetSchema"},
           NEW in, NEW d, NEW res, OnlyReads(d, res.db)
    PROVE  Effect(m, in, d, res) /\ Answer(m, in, d, res)
<1>1. Effect(m, in, d, res)
  BY DEF Effect
<1>2. Answer(m, in, d, res)
  BY DEF Answer
<1>. QED
  BY <1>1, <1>2

\* Every route.
LEMMA ServeRouteResult ==
    ASSUME NEW d \in Databases, NEW m \in Routes, NEW in \in RouteRequestOf[m]
    PROVE  LET res == ServeRoute(d, m, in)
           IN  \/ Begun(m, in, d, res)
               \/ /\ res.db \in Databases /\ res.code \in HandlerCodes
                  /\ Effect(m, in, d, res) /\ Answer(m, in, d, res)
<1>. DEFINE res == ServeRoute(d, m, in)
            Ended == /\ res.db \in Databases /\ res.code \in HandlerCodes
                     /\ Effect(m, in, d, res) /\ Answer(m, in, d, res)
            Goal == Begun(m, in, d, res) \/ Ended
<1>. SUFFICES Goal
  OBVIOUS
<1>0. m \in {"HTTPUpload", "HTTPCheckCompatibility", "HTTPLatestSchema", "HTTPGetSchema"}
  BY DEF Routes, RouteRequestOf
<1>1. CASE m = "HTTPUpload"
  <2>1. in \in UploadRequest /\ res = Create(d, Key(in), in.format, in.compatibility, in.data)
    BY <1>1 DEF RouteRequestOf, ServeRoute, HTTPUpload
  <2>2. Key(in) \in Keys /\ in.data \in Contents /\ in.compatibility \in Schema_Compatibility \cup {Blank, "other"}
    BY <2>1, MessageKeys DEF UploadRequest
  <2>3. \/ Continues(d, Key(in), in.data, res)
        \/ res.code \in HandlerCodes \ {"OK", "AlreadyExists"} /\ OnlyReads(d, res.db)
    BY <2>1, <2>2, CreateResult
  <2>. HIDE DEF res
  <2>4. CASE Continues(d, Key(in), in.data, res)
    BY <1>1, <2>2, <2>4 DEF Begun, UploadMethods
  <2>5. CASE res.code \in HandlerCodes \ {"OK", "AlreadyExists"} /\ OnlyReads(d, res.db)
    BY <1>1, <2>5 DEF Effect, Answer, OnlyReads
  <2>. QED
    BY <2>3, <2>4, <2>5
<1>2. CASE m = "HTTPCheckCompatibility"
  <2>1. in \in UploadRequest /\ res = Check(d, Key(in), in.compatibility, in.data)
    BY <1>2 DEF RouteRequestOf, ServeRoute, HTTPCheckCompatibility
  <2>2. Proper(res, CheckCompatibilityResponse) /\ OnlyReads(d, res.db)
    BY <2>1, MessageKeys, CheckResult
  <2>. HIDE DEF res
  <2>. QED
    BY <1>2, <2>2, ReadingRoute DEF Proper
<1>3. CASE m = "HTTPLatestSchema"
  <2>1. res = Read(d, Key(in), Latest(d, Key(in)))
    BY <1>3 DEF ServeRoute, HTTPLatestSchema
  <2>2. in \in GetLatestSchemaRequest
    BY <1>3 DEF RouteRequestOf
  <2>3. Key(in) \in Keys
    BY <2>2, MessageKeys
  <2>4. Proper(res, [data : Contents]) /\ OnlyReads(d, res.db)
    BY <2>1, <2>3, ReadAnswer
  <2>. HIDE DEF res
  <2>. QED
    BY <1>3, <2>4, ReadingRoute DEF Proper
<1>4. CASE m = "HTTPGetSchema" /\ in.version_id = Nil
  <2>1. res = Refuse(d, "InvalidArgument")
    BY <1>4 DEF ServeRoute, HTTPGetSchema
  <2>2. OnlyReads(d, d)
    BY DEF OnlyReads
  <2>. HIDE DEF res
  <2>. QED
    BY <1>4, <2>1, <2>2 DEF Effect, Answer, Refuse, HandlerCodes
<1>5. CASE m = "HTTPGetSchema" /\ in.version_id # Nil
  <2>1. res = Read(d, Key(in), in.version_id)
    BY <1>5 DEF ServeRoute, HTTPGetSchema
  <2>2. in \in VersionPath
    BY <1>5 DEF RouteRequestOf
  <2>. DEFINE k == Key(in)
              v == in.version_id
  <2>3. k \in Keys
    BY <2>2, MessageKeys
  <2>4. Proper(res, [data : Contents]) /\ OnlyReads(d, res.db)
    <3>1. res = Read(d, k, v)
      BY <2>1
    <3>. HIDE DEF res, k, v
    <3>. QED
      BY <2>3, <3>1, ReadAnswer
  <2>. HIDE DEF res, k, v
  <2>. QED
    BY <1>5, <2>4, ReadingRoute DEF Proper
<1>. QED
  BY <1>0, <1>1, <1>2, <1>3, <1>4, <1>5

LEMMA PathsOf ==
    /\ \A m \in {"GetNamespace", "UpdateNamespace", "DeleteNamespace", "ListSchemas"} :
         PathOf[m] = [id : NamespaceIds]
    /\ \A m \in {"GetSchemaMetadata", "UpdateSchemaMetadata", "DeleteSchema", "ListVersions"} :
         PathOf[m] = [namespace_id : NamespaceIds, schema_id : SchemaIds]
    /\ PathOf["DeleteVersion"] = VersionPath
<1>1. /\ PathOf["GetNamespace"] = GetNamespaceRequest /\ PathOf["UpdateNamespace"] = GetNamespaceRequest
      /\ PathOf["DeleteNamespace"] = DeleteNamespaceRequest /\ PathOf["ListSchemas"] = ListSchemasRequest
  BY DEF PathOf
<1>2. /\ PathOf["GetSchemaMetadata"] = GetSchemaMetadataRequest
      /\ PathOf["UpdateSchemaMetadata"] = GetSchemaMetadataRequest
      /\ PathOf["DeleteSchema"] = DeleteSchemaRequest /\ PathOf["ListVersions"] = ListVersionsRequest
      /\ PathOf["DeleteVersion"] = VersionPath
  BY DEF PathOf
<1>3. /\ GetNamespaceRequest = [id : NamespaceIds] /\ DeleteNamespaceRequest = [id : NamespaceIds]
      /\ ListSchemasRequest = [id : NamespaceIds]
  BY DEF GetNamespaceRequest, DeleteNamespaceRequest, ListSchemasRequest
<1>4. /\ GetSchemaMetadataRequest = [namespace_id : NamespaceIds, schema_id : SchemaIds]
      /\ DeleteSchemaRequest = [namespace_id : NamespaceIds, schema_id : SchemaIds]
      /\ ListVersionsRequest = [namespace_id : NamespaceIds, schema_id : SchemaIds]
  BY DEF GetSchemaMetadataRequest, DeleteSchemaRequest, ListVersionsRequest
<1>. QED
  BY <1>1, <1>2, <1>3, <1>4

\* The gateway's message is one of its method.
LEMMA Translated ==
    ASSUME NEW m \in DOMAIN PathOf, NEW path \in PathOf[m], NEW body \in BodyOf(m)
    PROVE  /\ m \in Methods
           /\ Translate(m, path, body) # Nil => Translate(m, path, body) \in RequestOf[m]
<1>. DEFINE in == Translate(m, path, body)
<1>0. m \in {"ListNamespaces", "GetNamespace", "CreateNamespace", "UpdateNamespace", "DeleteNamespace",
             "ListSchemas", "GetSchemaMetadata", "UpdateSchemaMetadata", "DeleteSchema",
             "ListVersions", "DeleteVersion", "Search"}
  BY DEF PathOf
<1>1. m \in Methods
  BY <1>0, MethodNames
<1>2. CASE m \in {"ListNamespaces", "GetNamespace", "DeleteNamespace", "ListSchemas"}
  <2>1. in = IF m = "ListNamespaces" THEN NoFields ELSE [id |-> path.id]
    BY <1>2 DEF Translate, NamespaceMethods, TranslateNamespace, request_ListNamespaces,
       request_GetNamespace, request_DeleteNamespace, request_ListSchemas
  <2>2. m # "ListNamespaces" => path \in [id : NamespaceIds]
    BY <1>2, PathsOf
  <2>3. RequestOf[m] = IF m = "ListNamespaces" THEN {NoFields} ELSE [id : NamespaceIds]
    BY <1>2, MessagesOf DEF ListNamespacesRequest, GetNamespaceRequest, DeleteNamespaceRequest,
       ListSchemasRequest
  <2>. HIDE DEF in
  <2>4. in \in RequestOf[m]
    BY <2>1, <2>2, <2>3
  <2>. QED
    BY <1>1, <2>4 DEF in
<1>3. CASE m \in {"GetSchemaMetadata", "DeleteSchema", "ListVersions", "DeleteVersion"}
  <2>1. IF m = "DeleteVersion" THEN path \in VersionPath ELSE path \in GetSchemaMetadataRequest
    BY <1>3, PathsOf DEF GetSchemaMetadataRequest
  <2>2. path.namespace_id \in NamespaceIds /\ path.schema_id \in SchemaIds
        /\ (m = "DeleteVersion" => path.version_id \in VersionIds \cup {Nil})
    BY <2>1 DEF GetSchemaMetadataRequest, VersionPath
  <2>3. SchemaPath(path) \in [namespace_id : NamespaceIds, schema_id : SchemaIds]
    BY <2>2 DEF SchemaPath
  <2>4. in = IF m = "DeleteVersion" THEN request_DeleteVersion(path, body) ELSE SchemaPath(path)
    BY <1>3 DEF Translate, NamespaceMethods, TranslateSchema, request_GetSchemaMetadata,
       request_DeleteSchema, request_ListVersions
  <2>. QED
    BY <1>1, <1>3, <2>2, <2>3, <2>4, MessagesOf DEF request_DeleteVersion, GetSchemaMetadataRequest,
       DeleteSchemaRequest, ListVersionsRequest, DeleteVersionRequest
<1>4. CASE m \in {"CreateNamespace", "UpdateNamespace"}
  <2>1. body \in {NoBody} \cup Namespace \cup {Nil}
    BY <1>4 DEF BodyOf
  <2>. DEFINE msg == Decoded(body, ZeroNamespace)
  <2>2. \/ msg = Nil \/ msg \in Namespace
        \/ msg = ZeroNamespace
    BY <2>1 DEF Decoded
  <2>3. ZeroNamespace \in Namespace
    BY BlankAssumption DEF ZeroNamespace, Namespace, Schema_Format, Schema_Compatibility
  <2>4. msg = Nil \/ msg \in Namespace
    BY <2>2, <2>3
  <2>. HIDE DEF msg
  <2>5. CASE m = "CreateNamespace"
    <3>1. in = msg
      BY <2>5 DEF Translate, NamespaceMethods, TranslateNamespace, request_CreateNamespace, msg
    <3>. QED
      BY <1>1, <2>4, <2>5, <3>1, MessagesOf DEF CreateNamespaceRequest
  <2>6. CASE m = "UpdateNamespace"
    <3>1. in = IF msg = Nil THEN Nil ELSE [msg EXCEPT !.id = path.id]
      BY <2>6 DEF Translate, NamespaceMethods, TranslateNamespace, request_UpdateNamespace, msg
    <3>2. path.id \in NamespaceIds
      BY <2>6 DEF PathOf, GetNamespaceRequest
    <3>3. msg # Nil => [msg EXCEPT !.id = path.id] \in Namespace
      BY <2>4, <3>2 DEF Namespace
    <3>. QED
      BY <1>1, <2>6, <3>1, <3>3, MessagesOf DEF UpdateNamespaceRequest
  <2>. QED
    BY <1>4, <2>5, <2>6
<1>5. CASE m = "UpdateSchemaMetadata"
  <2>. DEFINE zero == [compatibility |-> "COMPATIBILITY_UNSPECIFIED"]
              msg == Decoded(body, zero)
  <2>1. body \in {NoBody} \cup [compatibility : Schema_Compatibility] \cup {Nil}
    BY <1>5 DEF BodyOf
  <2>2. msg = Nil \/ msg \in [compatibility : Schema_Compatibility]
    <3>1. zero \in [compatibility : Schema_Compatibility]
      BY DEF Schema_Compatibility
    <3>. QED
      BY <2>1, <3>1 DEF Decoded
  <2>3. path.namespace_id \in NamespaceIds /\ path.schema_id \in SchemaIds
    BY <1>5 DEF PathOf, GetSchemaMetadataRequest
  <2>. DEFINE out == [namespace_id |-> path.namespace_id, schema_id |-> path.schema_id,
                      compatibility |-> msg.compatibility]
  <2>4. in = IF msg = Nil THEN Nil ELSE out
    BY <1>5 DEF Translate, NamespaceMethods, TranslateSchema, request_UpdateSchemaMetadata
  <2>. HIDE DEF msg
  <2>5. msg # Nil => out \in UpdateSchemaMetadataRequest
    BY <2>2, <2>3 DEF UpdateSchemaMetadataRequest
  <2>. QED
    BY <1>1, <1>5, <2>4, <2>5, MessagesOf
<1>6. CASE m = "Search"
  <2>1. path \in [namespace_id : NamespaceIds, schema_id : SchemaIds, query : Queries,
                  version_id : VersionIds \cup {Nil}, history : BOOLEAN \cup {Nil}]
    BY <1>6 DEF PathOf
  <2>. DEFINE version == CASE path.version_id # Nil -> [version_id |-> path.version_id]
                           [] path.history # Nil -> [history |-> path.history]
                           [] OTHER -> Nil
              out == [namespace_id |-> path.namespace_id, schema_id |-> path.schema_id,
                      query |-> path.query, version |-> version]
  <2>2. in = Nil \/ (in = out /\ ~(path.version_id # Nil /\ path.history # Nil))
    BY <1>6 DEF Translate, NamespaceMethods, TranslateSchema, request_Search
  <2>3. ~(path.version_id # Nil /\ path.history # Nil) => version \in SearchRequest_Version
    <3>1. path.version_id # Nil => [version_id |-> path.version_id] \in [version_id : VersionIds]
      BY <2>1
    <3>2. path.history # Nil => [history |-> path.history] \in [history : BOOLEAN]
      BY <2>1
    <3>. QED
      BY <3>1, <3>2 DEF SearchRequest_Version
  <2>. HIDE DEF version
  <2>4. version \in SearchRequest_Version => out \in SearchRequest
    BY <2>1 DEF SearchRequest
  <2>. QED
    BY <1>1, <1>6, <2>2, <2>3, <2>4, MessagesOf
<1>. QED
  BY <1>0, <1>1, <1>2, <1>3, <1>4, <1>5, <1>6

-----------------------------------------------------------------------------
(***************************************************************************)
(* What a step of the server may do to the database d and to the history   *)
(* ev.                                                                     *)
(***************************************************************************)
\* Nothing was deleted, every upload was checked, and no two first ones crossed.
Calm(ev) == ev \cap {"deleted", "unchecked", "crossed"} = {}

\* An upload's insert: its file parses in its format, and as long as all is calm
\* there is no version before it, or a row of its format.
Uploaded(d, ev2, e, k, meta, data) ==
    /\ NewVersionStored(d, e, k, meta, data) /\ <<meta.format, data>> \in Parses
    /\ Calm(ev2) => Latest(d, k) = 0 \/ (d.schemas[k] # Nil /\ d.schemas[k].format = meta.format)
    /\ data = Empty => "emptyUpload" \in ev2

DatabaseStep(d, ev, e, ev2) ==
    /\ ev \subseteq ev2
    /\ \/ OnlyReads(d, e)
       \/ \E n \in NamespaceIds : NamespaceWritten(d, e, n) /\ (n # Blank \/ d.namespaces[n] # Nil)
       \/ SchemaEdited(d, e)
       \/ Removed(d, e) /\ "deleted" \in ev2
       \/ \E k \in Keys, data \in Contents : \E meta \in Metadata : Uploaded(d, ev2, e, k, meta, data)

\* An upload leaves every file where it is, keeps every row's format, and adds
\* one file.
FileAdded(d, e, k, data) ==
    /\ e \in Databases /\ e.namespaces = d.namespaces
    /\ \A j \in Keys, v \in Numbers :
         /\ e.versions[j][v] = d.versions[j][v] \/ (d.versions[j][v] = Nil /\ j = k /\ e.versions[j][v] = data)
         /\ e.cache[j][v] = d.cache[j][v]
    /\ \A j \in Keys : d.schemas[j] # Nil => e.schemas[j] = d.schemas[j]

LEMMA UploadAdds ==
    ASSUME NEW d \in Databases, NEW e, NEW ev2, NEW k \in Keys, NEW meta, NEW data \in Contents,
           Uploaded(d, ev2, e, k, meta, data)
    PROVE  FileAdded(d, e, k, data)
<1>0. NewVersionStored(d, e, k, meta, data)
  BY DEF Uploaded
<1>1. PICK n \in Numbers :
        /\ d.versions[k][n] = Nil /\ e.versions[k][n] = data
        /\ \A v \in Numbers : v # n => e.versions[k][v] = d.versions[k][v]
  BY <1>0 DEF NewVersionStored
<1>2. /\ e \in Databases /\ e.namespaces = d.namespaces /\ e.cache = d.cache
      /\ \A j \in Keys : j # k => e.schemas[j] = d.schemas[j] /\ e.versions[j] = d.versions[j]
      /\ d.schemas[k] # Nil => e.schemas[k] = d.schemas[k]
  BY <1>0 DEF NewVersionStored
<1>. QED
  BY <1>1, <1>2 DEF FileAdded

LEMMA StepKeepsType ==
    ASSUME NEW d \in Databases, NEW e, NEW ev, NEW ev2, DatabaseStep(d, ev, e, ev2)
    PROVE  e \in Databases /\ ev \subseteq ev2
<1>1. \A k \in Keys, data \in Contents : \A meta :
        Uploaded(d, ev2, e, k, meta, data) => e \in Databases
  BY UploadAdds DEF FileAdded
<1>. QED
  BY <1>1 DEF DatabaseStep, OnlyReads, NamespaceWritten, SchemaEdited, Removed

(***************************************************************************)
(* What a step may do to the versions, as a VersionStore says it: xs before *)
(* the step and ys after it.                                               *)
(***************************************************************************)
Adds(xs, ys) ==
    \E x \in ys :
      /\ x \in Promised!Entries
      /\ \A y \in xs : y.schema = x.schema => y.version < x.version /\ y.file # x.file
      /\ ys = xs \cup {x}
Drops(xs, ys) ==
    \/ \E x \in xs : ys = xs \ {x}
    \/ \E ks \in SUBSET Keys : ys = {x \in xs : x.schema \notin ks}

\* What is in VersionsIn.
LEMMA VersionIsIn ==
    ASSUME NEW d \in Databases
    PROVE  /\ \A x : x \in VersionsIn(d) <=>
                 \E k \in Keys, v \in Numbers :
                   /\ x = [schema |-> k, version |-> v, file |-> d.versions[k][v]]
                   /\ d.versions[k][v] # Nil
           /\ \A x \in VersionsIn(d) : /\ x \in [schema : Keys, version : Numbers, file : Contents]
                                      /\ d.versions[x.schema][x.version] = x.file /\ x.file # Nil
<1>1. \A k \in Keys, v \in Numbers : d.versions[k][v] \in Contents \cup {Nil}
  BY DatabaseFields
<1>2. Nil \notin Contents
  BY BlankAssumption
<1>3. ASSUME NEW x \in VersionsIn(d)
      PROVE  /\ x \in [schema : Keys, version : Numbers, file : Contents]
             /\ d.versions[x.schema][x.version] = x.file /\ x.file # Nil
             /\ \E k \in Keys, v \in Numbers :
                   /\ x = [schema |-> k, version |-> v, file |-> d.versions[k][v]]
                   /\ d.versions[k][v] # Nil
  BY <1>2 DEF VersionsIn
<1>4. ASSUME NEW k \in Keys, NEW v \in Numbers, d.versions[k][v] # Nil
      PROVE  [schema |-> k, version |-> v, file |-> d.versions[k][v]] \in VersionsIn(d)
  BY <1>1, <1>4 DEF VersionsIn
<1>. QED
  BY <1>3, <1>4

\* A new version of the store is one that Publish may add.
LEMMA StoredIsPublished ==
    ASSUME NEW d \in Databases, NEW e, NEW k \in Keys, NEW meta, NEW data \in Contents,
           NewVersionStored(d, e, k, meta, data)
    PROVE  Adds(VersionsIn(d), VersionsIn(e))
<1>1. PICK n \in Numbers :
        /\ d.versions[k][n] = Nil /\ e.versions[k][n] = data /\ Newer(d, k, n, data)
        /\ \A v \in Numbers : v # n => e.versions[k][v] = d.versions[k][v]
  BY DEF NewVersionStored
<1>2. e \in Databases /\ \A j \in Keys : j # k => e.versions[j] = d.versions[j]
  BY DEF NewVersionStored
<1>3. data # Nil
  BY BlankAssumption
<1>. DEFINE x == [schema |-> k, version |-> n, file |-> data]
<1>4. x \in Promised!Entries
  BY MaxVersionAssumption DEF Promised!Entries, Numbers
<1>5. ASSUME NEW y \in VersionsIn(d), y.schema = k PROVE y.version < n /\ y.file # data
  BY <1>1, <1>5, VersionIsIn DEF Newer
<1>6. x \in VersionsIn(e)
  BY <1>1, <1>2, <1>3, VersionIsIn
<1>7. ASSUME NEW y \in VersionsIn(d) PROVE y \in VersionsIn(e)
  <2>1. y.schema \in Keys /\ y.version \in Numbers /\ y.file \in Contents
        /\ y \in [schema : Keys, version : Numbers, file : Contents]
        /\ d.versions[y.schema][y.version] = y.file /\ y.file # Nil
    BY VersionIsIn
  <2>2. e.versions[y.schema][y.version] = y.file
    BY <1>1, <1>2, <2>1
  <2>. QED
    BY <2>1, <2>2 DEF VersionsIn
<1>8. ASSUME NEW y \in VersionsIn(e), y # x PROVE y \in VersionsIn(d)
  <2>1. y \in [schema : Keys, version : Numbers, file : Contents]
        /\ e.versions[y.schema][y.version] = y.file
    BY <1>2, VersionIsIn
  <2>2. ~(y.schema = k /\ y.version = n)
    BY <1>1, <1>8, <2>1
  <2>3. d.versions[y.schema][y.version] = y.file
    BY <1>1, <1>2, <2>1, <2>2
  <2>. QED
    BY <2>1, <2>3 DEF VersionsIn
<1>9. x.schema = k /\ x.version = n /\ x.file = data
  OBVIOUS
<1>. HIDE DEF x
<1>10. VersionsIn(e) = VersionsIn(d) \cup {x}
  BY <1>6, <1>7, <1>8
<1>. QED
  BY <1>4, <1>5, <1>6, <1>9, <1>10 DEF Adds

\* What is removed is a version or the versions of some schemas.
LEMMA RemovedIsDropped ==
    ASSUME NEW d \in Databases, NEW e \in Databases, Emptied(d, e)
    PROVE  e.versions = d.versions \/ Drops(VersionsIn(d), VersionsIn(e))
<1>. DEFINE All == [schema : Keys, version : Numbers, file : Contents]
<1>0. \A x : /\ x \in VersionsIn(d) <=> x \in All /\ d.versions[x.schema][x.version] = x.file
             /\ x \in VersionsIn(e) <=> x \in All /\ e.versions[x.schema][x.version] = x.file
  BY DEF VersionsIn
<1>1. ASSUME NEW ks \in SUBSET Keys,
             \A k \in Keys, v \in Numbers : e.versions[k][v] = IF k \in ks THEN Nil ELSE d.versions[k][v]
      PROVE  Drops(VersionsIn(d), VersionsIn(e))
  <2>1. \A x \in All :
          e.versions[x.schema][x.version] = x.file <=>
            x.schema \notin ks /\ d.versions[x.schema][x.version] = x.file
    BY <1>1, BlankAssumption
  <2>. HIDE DEF All
  <2>2. VersionsIn(e) = {x \in VersionsIn(d) : x.schema \notin ks}
    <3>1. \A x : x \in VersionsIn(e) <=> x \in VersionsIn(d) /\ x.schema \notin ks
      BY <1>0, <2>1
    <3>. QED
      BY <3>1
  <2>. QED
    BY <2>2 DEF Drops
<1>2. ASSUME NEW k \in Keys, NEW n \in VersionIds,
             \A j \in Keys, v \in Numbers :
               e.versions[j][v] = IF j = k /\ v = n THEN Nil ELSE d.versions[j][v]
      PROVE  e.versions = d.versions \/ Drops(VersionsIn(d), VersionsIn(e))
  <2>1. CASE n \notin Numbers \/ d.versions[k][n] = Nil
    <3>1. \A j \in Keys, v \in Numbers : e.versions[j][v] = d.versions[j][v]
      BY <1>2, <2>1
    <3>2. /\ d.versions \in [Keys -> [Numbers -> Contents \cup {Nil}]]
          /\ e.versions \in [Keys -> [Numbers -> Contents \cup {Nil}]]
      BY DatabaseFields
    <3>3. \A j \in Keys : e.versions[j] = d.versions[j]
      BY <3>1, <3>2
    <3>. QED
      BY <3>2, <3>3
  <2>2. CASE n \in Numbers /\ d.versions[k][n] # Nil
    <3>. DEFINE x == [schema |-> k, version |-> n, file |-> d.versions[k][n]]
    <3>1. x \in VersionsIn(d)
      BY <2>2, VersionIsIn
    <3>2. \A y \in All :
            e.versions[y.schema][y.version] = y.file <=>
              y # x /\ d.versions[y.schema][y.version] = y.file
      BY <1>2, <2>2, BlankAssumption
    <3>. HIDE DEF x, All
    <3>3. VersionsIn(e) = VersionsIn(d) \ {x}
      <4>1. \A y : y \in VersionsIn(e) <=> y \in VersionsIn(d) /\ y # x
        BY <1>0, <3>2
      <4>. QED
        BY <4>1
    <3>. QED
      BY <3>1, <3>3 DEF Drops
  <2>. QED
    BY <2>1, <2>2
<1>. QED
  BY <1>1, <1>2 DEF Emptied

\* A step leaves the versions alone, adds one or drops some.
LEMMA StepAsPromised ==
    ASSUME NEW d \in Databases, NEW e, NEW ev, NEW ev2, DatabaseStep(d, ev, e, ev2)
    PROVE  \/ e.versions = d.versions
           \/ Adds(VersionsIn(d), VersionsIn(e))
           \/ Drops(VersionsIn(d), VersionsIn(e))
<1>1. ASSUME NEW k \in Keys, NEW meta, NEW data \in Contents, Uploaded(d, ev2, e, k, meta, data)
      PROVE  Adds(VersionsIn(d), VersionsIn(e))
  BY <1>1, StoredIsPublished DEF Uploaded
<1>2. ASSUME Removed(d, e)
      PROVE  e.versions = d.versions \/ Drops(VersionsIn(d), VersionsIn(e))
  BY <1>2, RemovedIsDropped DEF Removed
<1>. QED
  BY <1>1, <1>2 DEF DatabaseStep, OnlyReads, NamespaceWritten, SchemaEdited

\* A file that is there stays, and so does a namespace, until something is
\* deleted; a row keeps its format.
LEMMA StepKeepsFiles ==
    ASSUME NEW d \in Databases, NEW e, NEW ev, NEW ev2, DatabaseStep(d, ev, e, ev2),
           "deleted" \notin ev2
    PROVE  /\ \A n \in NamespaceIds : d.namespaces[n] # Nil => e.namespaces[n] # Nil
           /\ \A k \in Keys, v \in Numbers :
                d.versions[k][v] # Nil => e.versions[k][v] = d.versions[k][v]
           /\ \A k \in Keys :
                d.schemas[k] # Nil => e.schemas[k] # Nil /\ e.schemas[k].format = d.schemas[k].format
<1>1. CASE OnlyReads(d, e)
  BY <1>1 DEF OnlyReads
<1>2. ASSUME NEW n \in NamespaceIds, NamespaceWritten(d, e, n)
      PROVE  /\ \A m \in NamespaceIds : d.namespaces[m] # Nil => e.namespaces[m] # Nil
             /\ e.versions = d.versions /\ e.schemas = d.schemas
  BY <1>2 DEF NamespaceWritten
<1>3. CASE SchemaEdited(d, e)
  BY <1>3 DEF SchemaEdited
<1>4. ASSUME NEW k \in Keys, NEW meta, NEW data \in Contents, Uploaded(d, ev2, e, k, meta, data)
      PROVE  /\ e.namespaces = d.namespaces
             /\ \A j \in Keys, v \in Numbers : d.versions[j][v] # Nil => e.versions[j][v] = d.versions[j][v]
             /\ \A j \in Keys : d.schemas[j] # Nil => e.schemas[j] = d.schemas[j]
  <2>1. FileAdded(d, e, k, data)
    BY <1>4, UploadAdds
  <2>. QED
    BY <2>1 DEF FileAdded
<1>. QED
  BY <1>1, <1>2, <1>3, <1>4 DEF DatabaseStep

\* Every row of a schema has a version, its files are of the row's format, and
\* the cache has what the table has.
Sound(d) ==
    \A k \in Keys :
        /\ d.schemas[k] # Nil => \E v \in Numbers : d.versions[k][v] # Nil
        /\ \A v \in Numbers :
             /\ d.versions[k][v] # Nil =>
                  d.schemas[k] # Nil /\ <<d.schemas[k].format, d.versions[k][v]>> \in Parses
             /\ d.cache[k][v] \in {Nil, d.versions[k][v]}

LEMMA StepKeepsSound ==
    ASSUME NEW d \in Databases, Sound(d), NEW e, NEW ev, NEW ev2, DatabaseStep(d, ev, e, ev2),
           Calm(ev2)
    PROVE  Sound(e)
<1>1. CASE OnlyReads(d, e)
  BY <1>1 DEF OnlyReads, Sound
<1>2. ASSUME NEW n \in NamespaceIds, NamespaceWritten(d, e, n) PROVE Sound(e)
  BY <1>2 DEF NamespaceWritten, Sound
<1>3. CASE SchemaEdited(d, e)
  BY <1>3 DEF SchemaEdited, Sound
<1>4. ASSUME NEW k \in Keys, NEW meta \in Metadata, NEW data \in Contents,
             Uploaded(d, ev2, e, k, meta, data)
      PROVE  Sound(e)
  <2>0. NewVersionStored(d, e, k, meta, data) /\ <<meta.format, data>> \in Parses
    BY <1>4 DEF Uploaded
  <2>1. PICK n \in Numbers :
          /\ d.versions[k][n] = Nil /\ e.versions[k][n] = data
          /\ \A v \in Numbers : v # n => e.versions[k][v] = d.versions[k][v]
    BY <2>0 DEF NewVersionStored
  <2>2. /\ e.cache = d.cache
        /\ e.schemas[k] = IF d.schemas[k] = Nil THEN meta ELSE d.schemas[k]
        /\ \A j \in Keys : j # k => e.schemas[j] = d.schemas[j] /\ e.versions[j] = d.versions[j]
    BY <2>0 DEF NewVersionStored
  <2>3. d.schemas[k] # Nil => meta.format = d.schemas[k].format
    <3>. SUFFICES ASSUME d.schemas[k] # Nil PROVE Latest(d, k) # 0
      BY <1>4 DEF Uploaded
    <3>1. PICK v \in Numbers : d.versions[k][v] # Nil
      BY DEF Sound
    <3>2. v <= Latest(d, k) /\ v \in Nat /\ v # 0
      BY <3>1, LatestIsMax, MaxVersionAssumption DEF Numbers
    <3>. HIDE DEF Latest
    <3>. QED
      BY <3>2
  <2>4. data # Nil /\ meta # Nil
    BY BlankAssumption, NilAssumption
  <2>5. \A v \in Numbers : e.versions[k][v] # Nil =>
           e.schemas[k] # Nil /\ <<e.schemas[k].format, e.versions[k][v]>> \in Parses
    <3>1. CASE d.schemas[k] = Nil
      <4>1. \A v \in Numbers : d.versions[k][v] = Nil
        BY <3>1 DEF Sound
      <4>2. \A v \in Numbers : e.versions[k][v] # Nil => e.versions[k][v] = data
        BY <2>1, <4>1
      <4>3. e.schemas[k] = meta
        BY <2>2, <3>1
      <4>. QED
        BY <2>0, <2>4, <4>2, <4>3
    <3>2. CASE d.schemas[k] # Nil
      BY <2>0, <2>1, <2>2, <2>3, <3>2 DEF Sound
    <3>. QED
      BY <3>1, <3>2
  <2>6. ASSUME NEW v \in Numbers PROVE e.cache[k][v] \in {Nil, e.versions[k][v]}
    <3>1. e.cache[k][v] \in {Nil, d.versions[k][v]}
      BY <2>2 DEF Sound
    <3>2. d.versions[k][v] \in {Nil, e.versions[k][v]}
      BY <2>1
    <3>. QED
      BY <3>1, <3>2
  <2>7. \E v \in Numbers : e.versions[k][v] # Nil
    BY <2>1, <2>4
  <2>8. ASSUME NEW j \in Keys, j # k
        PROVE  /\ e.schemas[j] # Nil => \E v \in Numbers : e.versions[j][v] # Nil
               /\ \A v \in Numbers :
                    /\ e.versions[j][v] # Nil =>
                         e.schemas[j] # Nil /\ <<e.schemas[j].format, e.versions[j][v]>> \in Parses
                    /\ e.cache[j][v] \in {Nil, e.versions[j][v]}
    BY <2>2, <2>8 DEF Sound
  <2>. QED
    BY <2>5, <2>6, <2>7, <2>8 DEF Sound
<1>5. "deleted" \notin ev2
  BY DEF Calm
<1>. QED
  BY <1>1, <1>2, <1>3, <1>4, <1>5 DEF DatabaseStep

\* Where empty files and a nameless namespace may come from.
KeptOut(d, ev) ==
    /\ \A k \in Keys, v \in Numbers : d.versions[k][v] = Empty => "emptyUpload" \in ev
    /\ d.namespaces[Blank] = Nil

LEMMA StepKeepsBlankOut ==
    ASSUME NEW d \in Databases, NEW e, NEW ev, NEW ev2, DatabaseStep(d, ev, e, ev2), KeptOut(d, ev)
    PROVE  KeptOut(e, ev2)
<1>0. ev \subseteq ev2 /\ Blank \in NamespaceIds /\ Nil # Empty
  BY BlankAssumption DEF DatabaseStep
<1>1. CASE OnlyReads(d, e)
  BY <1>0, <1>1 DEF OnlyReads, KeptOut
<1>2. ASSUME NEW n \in NamespaceIds, NamespaceWritten(d, e, n), n # Blank \/ d.namespaces[n] # Nil
      PROVE  KeptOut(e, ev2)
  BY <1>0, <1>2 DEF NamespaceWritten, KeptOut
<1>3. CASE SchemaEdited(d, e)
  BY <1>0, <1>3 DEF SchemaEdited, KeptOut
<1>4. CASE Removed(d, e)
  <2>1. e.namespaces[Blank] = Nil
    BY <1>0, <1>4 DEF Removed, KeptOut
  <2>2. \A k \in Keys, v \in Numbers : e.versions[k][v] = Empty => d.versions[k][v] = Empty
    BY <1>0, <1>4 DEF Removed
  <2>. QED
    BY <1>0, <2>1, <2>2 DEF KeptOut
<1>5. ASSUME NEW k \in Keys, NEW data \in Contents, NEW meta, Uploaded(d, ev2, e, k, meta, data)
      PROVE  KeptOut(e, ev2)
  <2>1. FileAdded(d, e, k, data) /\ (data = Empty => "emptyUpload" \in ev2)
    BY <1>5, UploadAdds DEF Uploaded
  <2>. QED
    BY <1>0, <1>5, <2>1 DEF FileAdded, KeptOut
<1>. QED
  BY <1>1, <1>2, <1>3, <1>4, <1>5 DEF DatabaseStep

\* What an answer that was once given says about the database now.
Kept(d, ev, m, in, code, out) ==
    /\ "deleted" \notin ev /\ code \in {"OK", "AlreadyExists"} =>
         /\ m = "CreateNamespace" => d.namespaces[in.id] # Nil
         /\ m = "CreateSchema" => \E v \in Numbers : d.versions[Key(in)][v] = in.data
    /\ Calm(ev) /\ code = "OK" =>
         /\ m \in {"GetSchema", "GetLatestSchema"} =>
              d.schemas[Key(in)] # Nil /\ <<d.schemas[Key(in)].format, out.data>> \in Parses
         /\ m = "GetSchemaMetadata" =>
              d.schemas[Key(in)] # Nil /\ out.format = d.schemas[Key(in)].format

\* The parts of a message that Kept looks at.
LEMMA MessageParts ==
    ASSUME NEW m \in Methods, NEW in \in RequestOf[m]
    PROVE  /\ m \in {"CreateNamespace", "UpdateNamespace"} => in.id \in NamespaceIds
           /\ m \in {"CreateSchema", "GetSchema", "GetLatestSchema", "GetSchemaMetadata"} => Key(in) \in Keys
           /\ m = "CreateSchema" => in.data \in Contents
<1>1. ASSUME m \in {"CreateNamespace", "UpdateNamespace"} PROVE in.id \in NamespaceIds
  BY <1>1, MessagesOf DEF CreateNamespaceRequest, UpdateNamespaceRequest, Namespace
<1>2. m = "CreateSchema" => in \in CreateSchemaRequest
  BY MessagesOf
<1>3. m = "GetSchema" => in \in GetSchemaRequest
  BY MessagesOf
<1>4. m = "GetLatestSchema" => in \in GetLatestSchemaRequest
  BY MessagesOf
<1>5. m = "GetSchemaMetadata" => in \in GetSchemaMetadataRequest
  BY MessagesOf
<1>6. m = "CreateSchema" => in.data \in Contents
  BY <1>2 DEF CreateSchemaRequest
<1>. QED
  BY <1>1, <1>2, <1>3, <1>4, <1>5, <1>6, MessageKeys

LEMMA KeptStays ==
    ASSUME NEW d \in Databases, NEW e, NEW ev, NEW ev2, DatabaseStep(d, ev, e, ev2),
           NEW m \in Methods, NEW in \in RequestOf[m], NEW code, NEW out, Kept(d, ev, m, in, code, out)
    PROVE  Kept(e, ev2, m, in, code, out)
<1>0. ev \subseteq ev2
  BY DEF DatabaseStep
<1>1. CASE "deleted" \in ev2
  BY <1>1 DEF Kept, Calm
<1>2. CASE "deleted" \notin ev2
  <2>1. /\ \A n \in NamespaceIds : d.namespaces[n] # Nil => e.namespaces[n] # Nil
        /\ \A k \in Keys, v \in Numbers : d.versions[k][v] # Nil => e.versions[k][v] = d.versions[k][v]
        /\ \A k \in Keys :
             d.schemas[k] # Nil => e.schemas[k] # Nil /\ e.schemas[k].format = d.schemas[k].format
    BY <1>2, StepKeepsFiles
  <2>2. /\ m = "CreateNamespace" => in.id \in NamespaceIds
        /\ m \in {"CreateSchema", "GetSchema", "GetLatestSchema", "GetSchemaMetadata"} => Key(in) \in Keys
        /\ m = "CreateSchema" => in.data # Nil
    BY MessageParts, BlankAssumption
  <2>3. code \in {"OK", "AlreadyExists"} /\ m = "CreateNamespace" => e.namespaces[in.id] # Nil
    BY <1>0, <1>2, <2>1, <2>2 DEF Kept
  <2>4. code \in {"OK", "AlreadyExists"} /\ m = "CreateSchema"
           => \E v \in Numbers : e.versions[Key(in)][v] = in.data
    BY <1>0, <1>2, <2>1, <2>2 DEF Kept
  <2>5. Calm(ev2) => Calm(ev)
    BY <1>0 DEF Calm
  <2>6. Calm(ev2) /\ code = "OK" /\ m \in {"GetSchema", "GetLatestSchema"} =>
           e.schemas[Key(in)] # Nil /\ <<e.schemas[Key(in)].format, out.data>> \in Parses
    BY <2>1, <2>2, <2>5 DEF Kept
  <2>7. Calm(ev2) /\ code = "OK" /\ m = "GetSchemaMetadata" =>
           e.schemas[Key(in)] # Nil /\ out.format = e.schemas[Key(in)].format
    BY <2>1, <2>2, <2>5 DEF Kept
  <2>. QED
    BY <2>3, <2>4, <2>6, <2>7 DEF Kept
<1>. QED
  BY <1>1, <1>2

LEMMA AnswerKept ==
    ASSUME NEW d \in Databases, NEW ev, NEW ev2, NEW m \in Methods, NEW in \in RequestOf[m], NEW res,
           Calm(ev) => Sound(d),
           Answer(m, in, d, res), DatabaseStep(d, ev, res.db, ev2)
    PROVE  Kept(res.db, ev2, m, in, res.code, res.out)
<1>0. ev \subseteq ev2
  BY DEF DatabaseStep
<1>1. /\ m = "CreateNamespace" => in.id \in NamespaceIds
      /\ m \in {"CreateSchema", "GetSchema", "GetLatestSchema", "GetSchemaMetadata"} => Key(in) \in Keys
      /\ m = "CreateSchema" => in.data \in Contents
  BY MessageParts
<1>2. res.code \in {"OK", "AlreadyExists"} /\ m = "CreateNamespace" => res.db.namespaces[in.id] # Nil
  BY DEF Answer
<1>3. res.code \in {"OK", "AlreadyExists"} /\ m = "CreateSchema"
         => \E v \in Numbers : res.db.versions[Key(in)][v] = in.data
  BY DEF Answer
<1>4. ASSUME Calm(ev2), res.code = "OK",
             m \in {"GetSchema", "GetLatestSchema", "GetSchemaMetadata"}
      PROVE  /\ res.db.schemas[Key(in)] # Nil
             /\ m \in {"GetSchema", "GetLatestSchema"} =>
                  <<res.db.schemas[Key(in)].format, res.out.data>> \in Parses
             /\ m = "GetSchemaMetadata" => res.out.format = res.db.schemas[Key(in)].format
  <2>1. Sound(d) /\ Key(in) \in Keys
    BY <1>0, <1>1, <1>4 DEF Calm
  <2>2. d.schemas[Key(in)] # Nil
    BY <1>4 DEF Answer
  <2>3. res.db.schemas[Key(in)] # Nil /\ res.db.schemas[Key(in)].format = d.schemas[Key(in)].format
    <3>1. \A k \in Keys :
            d.schemas[k] # Nil => res.db.schemas[k] # Nil /\ res.db.schemas[k].format = d.schemas[k].format
      BY <1>4, StepKeepsFiles DEF Calm
    <3>. QED
      BY <2>1, <2>2, <3>1
  <2>4. m \in {"GetSchema", "GetLatestSchema"} => <<d.schemas[Key(in)].format, res.out.data>> \in Parses
    <3>. SUFFICES ASSUME m \in {"GetSchema", "GetLatestSchema"}
                  PROVE  <<d.schemas[Key(in)].format, res.out.data>> \in Parses
      OBVIOUS
    <3>1. PICK v \in Numbers : res.out.data \in {d.cache[Key(in)][v], d.versions[Key(in)][v]}
      BY <1>4 DEF Answer
    <3>2. res.out.data # Nil
      BY <1>4 DEF Answer
    <3>. DEFINE k == Key(in)
    <3>3. d.cache[k][v] \in {Nil, d.versions[k][v]}
          /\ (d.versions[k][v] # Nil => <<d.schemas[k].format, d.versions[k][v]>> \in Parses)
      BY <2>1 DEF Sound
    <3>. QED
      BY <3>1, <3>2, <3>3
  <2>. QED
    BY <1>4, <2>2, <2>3, <2>4 DEF Answer
<1>. QED
  BY <1>2, <1>3, <1>4 DEF Kept

-----------------------------------------------------------------------------
(***************************************************************************)
(* Command lines.                                                          *)
(***************************************************************************)

\* r is a sequence, of whatever.
Sequence(r) == \E S : r \in Seq(S)

LEMMA ReplyAppended ==
    ASSUME NEW r, Sequence(r), NEW x, NEW q, q = Append(r, x)
    PROVE  /\ Sequence(q) /\ Len(r) \in Nat /\ Len(q) = Len(r) + 1
           /\ \A i \in 1..Len(r) : q[i] = r[i]
           /\ q[Len(q)] = x
<1>1. PICK S : r \in Seq(S)
  BY DEF Sequence
<1>2. r \in Seq(S \cup {x}) /\ x \in S \cup {x}
  BY <1>1
<1>3. q \in Seq(S \cup {x})
  BY <1>2
<1>. QED
  BY <1>2, <1>3 DEF Sequence

LEMMA NoReplies ==
    /\ Sequence(<<>>) /\ Len(<<>>) = 0
    /\ \A r : Sequence(r) /\ Len(r) = 0 => r = <<>>
    /\ \A r : Sequence(r) => Len(r) \in Nat
<1>1. <<>> \in Seq({})
  OBVIOUS
<1>2. \A S, r : r \in Seq(S) => Len(r) \in Nat /\ (Len(r) = 0 => r = <<>>)
  OBVIOUS
<1>. QED
  BY <1>1, <1>2 DEF Sequence

\* How many calls a command makes.
Fetching == {"schema download", "schema view", "schema graph"}
CallsOf(name) == IF name \in Fetching THEN 2 ELSE IF name = "schema diff" THEN 3 ELSE 1

\* A step of a command: the end of it or, while it has calls left, a call.
Exits(step) == step.kind = "exit" /\ step.code \in {0, 1}
Calls(step) == step.kind = "call" /\ step.method \in Methods /\ step.in \in RequestOf[step.method]

LEMMA StepKinds ==
    /\ \A ok : Exits(Exit(ok))
    /\ \A m \in Methods : \A in \in RequestOf[m] : Calls(Call(m, in))
    /\ \A step : ~(Exits(step) /\ Calls(step))
  BY DEF Exits, Calls, Exit, Call

LEMMA OneCallStep ==
    ASSUME NEW r, Sequence(r), Len(r) <= 1, NEW m \in Methods, NEW in \in RequestOf[m], NEW codes
    PROVE  \/ Exits(OneCall(r, m, in, codes))
           \/ Calls(OneCall(r, m, in, codes)) /\ Len(r) < 1
<1>1. CASE r = <<>>
  <2>1. OneCall(r, m, in, codes) = Call(m, in)
    BY <1>1 DEF OneCall
  <2>. QED
    BY <1>1, <2>1, NoReplies, StepKinds
<1>2. CASE r # <<>>
  <2>1. OneCall(r, m, in, codes) = Exit(r[1].code \in codes)
    BY <1>2 DEF OneCall
  <2>. QED
    BY <2>1, StepKinds
<1>. QED
  BY <1>1, <1>2

\* A flag that names no format or mode is sent as its zero value.
LEMMA FlagValues ==
    \A x : FormatValue(x) \in Schema_Format /\ CompatibilityValue(x) \in Schema_Compatibility
  BY DEF FormatValue, CompatibilityValue, Schema_Format, Schema_Compatibility

\* The messages that commands make of their arguments.
LEMMA NamespaceMessages ==
    ASSUME NEW a, a.id \in NamespaceIds
    PROVE  /\ NamespaceArgs(a) \in RequestOf["CreateNamespace"]
           /\ NamespaceArgs(a) \in RequestOf["UpdateNamespace"]
           /\ [id |-> a.id] \in RequestOf["GetNamespace"]
           /\ [id |-> a.id] \in RequestOf["DeleteNamespace"]
<1>1. NamespaceArgs(a) \in Namespace /\ [id |-> a.id] \in [id : NamespaceIds]
  BY FlagValues DEF NamespaceArgs, Namespace
<1>. QED
  BY <1>1, MessagesOf DEF CreateNamespaceRequest, UpdateNamespaceRequest, GetNamespaceRequest,
     DeleteNamespaceRequest

LEMMA SchemaMessages ==
    ASSUME NEW a, a.namespace \in NamespaceIds, a.id \in SchemaIds
    PROVE  /\ SchemaArgs(a) \in RequestOf["GetSchemaMetadata"]
           /\ SchemaArgs(a) \in RequestOf["GetLatestSchema"]
           /\ SchemaArgs(a) \in RequestOf["ListVersions"]
           /\ SchemaArgs(a) \in RequestOf["DeleteSchema"]
           /\ \A v \in VersionIds : /\ VersionArgs(a, v) \in RequestOf["GetSchema"]
                                    /\ VersionArgs(a, v) \in RequestOf["DeleteVersion"]
<1>1. SchemaArgs(a) \in [namespace_id : NamespaceIds, schema_id : SchemaIds]
  BY DEF SchemaArgs
<1>2. \A v \in VersionIds :
        VersionArgs(a, v) \in [namespace_id : NamespaceIds, schema_id : SchemaIds, version_id : VersionIds]
  BY DEF VersionArgs
<1>3. /\ RequestOf["GetSchemaMetadata"] = [namespace_id : NamespaceIds, schema_id : SchemaIds]
      /\ RequestOf["GetLatestSchema"] = [namespace_id : NamespaceIds, schema_id : SchemaIds]
      /\ RequestOf["ListVersions"] = [namespace_id : NamespaceIds, schema_id : SchemaIds]
      /\ RequestOf["DeleteSchema"] = [namespace_id : NamespaceIds, schema_id : SchemaIds]
  BY MessagesOf DEF GetSchemaMetadataRequest, GetLatestSchemaRequest, ListVersionsRequest,
     DeleteSchemaRequest
<1>4. /\ RequestOf["GetSchema"] = [namespace_id : NamespaceIds, schema_id : SchemaIds, version_id : VersionIds]
      /\ RequestOf["DeleteVersion"] = [namespace_id : NamespaceIds, schema_id : SchemaIds, version_id : VersionIds]
  BY MessagesOf DEF GetSchemaRequest, DeleteVersionRequest
<1>. QED
  BY <1>1, <1>2, <1>3, <1>4

\* The two calls of fetchSchemaAndMeta.
LEMMA FetchStep ==
    ASSUME NEW a \in SchemaFlags, NEW r, Sequence(r), Len(r) <= 2,
           NEW f, f = fetchSchemaAndMeta(a, r)
    PROVE  /\ Exits(f) \/ f.kind = "fetched" \/ (Calls(f) /\ Len(r) < 2)
           /\ f.kind = "fetched" => Len(r) = 2
<1>0. Len(r) \in Nat /\ (Len(r) = 0 <=> r = <<>>)
  BY NoReplies
<1>1. /\ a.namespace \in NamespaceIds /\ a.id \in SchemaIds /\ a.version \in VersionIds
  BY DEF SchemaFlags
<1>2. CASE Len(r) = 0
  <2>1. f \in {Call("GetSchema", VersionArgs(a, a.version)), Call("GetLatestSchema", SchemaArgs(a))}
    BY <1>0, <1>2 DEF fetchSchemaAndMeta
  <2>2. Calls(Call("GetSchema", VersionArgs(a, a.version))) /\ Calls(Call("GetLatestSchema", SchemaArgs(a)))
    BY <1>1, SchemaMessages, MethodNames, StepKinds
  <2>3. f.kind # "fetched"
    BY <2>1 DEF Call
  <2>. QED
    BY <1>2, <2>1, <2>2, <2>3
<1>3. CASE Len(r) = 1
  <2>1. f \in {Call("GetSchemaMetadata", SchemaArgs(a)), Exit(FALSE)}
    BY <1>0, <1>3 DEF fetchSchemaAndMeta
  <2>2. Calls(Call("GetSchemaMetadata", SchemaArgs(a))) /\ Exits(Exit(FALSE))
    BY <1>1, SchemaMessages, MethodNames, StepKinds
  <2>3. f.kind # "fetched"
    BY <2>1 DEF Call, Exit
  <2>4. Exits(f) \/ Calls(f)
    BY <2>1, <2>2
  <2>5. Len(r) < 2
    BY <1>3
  <2>. QED
    BY <2>3, <2>4, <2>5
<1>4. CASE Len(r) = 2
  <2>. DEFINE o == [kind |-> "fetched", data |-> r[1].out.data, format |-> r[2].out.format]
  <2>1. r # <<>> /\ Len(r) # 1
    BY <1>0, <1>4
  <2>2. f = o \/ f = Exit(FALSE)
    BY <1>4, <2>1 DEF fetchSchemaAndMeta
  <2>3. o.kind = "fetched" /\ Exits(Exit(FALSE))
    BY StepKinds
  <2>. HIDE DEF o
  <2>. QED
    BY <1>4, <2>2, <2>3
<1>5. Len(r) = 0 \/ Len(r) = 1 \/ Len(r) = 2
  <2>. DEFINE n == Len(r)
  <2>1. n \in Nat /\ n <= 2
    BY <1>0
  <2>. HIDE DEF n
  <2>2. n = 0 \/ n = 1 \/ n = 2
    BY <2>1
  <2>. QED
    BY <2>2 DEF n
<1>. QED
  BY <1>2, <1>3, <1>4, <1>5

LEMMA DiffStep ==
    ASSUME NEW a, a.namespace \in NamespaceIds, a.id \in SchemaIds, a.earlier \in VersionIds,
           a.later \in VersionIds, NEW r, Sequence(r), Len(r) <= 3, NEW f, f = diffSchemaCmd(a, r)
    PROVE  Exits(f) \/ (Calls(f) /\ Len(r) < 3)
<1>. DEFINE n == Len(r)
            first == Call("GetSchemaMetadata", SchemaArgs(a))
            second == Call("GetSchema", VersionArgs(a, a.earlier))
            third == Call("GetSchema", VersionArgs(a, a.later))
<1>1. n \in Nat /\ n <= 3 /\ (n = 0 <=> r = <<>>)
  BY NoReplies
<1>2. Calls(first) /\ Calls(second) /\ Calls(third) /\ Exits(Exit(FALSE)) /\ \A ok : Exits(Exit(ok))
  BY SchemaMessages, MethodNames, StepKinds
<1>3. CASE r = <<>>
  <2>1. f = first
    BY <1>3 DEF diffSchemaCmd
  <2>2. n < 3
    BY <1>1, <1>3
  <2>. HIDE DEF first
  <2>. QED
    BY <1>2, <2>1, <2>2
<1>4. CASE n = 1 /\ r # <<>>
  <2>1. f \in {second, Exit(FALSE)}
    BY <1>4 DEF diffSchemaCmd
  <2>2. n < 3
    BY <1>4
  <2>. HIDE DEF second
  <2>. QED
    BY <1>2, <2>1, <2>2
<1>5. CASE n = 2 /\ r # <<>>
  <2>0. Len(r) # 1
    BY <1>5
  <2>1. f \in {third, Exit(FALSE)}
    BY <1>5, <2>0 DEF diffSchemaCmd
  <2>2. n < 3
    BY <1>5
  <2>. HIDE DEF third
  <2>. QED
    BY <1>2, <2>1, <2>2
<1>6. CASE n = 3 /\ r # <<>>
  <2>0. Len(r) # 1 /\ Len(r) # 2
    BY <1>6
  <2>1. \E ok : f = Exit(ok)
    BY <1>6, <2>0 DEF diffSchemaCmd
  <2>. QED
    BY <1>2, <2>1
<1>. HIDE DEF n
<1>7. r = <<>> \/ (n = 1 /\ r # <<>>) \/ (n = 2 /\ r # <<>>) \/ (n = 3 /\ r # <<>>)
  BY <1>1
<1>. QED
  BY <1>3, <1>4, <1>5, <1>6, <1>7

\* The arguments of each command.
LEMMA ArgumentTypes ==
    ASSUME NEW name \in CommandNames, NEW a \in ArgsOf(name)
    PROVE  /\ name \in {"namespace create", "namespace edit", "namespace view", "namespace delete"}
                => a.id \in NamespaceIds
           /\ name \in {"schema create", "schema check"} =>
                a.namespace \in NamespaceIds /\ a.id \in SchemaIds /\ a.data \in Contents \cup {Nil}
           /\ name = "schema list" => a.namespace \in NamespaceIds
           /\ name \in {"schema info", "schema version", "schema delete"} \cup Fetching => a \in SchemaFlags
           /\ name = "schema edit" => a.namespace \in NamespaceIds /\ a.id \in SchemaIds
           /\ name = "schema diff" =>
                /\ a.namespace \in NamespaceIds /\ a.id \in SchemaIds
                /\ a.earlier \in VersionIds /\ a.later \in VersionIds
           /\ name = "search" =>
                /\ a.namespace \in NamespaceIds /\ a.id \in SchemaIds /\ a.query \in Queries
                /\ a.version \in VersionIds /\ a.history \in BOOLEAN
<1>1. ASSUME name \in {"namespace create", "namespace edit", "namespace view", "namespace delete"}
      PROVE  a.id \in NamespaceIds
  BY <1>1 DEF ArgsOf
<1>2. ASSUME name \in {"schema create", "schema check"}
      PROVE  a.namespace \in NamespaceIds /\ a.id \in SchemaIds /\ a.data \in Contents \cup {Nil}
  BY <1>2 DEF ArgsOf
<1>3. ASSUME name = "schema list" PROVE a.namespace \in NamespaceIds
  BY <1>3 DEF ArgsOf
<1>4. ASSUME name \in {"schema info", "schema version", "schema delete"} \cup Fetching
      PROVE  a \in SchemaFlags
  BY <1>4 DEF ArgsOf, Fetching
<1>5. ASSUME name = "schema edit" PROVE a.namespace \in NamespaceIds /\ a.id \in SchemaIds
  BY <1>5 DEF ArgsOf
<1>6. ASSUME name = "schema diff"
      PROVE  /\ a.namespace \in NamespaceIds /\ a.id \in SchemaIds
             /\ a.earlier \in VersionIds /\ a.later \in VersionIds
  BY <1>6 DEF ArgsOf
<1>7. ASSUME name = "search"
      PROVE  /\ a.namespace \in NamespaceIds /\ a.id \in SchemaIds /\ a.query \in Queries
             /\ a.version \in VersionIds /\ a.history \in BOOLEAN
  BY <1>7 DEF ArgsOf
<1>. QED
  BY <1>1, <1>2, <1>3, <1>4, <1>5, <1>6, <1>7

LEMMA SearchStep ==
    ASSUME NEW a, a.namespace \in NamespaceIds, a.id \in SchemaIds, a.query \in Queries,
           a.version \in VersionIds, a.history \in BOOLEAN, NEW r, Sequence(r), Len(r) <= 1
    PROVE  Exits(SearchCmd(a, r)) \/ (Calls(SearchCmd(a, r)) /\ Len(r) < 1)
<1>. DEFINE version == CASE a.version # 0 -> [version_id |-> a.version]
                         [] a.version = 0 /\ a.history -> [history |-> TRUE]
                         [] OTHER -> Nil
            in == [namespace_id |-> a.namespace, schema_id |-> a.id, query |-> a.query, version |-> version]
<1>1. version \in SearchRequest_Version
  <2>1. [version_id |-> a.version] \in [version_id : VersionIds] /\ [history |-> TRUE] \in [history : BOOLEAN]
    OBVIOUS
  <2>2. version \in {[version_id |-> a.version], [history |-> TRUE], Nil}
    OBVIOUS
  <2>. HIDE DEF version
  <2>. QED
    BY <2>1, <2>2 DEF SearchRequest_Version
<1>2. SearchCmd(a, r) = Exit(TRUE) \/ SearchCmd(a, r) = OneCall(r, "Search", in, {"OK"})
  BY DEF SearchCmd
<1>. HIDE DEF version
<1>3. in \in RequestOf["Search"] /\ "Search" \in Methods
  BY <1>1, MessagesOf, MethodNames DEF SearchRequest
<1>. HIDE DEF in
<1>. QED
  BY <1>2, <1>3, OneCallStep, StepKinds

\* Every command makes at most its number of calls, each with a message of its
\* method, and ends with 0 or 1.
LEMMA CommandStep ==
    ASSUME NEW name \in CommandNames, NEW a \in ArgsOf(name), NEW r, Sequence(r),
           Len(r) <= CallsOf(name), NEW step, step = RunE(name, a, r)
    PROVE  Exits(step) \/ (Calls(step) /\ Len(r) < CallsOf(name))
<1>1. CASE name = "namespace list"
  <2>1. step = listNamespaceCmd(a, r) /\ CallsOf(name) = 1
    BY <1>1 DEF RunE, CallsOf, Fetching
  <2>2. NoFields \in RequestOf["ListNamespaces"]
    BY MessagesOf DEF ListNamespacesRequest
  <2>3. "ListNamespaces" \in Methods
    BY MethodNames
  <2>4. step = OneCall(r, "ListNamespaces", NoFields, {"OK"})
    BY <2>1 DEF listNamespaceCmd
  <2>. QED
    BY <2>1, <2>2, <2>3, <2>4, OneCallStep
<1>2. CASE name = "namespace create"
  <2>1. step = createNamespaceCmd(a, r) /\ CallsOf(name) = 1
    BY <1>2 DEF RunE, CallsOf, Fetching
  <2>2. NamespaceArgs(a) \in RequestOf["CreateNamespace"]
    BY <1>2, ArgumentTypes, NamespaceMessages
  <2>3. "CreateNamespace" \in Methods
    BY MethodNames
  <2>4. step = OneCall(r, "CreateNamespace", NamespaceArgs(a), {"OK", "AlreadyExists"})
    BY <2>1 DEF createNamespaceCmd
  <2>. QED
    BY <2>1, <2>2, <2>3, <2>4, OneCallStep
<1>3. CASE name = "namespace edit"
  <2>1. step = editNamespaceCmd(a, r) /\ CallsOf(name) = 1
    BY <1>3 DEF RunE, CallsOf, Fetching
  <2>2. NamespaceArgs(a) \in RequestOf["UpdateNamespace"]
    BY <1>3, ArgumentTypes, NamespaceMessages
  <2>3. "UpdateNamespace" \in Methods
    BY MethodNames
  <2>4. step = OneCall(r, "UpdateNamespace", NamespaceArgs(a), {"OK", "NotFound"})
    BY <2>1 DEF editNamespaceCmd
  <2>. QED
    BY <2>1, <2>2, <2>3, <2>4, OneCallStep
<1>4. CASE name = "namespace view"
  <2>1. step = viewNamespaceCmd(a, r) /\ CallsOf(name) = 1
    BY <1>4 DEF RunE, CallsOf, Fetching
  <2>2. [id |-> a.id] \in RequestOf["GetNamespace"]
    BY <1>4, ArgumentTypes, NamespaceMessages
  <2>3. "GetNamespace" \in Methods
    BY MethodNames
  <2>4. step = OneCall(r, "GetNamespace", [id |-> a.id], {"OK", "NotFound"})
    BY <2>1 DEF viewNamespaceCmd
  <2>. QED
    BY <2>1, <2>2, <2>3, <2>4, OneCallStep
<1>5. CASE name = "namespace delete"
  <2>1. step = deleteNamespaceCmd(a, r) /\ CallsOf(name) = 1
    BY <1>5 DEF RunE, CallsOf, Fetching
  <2>2. [id |-> a.id] \in RequestOf["DeleteNamespace"]
    BY <1>5, ArgumentTypes, NamespaceMessages
  <2>3. "DeleteNamespace" \in Methods
    BY MethodNames
  <2>4. step \in {Exit(TRUE), OneCall(r, "DeleteNamespace", [id |-> a.id], {"OK", "NotFound"})}
    BY <2>1 DEF deleteNamespaceCmd
  <2>. QED
    BY <2>1, <2>2, <2>3, <2>4, OneCallStep, StepKinds
<1>6. CASE name = "schema list"
  <2>1. step = listSchemaCmd(a, r) /\ CallsOf(name) = 1
    BY <1>6 DEF RunE, CallsOf, Fetching
  <2>2. [id |-> a.namespace] \in RequestOf["ListSchemas"]
    BY <1>6, ArgumentTypes, MessagesOf DEF ListSchemasRequest
  <2>3. "ListSchemas" \in Methods
    BY MethodNames
  <2>4. step = OneCall(r, "ListSchemas", [id |-> a.namespace], {"OK"})
    BY <2>1 DEF listSchemaCmd
  <2>. QED
    BY <2>1, <2>2, <2>3, <2>4, OneCallStep
<1>7. CASE name = "schema info"
  <2>1. step = infoSchemaCmd(a, r) /\ CallsOf(name) = 1
    BY <1>7 DEF RunE, CallsOf, Fetching
  <2>2. SchemaArgs(a) \in RequestOf["GetSchemaMetadata"]
    BY <1>7, ArgumentTypes, SchemaMessages DEF SchemaFlags
  <2>3. "GetSchemaMetadata" \in Methods
    BY MethodNames
  <2>4. step = OneCall(r, "GetSchemaMetadata", SchemaArgs(a), {"OK", "NotFound"})
    BY <2>1 DEF infoSchemaCmd
  <2>. QED
    BY <2>1, <2>2, <2>3, <2>4, OneCallStep
<1>8. CASE name = "schema version"
  <2>1. step = versionSchemaCmd(a, r) /\ CallsOf(name) = 1
    BY <1>8 DEF RunE, CallsOf, Fetching
  <2>2. SchemaArgs(a) \in RequestOf["ListVersions"]
    BY <1>8, ArgumentTypes, SchemaMessages DEF SchemaFlags
  <2>3. "ListVersions" \in Methods
    BY MethodNames
  <2>4. step = OneCall(r, "ListVersions", SchemaArgs(a), {"OK"})
    BY <2>1 DEF versionSchemaCmd
  <2>. QED
    BY <2>1, <2>2, <2>3, <2>4, OneCallStep
<1>9. CASE name = "schema edit"
  <2>1. step = editSchemaCmd(a, r) /\ CallsOf(name) = 1
    BY <1>9 DEF RunE, CallsOf, Fetching
  <2>2. [namespace_id |-> a.namespace, schema_id |-> a.id,
        compatibility |-> CompatibilityValue(a.comp)] \in RequestOf["UpdateSchemaMetadata"]
    BY <1>9, ArgumentTypes, FlagValues, MessagesOf DEF UpdateSchemaMetadataRequest
  <2>3. "UpdateSchemaMetadata" \in Methods
    BY MethodNames
  <2>4. step = OneCall(r, "UpdateSchemaMetadata", [namespace_id |-> a.namespace, schema_id |-> a.id,
        compatibility |-> CompatibilityValue(a.comp)], {"OK"})
    BY <2>1 DEF editSchemaCmd
  <2>. QED
    BY <2>1, <2>2, <2>3, <2>4, OneCallStep
<1>10. CASE name = "schema create"
  <2>. DEFINE in == [namespace_id |-> a.namespace, schema_id |-> a.id, data |-> a.data,
                      format |-> FormatValue(a.format), compatibility |-> CompatibilityValue(a.comp)]
  <2>1. step = createSchemaCmd(a, r) /\ CallsOf(name) = 1
    BY <1>10 DEF RunE, CallsOf, Fetching
  <2>2. CASE a.data = Nil
    <3>1. step = Exit(FALSE)
      BY <2>1, <2>2 DEF createSchemaCmd
    <3>. QED
      BY <3>1, StepKinds
  <2>3. CASE a.data # Nil
    <3>1. in \in RequestOf["CreateSchema"]
      BY <1>10, <2>3, ArgumentTypes, FlagValues, MessagesOf DEF CreateSchemaRequest
    <3>2. "CreateSchema" \in Methods
      BY MethodNames
    <3>3. step = OneCall(r, "CreateSchema", in, {"OK", "AlreadyExists"})
      BY <2>1, <2>3 DEF createSchemaCmd
    <3>. HIDE DEF in
    <3>. QED
      BY <2>1, <3>1, <3>2, <3>3, OneCallStep
  <2>. QED
    BY <2>2, <2>3
<1>11. CASE name = "schema check"
  <2>. DEFINE in == [namespace_id |-> a.namespace, schema_id |-> a.id, data |-> a.data,
                      compatibility |-> CompatibilityValue(a.comp)]
  <2>1. step = checkSchemaCmd(a, r) /\ CallsOf(name) = 1
    BY <1>11 DEF RunE, CallsOf, Fetching
  <2>2. CASE a.data = Nil
    <3>1. step = Exit(FALSE)
      BY <2>1, <2>2 DEF checkSchemaCmd
    <3>. QED
      BY <3>1, StepKinds
  <2>3. CASE a.data # Nil
    <3>1. in \in RequestOf["CheckCompatibility"]
      BY <1>11, <2>3, ArgumentTypes, FlagValues, MessagesOf DEF CheckCompatibilityRequest
    <3>2. "CheckCompatibility" \in Methods
      BY MethodNames
    <3>3. step = OneCall(r, "CheckCompatibility", in, {"OK"})
      BY <2>1, <2>3 DEF checkSchemaCmd
    <3>. HIDE DEF in
    <3>. QED
      BY <2>1, <3>1, <3>2, <3>3, OneCallStep
  <2>. QED
    BY <2>2, <2>3
<1>12. CASE name = "schema delete"
  <2>1. step = deleteSchemaCmd(a, r) /\ CallsOf(name) = 1
    BY <1>12 DEF RunE, CallsOf, Fetching
  <2>2. SchemaArgs(a) \in RequestOf["DeleteSchema"] /\ VersionArgs(a, a.version) \in RequestOf["DeleteVersion"]
    BY <1>12, ArgumentTypes, SchemaMessages DEF SchemaFlags
  <2>3. "DeleteSchema" \in Methods /\ "DeleteVersion" \in Methods
    BY MethodNames
  <2>4. \/ step = OneCall(r, "DeleteSchema", SchemaArgs(a), {"OK"})
        \/ step = OneCall(r, "DeleteVersion", VersionArgs(a, a.version), {"OK"})
    BY <2>1 DEF deleteSchemaCmd
  <2>. QED
    BY <2>1, <2>2, <2>3, <2>4, OneCallStep
<1>13. CASE name \in Fetching
  <2>. DEFINE f == fetchSchemaAndMeta(a, r)
  <2>1. CallsOf(name) = 2 /\ a \in SchemaFlags
    BY <1>13, ArgumentTypes DEF CallsOf
  <2>2. step \in {downloadSchemaCmd(a, r), printSchemaCmd(a, r), graphSchemaCmd(a, r)}
    BY <1>13 DEF RunE, Fetching
  <2>3. (f.kind # "fetched" /\ step = f) \/ \E ok : step = Exit(ok)
    BY <2>2 DEF downloadSchemaCmd, printSchemaCmd, graphSchemaCmd
  <2>. HIDE DEF f
  <2>4. Exits(f) \/ f.kind = "fetched" \/ (Calls(f) /\ Len(r) < 2)
    BY <2>1, FetchStep DEF f
  <2>. QED
    BY <2>1, <2>3, <2>4, StepKinds
<1>14. CASE name = "schema diff"
  <2>1. step = diffSchemaCmd(a, r) /\ CallsOf(name) = 3
    BY <1>14 DEF RunE, CallsOf, Fetching
  <2>2. /\ a.namespace \in NamespaceIds /\ a.id \in SchemaIds
        /\ a.earlier \in VersionIds /\ a.later \in VersionIds
    BY <1>14, ArgumentTypes
  <2>. QED
    BY <2>1, <2>2, DiffStep
<1>15. CASE name = "search"
  <2>1. step = SearchCmd(a, r) /\ CallsOf(name) = 1
    BY <1>15 DEF RunE, CallsOf, Fetching
  <2>2. /\ a.namespace \in NamespaceIds /\ a.id \in SchemaIds /\ a.query \in Queries
        /\ a.version \in VersionIds /\ a.history \in BOOLEAN
    BY <1>15, ArgumentTypes
  <2>. QED
    BY <2>1, <2>2, SearchStep
<1>. QED
  BY <1>1, <1>2, <1>3, <1>4, <1>5, <1>6, <1>7, <1>8, <1>9, <1>10, <1>11, <1>12, <1>13, <1>14, <1>15
     DEF CommandNames, Fetching

\* What a command does before it connects ends it with 0 or 1.
LEMMA BeforeDialStep ==
    ASSUME NEW name \in CommandNames, NEW a \in ArgsOf(name)
    PROVE  /\ BeforeDial(name, a).kind = "exit" => BeforeDial(name, a).code \in {0, 1}
           /\ name = "schema create" /\ BeforeDial(name, a).kind = "exit" => BeforeDial(name, a).code # 0
           /\ name = "namespace create" => BeforeDial(name, a).kind # "exit"
<1>1. CASE name \in {"schema create", "schema check"}
  <2>1. BeforeDial(name, a) = ReadFile(a)
    BY <1>1 DEF BeforeDial
  <2>2. ReadFile(a).kind = "exit" => ReadFile(a).code \in {0, 1} /\ ReadFile(a).code # 0
    BY DEF ReadFile, Exit
  <2>. QED
    BY <1>1, <2>1, <2>2
<1>2. CASE name = "namespace delete"
  <2>1. BeforeDial(name, a) = Confirm(a)
    BY <1>2 DEF BeforeDial
  <2>2. Confirm(a).kind = "exit" => Confirm(a).code \in {0, 1}
    BY DEF Confirm, Exit
  <2>. QED
    BY <1>2, <2>1, <2>2
<1>3. CASE name \notin {"schema create", "schema check", "namespace delete"}
  BY <1>3 DEF BeforeDial
<1>. QED
  BY <1>1, <1>2, <1>3

LEMMA ExitCodes ==
    /\ \A ok : Exit(ok).kind = "exit" /\ Exit(ok).kind # "call" /\ Exit(ok).kind # "fetched"
    /\ Exit(FALSE).code = 1
  BY DEF Exit

LEMMA OneCallCodes ==
    ASSUME NEW r, NEW m, NEW in, NEW codes, NEW o, o = OneCall(r, m, in, codes)
    PROVE  /\ r = <<>> => o.kind = "call" /\ o.method = m /\ o.in = in
           /\ r # <<>> => o.kind = "exit" /\ (o.code = 0 => r[1].code \in codes)
<1>1. CASE r = <<>>
  BY <1>1 DEF OneCall, Call
<1>2. CASE r # <<>>
  <2>1. o = [kind |-> "exit", code |-> IF r[1].code \in codes THEN 0 ELSE 1]
    BY <1>2 DEF OneCall, Exit
  <2>2. o.kind = "exit" /\ o.code = IF r[1].code \in codes THEN 0 ELSE 1
    BY <2>1
  <2>. QED
    BY <1>2, <2>2
<1>. QED
  BY <1>1, <1>2

\* A create command and the two codes that are no failure to it.
Creates(o, r, m, in) ==
    /\ o.kind = "exit" /\ o.code = 0 => r # <<>> /\ r[1].code \in {"OK", "AlreadyExists"}
    /\ o.kind = "call" => r = <<>> /\ o.method = m /\ o.in = in

LEMMA OneCallCreates ==
    ASSUME NEW r, NEW m, NEW in, NEW o, o = OneCall(r, m, in, {"OK", "AlreadyExists"})
    PROVE  Creates(o, r, m, in)
<1>1. CASE r = <<>>
  <2>1. o.kind = "call" /\ o.method = m /\ o.in = in
    BY <1>1, OneCallCodes
  <2>2. o.kind # "exit"
    BY <2>1
  <2>. QED
    BY <1>1, <2>1, <2>2 DEF Creates
<1>2. CASE r # <<>>
  <2>1. o.kind = "exit" /\ (o.code = 0 => r[1].code \in {"OK", "AlreadyExists"})
    BY <1>2, OneCallCodes
  <2>2. o.kind # "call"
    BY <2>1
  <2>. QED
    BY <1>2, <2>1, <2>2 DEF Creates
<1>. QED
  BY <1>1, <1>2

LEMMA CreateSchemaStep ==
    ASSUME NEW a, NEW r
    PROVE  \E in : /\ Creates(createSchemaCmd(a, r), r, "CreateSchema", in)
                   /\ Key(in) = <<a.namespace, a.id>> /\ in.data = a.data
<1>. DEFINE in == [namespace_id |-> a.namespace, schema_id |-> a.id, data |-> a.data,
                   format |-> FormatValue(a.format), compatibility |-> CompatibilityValue(a.comp)]
<1>1. Key(in) = <<a.namespace, a.id>> /\ in.data = a.data
  BY DEF Key
<1>2. CASE a.data = Nil
  <2>1. createSchemaCmd(a, r) = Exit(FALSE)
    BY <1>2 DEF createSchemaCmd
  <2>2. Exit(FALSE).kind # "call"
    BY ExitCodes
  <2>3. Exit(FALSE).code # 0
    BY DEF Exit
  <2>. HIDE DEF in
  <2>4. Creates(createSchemaCmd(a, r), r, "CreateSchema", in)
    BY <2>1, <2>2, <2>3 DEF Creates
  <2>. QED
    BY <1>1, <2>4
<1>3. CASE a.data # Nil
  <2>1. createSchemaCmd(a, r) = OneCall(r, "CreateSchema", in, {"OK", "AlreadyExists"})
    BY <1>3 DEF createSchemaCmd
  <2>. HIDE DEF in
  <2>2. Creates(createSchemaCmd(a, r), r, "CreateSchema", in)
    BY <2>1, OneCallCreates
  <2>. QED
    BY <1>1, <2>2
<1>. QED
  BY <1>2, <1>3

LEMMA CreateNamespaceStep ==
    ASSUME NEW a, NEW r
    PROVE  \E in : Creates(createNamespaceCmd(a, r), r, "CreateNamespace", in) /\ in.id = a.id
<1>1. NamespaceArgs(a).id = a.id
  BY DEF NamespaceArgs
<1>2. createNamespaceCmd(a, r) = OneCall(r, "CreateNamespace", NamespaceArgs(a), {"OK", "AlreadyExists"})
  BY DEF createNamespaceCmd
<1>3. Creates(createNamespaceCmd(a, r), r, "CreateNamespace", NamespaceArgs(a))
  BY <1>2, OneCallCreates
<1>. QED
  BY <1>1, <1>3

LEMMA CreateCommands ==
    ASSUME NEW a, NEW r
    PROVE  /\ \E in : /\ Creates(RunE("schema create", a, r), r, "CreateSchema", in)
                      /\ Key(in) = <<a.namespace, a.id>> /\ in.data = a.data
           /\ \E in : Creates(RunE("namespace create", a, r), r, "CreateNamespace", in) /\ in.id = a.id
<1>1. RunE("schema create", a, r) = createSchemaCmd(a, r)
  BY DEF RunE
<1>2. RunE("namespace create", a, r) = createNamespaceCmd(a, r)
  BY DEF RunE
<1>3. \E in : /\ Creates(RunE("schema create", a, r), r, "CreateSchema", in)
              /\ Key(in) = <<a.namespace, a.id>> /\ in.data = a.data
  BY <1>1, CreateSchemaStep
<1>4. \E in : Creates(RunE("namespace create", a, r), r, "CreateNamespace", in) /\ in.id = a.id
  BY <1>2, CreateNamespaceStep
<1>. QED
  BY <1>3, <1>4

\* The calls of the commands that fetch.
LEMMA FetchCommands ==
    ASSUME NEW a, NEW r, Sequence(r), Len(r) <= 2, NEW name \in Fetching, NEW step, step = RunE(name, a, r),
           step.kind = "call"
    PROVE  /\ step.method \in {"GetSchema", "GetLatestSchema", "GetSchemaMetadata"}
           /\ Key(step.in) = <<a.namespace, a.id>>
           /\ r = <<>> => step.method \in {"GetSchema", "GetLatestSchema"}
           /\ r # <<>> => step.method = "GetSchemaMetadata" /\ r[1].code = "OK"
<1>. DEFINE f == fetchSchemaAndMeta(a, r)
            whole == [kind |-> "fetched", data |-> r[1].out.data, format |-> r[2].out.format]
<1>0. Len(r) = 0 <=> r = <<>>
  BY NoReplies
<1>1. step \in {downloadSchemaCmd(a, r), printSchemaCmd(a, r), graphSchemaCmd(a, r)}
  BY DEF RunE, Fetching
<1>2. (f.kind # "fetched" /\ step = f) \/ \E ok : step = Exit(ok)
  <2>. HIDE DEF f
  <2>. QED
    BY <1>1 DEF downloadSchemaCmd, printSchemaCmd, graphSchemaCmd, f
<1>3. \A ok : Exit(ok).kind # "call"
  BY ExitCodes
<1>4. step = f /\ f.kind = "call"
  BY <1>2, <1>3
<1>5. CASE r = <<>>
  <2>1. f \in {Call("GetSchema", VersionArgs(a, a.version)), Call("GetLatestSchema", SchemaArgs(a))}
    BY <1>5 DEF fetchSchemaAndMeta
  <2>. HIDE DEF f
  <2>. QED
    BY <1>4, <1>5, <2>1 DEF Call, Key, VersionArgs, SchemaArgs
<1>6. CASE Len(r) = 1 /\ r # <<>>
  <2>1. f = IF r[1].code = "OK" THEN Call("GetSchemaMetadata", SchemaArgs(a)) ELSE Exit(FALSE)
    BY <1>6 DEF fetchSchemaAndMeta
  <2>. HIDE DEF f
  <2>2. r[1].code = "OK" /\ f = Call("GetSchemaMetadata", SchemaArgs(a))
    BY <1>3, <1>4, <2>1
  <2>. QED
    BY <1>4, <1>6, <2>2 DEF Call, Key, SchemaArgs
<1>7. CASE Len(r) = 2 /\ r # <<>>
  <2>0. Len(r) # 1
    BY <1>7
  <2>1. f = IF r[2].code = "OK" THEN whole ELSE Exit(FALSE)
    BY <1>7, <2>0 DEF fetchSchemaAndMeta
  <2>2. whole.kind # "call"
    OBVIOUS
  <2>. HIDE DEF f, whole
  <2>. QED
    BY <1>3, <1>4, <2>1, <2>2
<1>8. r = <<>> \/ (Len(r) = 1 /\ r # <<>>) \/ (Len(r) = 2 /\ r # <<>>)
  <2>. DEFINE n == Len(r)
  <2>1. n \in Nat /\ n <= 2 /\ (n = 0 <=> r = <<>>)
    BY NoReplies
  <2>. HIDE DEF n
  <2>2. r = <<>> \/ (n = 1 /\ r # <<>>) \/ (n = 2 /\ r # <<>>)
    BY <2>1
  <2>. QED
    BY <2>2 DEF n
<1>. QED
  BY <1>5, <1>6, <1>7, <1>8

-----------------------------------------------------------------------------
(***************************************************************************)
(* The types of what is under way.                                         *)
(***************************************************************************)

\* What a call keeps between its steps, if anything, is what an upload keeps of
\* its file.
Uploading(c) ==
    /\ c.method \in UploadMethods /\ (c.method = "CreateSchema" => c.in.data # Empty)
    /\ Key(c.in) \in Keys /\ c.in.data \in Contents
Carries(c) == c.at = Nil \/ (Uploading(c) /\ Carried(c.at, c.in.data))

\* A call of user u: in its gRPC handler, in its HTTP handler, or over.
CallTyped(u, c) ==
    /\ c.via \in {"grpc", "gateway", "route"} /\ (c.via = "grpc" <=> u \in CliUsers)
    /\ c.via = "route" => c.method \in Routes
    /\ c.step # "done" => Carries(c)
    /\ \/ /\ c.step = "grpc" /\ c.via # "route"
          /\ c.method \in Methods /\ c.in \in RequestOf[c.method]
       \/ c.step = "http" /\ c.via = "route" /\ c.in \in RouteRequestOf[c.method]
       \/ /\ c.step = "http" /\ c.via = "gateway" /\ c.method \in DOMAIN PathOf
          /\ c.in \in PathOf[c.method] /\ c.body \in BodyOf(c.method)
       \/ /\ c.step = "done" /\ c.code \in Codes /\ (c.via # "route" => c.method \in Methods)
          /\ c.code = "OK" /\ c.via # "route" => c.out \in ResponseOf[c.method]

\* The handler of c is next.
AtHandler(c) == c.step = "grpc" \/ (c.step = "http" /\ c.via = "route")

LEMMA HandlersServe ==
    ASSUME NEW d \in Databases, NEW u, NEW c, CallTyped(u, c), AtHandler(c), NEW res,
           res \in {IF c.step = "grpc" THEN ServeGRPC(d, c.method, c.in) ELSE ServeRoute(d, c.method, c.in),
                    Refuse(d, "Unknown")}
    PROVE  \/ Begun(c.method, c.in, d, res)
           \/ /\ res.db \in Databases /\ res.code \in HandlerCodes
              /\ res.code = "OK" /\ c.via # "route" => res.out \in ResponseOf[c.method]
              /\ Effect(c.method, c.in, d, res) /\ Answer(c.method, c.in, d, res)
<1>1. CASE res = Refuse(d, "Unknown")
  <2>1. OnlyReads(d, d)
    BY DEF OnlyReads
  <2>2. res.db = d /\ res.code = "Unknown"
    BY <1>1 DEF Refuse
  <2>. QED
    BY <2>1, <2>2 DEF Effect, Answer, HandlerCodes
<1>2. CASE c.step = "grpc" /\ res = ServeGRPC(d, c.method, c.in)
  <2>1. c.method \in Methods /\ c.in \in RequestOf[c.method]
    BY <1>2 DEF CallTyped
  <2>2. \/ Begun(c.method, c.in, d, res)
        \/ Proper(res, ResponseOf[c.method]) /\ Effect(c.method, c.in, d, res) /\ Answer(c.method, c.in, d, res)
    BY <1>2, <2>1, ServeGRPCResult
  <2>. QED
    BY <2>2 DEF Proper
<1>3. CASE c.step = "http" /\ c.via = "route" /\ res = ServeRoute(d, c.method, c.in)
  <2>1. c.method \in Routes /\ c.in \in RouteRequestOf[c.method]
    BY <1>3 DEF CallTyped
  <2>2. \/ Begun(c.method, c.in, d, res)
        \/ /\ res.db \in Databases /\ res.code \in HandlerCodes
           /\ Effect(c.method, c.in, d, res) /\ Answer(c.method, c.in, d, res)
    BY <1>3, <2>1, ServeRouteResult
  <2>. QED
    BY <1>3, <2>2
<1>4. c.step = "http" => c.step # "grpc"
  OBVIOUS
<1>. QED
  BY <1>1, <1>2, <1>3, <1>4 DEF AtHandler

\* What the handlers do is a step of the database, with what is recorded of it.
LEMMA EffectRecorded ==
    ASSUME NEW u, NEW c, CallTyped(u, c), AtHandler(c), NEW res,
           db \in Databases, Effect(c.method, c.in, db, res)
    PROVE  DatabaseStep(db, events, res.db, Recorded(c, res))
<1>. DEFINE ev2 == Recorded(c, res)
<1>0. events \subseteq ev2
  BY DEF Recorded
<1>1. CASE OnlyReads(db, res.db)
  BY <1>0, <1>1 DEF DatabaseStep
<1>2. CASE /\ res.code = "OK" /\ c.method \in {"CreateNamespace", "UpdateNamespace"}
           /\ NamespaceWritten(db, res.db, c.in.id)
           /\ c.in.id # Blank \/ db.namespaces[c.in.id] # Nil
  <2>1. c.method \notin Routes
    BY <1>2 DEF Routes, RouteRequestOf
  <2>2. c.method \in Methods /\ c.in \in RequestOf[c.method]
    BY <2>1 DEF CallTyped, AtHandler
  <2>3. c.in.id \in NamespaceIds
    BY <1>2, <2>2, MessageParts
  <2>. QED
    BY <1>0, <1>2, <2>3 DEF DatabaseStep
<1>3. CASE SchemaEdited(db, res.db)
  BY <1>0, <1>3 DEF DatabaseStep
<1>4. CASE /\ res.code = "OK" /\ c.method \in {"DeleteNamespace", "DeleteSchema", "DeleteVersion"}
           /\ Removed(db, res.db)
  <2>1. "deleted" \in ev2
    BY <1>4 DEF Recorded, Events, UploadMethods
  <2>. QED
    BY <1>0, <1>4, <2>1 DEF DatabaseStep
<1>. QED
  BY <1>1, <1>2, <1>3, <1>4 DEF Effect

\* What the check of c said holds until something is deleted.
MetBy(d, ev, c) == "deleted" \notin ev => Met(d, Key(c.in), c.at)

\* The insert of an upload is one, too.
LEMMA UploadRecorded ==
    ASSUME NEW c, Uploading(c), Carried(c.at, c.in.data), MetBy(db, events, c), db \in Databases,
           NEW res, res.code = "OK", c.at.step = "insert",
           NewVersionStored(db, res.db, Key(c.in), c.at.meta, c.in.data)
    PROVE  DatabaseStep(db, events, res.db, Recorded(c, res))
<1>. DEFINE ev2 == Recorded(c, res)
            k == Key(c.in)
            at == c.at
            data == c.in.data
<1>0. /\ k \in Keys /\ data \in Contents /\ (c.method = "CreateSchema" => data # Empty)
      /\ at.meta \in Metadata /\ at.first \in BOOLEAN /\ <<at.meta.format, data>> \in Parses
      /\ c.method = "CreateSchema" \/ c.method = "HTTPUpload"
  BY DEF Uploading, UploadMethods, Carried
<1>1. ev2 = events \cup UploadEvents(c, db)
  <2>1. Events(c, db) = UploadEvents(c, db)
    BY <1>0 DEF Events, UploadMethods
  <2>. QED
    BY <2>1 DEF Recorded
<1>2. /\ Unchecked(at.meta.compatibility) => "unchecked" \in ev2
      /\ at.first /\ Latest(db, k) # 0 => "crossed" \in ev2
      /\ c.method = "HTTPUpload" /\ data = Empty => "emptyUpload" \in ev2
  BY <1>1 DEF UploadEvents
<1>. HIDE DEF ev2
<1>3. Calm(ev2) => Latest(db, k) = 0 \/ (db.schemas[k] # Nil /\ db.schemas[k].format = at.meta.format)
  <2>. SUFFICES ASSUME Calm(ev2), Latest(db, k) # 0
                PROVE  db.schemas[k] # Nil /\ db.schemas[k].format = at.meta.format
    OBVIOUS
  <2>1. ~at.first /\ ~Unchecked(at.meta.compatibility) /\ "deleted" \notin events
    BY <1>0, <1>1, <1>2 DEF Calm
  <2>. QED
    BY <2>1 DEF MetBy, Met
<1>4. Uploaded(db, ev2, res.db, k, at.meta, data)
  BY <1>0, <1>2, <1>3 DEF Uploaded
<1>5. events \subseteq ev2
  BY <1>1
<1>. HIDE DEF k, at, data
<1>6. k \in Keys /\ data \in Contents /\ at.meta \in Metadata
  BY <1>0
<1>. QED
  BY <1>4, <1>5, <1>6 DEF DatabaseStep, ev2

\* A command line: what runs, with which arguments, and what it has heard.
CommandShape(c) ==
    c = [name |-> c.name, args |-> c.args, replies |-> c.replies, state |-> c.state, code |-> c.code]
CommandTyped(c) ==
    /\ CommandShape(c)
    /\ c.state \in {"idle", "dial", "ready", "waiting"} /\ c.code \in {0, 1}
    /\ Sequence(c.replies)
    /\ c.name # Nil =>
         c.name \in CommandNames /\ c.args \in ArgsOf(c.name) /\ Len(c.replies) <= CallsOf(c.name)
    /\ c.state # "idle" => c.name # Nil

\* The call that a waiting command has made is the one it makes next.
StepOf(c) == RunE(c.name, c.args, c.replies)
Asked(c, k) ==
    c.state = "waiting" =>
        /\ StepOf(c).kind = "call" /\ k.method = StepOf(c).method
        /\ k.step # "done" => k.in = StepOf(c).in

CallsTyped == \A u \in Users : call[u] # Nil => CallTyped(u, call[u])
CommandsTyped ==
    /\ cmd = [u \in CliUsers |-> cmd[u]]
    /\ \A u \in CliUsers : CommandTyped(cmd[u]) /\ Asked(cmd[u], call[u])
Typed ==
    /\ db \in Databases /\ phase \in Phases /\ forced \in BOOLEAN /\ ops \in Nat
    /\ CallsOfUsers /\ CallsTyped /\ CommandsTyped

LEMMA NewCallTyped ==
    /\ \A u \in CliUsers, m \in Methods : \A in \in RequestOf[m] :
         CallTyped(u, Pending("grpc", m, in, NoBody, "grpc"))
    /\ \A u \in HttpUsers, q \in HttpRequests :
         CallTyped(u, Pending(q.via, q.method, q.path, q.body, "http"))
<1>1. ASSUME NEW u \in CliUsers, NEW m \in Methods, NEW in \in RequestOf[m]
      PROVE  CallTyped(u, Pending("grpc", m, in, NoBody, "grpc"))
  BY DEF CallTyped, Pending, Carries
<1>2. ASSUME NEW u \in HttpUsers, NEW q \in HttpRequests
      PROVE  CallTyped(u, Pending(q.via, q.method, q.path, q.body, "http"))
  <2>. DEFINE c == Pending(q.via, q.method, q.path, q.body, "http")
  <2>1. /\ c.via = q.via /\ c.method = q.method /\ c.in = q.path /\ c.body = q.body /\ c.step = "http"
        /\ Carries(c)
    BY DEF Pending, Carries
  <2>2. u \notin CliUsers
    BY UsersAssumption
  <2>3. \/ q.via = "route" /\ q.method \in Routes /\ q.path \in RouteRequestOf[q.method]
        \/ /\ q.via = "gateway" /\ q.method \in DOMAIN PathOf
           /\ q.path \in PathOf[q.method] /\ q.body \in BodyOf(q.method)
    BY RequestsAssumption
  <2>. SUFFICES CallTyped(u, c)
    OBVIOUS
  <2>. HIDE DEF c
  <2>4. CASE q.via = "route" /\ q.method \in Routes /\ q.path \in RouteRequestOf[q.method]
    BY <2>1, <2>2, <2>4 DEF CallTyped
  <2>5. CASE /\ q.via = "gateway" /\ q.method \in DOMAIN PathOf
             /\ q.path \in PathOf[q.method] /\ q.body \in BodyOf(q.method)
    BY <2>1, <2>2, <2>5 DEF CallTyped
  <2>. QED
    BY <2>3, <2>4, <2>5
<1>. QED
  BY <1>1, <1>2

\* A call over HTTP is never one of a command line.
LEMMA CallMethods ==
    ASSUME NEW u, NEW c, CallTyped(u, c), c.via # "route" PROVE c.method \in Methods
<1>1. CASE c.step = "http" /\ c.via = "gateway" /\ c.method \in DOMAIN PathOf
           /\ c.in \in PathOf[c.method] /\ c.body \in BodyOf(c.method)
  BY <1>1, Translated
<1>. QED
  BY <1>1 DEF CallTyped

LEMMA OverCallTyped ==
    ASSUME NEW u, NEW c, CallTyped(u, c), NEW code \in Codes, NEW out,
           code = "OK" /\ c.via # "route" => out \in ResponseOf[c.method]
    PROVE  CallTyped(u, Done(c, code, out))
<1>. DEFINE o == Done(c, code, out)
<1>1. o.via = c.via /\ o.method = c.method /\ o.step = "done" /\ o.code = code /\ o.out = out
  BY DEF Done
<1>2. c.via # "route" => c.method \in Methods
  BY CallMethods
<1>. HIDE DEF o
<1>3. /\ o.via \in {"grpc", "gateway", "route"} /\ (o.via = "grpc" <=> u \in CliUsers)
      /\ o.via = "route" => o.method \in Routes
  BY <1>1 DEF CallTyped
<1>. QED
  BY <1>1, <1>2, <1>3 DEF CallTyped, o

LEMMA GatewayCallTyped ==
    ASSUME NEW u, NEW c, CallTyped(u, c), c.via = "gateway", c.step = "http",
           NEW in, in = Translate(c.method, c.in, c.body), in # Nil
    PROVE  CallTyped(u, Pending("gateway", c.method, in, c.body, "grpc"))
<1>1. c.method \in DOMAIN PathOf /\ c.in \in PathOf[c.method] /\ c.body \in BodyOf(c.method)
  BY DEF CallTyped
<1>2. c.method \in Methods /\ in \in RequestOf[c.method]
  BY <1>1, Translated
<1>3. u \notin CliUsers
  BY DEF CallTyped
<1>. QED
  BY <1>2, <1>3 DEF CallTyped, Pending, Carries

\* One user's call is replaced by a typed one, or taken away.
LEMMA CallsStayTyped ==
    ASSUME CallsOfUsers, CallsTyped, NEW u \in Users, NEW x, x = Nil \/ CallTyped(u, x),
           call' = [call EXCEPT ![u] = x]
    PROVE  (CallsOfUsers /\ CallsTyped)' /\ call'[u] = x
<1>1. /\ CallsOfUsers' /\ call'[u] = x
      /\ \A w \in Users : w # u => call'[w] = call[w]
  BY CallReplaced
<1>2. ASSUME NEW w \in Users, call'[w] # Nil PROVE CallTyped(w, call'[w])
  BY <1>1, <1>2 DEF CallsTyped
<1>. QED
  BY <1>1, <1>2 DEF CallsTyped

\* One user's command line is replaced.
LEMMA CommandsStayTyped ==
    ASSUME CommandsTyped, NEW u \in CliUsers, NEW x, cmd' = [cmd EXCEPT ![u] = x],
           CommandTyped(x), Asked(x, call'[u]),
           \A w \in CliUsers : w # u => call'[w] = call[w]
    PROVE  CommandsTyped'
<1>1. /\ cmd' = [w \in CliUsers |-> cmd'[w]] /\ cmd'[u] = x
      /\ \A w \in CliUsers : w # u => cmd'[w] = cmd[w]
  BY DEF CommandsTyped
<1>2. ASSUME NEW w \in CliUsers PROVE CommandTyped(cmd'[w]) /\ Asked(cmd'[w], call'[w])
  BY <1>1, <1>2 DEF CommandsTyped
<1>. QED
  BY <1>1, <1>2 DEF CommandsTyped

\* A command line whose state changes, or that exits, is the same one.
LEMMA CommandMoves ==
    ASSUME NEW c, CommandTyped(c), c.state # "idle", NEW code \in {0, 1}
    PROVE  /\ \A s \in {"ready", "waiting"} :
                LET d == [c EXCEPT !.state = s]
                IN  CommandTyped(d) /\ d.state = s /\ StepOf(d) = StepOf(c)
           /\ LET d == [c EXCEPT !.state = "idle", !.code = code]
              IN  CommandTyped(d) /\ d.state = "idle"
<1>1. CommandShape(c) /\ c.name # Nil
  BY DEF CommandTyped
<1>2. ASSUME NEW s \in {"ready", "waiting"}, NEW d, d = [c EXCEPT !.state = s]
      PROVE  CommandTyped(d) /\ d.state = s /\ StepOf(d) = StepOf(c)
  <2>1. d = [name |-> c.name, args |-> c.args, replies |-> c.replies, state |-> s, code |-> c.code]
    BY <1>1, <1>2 DEF CommandShape
  <2>2. /\ CommandShape(d) /\ d.name = c.name /\ d.args = c.args /\ d.replies = c.replies
        /\ d.state = s /\ d.code = c.code
    BY <2>1 DEF CommandShape
  <2>. QED
    BY <2>2 DEF CommandTyped, StepOf
<1>3. ASSUME NEW d, d = [c EXCEPT !.state = "idle", !.code = code]
      PROVE  CommandTyped(d) /\ d.state = "idle"
  <2>1. d = [name |-> c.name, args |-> c.args, replies |-> c.replies, state |-> "idle", code |-> code]
    BY <1>1, <1>3 DEF CommandShape
  <2>2. /\ CommandShape(d) /\ d.name = c.name /\ d.args = c.args /\ d.replies = c.replies
        /\ d.state = "idle" /\ d.code = code
    BY <2>1 DEF CommandShape
  <2>. QED
    BY <2>2 DEF CommandTyped
<1>. QED
  BY <1>2, <1>3

\* A command line that hears a reply while it has calls left.
Hears(c, x, d) ==
    /\ c.state # "idle" /\ Len(c.replies) < CallsOf(c.name)
    /\ \/ d = [c EXCEPT !.state = "ready", !.replies = Append(@, x)]
       \/ c.state = "ready" /\ d = [c EXCEPT !.replies = Append(@, x)]

LEMMA CommandHears ==
    ASSUME NEW c, CommandTyped(c), NEW x, NEW d, Hears(c, x, d)
    PROVE  /\ CommandTyped(d) /\ d.state = "ready"
           /\ d.name = c.name /\ d.args = c.args /\ d.replies = Append(c.replies, x)
<1>. DEFINE q == Append(c.replies, x)
<1>0. /\ c.state # "idle" /\ Len(c.replies) < CallsOf(c.name)
      /\ \/ d = [c EXCEPT !.state = "ready", !.replies = Append(@, x)]
         \/ c.state = "ready" /\ d = [c EXCEPT !.replies = Append(@, x)]
  BY DEF Hears
<1>1. CommandShape(c) /\ c.name # Nil
  BY <1>0 DEF CommandTyped
<1>2. Sequence(q) /\ Len(c.replies) \in Nat /\ Len(q) = Len(c.replies) + 1
  <2>. DEFINE r == c.replies
  <2>1. Sequence(r) /\ q = Append(r, x)
    BY DEF CommandTyped
  <2>. SUFFICES Sequence(q) /\ Len(r) \in Nat /\ Len(q) = Len(r) + 1
    OBVIOUS
  <2>. HIDE DEF q, r
  <2>. QED
    BY <2>1, ReplyAppended
<1>3. CallsOf(c.name) \in Nat
  BY DEF CallsOf
<1>4. Len(q) <= CallsOf(c.name)
  BY <1>0, <1>2, <1>3
<1>5. d = [name |-> c.name, args |-> c.args, replies |-> q, state |-> "ready", code |-> c.code]
  BY <1>0, <1>1 DEF CommandShape
<1>. HIDE DEF q
<1>6. /\ CommandShape(d) /\ d.name = c.name /\ d.args = c.args /\ d.replies = q
      /\ d.state = "ready" /\ d.code = c.code
  BY <1>5 DEF CommandShape
<1>. QED
  BY <1>1, <1>2, <1>4, <1>6 DEF CommandTyped, q

LEMMA NewCommandTyped ==
    ASSUME NEW c \in Commands, NEW d,
           LET first == BeforeDial(c.name, c.args)
           IN  d = [name |-> c.name, args |-> c.args, replies |-> <<>>,
                    state |-> IF first.kind = "exit" THEN "idle" ELSE "dial",
                    code |-> IF first.kind = "exit" THEN first.code ELSE 0]
    PROVE  /\ CommandTyped(d) /\ d.state \in {"idle", "dial"} /\ d.replies = <<>>
           /\ d.name = c.name /\ d.args = c.args
           /\ d.state = "idle" => /\ BeforeDial(c.name, c.args).kind = "exit"
                                  /\ d.code = BeforeDial(c.name, c.args).code
<1>. DEFINE first == BeforeDial(c.name, c.args)
<1>1. c.name \in CommandNames /\ c.args \in ArgsOf(c.name)
  BY CommandsAssumption
<1>2. first.kind = "exit" => first.code \in {0, 1}
  BY <1>1, BeforeDialStep
<1>. HIDE DEF first
<1>3. /\ d.name = c.name /\ d.args = c.args /\ d.replies = <<>>
      /\ d.state = IF first.kind = "exit" THEN "idle" ELSE "dial"
      /\ d.code = IF first.kind = "exit" THEN first.code ELSE 0
      /\ CommandShape(d)
  BY DEF first, CommandShape
<1>4. Sequence(d.replies) /\ Len(d.replies) <= CallsOf(d.name)
  BY <1>3, NoReplies DEF CallsOf
<1>5. d.state \in {"idle", "dial"} /\ d.code \in {0, 1} /\ d.name # Nil
  BY <1>1, <1>2, <1>3, NoNameAssumption
<1>6. CommandTyped(d)
  BY <1>1, <1>3, <1>4, <1>5 DEF CommandTyped
<1>7. d.state = "idle" => first.kind = "exit" /\ d.code = first.code
  BY <1>3
<1>. QED
  BY <1>3, <1>5, <1>6, <1>7 DEF first

-----------------------------------------------------------------------------
(***************************************************************************)
(* One lemma per action on Typed and on what else it may change.           *)
(***************************************************************************)
\* A call that keeps nothing of a check; of the others, what the check said holds.
Fresh(c) == c = Nil \/ c.step = "done" \/ c.at = Nil
AllMet == \A u \in Users : Fresh(call[u]) \/ MetBy(db, events, call[u])
Trusted == Calm(events) => Sound(db)

LEMMA GoesOnTyped ==
    ASSUME NEW u, NEW c, CallTyped(u, c), c.step # "done", Uploading(c), NEW at, Carried(at, c.in.data),
           NEW x, x = GoesOn(c, at)
    PROVE  /\ CallTyped(u, x)
           /\ x.method = c.method /\ x.in = c.in /\ x.step = c.step /\ x.at = at
<1>1. /\ x.via = c.via /\ x.method = c.method /\ x.in = c.in /\ x.body = c.body /\ x.step = c.step
      /\ x.at = at
  BY DEF GoesOn
<1>2. Carries(x)
  BY <1>1 DEF Carries, Uploading
<1>. QED
  BY <1>1, <1>2 DEF CallTyped

\* A handler, or the next step of an upload: it goes on, or its answer is one of
\* the call's method and holds of the database it leaves.
LEMMA ServedResult ==
    ASSUME Typed, AllMet, NEW u \in Users, NEW c, c = call[u], Running(u), AtHandler(c),
           NEW res, res = Served(c)
    PROVE  /\ DatabaseStep(db, events, res.db, Recorded(c, res))
           /\ \/ /\ res.code = "more" /\ Uploading(c) /\ Carried(res.out, c.in.data)
                 /\ Met(res.db, Key(c.in), res.out) \/ "deleted" \in events
              \/ /\ res.code \in HandlerCodes
                 /\ res.code = "OK" /\ c.via # "route" => res.out \in ResponseOf[c.method]
                 /\ c.via = "grpc" /\ Trusted
                      => Kept(res.db, Recorded(c, res), c.method, c.in, res.code, res.out)
<1>0. /\ db \in Databases /\ CallTyped(u, c) /\ c # Nil /\ c.step # "done"
      /\ c.step = "grpc" \/ (c.step = "http" /\ c.step # "grpc" /\ c.via = "route")
      /\ OnlyReads(db, db)
  BY DEF Typed, CallsTyped, Running, AtHandler, OnlyReads
<1>1. res.code # "OK" /\ OnlyReads(db, res.db) => DatabaseStep(db, events, res.db, Recorded(c, res))
  BY DEF DatabaseStep, Recorded
<1>2. c.via = "grpc" => c.method \in Methods /\ c.in \in RequestOf[c.method]
  BY <1>0 DEF CallTyped
<1>3. CASE ~DbOpen \/ c.at = Nil
  <2>1. res \in {IF c.step = "grpc" THEN ServeGRPC(db, c.method, c.in) ELSE ServeRoute(db, c.method, c.in),
                 Refuse(db, "Unknown")}
    BY <1>0, <1>3 DEF Served
  <2>2. CASE Begun(c.method, c.in, db, res)
    <3>1. res.code = "more" /\ OnlyReads(db, res.db)
      BY <2>2 DEF Begun, Continues
    <3>. QED
      BY <1>1, <2>2, <3>1 DEF Begun, Continues, Uploading
  <2>3. CASE /\ res.db \in Databases /\ res.code \in HandlerCodes
             /\ res.code = "OK" /\ c.via # "route" => res.out \in ResponseOf[c.method]
             /\ Effect(c.method, c.in, db, res) /\ Answer(c.method, c.in, db, res)
    <3>1. DatabaseStep(db, events, res.db, Recorded(c, res))
      BY <1>0, <2>3, EffectRecorded
    <3>2. ASSUME c.via = "grpc", Trusted
          PROVE  Kept(res.db, Recorded(c, res), c.method, c.in, res.code, res.out)
      BY <1>0, <1>2, <2>3, <3>1, <3>2, AnswerKept DEF Trusted
    <3>. QED
      BY <2>3, <3>1, <3>2
  <2>. QED
    BY <1>0, <2>1, <2>2, <2>3, HandlersServe
<1>4. CASE DbOpen /\ c.at # Nil
  <2>. DEFINE k == Key(c.in)
              at == c.at
              data == c.in.data
  <2>1. Uploading(c) /\ Carried(at, data) /\ k \in Keys /\ data \in Contents
    BY <1>0, <1>4 DEF CallTyped, Carries, Uploading
  <2>2. MetBy(db, events, c)
    BY <1>0, <1>4 DEF AllMet, Fresh
  <2>3. res = Store(db, k, at, data)
    BY <1>4 DEF Served
  <2>4. CASE /\ res.code = "more" /\ OnlyReads(db, res.db)
             /\ Carried(res.out, data) /\ res.out.meta = at.meta /\ res.out.first = at.first
    <3>1. Met(res.db, k, res.out) \/ "deleted" \in events
      BY <2>2, <2>4 DEF MetBy, Met, OnlyReads
    <3>. QED
      BY <1>1, <2>1, <2>4, <3>1
  <2>5. CASE /\ Proper(res, CreateSchemaResponse)
             /\ res.code \in {"OK", "AlreadyExists"} => \E v \in Numbers : res.db.versions[k][v] = data
             /\ \/ OnlyReads(db, res.db)
                \/ /\ res.code = "OK" /\ at.step = "insert"
                   /\ NewVersionStored(db, res.db, k, at.meta, data)
    <3>1. DatabaseStep(db, events, res.db, Recorded(c, res))
      <4>1. CASE OnlyReads(db, res.db)
        BY <4>1 DEF DatabaseStep, Recorded
      <4>2. CASE /\ res.code = "OK" /\ at.step = "insert"
                 /\ NewVersionStored(db, res.db, k, at.meta, data)
        BY <1>0, <2>1, <2>2, <4>2, UploadRecorded
      <4>. QED
        BY <2>5, <4>1, <4>2
    <3>2. c.via # "route" => c.method = "CreateSchema"
      <4>1. c.via # "route" => c.method \in Methods
        BY <1>0, CallMethods
      <4>. QED
        BY <2>1, <4>1, MethodNames DEF Uploading, UploadMethods
    <3>3. res.code = "OK" /\ c.via # "route" => res.out \in ResponseOf[c.method]
      BY <2>5, <3>2, MessagesOf DEF Proper
    <3>4. c.via = "grpc" => Kept(res.db, Recorded(c, res), c.method, c.in, res.code, res.out)
      BY <2>5, <3>2 DEF Kept
    <3>. QED
      BY <2>5, <3>1, <3>3, <3>4 DEF Proper
  <2>. HIDE DEF k, at, data
  <2>6. \/ /\ res.code = "more" /\ OnlyReads(db, res.db)
           /\ Carried(res.out, data) /\ res.out.meta = at.meta /\ res.out.first = at.first
        \/ /\ Proper(res, CreateSchemaResponse)
           /\ res.code \in {"OK", "AlreadyExists"} => \E v \in Numbers : res.db.versions[k][v] = data
           /\ \/ OnlyReads(db, res.db)
              \/ /\ res.code = "OK" /\ at.step = "insert"
                 /\ NewVersionStored(db, res.db, k, at.meta, data)
    BY <1>0, <2>1, <2>3, StoreResult
  <2>. QED
    BY <2>4, <2>5, <2>6
<1>. QED
  BY <1>3, <1>4

\* A call goes on, or ends; it is given up only when the process has closed the
\* gateway's connection.
LEMMA Answered ==
    ASSUME Typed, AllMet, NEW u \in Users, Handle(u) \/ GatewayFails(u)
    PROVE  /\ DatabaseStep(db, events, db', events')
           /\ Running(u) /\ UNCHANGED <<phase, forced, cmd, ops>>
           /\ \E x :
                /\ call' = [call EXCEPT ![u] = x]
                /\ CallTyped(u, x) /\ x.method = call[u].method
                /\ x.step # "done" => x.in = call[u].in /\ MetBy(db', events', x)
                /\ x.step = "done" => x.code # "reset" /\ (x.code = "Canceled" => ~ConnOpen)
                /\ x.step = "done" /\ call[u].via = "grpc" /\ Trusted
                     => Kept(db', events', call[u].method, call[u].in, x.code, x.out)
<1>. DEFINE c == call[u]
<1>0. db \in Databases
  BY DEF Typed
<1>1. Running(u) /\ CallTyped(u, c) /\ AtHandler(c) /\ c.step # "done"
  <2>1. Running(u) /\ (c.step = "grpc" \/ c.via = "route")
    BY DEF Handle, GatewayFails, InGRPC, Running
  <2>2. c # Nil /\ c.step # "done"
    BY <2>1 DEF Running
  <2>3. CallTyped(u, c)
    BY <2>2 DEF Typed, CallsTyped
  <2>. QED
    BY <2>1, <2>2, <2>3 DEF CallTyped, AtHandler
<1>2. UNCHANGED <<phase, forced, cmd, ops>>
  BY DEF Handle, GatewayFails
<1>3. CASE Handle(u)
  <2>1. PICK res : /\ res = Served(c) /\ db' = res.db /\ events' = Recorded(c, res)
                   /\ call' = [call EXCEPT ![u] = CallAfter(c, res)]
    BY <1>3 DEF Handle
  <2>2. DatabaseStep(db, events, db', events')
    BY <1>1, <2>1, ServedResult
  <2>3. CASE /\ res.code = "more" /\ Uploading(c) /\ Carried(res.out, c.in.data)
             /\ Met(res.db, Key(c.in), res.out) \/ "deleted" \in events
    <3>. DEFINE x == GoesOn(c, res.out)
    <3>1. call' = [call EXCEPT ![u] = x]
      BY <2>1, <2>3 DEF CallAfter
    <3>2. CallTyped(u, x) /\ x.method = c.method /\ x.in = c.in /\ x.step = c.step /\ x.at = res.out
      BY <1>1, <2>3, GoesOnTyped
    <3>3. events' = events
      BY <2>1, <2>3 DEF Recorded
    <3>. HIDE DEF x
    <3>4. MetBy(db', events', x)
      BY <2>1, <2>3, <3>2, <3>3 DEF MetBy
    <3>. QED
      BY <1>1, <1>2, <2>2, <3>1, <3>2, <3>4
  <2>4. CASE /\ res.code \in HandlerCodes
             /\ res.code = "OK" /\ c.via # "route" => res.out \in ResponseOf[c.method]
             /\ c.via = "grpc" /\ Trusted
                  => Kept(res.db, Recorded(c, res), c.method, c.in, res.code, res.out)
    <3>. DEFINE x == Done(c, res.code, res.out)
    <3>1. res.code \in Codes /\ res.code # "reset" /\ res.code # "Canceled" /\ res.code # "more"
      BY <2>4 DEF HandlerCodes, Codes
    <3>2. call' = [call EXCEPT ![u] = x]
      BY <2>1, <3>1 DEF CallAfter
    <3>3. CallTyped(u, x)
      BY <1>1, <2>4, <3>1, OverCallTyped
    <3>4. x.method = c.method /\ x.step = "done" /\ x.code = res.code /\ x.out = res.out
      BY DEF Done
    <3>. HIDE DEF x
    <3>5. c.via = "grpc" /\ Trusted => Kept(db', events', c.method, c.in, x.code, x.out)
      BY <2>1, <2>4, <3>4
    <3>. QED
      BY <1>1, <1>2, <2>2, <3>1, <3>2, <3>3, <3>4, <3>5
  <2>. QED
    BY <1>1, <2>1, <2>3, <2>4, ServedResult
<1>4. CASE GatewayFails(u)
  <2>. DEFINE code == IF ConnOpen THEN "Unavailable" ELSE "Canceled"
              x == Done(c, code, Nil)
  <2>1. PICK res : /\ res \in {Served(c), Refuse(db, "Canceled")}
                   /\ db' = res.db /\ events' = Recorded(c, res)
    BY <1>4 DEF GatewayFails
  <2>2. call' = [call EXCEPT ![u] = x] /\ c.via = "gateway"
    BY <1>4 DEF GatewayFails
  <2>3. DatabaseStep(db, events, db', events')
    <3>1. CASE res = Served(c)
      BY <1>1, <2>1, <3>1, ServedResult
    <3>2. CASE res = Refuse(db, "Canceled")
      <4>1. db' = db /\ events' = events
        BY <2>1, <3>2 DEF Refuse, Recorded
      <4>. QED
        BY <1>0, <4>1 DEF DatabaseStep, OnlyReads
    <3>. QED
      BY <2>1, <3>1, <3>2
  <2>4. code \in Codes /\ code # "OK" /\ code # "reset" /\ (code = "Canceled" => ~ConnOpen)
    BY DEF Codes
  <2>. HIDE DEF code
  <2>5. CallTyped(u, x)
    BY <1>1, <2>4, OverCallTyped
  <2>6. x.method = c.method /\ x.step = "done" /\ x.code = code
    BY DEF Done
  <2>. HIDE DEF x
  <2>. QED
    BY <1>1, <1>2, <2>2, <2>3, <2>4, <2>5, <2>6
<1>. QED
  BY <1>3, <1>4

\* The gateway makes a typed call, or ends with an error of its own.
LEMMA GatewayStep ==
    ASSUME Typed, NEW u \in Users, Gateway(u)
    PROVE  /\ UNCHANGED <<db, phase, forced, cmd, ops, events>>
           /\ Running(u) /\ call[u].via = "gateway"
           /\ \E x : /\ call' = [call EXCEPT ![u] = x] /\ CallTyped(u, x) /\ Fresh(x)
                     /\ x.step = "done" => x.code # "reset" /\ (x.code = "Canceled" => ~ConnOpen)
<1>. DEFINE c == call[u]
            in == Translate(c.method, c.in, c.body)
<1>1. /\ UNCHANGED <<db, phase, forced, cmd, ops, events>>
      /\ Running(u) /\ c.via = "gateway" /\ c.step = "http"
  BY DEF Gateway
<1>2. CallTyped(u, c)
  BY <1>1 DEF Running, Typed, CallsTyped
<1>3. \/ in # Nil /\ call' = [call EXCEPT ![u] = Pending("gateway", c.method, in, c.body, "grpc")]
      \/ call' = [call EXCEPT ![u] = Done(c, "InvalidArgument", Nil)]
      \/ ~ConnOpen /\ call' = [call EXCEPT ![u] = Done(c, "Canceled", Nil)]
  BY DEF Gateway
<1>4. CASE in # Nil /\ call' = [call EXCEPT ![u] = Pending("gateway", c.method, in, c.body, "grpc")]
  <2>. DEFINE x == Pending("gateway", c.method, in, c.body, "grpc")
  <2>1. CallTyped(u, x)
    BY <1>1, <1>2, <1>4, GatewayCallTyped
  <2>2. x.step # "done" /\ Fresh(x)
    BY DEF Pending, Fresh
  <2>. HIDE DEF in
  <2>. QED
    BY <1>1, <1>4, <2>1, <2>2
<1>5. ASSUME NEW code \in Codes, code # "OK" /\ code # "reset" /\ (code = "Canceled" => ~ConnOpen),
             call' = [call EXCEPT ![u] = Done(c, code, Nil)]
      PROVE  \E x : /\ call' = [call EXCEPT ![u] = x] /\ CallTyped(u, x) /\ Fresh(x)
                    /\ x.step = "done" => x.code # "reset" /\ (x.code = "Canceled" => ~ConnOpen)
  <2>1. CallTyped(u, Done(c, code, Nil)) /\ Done(c, code, Nil).code = code
    BY <1>2, <1>5, OverCallTyped DEF Done
  <2>2. Fresh(Done(c, code, Nil))
    BY DEF Done, Fresh
  <2>. QED
    BY <1>5, <2>1, <2>2
<1>. HIDE DEF in, c
<1>. QED
  BY <1>1, <1>3, <1>4, <1>5 DEF Codes, c

\* What an action of a command line does to it, x, and to its call.
Same(u, x) ==
    x.name = cmd[u].name /\ x.args = cmd[u].args /\ x.replies = cmd[u].replies
Started(x) ==
    /\ UNCHANGED call /\ x.replies = <<>> /\ x.state \in {"idle", "dial"}
    /\ x.state = "idle" => BeforeDial(x.name, x.args).kind = "exit" /\ x.code = BeforeDial(x.name, x.args).code
Exited(u, x) ==
    /\ UNCHANGED call /\ Same(u, x) /\ x.state = "idle"
    /\ x.code = 0 => StepOf(cmd[u]).kind = "exit" /\ StepOf(cmd[u]).code = 0
Connected(u, x) == UNCHANGED call /\ Same(u, x) /\ x.state = "ready"
Called(u, x) ==
    /\ Same(u, x) /\ x.state = "waiting" /\ Calls(StepOf(cmd[u])) /\ TakesGRPC
    /\ call' = [call EXCEPT ![u] =
          Pending("grpc", StepOf(cmd[u]).method, StepOf(cmd[u]).in, NoBody, "grpc")]
Replied(u, x, code, out) ==
    /\ x.name = cmd[u].name /\ x.args = cmd[u].args /\ x.state = "ready"
    /\ x.replies = Append(cmd[u].replies, [code |-> code, out |-> out])
    /\ Calls(StepOf(cmd[u])) /\ Len(cmd[u].replies) < CallsOf(cmd[u].name)
    /\ \/ UNCHANGED call /\ code = "Unavailable"
       \/ /\ call' = [call EXCEPT ![u] = Nil] /\ cmd[u].state = "waiting"
          /\ call[u].step = "done" /\ code = call[u].code /\ out = call[u].out

CommandActs(u, x) ==
    /\ cmd' = [cmd EXCEPT ![u] = x] /\ CommandTyped(x)
    /\ \/ Started(x) \/ Exited(u, x) \/ Connected(u, x) \/ Called(u, x)
       \/ \E code, out : Replied(u, x, code, out)

LEMMA CommandActions ==
    ASSUME Typed, NEW u \in CliUsers, RunCommand(u) \/ Commanding(u)
    PROVE  /\ UNCHANGED <<db, phase, forced, events>> /\ ops' \in Nat
           /\ \E x : CommandActs(u, x)
<1>. DEFINE c == cmd[u]
            step == StepOf(c)
<1>0. CommandTyped(c) /\ Asked(c, call[u])
  BY DEF Typed, CommandsTyped
<1>1. c.state # "idle" => Exits(step) \/ (Calls(step) /\ Len(c.replies) < CallsOf(c.name))
  BY <1>0, CommandStep DEF CommandTyped, StepOf
<1>2. CASE RunCommand(u)
  <2>1. UNCHANGED <<db, phase, forced, events, call>> /\ ops' \in Nat
    BY <1>2 DEF RunCommand, Typed
  <2>0. PICK k \in Commands : \E x :
          /\ cmd' = [cmd EXCEPT ![u] = x]
          /\ LET first == BeforeDial(k.name, k.args)
             IN  x = [name |-> k.name, args |-> k.args, replies |-> <<>>,
                      state |-> IF first.kind = "exit" THEN "idle" ELSE "dial",
                      code |-> IF first.kind = "exit" THEN first.code ELSE 0]
    BY <1>2 DEF RunCommand
  <2>2. PICK x :
          /\ cmd' = [cmd EXCEPT ![u] = x]
          /\ LET first == BeforeDial(k.name, k.args)
             IN  x = [name |-> k.name, args |-> k.args, replies |-> <<>>,
                      state |-> IF first.kind = "exit" THEN "idle" ELSE "dial",
                      code |-> IF first.kind = "exit" THEN first.code ELSE 0]
    BY <2>0
  <2>3. /\ CommandTyped(x) /\ x.state \in {"idle", "dial"} /\ x.replies = <<>>
        /\ x.name = k.name /\ x.args = k.args
        /\ x.state = "idle" => /\ BeforeDial(k.name, k.args).kind = "exit"
                               /\ x.code = BeforeDial(k.name, k.args).code
    BY <2>2, NewCommandTyped
  <2>4. Started(x)
    BY <2>1, <2>3 DEF Started
  <2>. QED
    BY <2>1, <2>2, <2>3, <2>4 DEF CommandActs
<1>3. CASE Dial(u) \/ DialFails(u)
  <2>1. UNCHANGED <<db, phase, forced, events, call, ops>> /\ c.state = "dial"
    BY <1>3 DEF Dial, DialFails
  <2>2. CASE DialFails(u)
    <3>. DEFINE x == [c EXCEPT !.state = "idle", !.code = 1]
    <3>1. cmd' = [cmd EXCEPT ![u] = x]
      BY <2>2 DEF DialFails, CommandExits
    <3>2. CommandTyped(x) /\ x.state = "idle"
      BY <1>0, <2>1, CommandMoves
    <3>3. Same(u, x) /\ x.code # 0
      BY <1>0 DEF Same, CommandTyped, CommandShape
    <3>. HIDE DEF x
    <3>. QED
      BY <2>1, <3>1, <3>2, <3>3 DEF CommandActs, Exited, Typed
  <2>3. CASE Dial(u)
    <3>. DEFINE x == [c EXCEPT !.state = "ready"]
    <3>1. cmd' = [cmd EXCEPT ![u] = x]
      BY <2>3 DEF Dial
    <3>2. CommandTyped(x) /\ x.state = "ready"
      BY <1>0, <2>1, CommandMoves
    <3>3. Same(u, x)
      BY <1>0 DEF Same, CommandTyped, CommandShape
    <3>. HIDE DEF x
    <3>. QED
      BY <2>1, <3>1, <3>2, <3>3 DEF CommandActs, Connected, Typed
  <2>. QED
    BY <1>3, <2>2, <2>3
<1>4. CASE NextStep(u)
  <2>1. UNCHANGED <<db, phase, forced, events, ops>> /\ c.state = "ready"
    BY <1>4 DEF NextStep
  <2>2. \/ step.kind = "exit" /\ CommandExits(u, step.code) /\ UNCHANGED call
        \/ /\ step.kind = "call" /\ TakesGRPC /\ cmd' = [cmd EXCEPT ![u].state = "waiting"]
           /\ call' = [call EXCEPT ![u] = Pending("grpc", step.method, step.in, NoBody, "grpc")]
        \/ /\ step.kind = "call" /\ UNCHANGED call
           /\ cmd' = [cmd EXCEPT ![u].replies = Append(@, [code |-> "Unavailable", out |-> Nil])]
    BY <1>4 DEF NextStep, StepOf
  <2>. HIDE DEF step
  <2>3. CASE step.kind = "exit" /\ CommandExits(u, step.code) /\ UNCHANGED call
    <3>. DEFINE x == [c EXCEPT !.state = "idle", !.code = step.code]
    <3>0. step.code \in {0, 1}
      BY <1>1, <2>1, <2>3 DEF Exits, Calls
    <3>1. cmd' = [cmd EXCEPT ![u] = x]
      BY <2>3 DEF CommandExits
    <3>2. CommandTyped(x) /\ x.state = "idle"
      BY <1>0, <2>1, <3>0, CommandMoves
    <3>3. Same(u, x) /\ x.code = step.code
      BY <1>0 DEF Same, CommandTyped, CommandShape
    <3>4. Exited(u, x)
      <4>. HIDE DEF x
      <4>. QED
        BY <2>3, <3>2, <3>3 DEF Exited, step
    <3>. HIDE DEF x
    <3>. QED
      BY <2>1, <3>1, <3>2, <3>4 DEF CommandActs, Typed
  <2>4. CASE /\ step.kind = "call" /\ TakesGRPC /\ cmd' = [cmd EXCEPT ![u].state = "waiting"]
             /\ call' = [call EXCEPT ![u] = Pending("grpc", step.method, step.in, NoBody, "grpc")]
    <3>. DEFINE x == [c EXCEPT !.state = "waiting"]
    <3>0. Calls(step)
      BY <1>1, <2>1, <2>4 DEF Exits
    <3>1. cmd' = [cmd EXCEPT ![u] = x]
      BY <2>4
    <3>2. CommandTyped(x) /\ x.state = "waiting"
      BY <1>0, <2>1, CommandMoves
    <3>3. Same(u, x)
      BY <1>0 DEF Same, CommandTyped, CommandShape
    <3>4. Called(u, x)
      <4>. HIDE DEF x
      <4>. QED
        BY <2>4, <3>0, <3>2, <3>3 DEF Called, step
    <3>. HIDE DEF x
    <3>. QED
      BY <2>1, <3>1, <3>2, <3>4 DEF CommandActs, Typed
  <2>5. CASE /\ step.kind = "call" /\ UNCHANGED call
             /\ cmd' = [cmd EXCEPT ![u].replies = Append(@, [code |-> "Unavailable", out |-> Nil])]
    <3>. DEFINE y == [code |-> "Unavailable", out |-> Nil]
                x == [c EXCEPT !.replies = Append(@, y)]
    <3>0. Calls(step) /\ Len(c.replies) < CallsOf(c.name)
      BY <1>1, <2>1, <2>5 DEF Exits
    <3>1. cmd' = [cmd EXCEPT ![u] = x]
      BY <2>5
    <3>2. /\ CommandTyped(x) /\ x.state = "ready"
          /\ x.name = c.name /\ x.args = c.args /\ x.replies = Append(c.replies, y)
      <4>1. Hears(c, y, x)
        BY <2>1, <3>0 DEF Hears
      <4>. HIDE DEF c, x, y
      <4>. QED
        BY <1>0, <4>1, CommandHears
    <3>3. Replied(u, x, "Unavailable", Nil)
      <4>. HIDE DEF x
      <4>. QED
        BY <2>5, <3>0, <3>2 DEF Replied, step
    <3>. HIDE DEF x
    <3>. QED
      BY <2>1, <3>1, <3>2, <3>3 DEF CommandActs, Typed
  <2>. QED
    BY <2>2, <2>3, <2>4, <2>5
<1>5. CASE Receive(u)
  <2>. DEFINE y == [code |-> call[u].code, out |-> call[u].out]
              x == [c EXCEPT !.state = "ready", !.replies = Append(@, y)]
  <2>1. /\ UNCHANGED <<db, phase, forced, events, ops>> /\ c.state = "waiting" /\ call[u].step = "done"
        /\ cmd' = [cmd EXCEPT ![u] = x] /\ call' = [call EXCEPT ![u] = Nil]
    BY <1>5 DEF Receive
  <2>2. Calls(step) /\ Len(c.replies) < CallsOf(c.name)
    BY <1>0, <1>1, <2>1 DEF Asked, Exits
  <2>3. /\ CommandTyped(x) /\ x.state = "ready"
        /\ x.name = c.name /\ x.args = c.args /\ x.replies = Append(c.replies, y)
    <3>1. Hears(c, y, x)
      BY <2>1, <2>2 DEF Hears
    <3>. HIDE DEF c, x, y
    <3>. QED
      BY <1>0, <3>1, CommandHears
  <2>4. Replied(u, x, call[u].code, call[u].out)
    <3>. HIDE DEF x
    <3>. QED
      BY <2>1, <2>2, <2>3 DEF Replied
  <2>. HIDE DEF x
  <2>. QED
    BY <2>1, <2>3, <2>4 DEF CommandActs, Typed
<1>. QED
  BY <1>2, <1>3, <1>4, <1>5 DEF Commanding

LEMMA ActsKeepTyped ==
    ASSUME Typed, NEW u \in CliUsers, UNCHANGED <<db, phase, forced, events>>, ops' \in Nat,
           NEW x, CommandActs(u, x)
    PROVE  Typed'
<1>0. u \in Users /\ CommandTyped(x) /\ cmd' = [cmd EXCEPT ![u] = x] /\ CallsOfUsers /\ CallsTyped
  BY DEF CommandActs, Typed, Users
<1>1. CASE UNCHANGED call /\ x.state # "waiting"
  <2>1. Asked(x, call'[u])
    BY <1>1 DEF Asked
  <2>2. CommandsTyped'
    BY <1>0, <1>1, <2>1, CommandsStayTyped DEF Typed
  <2>. QED
    BY <1>1, <2>2 DEF Typed, CallsOfUsers, CallsTyped
<1>2. CASE Called(u, x)
  <2>. DEFINE step == StepOf(cmd[u])
              k == Pending("grpc", step.method, step.in, NoBody, "grpc")
  <2>1. call' = [call EXCEPT ![u] = k] /\ step.method \in Methods /\ step.in \in RequestOf[step.method]
        /\ step.kind = "call"
    BY <1>2 DEF Called, Calls
  <2>2. CallTyped(u, k)
    BY <2>1, NewCallTyped
  <2>3. (CallsOfUsers /\ CallsTyped)' /\ call'[u] = k
    BY <1>0, <2>1, <2>2, CallsStayTyped
  <2>4. \A w \in CliUsers : w # u => call'[w] = call[w]
    BY <1>0, <2>1, CallReplaced DEF Users
  <2>5. Asked(x, call'[u])
    <3>1. StepOf(x) = step
      BY <1>2 DEF Called, Same, StepOf
    <3>2. k.method = step.method /\ k.in = step.in
      BY DEF Pending
    <3>. HIDE DEF k, step
    <3>. QED
      BY <2>1, <2>3, <3>1, <3>2 DEF Asked
  <2>6. CommandsTyped'
    BY <1>0, <2>4, <2>5, CommandsStayTyped DEF Typed
  <2>. QED
    BY <2>3, <2>6 DEF Typed
<1>3. CASE call' = [call EXCEPT ![u] = Nil] /\ x.state = "ready"
  <2>1. (CallsOfUsers /\ CallsTyped)'
    BY <1>0, <1>3, CallsStayTyped
  <2>2. \A w \in CliUsers : w # u => call'[w] = call[w]
    BY <1>0, <1>3, CallReplaced DEF Users
  <2>3. Asked(x, call'[u])
    BY <1>3 DEF Asked
  <2>4. CommandsTyped'
    BY <1>0, <2>2, <2>3, CommandsStayTyped DEF Typed
  <2>. QED
    BY <2>1, <2>4 DEF Typed
<1>. QED
  BY <1>1, <1>2, <1>3 DEF CommandActs, Started, Exited, Connected, Replied

\* The call of a user moves on, while its command line waits.
LEMMA CallMoves ==
    ASSUME Typed, NEW u \in Users, NEW x, CallTyped(u, x), call' = [call EXCEPT ![u] = x],
           UNCHANGED <<phase, forced, cmd>>, db' \in Databases, ops' \in Nat,
           u \in CliUsers => /\ x.method = call[u].method
                             /\ x.step # "done" => x.in = call[u].in /\ call[u].step # "done"
    PROVE  Typed'
<1>1. (CallsOfUsers /\ CallsTyped)' /\ call'[u] = x
  BY CallsStayTyped DEF Typed
<1>2. \A w \in Users : w # u => call'[w] = call[w]
  BY CallReplaced DEF Typed
<1>3. ASSUME NEW w \in CliUsers PROVE Asked(cmd[w], call'[w])
  <2>1. Asked(cmd[w], call[w]) /\ w \in Users
    BY DEF Typed, CommandsTyped, Users
  <2>2. CASE w = u
    BY <1>1, <2>1, <2>2 DEF Asked
  <2>3. CASE w # u
    BY <1>2, <2>1, <2>3
  <2>. QED
    BY <2>2, <2>3
<1>4. CommandsTyped'
  BY <1>3 DEF Typed, CommandsTyped
<1>. QED
  BY <1>1, <1>4 DEF Typed

\* The process takes what runs in it with it.
LEMMA EndKeepsTyped ==
    ASSUME Typed, ProcessEnds
    PROVE  Typed' /\ \A u \in Users : \/ call'[u] = call[u]
                                      \/ \E code \in {"Unavailable", "reset"} : call'[u] = Done(call[u], code, Nil)
<1>1. \A u \in Users :
        call'[u] = IF ~Running(u) THEN call[u]
                   ELSE Done(call[u], IF u \in CliUsers THEN "Unavailable" ELSE "reset", Nil)
  BY DEF ProcessEnds
<1>2. CallsOfUsers' /\ UNCHANGED <<db, forced, cmd, ops, events>> /\ phase' \in Phases
  BY DEF ProcessEnds, CallsOfUsers, Phases
<1>3. ASSUME NEW u \in Users, call'[u] # call[u]
      PROVE  /\ CallTyped(u, call'[u])
             /\ call'[u].method = call[u].method /\ call'[u].step = "done"
             /\ \E code \in {"Unavailable", "reset"} : call'[u] = Done(call[u], code, Nil)
  <2>1. Running(u)
    BY <1>1, <1>3
  <2>2. PICK code \in {"Unavailable", "reset"} : call'[u] = Done(call[u], code, Nil)
    BY <1>1, <2>1
  <2>3. CallTyped(u, call[u])
    BY <2>1 DEF Running, Typed, CallsTyped
  <2>4. CallTyped(u, call'[u])
    BY <2>2, <2>3, OverCallTyped DEF Codes
  <2>5. Done(call[u], code, Nil).method = call[u].method /\ Done(call[u], code, Nil).step = "done"
    BY DEF Done
  <2>. QED
    BY <2>2, <2>4, <2>5
<1>4. CallsTyped'
  BY <1>3 DEF Typed, CallsTyped
<1>5. ASSUME NEW u \in CliUsers PROVE Asked(cmd[u], call'[u])
  <2>1. Asked(cmd[u], call[u]) /\ u \in Users
    BY DEF Typed, CommandsTyped, Users
  <2>. QED
    BY <1>3, <2>1 DEF Asked
<1>6. CommandsTyped'
  BY <1>2, <1>5 DEF Typed, CommandsTyped
<1>. QED
  BY <1>2, <1>3, <1>4, <1>6 DEF Typed

LEMMA EvictOnlyReads == Typed /\ Evict => OnlyReads(db, db') /\ UNCHANGED <<phase, forced, call, cmd, ops, events>>
<1>. SUFFICES ASSUME Typed, Evict PROVE OnlyReads(db, db') /\ UNCHANGED <<phase, forced, call, cmd, ops, events>>
  OBVIOUS
<1>1. PICK k \in Keys, v \in Numbers : db' = [db EXCEPT !.cache[k][v] = Nil]
  BY DEF Evict
<1>2. db \in Databases
  BY DEF Typed
<1>. DEFINE cache == [db.cache EXCEPT ![k][v] = Nil]
<1>3. db.cache \in [Keys -> [Numbers -> Contents \cup {Nil}]]
  BY <1>2, DatabaseFields
<1>4. cache \in [Keys -> [Numbers -> Contents \cup {Nil}]]
  BY <1>3
<1>5. db' = [namespaces |-> db.namespaces, schemas |-> db.schemas, versions |-> db.versions, cache |-> cache]
  BY <1>1, <1>2 DEF Databases
<1>6. /\ db' \in Databases
      /\ db'.namespaces = db.namespaces /\ db'.schemas = db.schemas /\ db'.versions = db.versions
      /\ db'.cache = cache
  <2>1. /\ db.namespaces \in [NamespaceIds -> Metadata \cup {Nil}]
        /\ db.schemas \in [Keys -> Metadata \cup {Nil}]
        /\ db.versions \in [Keys -> [Numbers -> Contents \cup {Nil}]]
    BY <1>2, DatabaseFields
  <2>. HIDE DEF cache
  <2>. QED
    BY <1>4, <1>5, <2>1 DEF Databases, Files
<1>7. \A j \in Keys, w \in Numbers : cache[j][w] \in {db.cache[j][w], Nil}
  BY <1>3
<1>. HIDE DEF cache
<1>. QED
  BY <1>6, <1>7 DEF OnlyReads, Evict

\* What the checks of the uploads said goes on to hold.
LEMMA MetStays ==
    ASSUME Typed, AllMet, DatabaseStep(db, events, db', events'),
           \A u \in Users : call'[u] = call[u] \/ Fresh(call'[u]) \/ MetBy(db', events', call'[u])
    PROVE  AllMet'
<1>. SUFFICES ASSUME NEW u \in Users, ~Fresh(call[u]) PROVE MetBy(db', events', call[u])
  BY DEF AllMet, Fresh, MetBy, Met
<1>. DEFINE c == call[u]
            k == Key(c.in)
<1>1. Uploading(c) /\ Carried(c.at, c.in.data) /\ MetBy(db, events, c)
  BY DEF Fresh, Typed, CallsTyped, CallTyped, Carries, AllMet
<1>. SUFFICES ASSUME "deleted" \notin events' PROVE Met(db', k, c.at)
  BY DEF MetBy
<1>2. Met(db, k, c.at) /\ k \in Keys
  BY <1>1 DEF DatabaseStep, MetBy, Uploading
<1>3. db.schemas[k] # Nil => db'.schemas[k] # Nil /\ db'.schemas[k].format = db.schemas[k].format
  BY <1>2, StepKeepsFiles DEF Typed
<1>. QED
  BY <1>2, <1>3 DEF Met

LEMMA MetReplaced ==
    ASSUME Typed, NEW u \in Users, NEW x, call' = [call EXCEPT ![u] = x],
           Fresh(x) \/ MetBy(db', events', x)
    PROVE  \A w \in Users : call'[w] = call[w] \/ Fresh(call'[w]) \/ MetBy(db', events', call'[w])
<1>1. call'[u] = x /\ \A w \in Users : w # u => call'[w] = call[w]
  BY CallReplaced DEF Typed
<1>. QED
  BY <1>1

\* Every step keeps the types, and is a step of the database.
LEMMA TypedStep ==
    ASSUME Typed, AllMet, [Next]_vars
    PROVE  Typed' /\ AllMet' /\ DatabaseStep(db, events, db', events')
<1>. DEFINE StillMet ==
              \A u \in Users : call'[u] = call[u] \/ Fresh(call'[u]) \/ MetBy(db', events', call'[u])
<1>0. db \in Databases /\ OnlyReads(db, db)
  BY DEF Typed, OnlyReads
<1>1. UNCHANGED <<db, events>> => DatabaseStep(db, events, db', events')
  BY <1>0 DEF DatabaseStep
<1>. SUFFICES Typed' /\ StillMet /\ DatabaseStep(db, events, db', events')
  BY MetStays
<1>. HIDE DEF StillMet
<1>2. ASSUME NEW u \in CliUsers, RunCommand(u) \/ Commanding(u)
      PROVE  Typed' /\ StillMet /\ UNCHANGED <<db, events>>
  <2>1. /\ UNCHANGED <<db, phase, forced, events>> /\ ops' \in Nat /\ u \in Users
        /\ \E x : CommandActs(u, x)
    BY <1>2, CommandActions DEF Users
  <2>2. Typed'
    BY <2>1, ActsKeepTyped
  <2>3. UNCHANGED call => StillMet
    BY DEF StillMet
  <2>4. ASSUME NEW y, call' = [call EXCEPT ![u] = y], Fresh(y) PROVE StillMet
    BY <2>1, <2>4, MetReplaced DEF StillMet
  <2>5. UNCHANGED call \/ \E y : call' = [call EXCEPT ![u] = y] /\ Fresh(y)
    <3>1. \A m, in : Fresh(Pending("grpc", m, in, NoBody, "grpc"))
      BY DEF Fresh, Pending
    <3>2. Fresh(Nil)
      BY DEF Fresh
    <3>3. PICK x : CommandActs(u, x)
      BY <2>1
    <3>4. CASE UNCHANGED call
      BY <3>4
    <3>5. CASE Called(u, x)
      BY <3>1, <3>5 DEF Called
    <3>6. CASE call' = [call EXCEPT ![u] = Nil]
      BY <3>2, <3>6
    <3>. QED
      BY <3>3, <3>4, <3>5, <3>6 DEF CommandActs, Started, Exited, Connected, Replied
  <2>. QED
    BY <2>1, <2>2, <2>3, <2>4, <2>5
<1>3. ASSUME NEW u \in HttpUsers, HTTPRequest(u) PROVE Typed' /\ StillMet /\ UNCHANGED <<db, events>>
  <2>1. /\ UNCHANGED <<db, phase, forced, cmd, events>> /\ ops' \in Nat
        /\ u \in Users /\ u \notin CliUsers
    BY <1>3, UsersAssumption DEF HTTPRequest, Typed, Users
  <2>2. PICK q \in HttpRequests : call' = [call EXCEPT ![u] = Pending(q.via, q.method, q.path, q.body, "http")]
    BY <1>3 DEF HTTPRequest
  <2>3. CallTyped(u, Pending(q.via, q.method, q.path, q.body, "http"))
    BY <1>3, NewCallTyped
  <2>4. Fresh(Pending(q.via, q.method, q.path, q.body, "http"))
    BY DEF Fresh, Pending
  <2>5. StillMet
    BY <2>1, <2>2, <2>4, MetReplaced DEF StillMet
  <2>. QED
    BY <1>0, <2>1, <2>2, <2>3, <2>5, CallMoves
<1>4. ASSUME NEW u \in Users, Handle(u) \/ GatewayFails(u)
      PROVE  Typed' /\ StillMet /\ DatabaseStep(db, events, db', events')
  <2>1. /\ DatabaseStep(db, events, db', events') /\ UNCHANGED <<phase, forced, cmd, ops>>
        /\ call[u].step # "done"
    BY <1>4, Answered DEF Running
  <2>2. db' \in Databases /\ ops' \in Nat
    BY <1>0, <2>1, StepKeepsType DEF Typed
  <2>3. PICK x : /\ call' = [call EXCEPT ![u] = x] /\ CallTyped(u, x) /\ x.method = call[u].method
                 /\ x.step # "done" => x.in = call[u].in /\ MetBy(db', events', x)
    BY <1>4, Answered
  <2>4. StillMet
    BY <2>3, MetReplaced DEF StillMet, Fresh
  <2>. QED
    BY <2>1, <2>2, <2>3, <2>4, CallMoves
<1>5. ASSUME NEW u \in Users, Gateway(u) PROVE Typed' /\ StillMet /\ UNCHANGED <<db, events>>
  <2>1. UNCHANGED <<db, phase, forced, cmd, ops, events>> /\ Running(u) /\ call[u].via = "gateway"
    BY <1>5, GatewayStep
  <2>2. PICK x : call' = [call EXCEPT ![u] = x] /\ CallTyped(u, x) /\ Fresh(x)
    BY <1>5, GatewayStep
  <2>3. u \notin CliUsers
    BY <2>1 DEF Running, Typed, CallsTyped, CallTyped
  <2>4. db' \in Databases /\ ops' \in Nat
    BY <1>0, <2>1 DEF Typed
  <2>5. StillMet
    BY <2>2, MetReplaced DEF StillMet
  <2>. QED
    BY <2>1, <2>2, <2>3, <2>4, <2>5, CallMoves
<1>6. CASE Evict
  <2>1. OnlyReads(db, db') /\ UNCHANGED <<phase, forced, call, cmd, ops, events>>
    BY <1>6, EvictOnlyReads
  <2>2. Typed'
    BY <2>1 DEF Typed, CallsOfUsers, CallsTyped, CommandsTyped, OnlyReads
  <2>. QED
    BY <2>1, <2>2 DEF DatabaseStep, StillMet
<1>7. CASE ExitProcess \/ StopPanics
  <2>1. ProcessEnds
    BY <1>7 DEF ExitProcess, StopPanics
  <2>2. \A c, code, out : Fresh(Done(c, code, out))
    BY DEF Fresh, Done
  <2>3. StillMet
    BY <2>1, <2>2, EndKeepsTyped DEF StillMet
  <2>. QED
    BY <1>1, <2>1, <2>3, EndKeepsTyped DEF ProcessEnds
<1>8. CASE Listen \/ Signal \/ Drained \/ DrainTimeout \/ CloseConn \/ GracefulStop \/ CloseDb \/ Idle
           \/ UNCHANGED vars
  <2>1. UNCHANGED <<db, call, cmd, ops, events>>
    BY <1>8 DEF Listen, Signal, Drained, DrainTimeout, CloseConn, GracefulStop, CloseDb, Idle, Goto, vars
  <2>2. phase' \in Phases /\ forced' \in BOOLEAN
    BY <1>8 DEF Listen, Signal, Drained, DrainTimeout, CloseConn, GracefulStop, CloseDb, Idle, Goto, vars,
       Typed, Phases
  <2>. QED
    BY <1>1, <2>1, <2>2 DEF Typed, CallsOfUsers, CallsTyped, CommandsTyped, StillMet
<1>. QED
  BY <1>1, <1>2, <1>3, <1>4, <1>5, <1>6, <1>7, <1>8 DEF Next, Serving, Stopping

LEMMA TypedInit == Init => Typed /\ AllMet
<1>. SUFFICES ASSUME Init PROVE Typed /\ AllMet
  OBVIOUS
<1>1. db \in Databases /\ phase \in Phases /\ forced \in BOOLEAN /\ ops \in Nat
  BY StartAssumption DEF Init, Phases
<1>2. CallsOfUsers /\ CallsTyped
  BY DEF Init, CallsOfUsers, CallsTyped
<1>3. CommandTyped(NoCommand) /\ NoCommand.state = "idle"
  BY NoReplies DEF CommandTyped, CommandShape, NoCommand
<1>4. CommandsTyped
  BY <1>3 DEF Init, CommandsTyped, Asked
<1>5. AllMet
  BY DEF Init, AllMet, Fresh
<1>. QED
  BY <1>1, <1>2, <1>4, <1>5 DEF Typed

LEMMA TypedInvariance == Spec => [](Typed /\ AllMet)
<1>1. Typed /\ AllMet /\ [Next]_vars => (Typed /\ AllMet)'
  BY TypedStep
<1>. QED
  BY <1>1, TypedInit, PTL DEF Spec

\* Every variable has its type: a request is one of its method, an answer of
\* its method's response, an exit code 0 or 1.
THEOREM ServerTypes == Spec => []TypeOK
<1>1. Typed => TypeOK
  <2>. SUFFICES ASSUME Typed PROVE TypeOK
    OBVIOUS
  <2>1. ASSUME NEW u \in Users, call[u] # Nil
        PROVE  /\ call[u].via \in {"grpc", "gateway", "route"}
               /\ call[u].step \in {"http", "grpc", "done"}
               /\ call[u].step = "grpc" => call[u].in \in RequestOf[call[u].method]
               /\ call[u].step = "done" =>
                    /\ call[u].code \in Codes
                    /\ call[u].code = "OK" /\ call[u].method \in Methods
                          => call[u].out \in ResponseOf[call[u].method]
    <3>1. CallTyped(u, call[u])
      BY <2>1 DEF Typed, CallsTyped
    <3>2. call[u].via = "route" => call[u].method \notin Methods
      BY <3>1, MethodNames DEF CallTyped, Routes, RouteRequestOf
    <3>. QED
      BY <3>1, <3>2 DEF CallTyped
  <2>2. \A u \in CliUsers : cmd[u].state \in {"idle", "dial", "ready", "waiting"} /\ cmd[u].code \in {0, 1}
    BY DEF Typed, CommandsTyped, CommandTyped
  <2>. QED
    BY <2>1, <2>2 DEF Typed, TypeOK
<1>. QED
  BY <1>1, TypedInvariance, PTL

\* Whoever calls, the versions change as those of a VersionStore.
THEOREM ChangesOnlyAsPromised == Spec => VersionsAsPromised
<1>1. ASSUME Typed, AllMet, [Next]_vars PROVE [db'.versions # db.versions => Promised!Next]_db
  <2>1. /\ DatabaseStep(db, events, db', events')
        /\ db \in Databases
    BY <1>1, TypedStep DEF Typed
  <2>2. /\ VersionsIn(db)' = VersionsIn(db')
        /\ \/ db'.versions = db.versions
           \/ Adds(VersionsIn(db), VersionsIn(db'))
           \/ Drops(VersionsIn(db), VersionsIn(db'))
    BY <2>1, StepAsPromised DEF VersionsIn
  <2>3. Adds(VersionsIn(db), VersionsIn(db)') => Promised!Next
    BY DEF Adds, Promised!Next, Promised!Publish
  <2>4. Drops(VersionsIn(db), VersionsIn(db)') => Promised!Next
    BY DEF Drops, Promised!Next, Promised!Remove, Promised!RemoveAll
  <2>. QED
    BY <2>2, <2>3, <2>4
<1>. QED
  BY <1>1, TypedInvariance, PTL DEF Spec, VersionsAsPromised

\* What may be in the database: empty files come with an upload over HTTP only,
\* and no namespace without a name.
THEOREM ValidatorStandsBefore == Spec => []BlankKeptOut
<1>. DEFINE Inv == Typed /\ AllMet /\ KeptOut(db, events)
<1>1. Init => Inv
  <2>. SUFFICES ASSUME Init PROVE KeptOut(db, events)
    BY TypedInit
  <2>1. /\ db.namespaces[Blank] = Nil
        /\ \A k \in Keys, v \in Numbers : db.versions[k][v] # Nil => db.versions[k][v] # Empty
    BY StartAssumption DEF Init
  <2>. QED
    BY <2>1, BlankAssumption DEF KeptOut
<1>2. Inv /\ [Next]_vars => Inv'
  <2>. SUFFICES ASSUME Inv, [Next]_vars PROVE KeptOut(db', events') /\ Typed' /\ AllMet'
    BY DEF KeptOut
  <2>1. Typed' /\ AllMet' /\ DatabaseStep(db, events, db', events') /\ db \in Databases
    BY TypedStep DEF Typed
  <2>. QED
    BY <2>1, StepKeepsBlankOut
<1>3. Inv => BlankKeptOut
  BY DEF KeptOut, BlankKeptOut
<1>. QED
  BY <1>1, <1>2, <1>3, PTL DEF Spec

-----------------------------------------------------------------------------
(***************************************************************************)
(* HTTP users and the shutdown.                                            *)
(***************************************************************************)
\* An HTTP call that runs keeps Shutdown from returning in time, so it is given
\* up only after the timeout.
LEMMA RunningHTTPForces ==
    ASSUME Typed, Draining, NEW u \in HttpUsers, Running(u), ~ConnOpen
    PROVE  forced
<1>1. u \in Users /\ u \notin CliUsers
  BY UsersAssumption DEF Users
<1>2. InHTTP(u)
  BY <1>1 DEF Running, InHTTP, Typed, CallsTyped, CallTyped
<1>3. phase \in {"stopping", "closingDb", "exiting", "down"}
  BY DEF Typed, Phases, ConnOpen
<1>. QED
  BY <1>1, <1>2, <1>3 DEF Draining

\* Unless Shutdown has given up waiting, every HTTP request is answered by its
\* handler: neither conn.Close nor the end of the process gets in between.
THEOREM ShutdownAnswersHTTP == Spec => []GracefulAnswersHTTP
<1>. DEFINE Inv == Typed /\ AllMet /\ Draining /\ GracefulAnswersHTTP
<1>1. Init => Inv
  <2>. SUFFICES ASSUME Init PROVE Draining /\ GracefulAnswersHTTP
    BY TypedInit
  <2>1. call = [u \in Users |-> Nil] /\ phase = "starting"
    BY DEF Init
  <2>. QED
    BY <2>1 DEF Draining, GracefulAnswersHTTP, CallsOfUsers, InGRPC, InHTTP, Running, Users
<1>2. Inv /\ [Next]_vars => Inv'
  <2>. SUFFICES ASSUME Inv, [Next]_vars PROVE GracefulAnswersHTTP'
    BY TypedStep, DrainingStep
  <2>. DEFINE Given(c) == c # Nil /\ c.step = "done" /\ c.code \in {"Canceled", "reset"}
  <2>0. HttpUsers \subseteq Users /\ CliUsers \subseteq Users /\ CallsOfUsers
    BY DEF Users, Typed
  <2>1. ASSUME NEW u \in Users, NEW x, call' = [call EXCEPT ![u] = x], forced' = forced,
               u \in HttpUsers /\ Given(x) => forced
        PROVE  GracefulAnswersHTTP'
    <3>1. call'[u] = x /\ \A w \in Users : w # u => call'[w] = call[w]
      BY <2>0, <2>1, CallReplaced
    <3>. QED
      BY <2>0, <2>1, <3>1 DEF GracefulAnswersHTTP
  <2>2. UNCHANGED call /\ (forced => forced') => GracefulAnswersHTTP'
    BY DEF GracefulAnswersHTTP
  <2>3. ASSUME NEW u \in CliUsers, RunCommand(u) \/ Commanding(u) PROVE GracefulAnswersHTTP'
    <3>1. u \notin HttpUsers /\ u \in Users
      BY <2>0, UsersAssumption
    <3>2. forced' = forced /\ \E x : CommandActs(u, x)
      BY <2>3, CommandActions
    <3>3. UNCHANGED call \/ \E x : call' = [call EXCEPT ![u] = x]
      BY <3>2 DEF CommandActs, Started, Exited, Connected, Called, Replied
    <3>. QED
      BY <2>1, <2>2, <3>1, <3>2, <3>3
  <2>4. ASSUME NEW u \in HttpUsers, HTTPRequest(u) PROVE GracefulAnswersHTTP'
    <3>1. PICK q \in HttpRequests : call' = [call EXCEPT ![u] = Pending(q.via, q.method, q.path, q.body, "http")]
      BY <2>4 DEF HTTPRequest
    <3>2. forced' = forced /\ Pending(q.via, q.method, q.path, q.body, "http").step # "done"
      BY <2>4 DEF HTTPRequest, Pending
    <3>. QED
      BY <2>0, <2>1, <3>1, <3>2
  <2>5. ASSUME NEW u \in Users, Handle(u) \/ GatewayFails(u) PROVE GracefulAnswersHTTP'
    <3>1. PICK x : /\ call' = [call EXCEPT ![u] = x]
                   /\ x.step = "done" => x.code # "reset" /\ (x.code = "Canceled" => ~ConnOpen)
      BY <2>5, Answered
    <3>2. forced' = forced /\ Running(u)
      BY <2>5, Answered
    <3>. QED
      BY <2>1, <3>1, <3>2, RunningHTTPForces
  <2>6. ASSUME NEW u \in Users, Gateway(u) PROVE GracefulAnswersHTTP'
    <3>1. PICK x : /\ call' = [call EXCEPT ![u] = x]
                   /\ x.step = "done" => x.code # "reset" /\ (x.code = "Canceled" => ~ConnOpen)
      BY <2>6, GatewayStep
    <3>2. forced' = forced /\ Running(u)
      BY <2>6, GatewayStep
    <3>. QED
      BY <2>1, <3>1, <3>2, RunningHTTPForces
  <2>7. CASE ExitProcess \/ StopPanics
    <3>1. ProcessEnds /\ forced' = forced /\ ~ConnOpen
      BY <2>7 DEF ExitProcess, StopPanics, ProcessEnds, ConnOpen
    <3>2. \A u \in Users : call'[u] = call[u] \/ Running(u)
      BY <3>1 DEF ProcessEnds
    <3>. QED
      BY <2>0, <3>1, <3>2, RunningHTTPForces DEF GracefulAnswersHTTP
  <2>8. CASE Evict \/ Listen \/ Signal \/ Drained \/ DrainTimeout \/ CloseConn \/ GracefulStop \/ CloseDb \/ Idle
             \/ UNCHANGED vars
    BY <2>2, <2>8 DEF Evict, Listen, Signal, Drained, DrainTimeout, CloseConn, GracefulStop, CloseDb, Idle,
       Goto, vars
  <2>. QED
    BY <2>3, <2>4, <2>5, <2>6, <2>7, <2>8 DEF Next, Serving, Stopping
<1>. QED
  BY <1>1, <1>2, PTL DEF Spec

-----------------------------------------------------------------------------
(***************************************************************************)
(* What a command line has heard holds of the database for as long as Kept *)
(* says it does.                                                           *)
(***************************************************************************)
\* The i-th call of the commands that fetch or create.
WantedBy(name, a, r, i, m, in) ==
    /\ name \in Fetching =>
         /\ Key(in) = <<a.namespace, a.id>>
         /\ i = 1 => m \in {"GetSchema", "GetLatestSchema"}
         /\ i # 1 => m = "GetSchemaMetadata" /\ r[1].code = "OK"
    /\ name = "schema create" =>
         m = "CreateSchema" /\ Key(in) = <<a.namespace, a.id>> /\ in.data = a.data
    /\ name = "namespace create" => m = "CreateNamespace" /\ in.id = a.id
Wanted(c, i, m, in) == WantedBy(c.name, c.args, c.replies, i, m, in)

LEMMA WantedCall ==
    ASSUME NEW c, CommandTyped(c), Calls(StepOf(c)), Len(c.replies) < CallsOf(c.name), NEW i,
           i = Len(c.replies) + 1
    PROVE  Wanted(c, i, StepOf(c).method, StepOf(c).in)
<1>. DEFINE r == c.replies
            step == StepOf(c)
<1>1. Sequence(r) /\ Len(r) \in Nat /\ (Len(r) = 0 <=> r = <<>>) /\ step.kind = "call"
  BY NoReplies DEF CommandTyped, Calls
<1>2. step = RunE(c.name, c.args, r)
  BY DEF StepOf
<1>. HIDE DEF step
<1>3. ASSUME c.name \in Fetching
      PROVE  /\ Key(step.in) = <<c.args.namespace, c.args.id>>
             /\ i = 1 => step.method \in {"GetSchema", "GetLatestSchema"}
             /\ i # 1 => step.method = "GetSchemaMetadata" /\ r[1].code = "OK"
  <2>1. Len(r) <= 2
    BY <1>1, <1>3 DEF CallsOf
  <2>2. i = 1 <=> r = <<>>
    BY <1>1
  <2>3. /\ Key(step.in) = <<c.args.namespace, c.args.id>>
        /\ r = <<>> => step.method \in {"GetSchema", "GetLatestSchema"}
        /\ r # <<>> => step.method = "GetSchemaMetadata" /\ r[1].code = "OK"
    <3>. DEFINE a == c.args
                name == c.name
    <3>1. Sequence(r) /\ step = RunE(name, a, r) /\ name \in Fetching /\ step.kind = "call"
      BY <1>1, <1>2, <1>3
    <3>. SUFFICES /\ Key(step.in) = <<a.namespace, a.id>>
                  /\ r = <<>> => step.method \in {"GetSchema", "GetLatestSchema"}
                  /\ r # <<>> => step.method = "GetSchemaMetadata" /\ r[1].code = "OK"
      OBVIOUS
    <3>. HIDE DEF a, name, r
    <3>. QED
      BY <2>1, <3>1, FetchCommands
  <2>. HIDE DEF r
  <2>. QED
    BY <2>2, <2>3
<1>4. ASSUME c.name = "schema create"
      PROVE  /\ step.method = "CreateSchema" /\ Key(step.in) = <<c.args.namespace, c.args.id>>
             /\ step.in.data = c.args.data
  <2>. DEFINE a == c.args
  <2>0. step = RunE("schema create", a, r)
    BY <1>2, <1>4
  <2>. SUFFICES step.method = "CreateSchema" /\ Key(step.in) = <<a.namespace, a.id>> /\ step.in.data = a.data
    OBVIOUS
  <2>. HIDE DEF a, r
  <2>1. PICK in : /\ Creates(step, r, "CreateSchema", in)
                  /\ Key(in) = <<a.namespace, a.id>> /\ in.data = a.data
    BY <2>0, CreateCommands
  <2>. QED
    BY <1>1, <2>1 DEF Creates
<1>5. ASSUME c.name = "namespace create"
      PROVE  step.method = "CreateNamespace" /\ step.in.id = c.args.id
  <2>. DEFINE a == c.args
  <2>0. step = RunE("namespace create", a, r)
    BY <1>2, <1>5
  <2>. SUFFICES step.method = "CreateNamespace" /\ step.in.id = a.id
    OBVIOUS
  <2>. HIDE DEF a, r
  <2>1. PICK in : Creates(step, r, "CreateNamespace", in) /\ in.id = a.id
    BY <2>0, CreateCommands
  <2>. QED
    BY <1>1, <2>1 DEF Creates
<1>. QED
  BY <1>3, <1>4, <1>5 DEF Wanted, WantedBy, step

\* A reply of a command line, and the answer that it waits for.
ReplyHolds(d, ev, c, i) ==
    \E m \in Methods : \E in \in RequestOf[m] :
        Wanted(c, i, m, in) /\ Kept(d, ev, m, in, c.replies[i].code, c.replies[i].out)
AnswerHolds(d, ev, c, k) ==
    c.state = "waiting" /\ k.step = "done" => Kept(d, ev, StepOf(c).method, StepOf(c).in, k.code, k.out)
\* A create command has ended with 0.
Succeeded(c) ==
    c.state = "idle" /\ c.code = 0 /\ c.name \in {"schema create", "namespace create"} =>
        c.replies # <<>> /\ c.replies[1].code \in {"OK", "AlreadyExists"}
Heard(d, ev, c, k) ==
    /\ \A i \in 1..Len(c.replies) : ReplyHolds(d, ev, c, i)
    /\ AnswerHolds(d, ev, c, k) /\ Succeeded(c)

LEMMA KeptOfFailure ==
    ASSUME NEW d, NEW ev, NEW m, NEW in, NEW code, NEW out, code \notin {"OK", "AlreadyExists"}
    PROVE  Kept(d, ev, m, in, code, out)
  BY DEF Kept

LEMMA HeardStays ==
    ASSUME NEW d \in Databases, NEW e, NEW ev, NEW ev2, DatabaseStep(d, ev, e, ev2),
           NEW c, NEW k, Heard(d, ev, c, k), c.state = "waiting" => Calls(StepOf(c))
    PROVE  Heard(e, ev2, c, k)
<1>1. ASSUME NEW i \in 1..Len(c.replies) PROVE ReplyHolds(e, ev2, c, i)
  <2>1. PICK m \in Methods : \E in \in RequestOf[m] :
          Wanted(c, i, m, in) /\ Kept(d, ev, m, in, c.replies[i].code, c.replies[i].out)
    BY DEF Heard, ReplyHolds
  <2>2. PICK in \in RequestOf[m] :
          Wanted(c, i, m, in) /\ Kept(d, ev, m, in, c.replies[i].code, c.replies[i].out)
    BY <2>1
  <2>3. Kept(e, ev2, m, in, c.replies[i].code, c.replies[i].out)
    BY <2>2, KeptStays
  <2>. QED
    BY <2>2, <2>3 DEF ReplyHolds
<1>2. AnswerHolds(e, ev2, c, k)
  <2>. SUFFICES ASSUME c.state = "waiting", k.step = "done"
                PROVE  Kept(e, ev2, StepOf(c).method, StepOf(c).in, k.code, k.out)
    BY DEF AnswerHolds
  <2>1. Kept(d, ev, StepOf(c).method, StepOf(c).in, k.code, k.out)
    BY DEF Heard, AnswerHolds
  <2>2. StepOf(c).method \in Methods /\ StepOf(c).in \in RequestOf[StepOf(c).method]
    BY DEF Calls
  <2>. QED
    BY <2>1, <2>2, KeptStays
<1>. QED
  BY <1>1, <1>2 DEF Heard

\* A command line's own actions.
LEMMA ActsKeepHeard ==
    ASSUME Typed, NEW u \in CliUsers, NEW x, CommandActs(u, x), NEW d, NEW ev,
           Heard(d, ev, cmd[u], call[u])
    PROVE  Heard(d, ev, x, call'[u])
<1>. DEFINE c == cmd[u]
<1>0. CommandTyped(c) /\ CommandTyped(x) /\ u \in Users /\ CallsOfUsers
  BY DEF CommandActs, Typed, CommandsTyped, Users
<1>1. CASE Started(x)
  <2>1. Len(x.replies) = 0
    BY <1>1, NoReplies DEF Started
  <2>2. \A i \in 1..Len(x.replies) : ReplyHolds(d, ev, x, i)
    BY <2>1
  <2>3. AnswerHolds(d, ev, x, call'[u])
    BY <1>1 DEF Started, AnswerHolds
  <2>4. Succeeded(x)
    <3>. SUFFICES ASSUME x.state = "idle", x.code = 0, x.name \in {"schema create", "namespace create"}
                  PROVE  FALSE
      BY DEF Succeeded
    <3>1. x.name \in CommandNames /\ x.args \in ArgsOf(x.name)
      BY <1>0, NoNameAssumption DEF CommandTyped, CommandNames
    <3>2. /\ x.name = "schema create" /\ BeforeDial(x.name, x.args).kind = "exit"
             => BeforeDial(x.name, x.args).code # 0
          /\ x.name = "namespace create" => BeforeDial(x.name, x.args).kind # "exit"
      BY <3>1, BeforeDialStep
    <3>3. BeforeDial(x.name, x.args).kind = "exit" /\ BeforeDial(x.name, x.args).code = x.code
      BY <1>1 DEF Started
    <3>. QED
      BY <3>2, <3>3
  <2>. QED
    BY <2>2, <2>3, <2>4 DEF Heard
<1>2. ASSUME Same(u, x) PROVE \A i \in 1..Len(x.replies) : ReplyHolds(d, ev, x, i)
  <2>1. x.replies = c.replies /\ x.name = c.name /\ x.args = c.args
    BY <1>2 DEF Same
  <2>2. \A i, m, in : Wanted(c, i, m, in) => Wanted(x, i, m, in)
    BY <2>1 DEF Wanted
  <2>. SUFFICES ASSUME NEW i \in 1..Len(c.replies) PROVE ReplyHolds(d, ev, x, i)
    BY <2>1
  <2>3. ReplyHolds(d, ev, c, i)
    BY DEF Heard
  <2>4. PICK m \in Methods : \E in \in RequestOf[m] :
          Wanted(c, i, m, in) /\ Kept(d, ev, m, in, c.replies[i].code, c.replies[i].out)
    BY <2>3 DEF ReplyHolds
  <2>. HIDE DEF c
  <2>. QED
    BY <2>1, <2>2, <2>4 DEF ReplyHolds
<1>3. CASE Exited(u, x)
  <2>1. AnswerHolds(d, ev, x, call'[u])
    BY <1>3 DEF Exited, AnswerHolds
  <2>2. Succeeded(x)
    <3>. SUFFICES ASSUME x.code = 0, x.name \in {"schema create", "namespace create"}
                  PROVE  x.replies # <<>> /\ x.replies[1].code \in {"OK", "AlreadyExists"}
      BY DEF Succeeded
    <3>1. x.name = c.name /\ x.args = c.args /\ x.replies = c.replies
      BY <1>3 DEF Exited, Same
    <3>2. StepOf(c).kind = "exit" /\ StepOf(c).code = 0
      BY <1>3 DEF Exited
    <3>3. \E m, in : Creates(StepOf(c), c.replies, m, in)
      BY <3>1, CreateCommands DEF StepOf
    <3>. QED
      BY <3>1, <3>2, <3>3 DEF Creates
  <2>. QED
    BY <1>2, <1>3, <2>1, <2>2 DEF Heard, Exited
<1>4. CASE Connected(u, x)
  BY <1>2, <1>4 DEF Heard, Connected, AnswerHolds, Succeeded
<1>5. CASE Called(u, x)
  <2>1. call'[u].step = "grpc"
    <3>1. call'[u] = Pending("grpc", StepOf(c).method, StepOf(c).in, NoBody, "grpc")
      BY <1>0, <1>5, CallReplaced DEF Called
    <3>. QED
      BY <3>1 DEF Pending
  <2>. QED
    BY <1>2, <1>5, <2>1 DEF Heard, Called, AnswerHolds, Succeeded
<1>6. ASSUME NEW code, NEW out, Replied(u, x, code, out) PROVE Heard(d, ev, x, call'[u])
  <2>. DEFINE y == [code |-> code, out |-> out]
              r == c.replies
              q == x.replies
              step == StepOf(c)
  <2>1. x.name = c.name /\ x.args = c.args /\ q = Append(r, y) /\ x.state = "ready" /\ Calls(step)
    BY <1>6 DEF Replied
  <2>2. Sequence(r)
    BY <1>0 DEF CommandTyped
  <2>3. /\ Len(r) \in Nat /\ Len(q) = Len(r) + 1
        /\ \A i \in 1..Len(r) : q[i] = r[i]
        /\ q[Len(q)] = y
    <3>1. q = Append(r, y)
      BY <2>1
    <3>. HIDE DEF q, r, y
    <3>. QED
      BY <2>2, <3>1, ReplyAppended
  <2>4. Kept(d, ev, step.method, step.in, code, out)
    <3>1. CASE code = "Unavailable"
      BY <3>1, KeptOfFailure
    <3>2. CASE c.state = "waiting" /\ call[u].step = "done" /\ code = call[u].code /\ out = call[u].out
      BY <3>2 DEF Heard, AnswerHolds
    <3>. QED
      BY <1>6, <3>1, <3>2 DEF Replied
  <2>5. ASSUME NEW i \in 1..Len(r) PROVE ReplyHolds(d, ev, x, i)
    <3>1. PICK m \in Methods : \E in \in RequestOf[m] :
            Wanted(c, i, m, in) /\ Kept(d, ev, m, in, r[i].code, r[i].out)
      BY <2>5 DEF Heard, ReplyHolds
    <3>2. PICK in \in RequestOf[m] : Wanted(c, i, m, in) /\ Kept(d, ev, m, in, r[i].code, r[i].out)
      BY <3>1
    <3>3. q[i] = r[i] /\ q[1] = r[1]
      BY <2>3, <2>5
    <3>4. Wanted(x, i, m, in)
      BY <2>1, <3>2, <3>3 DEF Wanted, WantedBy
    <3>. QED
      BY <3>2, <3>3, <3>4 DEF ReplyHolds
  <2>6. ReplyHolds(d, ev, x, Len(q))
    <3>1. Wanted(c, Len(q), step.method, step.in)
      BY <1>0, <1>6, <2>3, WantedCall DEF Replied
    <3>2. Len(q) # 1 => q[1] = r[1]
      BY <2>3
    <3>3. Wanted(x, Len(q), step.method, step.in)
      BY <2>1, <3>1, <3>2 DEF Wanted, WantedBy
    <3>4. q[Len(q)].code = code /\ q[Len(q)].out = out
      BY <2>3
    <3>5. step.method \in Methods /\ step.in \in RequestOf[step.method]
      BY <2>1 DEF Calls
    <3>. QED
      BY <2>4, <3>3, <3>4, <3>5 DEF ReplyHolds
  <2>7. \A i \in 1..Len(q) : ReplyHolds(d, ev, x, i)
    <3>1. \A i \in 1..Len(q) : i \in 1..Len(r) \/ i = Len(q)
      BY <2>3
    <3>. QED
      BY <2>5, <2>6, <3>1
  <2>. QED
    BY <2>1, <2>7 DEF Heard, AnswerHolds, Succeeded
<1>. QED
  BY <1>1, <1>3, <1>4, <1>5, <1>6 DEF CommandActs

\* What the command lines have heard holds.
AllHeard == \A u \in CliUsers : Heard(db, events, cmd[u], call[u])

LEMMA HeardInit == Init => Trusted /\ AllHeard
<1>. SUFFICES ASSUME Init PROVE Trusted /\ AllHeard
  OBVIOUS
<1>1. Sound(db)
  <2>1. /\ db.cache = [k \in Keys |-> NoFiles]
        /\ \A k \in Keys :
             /\ db.schemas[k] # Nil => \E v \in Numbers : db.versions[k][v] # Nil
             /\ \A v \in Numbers : db.versions[k][v] # Nil =>
                  db.schemas[k] # Nil /\ <<db.schemas[k].format, db.versions[k][v]>> \in Parses
    BY StartAssumption DEF Init
  <2>2. \A k \in Keys, v \in Numbers : db.cache[k][v] = Nil
    BY <2>1 DEF NoFiles
  <2>. QED
    BY <2>1, <2>2 DEF Sound
<1>2. ASSUME NEW u \in CliUsers PROVE Heard(db, events, cmd[u], call[u])
  <2>1. cmd[u].name = Nil /\ cmd[u].replies = <<>> /\ cmd[u].state = "idle"
    BY DEF Init, NoCommand
  <2>2. \A i \in 1..Len(cmd[u].replies) : ReplyHolds(db, events, cmd[u], i)
    <3>1. Len(cmd[u].replies) = 0
      BY <2>1, NoReplies
    <3>. QED
      BY <3>1
  <2>3. cmd[u].name \notin {"schema create", "namespace create"}
    BY <2>1, NoNameAssumption DEF CommandNames
  <2>. QED
    BY <2>1, <2>2, <2>3 DEF Heard, AnswerHolds, Succeeded
<1>. QED
  BY <1>1, <1>2 DEF Trusted, AllHeard

LEMMA HeardStep ==
    ASSUME Typed, AllMet, Trusted, AllHeard, [Next]_vars
    PROVE  Trusted' /\ AllHeard'
<1>0. Typed' /\ DatabaseStep(db, events, db', events') /\ db \in Databases /\ events \subseteq events'
  BY TypedStep DEF Typed, DatabaseStep
<1>1. Trusted'
  <2>. SUFFICES ASSUME Calm(events') PROVE Sound(db')
    BY DEF Trusted
  <2>1. Sound(db)
    BY <1>0 DEF Trusted, Calm
  <2>. QED
    BY <1>0, <2>1, StepKeepsSound
<1>. SUFFICES AllHeard'
  BY <1>1
<1>2. ASSUME NEW u \in CliUsers PROVE Heard(db', events', cmd[u], call[u])
  <2>1. CommandTyped(cmd[u]) /\ Asked(cmd[u], call[u]) /\ Heard(db, events, cmd[u], call[u])
    BY DEF Typed, CommandsTyped, AllHeard
  <2>2. ASSUME cmd[u].state = "waiting" PROVE Calls(StepOf(cmd[u]))
    <3>1. StepOf(cmd[u]).kind = "call"
      BY <2>1, <2>2 DEF Asked
    <3>2. Exits(StepOf(cmd[u])) \/ Calls(StepOf(cmd[u]))
      BY <2>1, <2>2, CommandStep DEF CommandTyped, StepOf
    <3>. QED
      BY <3>1, <3>2 DEF Exits
  <2>. QED
    BY <1>0, <2>1, <2>2, HeardStays
<1>3. ASSUME NEW u \in CliUsers, cmd'[u] = cmd[u], call'[u] = call[u] \/ AnswerHolds(db', events', cmd[u], call'[u])
      PROVE  Heard(db', events', cmd'[u], call'[u])
  BY <1>2, <1>3 DEF Heard
<1>4. CliUsers \subseteq Users /\ CallsOfUsers
  BY DEF Users, Typed
<1>5. ASSUME NEW u \in CliUsers, RunCommand(u) \/ Commanding(u) PROVE AllHeard'
  <2>1. PICK x : CommandActs(u, x)
    BY <1>5, CommandActions
  <2>2. /\ cmd'[u] = x
        /\ \A w \in CliUsers : w # u => cmd'[w] = cmd[w] /\ call'[w] = call[w]
    <3>1. cmd'[u] = x /\ \A w \in CliUsers : w # u => cmd'[w] = cmd[w]
      BY <2>1 DEF CommandActs, Typed, CommandsTyped
    <3>2. UNCHANGED call \/ \E y : call' = [call EXCEPT ![u] = y]
      BY <2>1 DEF CommandActs, Started, Exited, Connected, Called, Replied
    <3>. QED
      BY <1>4, <3>1, <3>2, CallReplaced
  <2>3. Heard(db', events', x, call'[u])
    BY <1>2, <2>1, ActsKeepHeard
  <2>. QED
    BY <1>3, <2>2, <2>3 DEF AllHeard
<1>6. ASSUME NEW u \in Users, NEW x, call' = [call EXCEPT ![u] = x], UNCHANGED cmd,
             u \in CliUsers => AnswerHolds(db', events', cmd[u], x)
      PROVE  AllHeard'
  <2>1. call'[u] = x /\ \A w \in Users : w # u => call'[w] = call[w]
    BY <1>4, <1>6, CallReplaced
  <2>. QED
    BY <1>3, <1>4, <1>6, <2>1 DEF AllHeard
<1>7. ASSUME NEW u \in HttpUsers, HTTPRequest(u) PROVE AllHeard'
  <2>1. u \in Users /\ u \notin CliUsers /\ UNCHANGED cmd
    BY <1>7, UsersAssumption DEF HTTPRequest, Users
  <2>2. \E x : call' = [call EXCEPT ![u] = x]
    BY <1>7 DEF HTTPRequest
  <2>. QED
    BY <1>6, <2>1, <2>2
<1>8. ASSUME NEW u \in Users, Gateway(u) PROVE AllHeard'
  <2>1. UNCHANGED cmd /\ Running(u) /\ call[u].via = "gateway"
    BY <1>8, GatewayStep
  <2>2. u \notin CliUsers
    BY <2>1 DEF Running, Typed, CallsTyped, CallTyped
  <2>3. \E x : call' = [call EXCEPT ![u] = x]
    BY <1>8, GatewayStep
  <2>. QED
    BY <1>6, <2>1, <2>2, <2>3
<1>9. ASSUME NEW u \in Users, Handle(u) \/ GatewayFails(u) PROVE AllHeard'
  <2>1. Running(u) /\ UNCHANGED cmd
    BY <1>9, Answered
  <2>2. PICK x :
          /\ call' = [call EXCEPT ![u] = x]
          /\ x.step = "done" /\ call[u].via = "grpc" /\ Trusted
               => Kept(db', events', call[u].method, call[u].in, x.code, x.out)
    BY <1>9, Answered
  <2>3. ASSUME u \in CliUsers PROVE AnswerHolds(db', events', cmd[u], x)
    <3>. SUFFICES ASSUME cmd[u].state = "waiting", x.step = "done"
                  PROVE  Kept(db', events', StepOf(cmd[u]).method, StepOf(cmd[u]).in, x.code, x.out)
      BY DEF AnswerHolds
    <3>1. call[u].via = "grpc"
      BY <2>1, <2>3 DEF Running, Typed, CallsTyped, CallTyped
    <3>2. Kept(db', events', call[u].method, call[u].in, x.code, x.out)
      BY <2>2, <3>1
    <3>3. Asked(cmd[u], call[u])
      BY <2>3 DEF Typed, CommandsTyped
    <3>4. call[u].method = StepOf(cmd[u]).method /\ call[u].in = StepOf(cmd[u]).in
      BY <2>1, <3>3 DEF Asked, Running
    <3>. QED
      BY <3>2, <3>4
  <2>. QED
    BY <1>6, <2>1, <2>2, <2>3
<1>10. CASE ExitProcess \/ StopPanics
  <2>1. ProcessEnds /\ UNCHANGED cmd
    BY <1>10 DEF ExitProcess, StopPanics, ProcessEnds
  <2>2. ASSUME NEW u \in CliUsers
        PROVE  call'[u] = call[u] \/ AnswerHolds(db', events', cmd[u], call'[u])
    <3>1. \/ call'[u] = call[u]
          \/ \E code \in {"Unavailable", "reset"} : call'[u] = Done(call[u], code, Nil)
      BY <1>4, <2>1, EndKeepsTyped
    <3>2. ASSUME NEW code \in {"Unavailable", "reset"}, call'[u] = Done(call[u], code, Nil)
          PROVE  AnswerHolds(db', events', cmd[u], call'[u])
      <4>1. call'[u].code = code /\ code \notin {"OK", "AlreadyExists"}
        BY <3>2 DEF Done
      <4>2. Kept(db', events', StepOf(cmd[u]).method, StepOf(cmd[u]).in, code, call'[u].out)
        BY <4>1, KeptOfFailure
      <4>. QED
        BY <4>1, <4>2 DEF AnswerHolds
    <3>. QED
      BY <3>1, <3>2
  <2>. QED
    BY <1>3, <2>1, <2>2 DEF AllHeard
<1>11. CASE Evict \/ Listen \/ Signal \/ Drained \/ DrainTimeout \/ CloseConn \/ GracefulStop \/ CloseDb \/ Idle
            \/ UNCHANGED vars
  <2>1. UNCHANGED <<call, cmd>>
    BY <1>11 DEF Evict, Listen, Signal, Drained, DrainTimeout, CloseConn, GracefulStop, CloseDb, Idle,
       Goto, vars
  <2>. QED
    BY <1>3, <2>1 DEF AllHeard
<1>. QED
  BY <1>5, <1>7, <1>8, <1>9, <1>10, <1>11 DEF Next, Serving, Stopping

LEMMA HeardInvariance == Spec => [](Typed /\ AllMet /\ Trusted /\ AllHeard)
<1>. DEFINE Inv == Typed /\ AllMet /\ Trusted /\ AllHeard
<1>1. Init => Inv
  BY TypedInit, HeardInit
<1>2. Inv /\ [Next]_vars => Inv'
  BY TypedStep, HeardStep
<1>. QED
  BY <1>1, <1>2, PTL DEF Spec

\* The file and the metadata that fetchSchemaAndMeta puts together belong
\* together, whoever uploads between its two calls, unless two first uploads have
\* crossed between the check of Create and its insert.
THEOREM FetchesMatch == Spec => []FetchedPairMatches
<1>1. Typed /\ AllHeard => FetchedPairMatches
  <2>. SUFFICES ASSUME Typed, AllHeard, NEW u \in CliUsers, cmd[u].name \in Fetching,
                       Len(cmd[u].replies) = 2, cmd[u].replies[2].code = "OK",
                       Calm(events)
                PROVE  LET f == fetchSchemaAndMeta(cmd[u].args, cmd[u].replies)
                       IN  <<f.format, f.data>> \in Parses
    BY DEF FetchedPairMatches, Fetching, Calm
  <2>. DEFINE c == cmd[u]
              r == c.replies
              k == <<c.args.namespace, c.args.id>>
  <2>1. Sequence(r) /\ c.name \in Fetching /\ Len(r) = 2 /\ r[2].code = "OK"
    BY DEF Typed, CommandsTyped, CommandTyped
  <2>2. r # <<>> /\ Len(r) # 1
    <3>1. Len(r) # 0 /\ Len(r) # 1
      BY <2>1
    <3>. HIDE DEF r
    <3>. QED
      BY <3>1, NoReplies
  <2>3. ASSUME NEW i \in 1..2 PROVE ReplyHolds(db, events, c, i)
    <3>1. i \in 1..Len(r)
      BY <2>1
    <3>. QED
      BY <3>1 DEF AllHeard, Heard
  <2>4. /\ r[1].code = "OK" /\ r[2].out.format = db.schemas[k].format
    <3>. DEFINE i == 2
    <3>1. i # 1 /\ ReplyHolds(db, events, c, i) /\ r[i].code = "OK"
      BY <2>1, <2>3
    <3>. SUFFICES r[1].code = "OK" /\ r[i].out.format = db.schemas[k].format
      OBVIOUS
    <3>. HIDE DEF i, k
    <3>2. PICK m \in Methods : \E in \in RequestOf[m] :
            Wanted(c, i, m, in) /\ Kept(db, events, m, in, r[i].code, r[i].out)
      BY <3>1 DEF ReplyHolds
    <3>3. PICK in \in RequestOf[m] : Wanted(c, i, m, in) /\ Kept(db, events, m, in, r[i].code, r[i].out)
      BY <3>2
    <3>4. Key(in) = k /\ m = "GetSchemaMetadata" /\ r[1].code = "OK"
      BY <2>1, <3>1, <3>3 DEF Wanted, WantedBy, k
    <3>. QED
      BY <3>1, <3>3, <3>4 DEF Kept
  <2>5. <<db.schemas[k].format, r[1].out.data>> \in Parses
    <3>. DEFINE i == 1
    <3>1. i = 1 /\ ReplyHolds(db, events, c, i) /\ r[i].code = "OK"
      BY <2>3, <2>4
    <3>. SUFFICES <<db.schemas[k].format, r[i].out.data>> \in Parses
      OBVIOUS
    <3>. HIDE DEF i, k
    <3>2. PICK m \in Methods : \E in \in RequestOf[m] :
            Wanted(c, i, m, in) /\ Kept(db, events, m, in, r[i].code, r[i].out)
      BY <3>1 DEF ReplyHolds
    <3>3. PICK in \in RequestOf[m] : Wanted(c, i, m, in) /\ Kept(db, events, m, in, r[i].code, r[i].out)
      BY <3>2
    <3>4. Key(in) = k /\ m \in {"GetSchema", "GetLatestSchema"}
      BY <2>1, <3>1, <3>3 DEF Wanted, WantedBy, k
    <3>. QED
      BY <3>1, <3>3, <3>4 DEF Kept
  <2>. DEFINE f == fetchSchemaAndMeta(c.args, r)
  <2>6. f = [kind |-> "fetched", data |-> r[1].out.data, format |-> r[2].out.format]
    BY <2>1, <2>2 DEF fetchSchemaAndMeta
  <2>. HIDE DEF f
  <2>7. f.data = r[1].out.data /\ f.format = r[2].out.format
    BY <2>6
  <2>. QED
    BY <2>4, <2>5, <2>7 DEF f
<1>. QED
  BY <1>1, HeardInvariance, PTL

\* A create command that ends with 0 has left its schema or namespace behind,
\* until something is deleted.
THEOREM ZeroIsTruthful == Spec => []ZeroMeansThere
<1>1. Typed /\ AllHeard => ZeroMeansThere
  <2>. SUFFICES ASSUME Typed, AllHeard, NEW u \in CliUsers,
                       cmd[u].state = "idle", cmd[u].code = 0, "deleted" \notin events
                PROVE  /\ cmd[u].name = "schema create" =>
                            \E v \in Numbers :
                                db.versions[<<cmd[u].args.namespace, cmd[u].args.id>>][v] = cmd[u].args.data
                       /\ cmd[u].name = "namespace create" => db.namespaces[cmd[u].args.id] # Nil
    BY DEF ZeroMeansThere
  <2>. DEFINE c == cmd[u]
              r == c.replies
  <2>1. ASSUME c.name \in {"schema create", "namespace create"}
        PROVE  /\ r[1].code \in {"OK", "AlreadyExists"}
               /\ ReplyHolds(db, events, c, 1)
    <3>1. r # <<>> /\ r[1].code \in {"OK", "AlreadyExists"}
      BY <2>1 DEF AllHeard, Heard, Succeeded
    <3>2. Sequence(r)
      BY DEF Typed, CommandsTyped, CommandTyped
    <3>3. 1 \in 1..Len(r)
      BY <3>1, <3>2, NoReplies
    <3>. QED
      BY <3>1, <3>3 DEF AllHeard, Heard
  <2>2. c.name = "schema create" => \E v \in Numbers : db.versions[<<c.args.namespace, c.args.id>>][v] = c.args.data
    BY <2>1 DEF ReplyHolds, Wanted, WantedBy, Kept
  <2>3. c.name = "namespace create" => db.namespaces[c.args.id] # Nil
    BY <2>1 DEF ReplyHolds, Wanted, WantedBy, Kept
  <2>. QED
    BY <2>2, <2>3
<1>. QED
  BY <1>1, HeardInvariance, PTL

=============================================================================
