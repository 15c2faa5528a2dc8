--------------------------- MODULE GoClientProofs ---------------------------
(***************************************************************************)
(* Proofs about GoClient, for any number of urls, any callers, contents,   *)
(* strategies and bounds.                                                  *)
(***************************************************************************)
EXTENDS GoClient, TLAPS

-----------------------------------------------------------------------------
(***************************************************************************)
(* Types.                                                                  *)
(***************************************************************************)
Loads == [step : LoadSteps, ver : Nat, val : Server!Entries \cup {Nil}]

\* The records that a load begins and ends with.
LEMMA LoadRecords ==
    /\ NoLoad \in Loads /\ NoLoad.step = "idle"
    /\ FirstStep \in Loads
    /\ FirstStep.step = IF options.strategy = "version" THEN "list" ELSE "fetch"
  BY DEF Loads, NoLoad, FirstStep, LoadSteps

\* One goroutine puts the record l in the place of its load on u.
Replaced(u, g, l) ==
    /\ load' \in [Stores -> [Goroutines -> Loads]]
    /\ \A v \in Stores, h \in Goroutines : load'[v][h] = IF v = u /\ h = g THEN l ELSE load[v][h]

\* Two fields of a record are assigned.
LEMMA TwoFields ==
    ASSUME NEW r \in Loads, NEW s \in LoadSteps
    PROVE  /\ \A v \in Nat :
                [r EXCEPT !.step = s, !.ver = v] = [step |-> s, ver |-> v, val |-> r.val]
           /\ \A e \in Server!Entries :
                [r EXCEPT !.step = s, !.val = e] = [step |-> s, ver |-> r.ver, val |-> e]
<1>0. \A q \in Loads : q = [step |-> q.step, ver |-> q.ver, val |-> q.val]
  BY DEF Loads
<1>1. ASSUME NEW v \in Nat
      PROVE  [r EXCEPT !.step = s, !.ver = v] = [step |-> s, ver |-> v, val |-> r.val]
  <2>. DEFINE q == [r EXCEPT !.step = s, !.ver = v]
  <2>1. q \in Loads /\ q.step = s /\ q.ver = v /\ q.val = r.val
    BY DEF Loads
  <2>. HIDE DEF q
  <2>2. q = [step |-> s, ver |-> v, val |-> r.val]
    BY <1>0, <2>1
  <2>. QED
    BY <2>2 DEF q
<1>2. ASSUME NEW e \in Server!Entries
      PROVE  [r EXCEPT !.step = s, !.val = e] = [step |-> s, ver |-> r.ver, val |-> e]
  <2>. DEFINE q == [r EXCEPT !.step = s, !.val = e]
  <2>1. q \in Loads /\ q.step = s /\ q.ver = r.ver /\ q.val = e
    BY DEF Loads
  <2>. HIDE DEF q
  <2>2. q = [step |-> s, ver |-> r.ver, val |-> e]
    BY <1>0, <2>1
  <2>. QED
    BY <2>2 DEF q
<1>. QED
  BY <1>1, <1>2

\* Each assignment to a load replaces its record and no other.
LEMMA LoadReplaced ==
    ASSUME TypeOK, NEW u \in Stores, NEW g \in Goroutines
    PROVE  /\ \A l \in Loads : load' = [load EXCEPT ![u][g] = l] => Replaced(u, g, l)
           /\ \A s \in LoadSteps, v \in Nat :
                load' = [load EXCEPT ![u][g].step = s, ![u][g].ver = v]
                   => Replaced(u, g, [step |-> s, ver |-> v, val |-> load[u][g].val])
           /\ \A s \in LoadSteps, e \in Server!Entries :
                load' = [load EXCEPT ![u][g].step = s, ![u][g].val = e]
                   => Replaced(u, g, [step |-> s, ver |-> load[u][g].ver, val |-> e])
           /\ \A s \in LoadSteps :
                load' = [load EXCEPT ![u][g].step = s]
                   => Replaced(u, g, [step |-> s, ver |-> load[u][g].ver, val |-> load[u][g].val])
<1>1. load \in [Stores -> [Goroutines -> Loads]] /\ load[u][g] \in Loads
  BY DEF TypeOK, Loads
<1>2. ASSUME NEW l \in Loads, load' = [load EXCEPT ![u][g] = l]
      PROVE  Replaced(u, g, l)
  BY <1>1, <1>2 DEF Replaced
<1>3. ASSUME NEW s \in LoadSteps, NEW v \in Nat,
             load' = [load EXCEPT ![u][g].step = s, ![u][g].ver = v]
      PROVE  Replaced(u, g, [step |-> s, ver |-> v, val |-> load[u][g].val])
  <2>1. [step |-> s, ver |-> v, val |-> load[u][g].val] \in Loads
    BY <1>1 DEF Loads
  <2>2. load' = [load EXCEPT ![u][g] = [load[u][g] EXCEPT !.step = s, !.ver = v]]
    BY <1>1, <1>3
  <2>3. [load[u][g] EXCEPT !.step = s, !.ver = v] = [step |-> s, ver |-> v, val |-> load[u][g].val]
    BY <1>1, TwoFields
  <2>. QED
    BY <2>1, <2>2, <2>3, <1>2
<1>4. ASSUME NEW s \in LoadSteps, NEW e \in Server!Entries,
             load' = [load EXCEPT ![u][g].step = s, ![u][g].val = e]
      PROVE  Replaced(u, g, [step |-> s, ver |-> load[u][g].ver, val |-> e])
  <2>1. [step |-> s, ver |-> load[u][g].ver, val |-> e] \in Loads
    BY <1>1 DEF Loads
  <2>2. load' = [load EXCEPT ![u][g] = [load[u][g] EXCEPT !.step = s, !.val = e]]
    BY <1>1, <1>4
  <2>3. [load[u][g] EXCEPT !.step = s, !.val = e] = [step |-> s, ver |-> load[u][g].ver, val |-> e]
    BY <1>1, TwoFields
  <2>. QED
    BY <2>1, <2>2, <2>3, <1>2
<1>5. ASSUME NEW s \in LoadSteps, load' = [load EXCEPT ![u][g].step = s]
      PROVE  Replaced(u, g, [step |-> s, ver |-> load[u][g].ver, val |-> load[u][g].val])
  <2>1. [step |-> s, ver |-> load[u][g].ver, val |-> load[u][g].val] \in Loads
    BY <1>1 DEF Loads
  <2>2. load' = [load EXCEPT ![u][g] = [load[u][g] EXCEPT !.step = s]]
    BY <1>1, <1>5
  <2>3. [load[u][g] EXCEPT !.step = s] = [step |-> s, ver |-> load[u][g].ver, val |-> load[u][g].val]
    BY <1>1 DEF Loads
  <2>. QED
    BY <2>1, <2>2, <2>3, <1>2
<1>. QED
  BY <1>2, <1>3, <1>4, <1>5

(***************************************************************************)
(* What the actions do to the loads.                                       *)
(***************************************************************************)

\* The error paths of the loaders.
LEMMA LoadFailsEffect ==
    ASSUME TypeOK, NEW u \in Stores, NEW g \in Goroutines, LoadFails(u, g)
    PROVE  Replaced(u, g, NoLoad)
  BY LoadRecords, LoadReplaced DEF LoadFails, Ending

\* A new version is found, or the load fails.
LEMMA ListEffect ==
    ASSUME TypeOK, NEW u \in Stores, NEW g \in Goroutines, ListVersions(u, g)
    PROVE  \/ /\ UNCHANGED <<client, data, lastVersion, timer>>
              /\ \E e \in Latest(u) :
                    /\ NewVersion(u, e.version) /\ e.version \in Nat
                    /\ Replaced(u, g, [step |-> "fetch", ver |-> e.version, val |-> load[u][g].val])
           \/ LoadFails(u, g)
<1>1. \A e \in Latest(u) : e.version \in Nat
  BY DEF TypeOK, Latest, Server!Entries
<1>2. "fetch" \in LoadSteps
  BY DEF LoadSteps
<1>3. CASE LoadFails(u, g)
  BY <1>3
<1>4. ASSUME NEW e \in Latest(u), NewVersion(u, e.version),
             load' = [load EXCEPT ![u][g].step = "fetch", ![u][g].ver = e.version],
             UNCHANGED <<client, data, lastVersion, timer>>
      PROVE  Replaced(u, g, [step |-> "fetch", ver |-> e.version, val |-> load[u][g].val])
  BY <1>1, <1>2, <1>4, LoadReplaced
<1>. QED
  BY <1>1, <1>3, <1>4 DEF ListVersions

\* A descriptor set of the server is in hand, or the load fails.
LEMMA FetchEffect ==
    ASSUME TypeOK, NEW u \in Stores, NEW g \in Goroutines, Fetch(u, g)
    PROVE  \/ /\ UNCHANGED <<client, data, lastVersion, timer>>
              /\ \E e \in Server!Entries :
                    /\ e.file \in Descriptors
                    /\ options.strategy = "version" => e.version = load[u][g].ver
                    /\ Replaced(u, g, [step |-> IF options.strategy = "version" THEN "assign" ELSE "set",
                                       ver |-> load[u][g].ver, val |-> e])
           \/ LoadFails(u, g)
<1>. DEFINE step == IF options.strategy = "version" THEN "assign" ELSE "set"
<1>1. step \in LoadSteps /\ contents \subseteq Server!Entries
  BY DEF TypeOK, LoadSteps
<1>2. CASE LoadFails(u, g)
  BY <1>2
<1>3. ASSUME NEW e \in contents, load' = [load EXCEPT ![u][g].step = step, ![u][g].val = e]
      PROVE  Replaced(u, g, [step |-> step, ver |-> load[u][g].ver, val |-> e])
  <2>. HIDE DEF step
  <2>. QED
    BY <1>1, <1>3, LoadReplaced
<1>. QED
  BY <1>1, <1>2, <1>3 DEF Fetch, Latest

\* lastVersion is assigned and the data comes next.
LEMMA AssignEffect ==
    ASSUME TypeOK, NEW u \in Stores, NEW g \in Goroutines, AssignVersion(u, g)
    PROVE  Replaced(u, g, [step |-> "set", ver |-> load[u][g].ver, val |-> load[u][g].val])
<1>1. "set" \in LoadSteps
  BY DEF LoadSteps
<1>. QED
  BY <1>1, LoadReplaced DEF AssignVersion

\* newStore: the load of this store is over, that of the next begins.
LEMMA NewStoreEffect ==
    ASSUME TypeOK, NEW u \in Stores, SetData(u, Own), timer[u] = "none"
    PROVE  /\ load' \in [Stores -> [Goroutines -> Loads]]
           /\ \A v \in Stores, h \in Goroutines :
                load'[v][h] = IF h # Own THEN load[v][h]
                              ELSE IF v = u THEN NoLoad
                              ELSE IF v = u + 1 THEN FirstStep ELSE load[v][h]
           /\ client' = IF u = N THEN "ready" ELSE "new"
           /\ timer' = IF options.auto THEN [timer EXCEPT ![u] = "select"] ELSE timer
<1>1. load \in [Stores -> [Goroutines -> Loads]] /\ Own \in Goroutines
  BY DEF TypeOK, Loads, Goroutines
<1>2. load' = [v \in Stores |-> IF v = u THEN [load[u] EXCEPT ![Own] = NoLoad]
                                ELSE IF v = u + 1 THEN [load[v] EXCEPT ![Own] = FirstStep]
                                ELSE load[v]]
  BY DEF SetData
<1>3. load' \in [Stores -> [Goroutines -> Loads]]
  BY <1>1, <1>2, LoadRecords
<1>4. \A v \in Stores, h \in Goroutines :
         load'[v][h] = IF h # Own THEN load[v][h]
                       ELSE IF v = u THEN NoLoad
                       ELSE IF v = u + 1 THEN FirstStep ELSE load[v][h]
  BY <1>1, <1>2
<1>. QED
  BY <1>3, <1>4 DEF SetData

\* Every other load ends with the data.
LEMMA SetEffect ==
    ASSUME TypeOK, NEW u \in Stores, NEW g \in Goroutines, SetData(u, g),
           ~(g = Own /\ timer[u] = "none")
    PROVE  /\ Replaced(u, g, NoLoad) /\ UNCHANGED client
           /\ timer' = IF g = Own THEN [timer EXCEPT ![u] = "select"] ELSE timer
  BY LoadRecords, LoadReplaced DEF SetData, Ending

\* A load of a store's own goroutine begins.
LEMMA StartEffect ==
    ASSUME TypeOK, NEW u \in Stores, Starting(u, Own)
    PROVE  Replaced(u, Own, FirstStep)
<1>1. Own \in Goroutines
  BY DEF Goroutines
<1>. QED
  BY <1>1, LoadRecords, LoadReplaced DEF Starting

\* A caller's loads of all stores begin.
LEMMA RefreshEffect ==
    ASSUME TypeOK, NEW c \in Callers, Refresh(c)
    PROVE  /\ load' \in [Stores -> [Goroutines -> Loads]]
           /\ \A v \in Stores, h \in Goroutines :
                load'[v][h] = IF h = c THEN FirstStep ELSE load[v][h]
<1>1. load \in [Stores -> [Goroutines -> Loads]] /\ c \in Goroutines
  BY DEF TypeOK, Loads, Goroutines
<1>2. load' = [u \in Stores |-> [load[u] EXCEPT ![c] = FirstStep]]
  BY DEF Refresh
<1>3. load' \in [Stores -> [Goroutines -> Loads]]
  BY <1>1, <1>2, LoadRecords
<1>. QED
  BY <1>1, <1>2, <1>3

\* The close of the next store keeps the type of the calls.
LEMMA NextCloseType ==
    ASSUME TypeOK, NEW c \in Callers, NextClose(c)
    PROVE  call' \in [Callers -> [op : {"idle", "refresh", "close", "stop"}, store : Stores]]
  BY StoresAssumption DEF TypeOK, NextClose, Stores

\* Each step of the client keeps the types.
LEMMA TypeStep == TypeOK /\ [Next]_vars => TypeOK'
<1>. SUFFICES ASSUME TypeOK, [Next]_vars PROVE TypeOK'
  OBVIOUS
<1>. USE DEF server, app
<1>a. load \in [Stores -> [Goroutines -> Loads]]
  BY DEF TypeOK, Loads
<1>b. 1 \in Stores
  BY StoresAssumption DEF Stores
<1>c. ASSUME load' \in [Stores -> [Goroutines -> Loads]],
             client' \in {"idle", "new", "ready", "failed"},
             timer' \in [Stores -> Timers],
             data' \in [Stores -> Server!Entries \cup {Nil}], lastVersion' \in [Stores -> Nat],
             faults' \in Nat, UNCHANGED <<contents, deletes, options, ticked, closed, app>>
      PROVE  TypeOK'
  BY <1>c DEF TypeOK, Loads
<1>d. ASSUME NEW u \in Stores, NEW g \in Goroutines, LoadFails(u, g)
      PROVE  /\ load' \in [Stores -> [Goroutines -> Loads]]
             /\ client' \in {"idle", "new", "ready", "failed"} /\ timer' \in [Stores -> Timers]
             /\ UNCHANGED <<data, lastVersion>>
  <2>1. client' \in {"idle", "new", "ready", "failed"} /\ timer' \in [Stores -> Timers]
    BY <1>d DEF LoadFails, TypeOK, Timers
  <2>. QED
    BY <1>d, <2>1, LoadFailsEffect DEF LoadFails, Replaced
<1>1. ASSUME NEW u \in Stores, NEW g \in Goroutines, ListVersions(u, g) PROVE TypeOK'
  <2>1. /\ load' \in [Stores -> [Goroutines -> Loads]]
        /\ client' \in {"idle", "new", "ready", "failed"} /\ timer' \in [Stores -> Timers]
        /\ UNCHANGED <<data, lastVersion>>
    BY <1>d, <1>1, ListEffect DEF Replaced, TypeOK
  <2>. QED
    BY <1>c, <1>1, <2>1 DEF ListVersions, TypeOK
<1>2. ASSUME NEW u \in Stores, NEW g \in Goroutines, Fetch(u, g) PROVE TypeOK'
  <2>1. /\ load' \in [Stores -> [Goroutines -> Loads]]
        /\ client' \in {"idle", "new", "ready", "failed"} /\ timer' \in [Stores -> Timers]
        /\ UNCHANGED <<data, lastVersion>>
    BY <1>d, <1>2, FetchEffect DEF Replaced, TypeOK
  <2>. QED
    BY <1>c, <1>2, <2>1 DEF Fetch, TypeOK
<1>3. ASSUME NEW u \in Stores, NEW g \in Goroutines, AssignVersion(u, g) PROVE TypeOK'
  <2>1. lastVersion' \in [Stores -> Nat]
    BY <1>3 DEF AssignVersion, TypeOK
  <2>. QED
    BY <1>c, <1>3, <2>1, AssignEffect DEF AssignVersion, TypeOK, Replaced
<1>4. ASSUME NEW u \in Stores, NEW g \in Goroutines, SetData(u, g) PROVE TypeOK'
  <2>1. load' \in [Stores -> [Goroutines -> Loads]]
    BY <1>4, NewStoreEffect, SetEffect DEF Replaced
  <2>2. timer' \in [Stores -> Timers] /\ client' \in {"idle", "new", "ready", "failed"}
    BY <1>4 DEF SetData, TypeOK, Timers
  <2>3. data' \in [Stores -> Server!Entries \cup {Nil}]
    BY <1>4 DEF SetData, TypeOK
  <2>. QED
    BY <1>c, <1>4, <2>1, <2>2, <2>3 DEF SetData, TypeOK
<1>5. ASSUME NEW u \in Stores, NEW g \in Goroutines, HttpError(u, g) PROVE TypeOK'
  BY <1>c, <1>d, <1>5 DEF HttpError, TypeOK
<1>6. ASSUME NEW u \in Stores, Timing(u) \/ Tick(u) PROVE TypeOK'
  <2>1. CASE Tick(u)
    BY <1>6, <2>1 DEF Tick, TypeOK
  <2>2. CASE Timing(u)
    <3>1. timer' \in [Stores -> Timers] /\ ticked' \in [Stores -> BOOLEAN]
      BY <2>2 DEF Timing, TickReceived, AccessClosed, TypeOK, Timers
    <3>. QED
      BY <2>2, <3>1 DEF Timing, TickReceived, AccessClosed, TypeOK
  <2>. QED
    BY <1>6, <2>1, <2>2
<1>7. ASSUME NEW u \in Stores, GetResolver(u) PROVE TypeOK'
  <2>1. load' \in [Stores -> [Goroutines -> Loads]]
    BY <1>a, <1>7, StartEffect DEF GetResolver, Replaced
  <2>2. timer' \in [Stores -> Timers]
    <3>1. timer \in [Stores -> Timers] /\ "load" \in Timers
      BY DEF TypeOK, Timers
    <3>2. timer' = timer \/ timer' = [timer EXCEPT ![u] = "load"]
      BY <1>7 DEF GetResolver
    <3>. QED
      BY <3>1, <3>2
  <2>. QED
    BY <1>c, <1>7, <2>1, <2>2 DEF GetResolver, TypeOK
<1>8. ASSUME NEW u \in Stores, GetResolverPanics(u) PROVE TypeOK'
  BY <1>8 DEF GetResolverPanics, TypeOK
<1>9. ASSUME NEW c \in Callers, SendDone(c) \/ CloseAccess(c) PROVE TypeOK'
  <2>1. call' \in [Callers -> [op : {"idle", "refresh", "close", "stop"}, store : Stores]]
    <3>1. CASE SendDone(c)
      BY <3>1, NextCloseType DEF SendDone
    <3>2. CASE CloseAccess(c)
      <4>1. call \in [Callers -> [op : {"idle", "refresh", "close", "stop"}, store : Stores]]
        BY DEF TypeOK
      <4>2. CASE NextClose(c)
        BY <4>2, NextCloseType
      <4>3. CASE call' = [call EXCEPT ![c].op = "stop"]
        BY <4>1, <4>3
      <4>4. CASE UNCHANGED call
        BY <4>1, <4>4
      <4>. QED
        BY <3>2, <4>1, <4>2, <4>3, <4>4 DEF CloseAccess
    <3>. QED
      BY <1>9, <3>1, <3>2
  <2>2. /\ timer' \in [Stores -> Timers] /\ closed' \in [Stores -> BOOLEAN] /\ panicked' \in BOOLEAN
    BY <1>9 DEF SendDone, CloseAccess, TypeOK, Timers
  <2>. QED
    BY <1>9, <2>1, <2>2 DEF SendDone, CloseAccess, TypeOK
<1>10. ASSUME NEW c \in Callers, RefreshReturns(c) \/ Close(c) PROVE TypeOK'
  <2>1. call' \in [Callers -> [op : {"idle", "refresh", "close", "stop"}, store : Stores]]
    <3>1. CASE RefreshReturns(c)
      BY <3>1 DEF RefreshReturns, TypeOK
    <3>2. CASE Close(c)
      BY <3>2, <1>b DEF Close, TypeOK
    <3>. QED
      BY <1>10, <3>1, <3>2
  <2>. QED
    BY <1>10, <2>1 DEF RefreshReturns, Close, TypeOK
<1>11. ASSUME NEW c \in Callers, Refresh(c) PROVE TypeOK'
  <2>1. load' \in [Stores -> [Goroutines -> Loads]]
    BY <1>11, RefreshEffect
  <2>2. call' \in [Callers -> [op : {"idle", "refresh", "close", "stop"}, store : Stores]]
    BY <1>11 DEF Refresh, TypeOK
  <2>. QED
    BY <1>11, <2>1, <2>2 DEF Refresh, TypeOK, Loads
<1>12. CASE NewClient
  <2>1. load' \in [Stores -> [Goroutines -> Loads]]
    BY <1>b, <1>12, StartEffect DEF NewClient, Replaced
  <2>. QED
    BY <1>c, <1>12, <2>1 DEF NewClient, TypeOK
<1>13. CASE Publish
  BY <1>13 DEF Publish, Server!Publish, TypeOK
<1>14. CASE DeleteVersion
  BY <1>14 DEF DeleteVersion, Server!Remove, TypeOK
<1>15. CASE Quiet \/ UNCHANGED vars
  BY <1>15 DEF Quiet, vars, TypeOK
<1>. QED
  BY <1>1, <1>2, <1>3, <1>4, <1>5, <1>6, <1>7, <1>8, <1>9, <1>10, <1>11, <1>12, <1>13, <1>14, <1>15
     DEF Next, Loading, Calling

\* Every variable of the client keeps its type, whatever fails.
THEOREM ClientTypes == Spec => []TypeOK
<1>1. Init => TypeOK
  <2>. SUFFICES ASSUME Init PROVE TypeOK
    OBVIOUS
  <2>1. load \in [Stores -> [Goroutines -> Loads]]
    BY LoadRecords DEF Init
  <2>2. call \in [Callers -> [op : {"idle", "refresh", "close", "stop"}, store : Stores]]
    BY StoresAssumption DEF Init, Stores
  <2>3. ticked \in [Stores -> BOOLEAN] /\ closed \in [Stores -> BOOLEAN] /\ panicked \in BOOLEAN
    BY DEF Init
  <2>. QED
    BY <2>1, <2>2, <2>3 DEF Init, TypeOK, Timers, Loads
<1>. QED
  BY <1>1, TypeStep, PTL DEF Spec

-----------------------------------------------------------------------------
(***************************************************************************)
(* The invariant: where the stores' own goroutines are while NewClient     *)
(* goes from store to store, and after it.                                 *)
(***************************************************************************)
HasData(u) == data[u] \in Server!Entries /\ data[u].file \in Descriptors

\* A loader that has its data has a descriptor set.
LoadsParsed ==
    \A u \in Stores, g \in Goroutines :
        load[u][g].step \in {"assign", "set"} =>
            load[u][g].val \in Server!Entries /\ load[u][g].val.file \in Descriptors

\* Before NewClient, and after it failed, no store loads on its own.
OwnIdle == client \in {"idle", "failed"} => \A u \in Stores : load[u][Own].step = "idle"

\* While NewClient is at store u, the stores before it have their data, and the
\* timers of u and of those after it are not running.
AtStore(u) ==
    \A v \in Stores :
        /\ v < u => HasData(v)
        /\ v >= u => timer[v] = "none"
        /\ v # u => load[v][Own].step = "idle"
OwnNew == client = "new" => \A u \in Stores : load[u][Own].step # "idle" => AtStore(u)

\* After NewClient, only the timer loads on its own.
OwnReady ==
    client = "ready" =>
        \A u \in Stores : HasData(u) /\ (load[u][Own].step # "idle" => timer[u] = "load")

\* A timer loads after NewClient only, and there is none before it.
TimersOK ==
    /\ client # "ready" => \A u \in Stores : timer[u] # "load"
    /\ client = "idle" => \A u \in Stores : timer[u] = "none"

\* A store that is closed, or is being closed, belongs to a client; its timer
\* is gone, or its Close waits to tell it so.
ClosedOK ==
    /\ client # "ready" => /\ \A u \in Stores : ~closed[u]
                           /\ \A c \in Callers : call[c].op \notin {"close", "stop"}
    /\ \A u \in Stores : closed[u] =>
         \/ timer[u] \in {"none", "gone"}
         \/ \E c \in Callers : call[c].op = "stop" /\ call[c].store = u

ClientInv == LoadsParsed /\ OwnIdle /\ OwnNew /\ OwnReady /\ TimersOK /\ ClosedOK

\* The invariant after a load of u by g failed.
LEMMA FailKeepsInv ==
    ASSUME TypeOK, TypeOK', ClientInv, NEW u \in Stores, NEW g \in Goroutines,
           load[u][g].step # "idle", LoadFails(u, g), UNCHANGED <<closed, call>>
    PROVE  ClientInv'
<1>1. Replaced(u, g, NoLoad) /\ NoLoad.step = "idle" /\ UNCHANGED data
  BY LoadFailsEffect, LoadRecords DEF LoadFails
<1>2. LoadsParsed'
  BY <1>1 DEF ClientInv, LoadsParsed, Replaced
<1>3. CASE g # Own
  <2>1. UNCHANGED <<client, timer>>
    BY <1>3 DEF LoadFails
  <2>. QED
    BY <1>1, <1>2, <1>3, <2>1 DEF ClientInv, OwnIdle, OwnNew, AtStore, OwnReady, TimersOK, ClosedOK,
       HasData, Replaced, Goroutines
<1>4. CASE g = Own /\ client = "ready"
  <2>1. timer[u] = "load" /\ timer' = [timer EXCEPT ![u] = "select"] /\ client' = client
    BY <1>4 DEF ClientInv, OwnReady, LoadFails
  <2>2. OwnReady'
    BY <1>1, <1>4, <2>1 DEF ClientInv, OwnReady, HasData, Replaced, Goroutines, TypeOK
  <2>3. ClosedOK'
    BY <1>4, <2>1 DEF ClientInv, ClosedOK, TypeOK
  <2>. QED
    BY <1>2, <1>4, <2>1, <2>2, <2>3 DEF ClientInv, OwnIdle, OwnNew, TimersOK
<1>5. CASE g = Own /\ client # "ready"
  <2>1. client = "new" /\ AtStore(u)
    BY <1>5 DEF ClientInv, OwnIdle, OwnNew, TypeOK
  <2>2. timer[u] = "none" /\ client' = "failed" /\ timer' = timer
    BY <1>5, <2>1 DEF AtStore, LoadFails, Stores
  <2>3. OwnIdle'
    BY <1>1, <1>5, <2>1, <2>2 DEF AtStore, OwnIdle, Replaced, Goroutines
  <2>4. TimersOK' /\ ClosedOK'
    BY <2>1, <2>2 DEF ClientInv, TimersOK, ClosedOK
  <2>. QED
    BY <1>2, <2>2, <2>3, <2>4 DEF ClientInv, OwnNew, OwnReady
<1>. QED
  BY <1>3, <1>4, <1>5

\* The invariant after a step of a load that changes nothing else but its
\* record.
LEMMA MoveKeepsInv ==
    ASSUME TypeOK, TypeOK', ClientInv, NEW u \in Stores, NEW g \in Goroutines, NEW l,
           load[u][g].step # "idle", Replaced(u, g, l),
           l.step \in {"assign", "set"} => l.val \in Server!Entries /\ l.val.file \in Descriptors,
           UNCHANGED <<client, data, timer, closed, call>>
    PROVE  ClientInv'
<1>1. LoadsParsed'
  BY DEF ClientInv, LoadsParsed, Replaced
<1>2. \A v \in Stores : load'[v][Own].step # "idle" => load[v][Own].step # "idle"
  BY DEF Replaced, Goroutines
<1>. QED
  BY <1>1, <1>2 DEF ClientInv, OwnIdle, OwnNew, AtStore, OwnReady, TimersOK, ClosedOK, HasData

\* The invariant after the data of a store is set.
LEMMA SetKeepsInv ==
    ASSUME TypeOK, TypeOK', ClientInv, NEW u \in Stores, NEW g \in Goroutines, SetData(u, g)
    PROVE  ClientInv'
<1>0. load[u][g].step = "set" /\ UNCHANGED <<closed, call>> /\ data' = [data EXCEPT ![u] = load[u][g].val]
  BY DEF SetData, app
<1>1. HasData(u)' /\ \A v \in Stores : HasData(v) => HasData(v)'
  BY <1>0 DEF ClientInv, LoadsParsed, HasData, TypeOK
<1>2. CASE g = Own /\ client = "ready"
  <2>1. timer[u] = "load"
    BY <1>0, <1>2 DEF ClientInv, OwnReady
  <2>2. /\ Replaced(u, g, NoLoad) /\ UNCHANGED client /\ timer' = [timer EXCEPT ![u] = "select"]
        /\ NoLoad.step = "idle"
    BY <1>2, <2>1, SetEffect, LoadRecords
  <2>3. LoadsParsed'
    BY <2>2 DEF ClientInv, LoadsParsed, Replaced
  <2>4. OwnReady'
    BY <1>1, <1>2, <2>2 DEF ClientInv, OwnReady, Replaced, Goroutines, TypeOK
  <2>5. ClosedOK'
    BY <1>0, <1>2, <2>1, <2>2 DEF ClientInv, ClosedOK, TypeOK
  <2>. QED
    BY <1>2, <2>2, <2>3, <2>4, <2>5 DEF ClientInv, OwnIdle, OwnNew, TimersOK
<1>3. CASE g = Own /\ client # "ready"
  <2>1. client = "new" /\ AtStore(u)
    BY <1>0, <1>3 DEF ClientInv, OwnIdle, OwnNew, TypeOK
  <2>2. timer[u] = "none" /\ SetData(u, Own)
    BY <1>3, <2>1 DEF AtStore, Stores
  <2>3. /\ \A v \in Stores, h \in Goroutines :
             load'[v][h] = IF h # Own THEN load[v][h]
                           ELSE IF v = u THEN NoLoad
                           ELSE IF v = u + 1 THEN FirstStep ELSE load[v][h]
        /\ client' = IF u = N THEN "ready" ELSE "new"
        /\ timer' = IF options.auto THEN [timer EXCEPT ![u] = "select"] ELSE timer
    BY <2>2, NewStoreEffect
  <2>4. NoLoad.step = "idle" /\ FirstStep.step \in {"list", "fetch"}
    BY LoadRecords
  <2>5. LoadsParsed'
    BY <2>3, <2>4 DEF ClientInv, LoadsParsed
  <2>6. \A v \in Stores : timer'[v] # "load" /\ (v > u => timer'[v] = "none")
    BY <2>1, <2>3 DEF AtStore, ClientInv, TimersOK, TypeOK, Stores
  <2>7. TimersOK' /\ OwnIdle' /\ ClosedOK'
    <3>1. client' # "idle" /\ client' # "failed"
      BY <2>3
    <3>2. \A v \in Stores : ~closed'[v]
      BY <1>0, <2>1 DEF ClientInv, ClosedOK
    <3>3. \A c \in Callers : call'[c].op \notin {"close", "stop"}
      BY <1>0, <2>1 DEF ClientInv, ClosedOK
    <3>. QED
      BY <2>6, <3>1, <3>2, <3>3 DEF TimersOK, OwnIdle, ClosedOK
  <2>8. Own \in Goroutines /\ u \in Nat /\ N \in Nat /\ \A v \in Stores : v \in Nat /\ v <= N
    BY StoresAssumption DEF Goroutines, Stores
  <2>9. CASE u = N
    <3>1. OwnReady'
      <4>. SUFFICES ASSUME NEW v \in Stores
                    PROVE  HasData(v)' /\ load'[v][Own].step = "idle"
        BY DEF OwnReady
      <4>1. load'[v][Own].step = "idle"
        BY <2>1, <2>3, <2>4, <2>8, <2>9 DEF AtStore
      <4>2. HasData(v)'
        BY <1>1, <2>1, <2>8, <2>9 DEF AtStore
      <4>. QED
        BY <4>1, <4>2
    <3>. QED
      BY <2>3, <2>5, <2>7, <2>9, <3>1 DEF ClientInv, OwnNew
  <2>10. CASE u # N
    <3>1. ASSUME NEW w \in Stores, load'[w][Own].step # "idle" PROVE AtStore(w)'
      <4>1. w = u + 1
        BY <2>1, <2>3, <2>4, <2>8, <3>1 DEF AtStore
      <4>2. ASSUME NEW v \in Stores
            PROVE  /\ v < w => HasData(v)'
                   /\ v >= w => timer'[v] = "none"
                   /\ v # w => load'[v][Own].step = "idle"
        <5>1. v < w => HasData(v)'
          <6>1. v < u => HasData(v)
            BY <2>1 DEF AtStore
          <6>2. v < w => v < u \/ v = u
            BY <2>8, <4>1
          <6>. QED
            BY <1>1, <6>1, <6>2
        <5>2. v >= w => timer'[v] = "none"
          BY <2>6, <2>8, <4>1
        <5>3. v # w => load'[v][Own].step = "idle"
          BY <2>1, <2>3, <2>4, <2>8, <4>1 DEF AtStore
        <5>. QED
          BY <5>1, <5>2, <5>3
      <4>. QED
        BY <4>2 DEF AtStore
    <3>. QED
      BY <2>3, <2>5, <2>7, <2>10, <3>1 DEF ClientInv, OwnNew, OwnReady
  <2>. QED
    BY <2>9, <2>10
<1>4. CASE g # Own
  <2>1. Replaced(u, g, NoLoad) /\ UNCHANGED <<client, timer>> /\ NoLoad.step = "idle"
    BY <1>4, SetEffect, LoadRecords
  <2>2. LoadsParsed'
    BY <2>1 DEF ClientInv, LoadsParsed, Replaced
  <2>3. \A v \in Stores : load'[v][Own].step = load[v][Own].step
    BY <1>4, <2>1 DEF Replaced, Goroutines
  <2>4. OwnNew'
    BY <1>1, <2>1, <2>3 DEF ClientInv, OwnNew, AtStore
  <2>5. OwnReady'
    BY <1>1, <2>1, <2>3 DEF ClientInv, OwnReady
  <2>. QED
    BY <1>0, <2>1, <2>2, <2>3, <2>4, <2>5 DEF ClientInv, OwnIdle, TimersOK, ClosedOK
<1>. QED
  BY <1>2, <1>3, <1>4

\* A call of the application changes no other call.
LEMMA CallEffect ==
    ASSUME TypeOK, NEW c \in Callers
    PROVE  /\ NextClose(c) => \E r : call' = [call EXCEPT ![c] = r]
           /\ \A r : call' = [call EXCEPT ![c] = r] =>
                call'[c] = r /\ \A d \in Callers : d # c => call'[d] = call[d]
           /\ \A o : call' = [call EXCEPT ![c].op = o] =>
                /\ call'[c].op = o /\ call'[c].store = call[c].store
                /\ \A d \in Callers : d # c => call'[d] = call[d]
<1>1. NextClose(c) => \E r : call' = [call EXCEPT ![c] = r]
  BY DEF NextClose
<1>2. ASSUME NEW r, call' = [call EXCEPT ![c] = r]
      PROVE  call'[c] = r /\ \A d \in Callers : d # c => call'[d] = call[d]
  BY <1>2 DEF TypeOK
<1>3. ASSUME NEW o, call' = [call EXCEPT ![c].op = o]
      PROVE  /\ call'[c].op = o /\ call'[c].store = call[c].store
             /\ \A d \in Callers : d # c => call'[d] = call[d]
  BY <1>3 DEF TypeOK
<1>. QED
  BY <1>1, <1>2, <1>3

\* The invariant is kept by every step.
LEMMA InvStep == TypeOK /\ ClientInv /\ [Next]_vars => ClientInv'
<1>. SUFFICES ASSUME TypeOK, ClientInv, [Next]_vars PROVE ClientInv'
  OBVIOUS
<1>0. TypeOK'
  BY TypeStep
<1>. USE DEF server, app
<1>1. ASSUME NEW u \in Stores, NEW g \in Goroutines, ListVersions(u, g) PROVE ClientInv'
  <2>1. load[u][g].step # "idle" /\ UNCHANGED <<closed, call>>
    BY <1>1 DEF ListVersions
  <2>2. CASE LoadFails(u, g)
    BY <1>0, <2>1, <2>2, FailKeepsInv
  <2>3. ASSUME UNCHANGED <<client, data, lastVersion, timer>>, NEW v, NEW x,
               Replaced(u, g, [step |-> "fetch", ver |-> v, val |-> x])
        PROVE  ClientInv'
    BY <1>0, <2>1, <2>3, MoveKeepsInv
  <2>. QED
    BY <1>1, <2>2, <2>3, ListEffect
<1>2. ASSUME NEW u \in Stores, NEW g \in Goroutines, Fetch(u, g) PROVE ClientInv'
  <2>1. load[u][g].step # "idle" /\ UNCHANGED <<closed, call>>
    BY <1>2 DEF Fetch
  <2>2. CASE LoadFails(u, g)
    BY <1>0, <2>1, <2>2, FailKeepsInv
  <2>3. ASSUME UNCHANGED <<client, data, lastVersion, timer>>,
               NEW e \in Server!Entries, e.file \in Descriptors, NEW s, NEW v,
               Replaced(u, g, [step |-> s, ver |-> v, val |-> e])
        PROVE  ClientInv'
    BY <1>0, <2>1, <2>3, MoveKeepsInv
  <2>. QED
    BY <1>2, <2>2, <2>3, FetchEffect
<1>3. ASSUME NEW u \in Stores, NEW g \in Goroutines, AssignVersion(u, g) PROVE ClientInv'
  <2>1. load[u][g].step = "assign" /\ UNCHANGED <<client, data, timer, closed, call>>
    BY <1>3 DEF AssignVersion
  <2>2. load[u][g].val \in Server!Entries /\ load[u][g].val.file \in Descriptors
    BY <2>1 DEF ClientInv, LoadsParsed
  <2>3. Replaced(u, g, [step |-> "set", ver |-> load[u][g].ver, val |-> load[u][g].val])
    BY <1>3, AssignEffect
  <2>. QED
    BY <1>0, <2>1, <2>2, <2>3, MoveKeepsInv
<1>4. ASSUME NEW u \in Stores, NEW g \in Goroutines, SetData(u, g) PROVE ClientInv'
  BY <1>0, <1>4, SetKeepsInv
<1>5. ASSUME NEW u \in Stores, NEW g \in Goroutines, HttpError(u, g) PROVE ClientInv'
  BY <1>0, <1>5, FailKeepsInv DEF HttpError
<1>6. ASSUME NEW u \in Stores, Timing(u) PROVE ClientInv'
  <2>1. /\ timer[u] \in {"select", "wait"} /\ UNCHANGED <<client, data, load, closed, call>>
        /\ \E t \in {"select", "wait"} : timer' = [timer EXCEPT ![u] = t]
    BY <1>6 DEF Timing, TickReceived, AccessClosed
  <2>. QED
    BY <2>1 DEF ClientInv, LoadsParsed, OwnIdle, OwnNew, AtStore, OwnReady, TimersOK, ClosedOK, HasData,
       TypeOK
<1>7. ASSUME NEW u \in Stores, Tick(u) \/ GetResolverPanics(u) PROVE ClientInv'
  BY <1>7 DEF Tick, GetResolverPanics, ClientInv, LoadsParsed, OwnIdle, OwnNew, AtStore, OwnReady,
     TimersOK, ClosedOK, HasData
<1>8. ASSUME NEW u \in Stores, GetResolver(u) PROVE ClientInv'
  <2>1. client = "ready" /\ ~closed[u] /\ UNCHANGED <<client, data, closed, call>>
    BY <1>8 DEF GetResolver
  <2>2. CASE timer[u] # "wait"
    BY <1>8, <2>2 DEF GetResolver, ClientInv, LoadsParsed, OwnIdle, OwnNew, AtStore, OwnReady,
       TimersOK, ClosedOK, HasData
  <2>3. CASE timer[u] = "wait"
    <3>1. timer' = [timer EXCEPT ![u] = "load"] /\ Replaced(u, Own, FirstStep)
      BY <1>8, <2>3, StartEffect DEF GetResolver
    <3>2. FirstStep.step \in {"list", "fetch"}
      BY LoadRecords
    <3>3. LoadsParsed'
      BY <3>1, <3>2 DEF ClientInv, LoadsParsed, Replaced
    <3>4. OwnReady'
      BY <2>1, <3>1 DEF ClientInv, OwnReady, HasData, Replaced, Goroutines, TypeOK
    <3>5. ClosedOK'
      BY <2>1, <3>1 DEF ClientInv, ClosedOK, TypeOK
    <3>. QED
      BY <2>1, <3>3, <3>4, <3>5 DEF ClientInv, OwnIdle, OwnNew, TimersOK
  <2>. QED
    BY <2>2, <2>3
<1>9. ASSUME NEW c \in Callers, RefreshReturns(c) \/ Close(c) PROVE ClientInv'
  <2>1. UNCHANGED <<client, data, load, timer, closed>>
    BY <1>9 DEF RefreshReturns, Close
  <2>2. ClosedOK'
    <3>1. call[c].op \notin {"close", "stop"} /\ \A d \in Callers : d # c => call'[d] = call[d]
      BY <1>9, CallEffect DEF RefreshReturns, Close
    <3>2. client # "ready" => call'[c].op = "idle"
      BY <1>9, CallEffect DEF RefreshReturns, Close
    <3>. QED
      BY <2>1, <3>1, <3>2 DEF ClientInv, ClosedOK
  <2>. QED
    BY <2>1, <2>2 DEF ClientInv, LoadsParsed, OwnIdle, OwnNew, AtStore, OwnReady, TimersOK, HasData
<1>10. ASSUME NEW c \in Callers, CloseAccess(c) PROVE ClientInv'
  <2>1. UNCHANGED <<client, data, load, timer>> /\ call[c].op = "close"
    BY <1>10 DEF CloseAccess
  <2>2. client = "ready"
    BY <2>1 DEF ClientInv, ClosedOK
  <2>3. ClosedOK'
    <3>0. call[c].store \in Stores
      BY DEF TypeOK
    <3>1. CASE closed[call[c].store]
      <4>1. UNCHANGED <<closed, call>>
        BY <1>10, <3>1 DEF CloseAccess
      <4>. QED
        BY <2>1, <2>2, <4>1 DEF ClientInv, ClosedOK
    <3>2. CASE ~closed[call[c].store]
      <4>1. /\ closed' = [closed EXCEPT ![call[c].store] = TRUE]
            /\ timer[call[c].store] = "none" => NextClose(c)
            /\ timer[call[c].store] # "none" => call' = [call EXCEPT ![c].op = "stop"]
        BY <1>10, <3>2 DEF CloseAccess
      <4>2. \A d \in Callers : d # c => call'[d] = call[d]
        BY <4>1, CallEffect
      <4>3. timer[call[c].store] = "none" \/ (call'[c].op = "stop" /\ call'[c].store = call[c].store)
        BY <4>1, CallEffect
      <4>4. \A v \in Stores : v # call[c].store => closed'[v] = closed[v]
        BY <4>1 DEF TypeOK
      <4>5. ASSUME NEW v \in Stores, closed'[v]
            PROVE  \/ timer'[v] \in {"none", "gone"}
                   \/ \E d \in Callers : call'[d].op = "stop" /\ call'[d].store = v
        <5>1. CASE v = call[c].store
          BY <2>1, <4>3, <5>1
        <5>2. CASE v # call[c].store
          <6>1. CASE timer[v] \in {"none", "gone"}
            BY <2>1, <6>1
          <6>2. CASE timer[v] \notin {"none", "gone"}
            <7>1. PICK d \in Callers : call[d].op = "stop" /\ call[d].store = v
              BY <4>4, <4>5, <5>2, <6>2 DEF ClientInv, ClosedOK
            <7>. QED
              BY <2>1, <4>2, <7>1
          <6>. QED
            BY <6>1, <6>2
        <5>. QED
          BY <5>1, <5>2
      <4>. QED
        BY <2>1, <2>2, <4>5 DEF ClosedOK
    <3>. QED
      BY <3>1, <3>2
  <2>. QED
    BY <2>1, <2>3 DEF ClientInv, LoadsParsed, OwnIdle, OwnNew, AtStore, OwnReady, TimersOK, HasData
<1>11. ASSUME NEW c \in Callers, SendDone(c) PROVE ClientInv'
  <2>1. /\ UNCHANGED <<client, data, load, closed>> /\ call[c].op = "stop"
        /\ timer[call[c].store] = "select" /\ timer' = [timer EXCEPT ![call[c].store] = "gone"]
        /\ call[c].store \in Stores
    BY <1>11 DEF SendDone, TypeOK
  <2>2. client = "ready"
    BY <2>1 DEF ClientInv, ClosedOK
  <2>3. \A d \in Callers : d # c => call'[d] = call[d]
    BY <1>11, CallEffect DEF SendDone
  <2>4. ClosedOK'
    <3>1. \A v \in Stores : timer'[v] = IF v = call[c].store THEN "gone" ELSE timer[v]
      BY <2>1 DEF TypeOK
    <3>2. ASSUME NEW v \in Stores, closed[v], timer'[v] \notin {"none", "gone"}
          PROVE  \E d \in Callers : call'[d].op = "stop" /\ call'[d].store = v
      <4>1. v # call[c].store /\ timer[v] \notin {"none", "gone"}
        BY <3>1, <3>2
      <4>2. PICK d \in Callers : call[d].op = "stop" /\ call[d].store = v
        BY <3>2, <4>1 DEF ClientInv, ClosedOK
      <4>. QED
        BY <2>3, <4>1, <4>2
    <3>. QED
      BY <2>1, <2>2, <3>2 DEF ClosedOK
  <2>5. OwnReady'
    BY <2>1, <2>2 DEF ClientInv, OwnReady, HasData, TypeOK
  <2>. QED
    BY <2>1, <2>2, <2>4, <2>5 DEF ClientInv, LoadsParsed, OwnIdle, OwnNew, TimersOK
<1>12. ASSUME NEW c \in Callers, Refresh(c) PROVE ClientInv'
  <2>1. client = "ready" /\ UNCHANGED <<client, data, timer, closed>>
    BY <1>12 DEF Refresh
  <2>2. \A v \in Stores, h \in Goroutines : load'[v][h] = IF h = c THEN FirstStep ELSE load[v][h]
    BY <1>12, RefreshEffect
  <2>3. FirstStep.step \in {"list", "fetch"} /\ c # Own
    BY LoadRecords, OwnAssumption
  <2>4. LoadsParsed'
    BY <2>2, <2>3 DEF ClientInv, LoadsParsed
  <2>5. OwnReady'
    BY <2>1, <2>2, <2>3 DEF ClientInv, OwnReady, HasData, Goroutines
  <2>6. ClosedOK'
    BY <1>12, <2>1 DEF Refresh, ClientInv, ClosedOK, TypeOK
  <2>. QED
    BY <2>1, <2>4, <2>5, <2>6 DEF ClientInv, OwnIdle, OwnNew, TimersOK
<1>13. CASE NewClient
  <2>1. client = "idle" /\ client' = "new" /\ UNCHANGED <<data, timer, closed, call>>
    BY <1>13 DEF NewClient
  <2>2. 1 \in Stores /\ \A v \in Stores : v \in Nat /\ v >= 1
    BY StoresAssumption DEF Stores
  <2>3. Replaced(1, Own, FirstStep) /\ FirstStep.step \in {"list", "fetch"}
    BY <1>13, <2>2, StartEffect, LoadRecords DEF NewClient
  <2>4. LoadsParsed'
    BY <2>3 DEF ClientInv, LoadsParsed, Replaced
  <2>5. OwnNew'
    BY <2>1, <2>2, <2>3 DEF ClientInv, OwnIdle, OwnNew, AtStore, TimersOK, Replaced, Goroutines
  <2>. QED
    BY <2>1, <2>4, <2>5 DEF ClientInv, OwnIdle, OwnReady, TimersOK, ClosedOK
<1>14. CASE Publish \/ DeleteVersion \/ Quiet \/ UNCHANGED vars
  <2>1. UNCHANGED <<client, data, load, timer, closed, call>>
    BY <1>14 DEF Publish, DeleteVersion, Quiet, vars
  <2>. QED
    BY <2>1 DEF ClientInv, LoadsParsed, OwnIdle, OwnNew, AtStore, OwnReady, TimersOK, ClosedOK, HasData
<1>. QED
  BY <1>1, <1>2, <1>3, <1>4, <1>5, <1>6, <1>7, <1>8, <1>9, <1>10, <1>11, <1>12, <1>13, <1>14
     DEF Next, Loading, Calling

\* The invariant holds in every state.
THEOREM ClientInvariance == Spec => [](TypeOK /\ ClientInv)
<1>1. Init => ClientInv
  <2>. SUFFICES ASSUME Init PROVE ClientInv
    OBVIOUS
  <2>1. \A u \in Stores, g \in Goroutines : load[u][g].step = "idle"
    BY LoadRecords DEF Init
  <2>2. \A c \in Callers : call[c].op = "idle"
    BY DEF Init
  <2>. QED
    BY <2>1, <2>2 DEF Init, ClientInv, LoadsParsed, OwnIdle, OwnNew, OwnReady, TimersOK, ClosedOK,
       Goroutines
<1>. QED
  BY <1>1, InvStep, ClientTypes, PTL DEF Spec

\* A client that NewClient returned answers for every url, and goes on doing so
\* through every failed refresh (NewClient, store.refresh, getResolver).
THEOREM ReadyClientsAnswer == Spec => []ReadyHasData
<1>1. ClientInv => ReadyHasData
  BY NilAssumption DEF ClientInv, OwnReady, HasData, ReadyHasData
<1>. QED
  BY <1>1, ClientInvariance, PTL

\* Data changes where a load ends with it, and nowhere else.
LEMMA DataChanges ==
    ASSUME [Next]_vars
    PROVE  data' = data \/ \E u \in Stores, g \in Goroutines : SetData(u, g)
<1>1. ASSUME NEW u \in Stores, NEW g \in Goroutines,
             ListVersions(u, g) \/ Fetch(u, g) \/ AssignVersion(u, g) \/ HttpError(u, g)
      PROVE  data' = data
  BY <1>1 DEF ListVersions, LoadFails, Fetch, AssignVersion, HttpError
<1>2. ASSUME NEW u \in Stores, Timing(u) \/ Tick(u) \/ GetResolver(u) \/ GetResolverPanics(u)
      PROVE  data' = data
  BY <1>2 DEF Timing, Tick, TickReceived, AccessClosed, GetResolver, GetResolverPanics
<1>3. ASSUME NEW c \in Callers, Calling(c) \/ Refresh(c) \/ Close(c)
      PROVE  data' = data
  BY <1>3 DEF Calling, RefreshReturns, CloseAccess, SendDone, Refresh, Close
<1>4. CASE NewClient \/ Publish \/ DeleteVersion \/ Quiet \/ UNCHANGED vars
  BY <1>4 DEF NewClient, Publish, DeleteVersion, Quiet, vars
<1>. QED
  BY <1>1, <1>2, <1>3, <1>4 DEF Next, Loading

\* After Close has returned nothing but a Refresh changes the data of a store
\* (store.Close, setInterval).
THEOREM CloseEndsRefresh == Spec => ClosedStandsStill
<1>1. TypeOK /\ ClientInv /\ [Next]_vars =>
        [\A u \in Stores :
           /\ closed[u] /\ \A c \in Callers : call[c].op \notin {"close", "stop"}
           /\ \A c \in Callers : load[u][c].step = "idle"
           => data'[u] = data[u]]_vars
  <2>. SUFFICES ASSUME TypeOK, ClientInv, Next, NEW u \in Stores, closed[u],
                       \A c \in Callers : call[c].op \notin {"close", "stop"},
                       \A c \in Callers : load[u][c].step = "idle"
                PROVE  data'[u] = data[u]
    OBVIOUS
  <2>1. load[u][Own].step = "idle"
    <3>1. client = "ready" /\ timer[u] \in {"none", "gone"}
      BY DEF ClientInv, ClosedOK
    <3>. QED
      BY <3>1 DEF ClientInv, OwnReady
  <2>2. \A g \in Goroutines : load[u][g].step = "idle"
    BY <2>1 DEF Goroutines
  <2>3. \A v \in Stores, g \in Goroutines : SetData(v, g) => data'[u] = data[u]
    BY <2>2 DEF SetData, TypeOK
  <2>. QED
    BY <2>3, DataChanges
<1>. QED
  BY <1>1, ClientInvariance, PTL DEF Spec, ClosedStandsStill


(***************************************************************************)
(* The versions under VersionBasedRefresh, while only the timer refreshes. *)
(***************************************************************************)
\* The last version of a store is not below the one it holds, and a load of its
\* own goroutine brings a version above both.
VersionsOf(u) ==
    LET l == load[u][Own]
    IN  /\ data[u] # Nil => data[u].version <= lastVersion[u]
        /\ l.step \in {"fetch", "assign"} => l.ver > lastVersion[u]
        /\ l.step \in {"assign", "set"} => l.val.version = l.ver
        /\ l.step = "set" => lastVersion[u] = l.ver /\ (data[u] # Nil => data[u].version < l.ver)

\* Until the first Refresh, only the stores' own goroutines load.
OwnVersions ==
    refreshes = 0 =>
        /\ \A u \in Stores, c \in Callers : load[u][c].step = "idle"
        /\ options.strategy = "version" => \A u \in Stores : VersionsOf(u)

\* OwnVersions is kept by every step.
LEMMA VersionsStep == TypeOK /\ OwnVersions /\ [Next]_vars => OwnVersions'
<1>. SUFFICES ASSUME TypeOK, OwnVersions, [Next]_vars PROVE OwnVersions'
  OBVIOUS
<1>a. Own \in Goroutines /\ Callers \subseteq Goroutines /\ Own \notin Callers
  BY OwnAssumption DEF Goroutines
<1>b. NoLoad.step = "idle" /\ FirstStep.step = IF options.strategy = "version" THEN "list" ELSE "fetch"
  BY LoadRecords
<1>. USE DEF server, app
<1>c. ASSUME NEW u \in Stores, NEW l, Replaced(u, Own, l), UNCHANGED <<options, refreshes>>,
             \A v \in Stores : v # u => data'[v] = data[v] /\ lastVersion'[v] = lastVersion[v],
             refreshes = 0 /\ options.strategy = "version" => VersionsOf(u)'
      PROVE  OwnVersions'
  <2>1. \A v \in Stores, c \in Callers : load'[v][c] = load[v][c]
    BY <1>a, <1>c DEF Replaced
  <2>2. \A v \in Stores : v # u => load'[v][Own] = load[v][Own]
    BY <1>a, <1>c DEF Replaced
  <2>3. \A v \in Stores : v # u /\ VersionsOf(v) => VersionsOf(v)'
    BY <1>c, <2>2 DEF VersionsOf
  <2>. QED
    BY <1>c, <2>1, <2>3 DEF OwnVersions
<1>d. ASSUME NEW u \in Stores, NEW g \in Goroutines, load[u][g].step # "idle",
             LoadFails(u, g), UNCHANGED <<options, refreshes>>
      PROVE  OwnVersions'
  <2>1. Replaced(u, g, NoLoad) /\ UNCHANGED <<data, lastVersion>>
    BY <1>d, LoadFailsEffect DEF LoadFails
  <2>2. CASE g = Own
    <3>1. load'[u][Own] = NoLoad
      BY <1>a, <2>1, <2>2 DEF Replaced
    <3>2. VersionsOf(u) => VersionsOf(u)'
      BY <1>b, <2>1, <3>1 DEF VersionsOf
    <3>. QED
      BY <1>c, <1>d, <2>1, <2>2, <3>2 DEF OwnVersions
  <2>3. CASE g # Own
    BY <1>d, <2>3 DEF OwnVersions, Goroutines
  <2>. QED
    BY <2>2, <2>3
<1>1. ASSUME NEW u \in Stores, NEW g \in Goroutines,
             ListVersions(u, g) \/ Fetch(u, g) \/ AssignVersion(u, g) \/ SetData(u, g) \/ HttpError(u, g)
      PROVE  OwnVersions'
  <2>0. load[u][g].step # "idle" /\ UNCHANGED <<options, refreshes>>
    BY <1>1 DEF ListVersions, Fetch, AssignVersion, SetData, HttpError
  <2>1. CASE g # Own
    BY <2>0, <2>1 DEF OwnVersions, Goroutines
  <2>2. CASE LoadFails(u, g)
    BY <1>d, <2>0, <2>2
  <2>3. CASE g = Own /\ ~LoadFails(u, g)
    <3>1. CASE ListVersions(u, g)
      <4>1. UNCHANGED <<data, lastVersion>>
        BY <2>3, <3>1 DEF ListVersions
      <4>2. PICK e \in Latest(u) :
               /\ NewVersion(u, e.version)
               /\ Replaced(u, g, [step |-> "fetch", ver |-> e.version, val |-> load[u][g].val])
        BY <2>3, <3>1, ListEffect
      <4>3. load'[u][Own] = [step |-> "fetch", ver |-> e.version, val |-> load[u][g].val]
        BY <1>a, <2>3, <4>2 DEF Replaced
      <4>4. VersionsOf(u) => VersionsOf(u)'
        BY <4>1, <4>2, <4>3 DEF VersionsOf, NewVersion
      <4>. QED
        BY <1>c, <2>0, <2>3, <4>1, <4>2, <4>4 DEF OwnVersions
    <3>2. CASE Fetch(u, g)
      <4>0. load[u][Own].step = "fetch"
        BY <2>3, <3>2 DEF Fetch
      <4>1. UNCHANGED <<data, lastVersion>>
        BY <2>3, <3>2, FetchEffect
      <4>2. PICK e \in Server!Entries :
               /\ options.strategy = "version" => e.version = load[u][g].ver
               /\ Replaced(u, g, [step |-> IF options.strategy = "version" THEN "assign" ELSE "set",
                                  ver |-> load[u][g].ver, val |-> e])
        BY <2>3, <3>2, FetchEffect
      <4>3. options.strategy = "version" =>
               load'[u][Own] = [step |-> "assign", ver |-> load[u][Own].ver, val |-> e]
        BY <1>a, <2>3, <4>2 DEF Replaced
      <4>4. options.strategy = "version" /\ VersionsOf(u) => VersionsOf(u)'
        BY <2>3, <4>0, <4>1, <4>2, <4>3 DEF VersionsOf
      <4>. QED
        BY <1>c, <2>0, <2>3, <4>1, <4>2, <4>4 DEF OwnVersions
    <3>3. CASE AssignVersion(u, g)
      <4>1. /\ UNCHANGED data /\ load[u][Own].step = "assign"
            /\ lastVersion' = [lastVersion EXCEPT ![u] = load[u][Own].ver]
        BY <2>3, <3>3 DEF AssignVersion
      <4>2. Replaced(u, Own, [step |-> "set", ver |-> load[u][Own].ver, val |-> load[u][Own].val])
        BY <2>3, <3>3, AssignEffect
      <4>3. load'[u][Own] = [step |-> "set", ver |-> load[u][Own].ver, val |-> load[u][Own].val]
        BY <1>a, <4>2 DEF Replaced
      <4>4. lastVersion'[u] = load[u][Own].ver /\ lastVersion[u] \in Nat /\ load[u][Own].ver \in Nat
        BY <1>a, <4>1 DEF TypeOK
      <4>5. data[u] # Nil => data[u].version \in Nat
        BY DEF TypeOK, Server!Entries
      <4>6. VersionsOf(u) => VersionsOf(u)'
        BY <4>1, <4>3, <4>4, <4>5 DEF VersionsOf
      <4>7. \A v \in Stores : v # u => lastVersion'[v] = lastVersion[v]
        BY <4>1 DEF TypeOK
      <4>. QED
        BY <1>c, <2>0, <4>1, <4>2, <4>6, <4>7 DEF OwnVersions
    <3>4. CASE SetData(u, g)
      <4>1. /\ UNCHANGED lastVersion /\ load[u][Own].step = "set"
            /\ data' = [data EXCEPT ![u] = load[u][Own].val]
        BY <2>3, <3>4 DEF SetData
      <4>2. /\ \A v \in Stores, c \in Callers : load'[v][c] = load[v][c]
            /\ \A v \in Stores : \/ load'[v][Own] \in {NoLoad, FirstStep}
                                 \/ v # u /\ load'[v][Own] = load[v][Own]
        <5>1. CASE timer[u] = "none"
          BY <1>a, <2>3, <3>4, <5>1, NewStoreEffect
        <5>2. CASE timer[u] # "none"
          BY <1>a, <2>3, <3>4, <5>2, SetEffect DEF Replaced
        <5>. QED
          BY <5>1, <5>2
      <4>3. ASSUME options.strategy = "version", NEW v \in Stores, VersionsOf(u), VersionsOf(v)
            PROVE  VersionsOf(v)'
        <5>1. data'[v] # Nil => data'[v].version <= lastVersion[v]
          <6>1. CASE v = u
            <7>1. data'[v] = load[u][Own].val /\ lastVersion[u] \in Nat
              BY <4>1, <6>1 DEF TypeOK
            <7>2. load[u][Own].val.version = lastVersion[u]
              BY <4>1, <4>3 DEF VersionsOf
            <7>. QED
              BY <6>1, <7>1, <7>2
          <6>2. CASE v # u
            BY <4>1, <4>3, <6>2 DEF VersionsOf, TypeOK
          <6>. QED
            BY <6>1, <6>2
        <5>2. CASE load'[v][Own] \in {NoLoad, FirstStep}
          BY <1>b, <4>1, <4>3, <5>1, <5>2 DEF VersionsOf
        <5>3. CASE v # u /\ load'[v][Own] = load[v][Own]
          <6>1. data'[v] = data[v]
            BY <4>1, <5>3 DEF TypeOK
          <6>. QED
            BY <4>1, <4>3, <5>3, <6>1 DEF VersionsOf
        <5>. QED
          BY <4>2, <5>2, <5>3
      <4>. QED
        BY <2>0, <4>2, <4>3 DEF OwnVersions
    <3>. QED
      BY <1>1, <2>3, <3>1, <3>2, <3>3, <3>4 DEF HttpError
  <2>. QED
    BY <2>1, <2>2, <2>3
<1>2. ASSUME NEW u \in Stores, GetResolver(u) PROVE OwnVersions'
  <2>1. UNCHANGED <<options, refreshes, data, lastVersion>>
    BY <1>2 DEF GetResolver
  <2>2. CASE timer[u] = "wait"
    <3>1. Replaced(u, Own, FirstStep)
      BY <1>2, <2>2, StartEffect DEF GetResolver
    <3>2. load'[u][Own] = FirstStep
      BY <1>a, <3>1 DEF Replaced
    <3>3. options.strategy = "version" /\ VersionsOf(u) => VersionsOf(u)'
      BY <1>b, <2>1, <3>2 DEF VersionsOf
    <3>. QED
      BY <1>c, <2>1, <3>1, <3>3 DEF OwnVersions
  <2>3. CASE timer[u] # "wait"
    BY <1>2, <2>1, <2>3 DEF GetResolver, OwnVersions, VersionsOf
  <2>. QED
    BY <2>2, <2>3
<1>3. CASE NewClient
  <2>1. 1 \in Stores /\ UNCHANGED <<options, refreshes, data, lastVersion>>
    BY <1>3, StoresAssumption DEF NewClient, Stores
  <2>2. Replaced(1, Own, FirstStep)
    BY <1>3, <2>1, StartEffect DEF NewClient
  <2>3. load'[1][Own] = FirstStep
    BY <1>a, <2>1, <2>2 DEF Replaced
  <2>4. options.strategy = "version" /\ VersionsOf(1) => VersionsOf(1)'
    BY <1>b, <2>1, <2>3 DEF VersionsOf
  <2>. QED
    BY <1>c, <2>1, <2>2, <2>4 DEF OwnVersions
<1>4. ASSUME NEW c \in Callers, Refresh(c) PROVE OwnVersions'
  BY <1>4 DEF Refresh, OwnVersions, TypeOK
<1>5. ASSUME NEW u \in Stores, Timing(u) \/ Tick(u) \/ GetResolverPanics(u)
      PROVE  UNCHANGED <<options, refreshes, data, lastVersion, load>>
  BY <1>5 DEF Timing, TickReceived, AccessClosed, Tick, GetResolverPanics
<1>6. ASSUME NEW c \in Callers, Calling(c) \/ Close(c)
      PROVE  UNCHANGED <<options, refreshes, data, lastVersion, load>>
  BY <1>6 DEF Calling, RefreshReturns, CloseAccess, SendDone, Close
<1>7. ASSUME Publish \/ DeleteVersion \/ Quiet \/ UNCHANGED vars
      PROVE  UNCHANGED <<options, refreshes, data, lastVersion, load>>
  BY <1>7 DEF Publish, DeleteVersion, Quiet, vars
<1>8. CASE UNCHANGED <<options, refreshes, data, lastVersion, load>>
  BY <1>8 DEF OwnVersions, VersionsOf
<1>. QED
  BY <1>1, <1>2, <1>3, <1>4, <1>5, <1>6, <1>7, <1>8 DEF Next, Loading

\* While only the timer refreshes, a store goes from a version to a later one
\* (versionBasedRefresh: the number is compared before the download and assigned
\* after it).
THEOREM VersionsNeverGoBack == Spec => NeverOlder
<1>1. Init => OwnVersions
  <2>1. Init => \A u \in Stores, g \in Goroutines : load[u][g].step = "idle"
    BY LoadRecords DEF Init
  <2>. QED
    BY <2>1 DEF Init, OwnVersions, VersionsOf, Goroutines
<1>2. TypeOK /\ OwnVersions /\ [Next]_vars =>
        [\A u \in Stores :
           options.strategy = "version" /\ refreshes = 0 /\ data[u] # Nil /\ data'[u] # data[u]
               => data'[u].version > data[u].version]_vars
  <2>. SUFFICES ASSUME TypeOK, OwnVersions, Next, NEW u \in Stores, options.strategy = "version",
                       refreshes = 0, data[u] # Nil, data'[u] # data[u]
                PROVE  data'[u].version > data[u].version
    OBVIOUS
  <2>1. PICK v \in Stores, g \in Goroutines : SetData(v, g)
    BY DataChanges
  <2>2. g = Own /\ v = u
    BY <2>1 DEF SetData, TypeOK, OwnVersions, Goroutines
  <2>3. load[u][Own].step = "set" /\ data'[u] = load[u][Own].val
    BY <2>1, <2>2 DEF SetData, TypeOK
  <2>4. load[u][Own].val.version = load[u][Own].ver /\ data[u].version < load[u][Own].ver
    BY <2>3 DEF OwnVersions, VersionsOf
  <2>5. data[u].version \in Nat /\ load[u][Own].ver \in Nat
    BY DEF TypeOK, Server!Entries, Goroutines
  <2>. QED
    BY <2>3, <2>4, <2>5
<1>. QED
  BY <1>1, <1>2, VersionsStep, ClientTypes, PTL DEF Spec, NeverOlder

=============================================================================
