------------------------------ MODULE GoClient ------------------------------
(***************************************************************************)
(* The Go client: one store per url, each with the goroutine that its      *)
(* ticker drives, the loaders of the two refresh strategies, and the       *)
(* application's calls of NewClient, Parse and its like, Refresh and Close.*)
(*                                                                         *)
(* A load is the run of a store's loader by one goroutine.  The store's    *)
(* own goroutine (Own) is newStore's and then the timer's; Refresh runs a  *)
(* load of its caller on every store.  The server is VersionStore, with a  *)
(* url as a schema.                                                        *)
(***************************************************************************)
EXTENDS Naturals

CONSTANTS
    N,            \* number of urls
    Callers,      \* goroutines of the application
    Own,          \* the goroutine of a store itself
    Files,        \* schema contents
    Descriptors,  \* the contents that parse as a FileDescriptorSet
    Strategies,   \* RefreshStrategy: "version" (VersionBasedRefresh), "polling"
    MaxVersion,   \* bound on version numbers
    MaxDeletes,   \* bound on deletes at the server
    MaxRefreshes, \* bound on calls of Refresh
    MaxFaults,    \* bound on failed downloads
    Nil           \* no data

ASSUME StoresAssumption == N \in Nat \ {0}
ASSUME OwnAssumption == Own \notin Callers
ASSUME DescriptorsAssumption == Descriptors \subseteq Files
ASSUME StrategiesAssumption == Strategies \subseteq {"version", "polling"}
ASSUME BoundAssumption ==
    MaxVersion \in Nat /\ MaxDeletes \in Nat /\ MaxRefreshes \in Nat /\ MaxFaults \in Nat

Stores == 1..N
Goroutines == Callers \cup {Own}

VARIABLES
    contents,     \* the versions at the server (VersionStore)
    options,      \* Options: RefreshStrategy and AutoRefresh
    client,       \* NewClient: "new" until it returns, then "ready" or "failed"
    data,         \* [Stores -> entry or Nil]: store.data
    lastVersion,  \* [Stores -> Nat]: lastVersion of versionBasedRefresh's closure
    load,         \* [Stores -> [Goroutines -> [step, ver, val]]]: the running loads
    timer,        \* [Stores -> the timer goroutine's place]
    ticked,       \* [Stores -> BOOLEAN]: ticker.C holds a tick
    closed,       \* [Stores -> BOOLEAN]: the access channel is closed
    call,         \* [Callers -> [op, store]]: the application's calls
    panicked,     \* a goroutine panicked and the process is gone
    deletes, refreshes, faults

vars == <<contents, options, client, data, lastVersion, load, timer, ticked, closed,
          call, panicked, deletes, refreshes, faults>>
server == <<contents, deletes>>
app == <<call, panicked, refreshes>>

Server == INSTANCE VersionStore WITH Schemas <- Stores

ASSUME NilAssumption == Nil \notin Server!Entries

Latest(u) ==
    {e \in contents : e.schema = u /\ \A d \in contents : d.schema = u => d.version <= e.version}

NoLoad == [step |-> "idle", ver |-> 0, val |-> Nil]
LoadSteps == {"idle", "list", "fetch", "assign", "set"}
Timers == {"none", "select", "wait", "load", "gone"}

Init ==
    /\ contents = {}
    /\ options \in [strategy : Strategies, auto : BOOLEAN]
    /\ client = "idle"
    /\ data = [u \in Stores |-> Nil] /\ lastVersion = [u \in Stores |-> 0]
    /\ load = [u \in Stores |-> [g \in Goroutines |-> NoLoad]]
    /\ timer = [u \in Stores |-> "none"]
    /\ ticked = [u \in Stores |-> FALSE] /\ closed = [u \in Stores |-> FALSE]
    /\ call = [c \in Callers |-> [op |-> "idle", store |-> 1]]
    /\ panicked = FALSE /\ deletes = 0 /\ refreshes = 0 /\ faults = 0

-----------------------------------------------------------------------------
(***************************************************************************)
(* A load, from the call of the loader to its result.                      *)
(***************************************************************************)
FirstStep ==
    [NoLoad EXCEPT !.step = IF options.strategy = "version" THEN "list" ELSE "fetch"]
Starting(u, g) == load' = [load EXCEPT ![u][g] = FirstStep]
Ending(u, g) == load' = [load EXCEPT ![u][g] = NoLoad]

\* Mutant: refresh stores what the loader returned with its error.
LoadFailsClears(u, g) ==
    /\ Ending(u, g)
    /\ data' = [data EXCEPT ![u] = Nil]
    /\ IF g = Own /\ timer[u] = "load"
       THEN timer' = [timer EXCEPT ![u] = "select"] /\ UNCHANGED client
       ELSE /\ client' = IF g = Own THEN "failed" ELSE client
            /\ UNCHANGED timer
    /\ UNCHANGED lastVersion

\* The loader returns an error: NewClient fails, every other caller ignores it.
LoadFails(u, g) ==
    /\ Ending(u, g)
    /\ IF g = Own /\ timer[u] = "load"
       THEN timer' = [timer EXCEPT ![u] = "select"] /\ UNCHANGED client
       ELSE /\ client' = IF g = Own THEN "failed" ELSE client
            /\ UNCHANGED timer
    /\ UNCHANGED <<data, lastVersion>>

\* Mutant: any other number than the last one is a new version.
NewVersionDiffers(u, v) == v # lastVersion[u]

NewVersion(u, v) == v > lastVersion[u]

\* Mutant: lastVersion is assigned before the version is downloaded.
ListVersionsAssigns(u, g) ==
    /\ load[u][g].step = "list"
    /\ \/ \E e \in Latest(u) :
            /\ NewVersion(u, e.version)
            /\ load' = [load EXCEPT ![u][g].step = "fetch", ![u][g].ver = e.version]
            /\ lastVersion' = [lastVersion EXCEPT ![u] = e.version]
            /\ UNCHANGED <<client, data, timer>>
       \/ /\ \A e \in Latest(u) : ~NewVersion(u, e.version)
          /\ LoadFails(u, g)
    /\ UNCHANGED <<server, options, ticked, closed, app, faults>>

\* GET .../versions
ListVersions(u, g) ==
    /\ load[u][g].step = "list"
    /\ \/ \E e \in Latest(u) :
            /\ NewVersion(u, e.version)
            /\ load' = [load EXCEPT ![u][g].step = "fetch", ![u][g].ver = e.version]
            /\ UNCHANGED <<client, data, lastVersion, timer>>
       \/ /\ \A e \in Latest(u) : ~NewVersion(u, e.version)
          /\ LoadFails(u, g)
    /\ UNCHANGED <<server, options, ticked, closed, app, faults>>

\* GET .../versions/{version}, or of the url itself, and NewResolver.
Fetch(u, g) ==
    LET found == IF options.strategy = "version"
                 THEN {e \in contents : e.schema = u /\ e.version = load[u][g].ver}
                 ELSE Latest(u)
        valid == {e \in found : e.file \in Descriptors}
    IN  /\ load[u][g].step = "fetch"
        /\ \/ /\ \E e \in valid :
                   load' = [load EXCEPT
                              ![u][g].step = IF options.strategy = "version" THEN "assign" ELSE "set",
                              ![u][g].val = e]
              /\ UNCHANGED <<client, data, lastVersion, timer>>
           \/ valid = {} /\ LoadFails(u, g)
        /\ UNCHANGED <<server, options, ticked, closed, app, faults>>

\* A download fails or runs into its timeout.
HttpError(u, g) ==
    /\ load[u][g].step \in {"list", "fetch"} /\ faults < MaxFaults
    /\ LoadFails(u, g)
    /\ faults' = faults + 1
    /\ UNCHANGED <<server, options, ticked, closed, app>>

AssignVersion(u, g) ==
    /\ load[u][g].step = "assign"
    /\ lastVersion' = [lastVersion EXCEPT ![u] = load[u][g].ver]
    /\ load' = [load EXCEPT ![u][g].step = "set"]
    /\ UNCHANGED <<server, options, client, data, timer, ticked, closed, app, faults>>

\* The loader has returned: store.data is set.  The timer goes back to its
\* select; newStore starts the timer and NewClient goes on.
SetData(u, g) ==
    /\ load[u][g].step = "set"
    /\ data' = [data EXCEPT ![u] = load[u][g].val]
    /\ IF g = Own /\ timer[u] = "none"
       THEN /\ timer' = IF options.auto THEN [timer EXCEPT ![u] = "select"] ELSE timer
            /\ client' = IF u = N THEN "ready" ELSE "new"
            /\ load' = [v \in Stores |->
                          IF v = u THEN [load[u] EXCEPT ![g] = NoLoad]
                          ELSE IF v = u + 1 THEN [load[v] EXCEPT ![g] = FirstStep]
                          ELSE load[v]]
       ELSE /\ Ending(u, g)
            /\ timer' = IF g = Own THEN [timer EXCEPT ![u] = "select"] ELSE timer
            /\ UNCHANGED client
    /\ UNCHANGED <<server, options, lastVersion, ticked, closed, app, faults>>

-----------------------------------------------------------------------------
(***************************************************************************)
(* The goroutine of setInterval.                                           *)
(***************************************************************************)
Tick(u) ==
    /\ timer[u] \notin {"none", "gone"} /\ ~closed[u] /\ ~ticked[u]
    /\ ticked' = [ticked EXCEPT ![u] = TRUE]
    /\ UNCHANGED <<server, options, client, data, lastVersion, load, timer, closed, app, faults>>

TickReceived(u) ==
    /\ timer[u] = "select" /\ ticked[u]
    /\ ticked' = [ticked EXCEPT ![u] = FALSE]
    /\ timer' = [timer EXCEPT ![u] = "wait"]
    /\ UNCHANGED <<server, options, client, data, lastVersion, load, closed, app, faults>>

\* The closed access channel yields false.
AccessClosed(u) ==
    /\ timer[u] = "wait" /\ closed[u]
    /\ timer' = [timer EXCEPT ![u] = "select"]
    /\ UNCHANGED <<server, options, client, data, lastVersion, load, ticked, closed, app, faults>>

\* getResolver: notify hands the timer its permission if it waits for one;
\* the data is read as it is.
GetResolver(u) ==
    /\ client = "ready" /\ ~closed[u]
    /\ IF timer[u] = "wait"
       THEN timer' = [timer EXCEPT ![u] = "load"] /\ Starting(u, Own)
       ELSE UNCHANGED <<timer, load>>
    /\ UNCHANGED <<server, options, client, data, lastVersion, ticked, closed, app, faults>>

\* notify sends on the closed access channel.
GetResolverPanics(u) ==
    /\ client = "ready" /\ closed[u]
    /\ panicked' = TRUE
    /\ UNCHANGED <<server, options, client, data, lastVersion, load, timer, ticked, closed, call,
                   refreshes, faults>>

-----------------------------------------------------------------------------
(***************************************************************************)
(* The calls of the application.                                           *)
(***************************************************************************)
NewClient ==
    /\ client = "idle"
    /\ client' = "new" /\ Starting(1, Own)
    /\ UNCHANGED <<server, options, data, lastVersion, timer, ticked, closed, app, faults>>

Refresh(c) ==
    /\ client = "ready" /\ call[c].op = "idle" /\ refreshes < MaxRefreshes
    /\ call' = [call EXCEPT ![c].op = "refresh"]
    /\ load' = [u \in Stores |-> [load[u] EXCEPT ![c] = FirstStep]]
    /\ refreshes' = refreshes + 1
    /\ UNCHANGED <<server, options, client, data, lastVersion, timer, ticked, closed, panicked,
                   faults>>

\* wg.Wait returns.
RefreshReturns(c) ==
    /\ call[c].op = "refresh" /\ \A u \in Stores : load[u][c].step = "idle"
    /\ call' = [call EXCEPT ![c].op = "idle"]
    /\ UNCHANGED <<server, options, client, data, lastVersion, load, timer, ticked, closed,
                   panicked, refreshes, faults>>

Close(c) ==
    /\ client = "ready" /\ call[c].op = "idle"
    /\ call' = [call EXCEPT ![c] = [op |-> "close", store |-> 1]]
    /\ UNCHANGED <<server, options, client, data, lastVersion, load, timer, ticked, closed,
                   panicked, refreshes, faults>>

\* Mutant: the loop runs past the last store.
NextCloseUnbounded(c) ==
    call' = [call EXCEPT ![c] = [op |-> "close", store |-> call[c].store + 1]]

\* The next store's Close, or the end of the client's.
NextClose(c) ==
    LET u == call[c].store
    IN  call' = [call EXCEPT ![c] = IF u = N THEN [op |-> "idle", store |-> 1]
                                             ELSE [op |-> "close", store |-> u + 1]]

\* Mutant: the access channel stays open.
CloseAccessForgotten(c) ==
    LET u == call[c].store
    IN  /\ call[c].op = "close"
        /\ IF timer[u] = "none" THEN NextClose(c) ELSE call' = [call EXCEPT ![c].op = "stop"]
        /\ UNCHANGED <<server, options, client, data, lastVersion, load, timer, ticked, closed,
                       panicked, refreshes, faults>>

\* close(access), which panics the second time, and ticker.Stop.
CloseAccess(c) ==
    LET u == call[c].store
    IN  /\ call[c].op = "close"
        /\ \/ /\ closed[u]
              /\ panicked' = TRUE
              /\ UNCHANGED <<closed, call>>
           \/ /\ ~closed[u]
              /\ closed' = [closed EXCEPT ![u] = TRUE]
              /\ IF timer[u] = "none" THEN NextClose(c) ELSE call' = [call EXCEPT ![c].op = "stop"]
              /\ UNCHANGED panicked
        /\ UNCHANGED <<server, options, client, data, lastVersion, load, timer, ticked,
                       refreshes, faults>>

\* Mutant: the done channel has a buffer, and the send does not wait.
SendDoneBuffered(c) ==
    /\ call[c].op = "stop"
    /\ NextClose(c)
    /\ UNCHANGED <<server, options, client, data, lastVersion, load, timer, ticked, closed,
                   panicked, refreshes, faults>>

\* done <- true meets the timer in its select.
SendDone(c) ==
    /\ call[c].op = "stop" /\ timer[call[c].store] = "select"
    /\ timer' = [timer EXCEPT ![call[c].store] = "gone"]
    /\ NextClose(c)
    /\ UNCHANGED <<server, options, client, data, lastVersion, load, ticked, closed, panicked,
                   refreshes, faults>>

-----------------------------------------------------------------------------
Publish ==
    /\ \E u \in Stores, f \in Files :
         \E v \in IF Latest(u) = {} THEN {1} ELSE {e.version + 1 : e \in Latest(u)} :
             v <= MaxVersion /\ Server!Publish([schema |-> u, version |-> v, file |-> f])
    /\ UNCHANGED <<options, client, data, lastVersion, load, timer, ticked, closed, app, deletes,
                   faults>>

DeleteVersion ==
    /\ deletes < MaxDeletes
    /\ \E e \in contents : Server!Remove(e)
    /\ deletes' = deletes + 1
    /\ UNCHANGED <<options, client, data, lastVersion, load, timer, ticked, closed, app, faults>>

Loading(u, g) == ListVersions(u, g) \/ Fetch(u, g) \/ AssignVersion(u, g) \/ SetData(u, g)
Timing(u) == TickReceived(u) \/ AccessClosed(u)
Calling(c) == RefreshReturns(c) \/ CloseAccess(c) \/ SendDone(c)

\* The process is gone, or no client came of it.
Quiet ==
    /\ panicked \/ client = "failed"
    /\ UNCHANGED vars

Next ==
    \/ /\ ~panicked
       /\ \/ \E u \in Stores, g \in Goroutines : Loading(u, g) \/ HttpError(u, g)
          \/ \E u \in Stores : Timing(u) \/ Tick(u) \/ GetResolver(u) \/ GetResolverPanics(u)
          \/ \E c \in Callers : Calling(c) \/ Refresh(c) \/ Close(c)
          \/ NewClient
    \/ Publish \/ DeleteVersion \/ Quiet

Spec == Init /\ [][Next]_vars

\* Goroutines run, downloads end, the ticker ticks, and the application goes on
\* asking for types until it closes the client.
FairSpec ==
    /\ Spec
    /\ \A u \in Stores :
         /\ \A g \in Goroutines : WF_vars(~panicked /\ Loading(u, g))
         /\ WF_vars(~panicked /\ Timing(u))
         /\ WF_vars(~panicked /\ Tick(u))
         /\ WF_vars(~panicked /\ GetResolver(u))
    /\ \A c \in Callers : WF_vars(~panicked /\ Calling(c))

-----------------------------------------------------------------------------
\* Every variable has its type.
TypeOK ==
    /\ contents \subseteq Server!Entries
    /\ options \in [strategy : Strategies, auto : BOOLEAN]
    /\ client \in {"idle", "new", "ready", "failed"}
    /\ data \in [Stores -> Server!Entries \cup {Nil}]
    /\ lastVersion \in [Stores -> Nat]
    /\ load \in [Stores -> [Goroutines -> [step : LoadSteps, ver : Nat,
                                           val : Server!Entries \cup {Nil}]]]
    /\ timer \in [Stores -> Timers]
    /\ ticked \in [Stores -> BOOLEAN] /\ closed \in [Stores -> BOOLEAN]
    /\ call \in [Callers -> [op : {"idle", "refresh", "close", "stop"}, store : Stores]]
    /\ panicked \in BOOLEAN
    /\ deletes \in Nat /\ refreshes \in Nat /\ faults \in Nat

\* A client that NewClient returned has a descriptor set for every url, and
\* keeps one through every failed refresh (getResolver answers ok).
ReadyHasData ==
    client = "ready" =>
        \A u \in Stores : data[u] # Nil /\ data[u].file \in Descriptors

\* While only the timer refreshes, a store under VersionBasedRefresh goes from
\* a version to a later one, whatever is deleted at the server
\* (refresh_strategy.go: "If new version is available then only schema cache
\* would be updated").
NeverOlder ==
    [][\A u \in Stores :
         options.strategy = "version" /\ refreshes = 0 /\ data[u] # Nil /\ data'[u] # data[u]
             => data'[u].version > data[u].version]_vars

\* When Close has returned, the background refresh is over: the data of a store
\* stands still, unless a Refresh of the application changes it (client.go:
\* "Close stops background refresh if configured").
ClosedStandsStill ==
    [][\A u \in Stores :
         /\ closed[u] /\ \A c \in Callers : call[c].op \notin {"close", "stop"}
         /\ \A c \in Callers : load[u][c].step = "idle"
         => data'[u] = data[u]]_vars

\* Close returns, even while the timer is waiting for a reader or loading.
CloseReturns ==
    \A c \in Callers :
        call[c].op \in {"close", "stop"} ~> call[c].op = "idle" \/ panicked

\* With AutoRefresh, a store comes to hold the latest version once the server
\* keeps to it (docs/clients/go.md: "refresh protobuf descriptors in specified
\* intervals").
EventuallyFresh ==
    \A u \in Stores, v \in 1..MaxVersion, f \in Descriptors :
        LET e == [schema |-> u, version |-> v, file |-> f]
        IN  <>[](/\ Latest(u) = {e} /\ client = "ready" /\ options.auto
                 /\ ~closed[u] /\ ~panicked)
                => <>[](data[u] = e)

\* The same where nothing but the timer refreshes and no version is deleted:
\* one timer cannot get in its own way, also after a failed download.
TimerKeepsFresh ==
    \A u \in Stores, v \in 1..MaxVersion, f \in Descriptors :
        LET e == [schema |-> u, version |-> v, file |-> f]
        IN  <>[](/\ Latest(u) = {e} /\ client = "ready" /\ options.auto
                 /\ ~closed[u] /\ ~panicked /\ refreshes = 0 /\ deletes = 0)
                => <>[](data[u] = e)
=============================================================================
