------------------------------- MODULE Server -------------------------------
(***************************************************************************)
(* The server process with its users: command lines over gRPC, and others  *)
(* over HTTP.  One port serves both; a call runs in the server from its    *)
(* arrival to its result, and the process may be told to stop meanwhile.   *)
(* Gateway calls have a gRPC call of their own, over the connection that   *)
(* the process holds to itself.                                            *)
(***************************************************************************)
EXTENDS Cli

CONSTANTS
    CliUsers, HttpUsers,  \* who uses the server
    Commands,             \* the command lines run: [name, args]
    HttpRequests,         \* [via, method, path, body], via a route or the gateway
    Databases0,           \* what the database may hold at the start
    MaxOps                \* bound on commands and HTTP requests

ASSUME OpsAssumption == MaxOps \in Nat
ASSUME UsersAssumption == CliUsers \cap HttpUsers = {}
ASSUME CommandsAssumption ==
    \A c \in Commands : c.name \in CommandNames /\ c.args \in ArgsOf(c.name)
ASSUME RequestsAssumption ==
    \A q \in HttpRequests :
        \/ q.via = "route" /\ q.method \in Routes /\ q.path \in RouteRequestOf[q.method]
        \/ /\ q.via = "gateway" /\ q.method \in DOMAIN PathOf
           /\ q.path \in PathOf[q.method] /\ q.body \in BodyOf(q.method)
\* The process starts on an empty cache.  Nothing has been deleted before:
\* every schema has a version, and its versions are files of its format.
ASSUME StartAssumption ==
    \A d \in Databases0 :
        /\ d \in Databases /\ d.cache = [k \in Keys |-> NoFiles]
        /\ d.namespaces[Blank] = Nil
        /\ \A k \in Keys :
             /\ d.schemas[k] # Nil => \E v \in Numbers : d.versions[k][v] # Nil
             /\ \A v \in Numbers : d.versions[k][v] # Nil =>
                  /\ d.schemas[k] # Nil /\ d.versions[k][v] # Empty
                  /\ <<d.schemas[k].format, d.versions[k][v]>> \in Parses
ASSUME NoNameAssumption == Nil \notin CommandNames

Users == CliUsers \cup HttpUsers

VARIABLES
    db,      \* tables and cache
    phase,   \* how far the process is in Start and in its shutdown
    forced,  \* Shutdown gave up waiting
    call,    \* [Users -> the call of a user that is in the server, or its result]
    cmd,     \* [CliUsers -> the command that runs]
    ops,
    events   \* history: what has been done to the schemas

vars == <<db, phase, forced, call, cmd, ops, events>>

\* The versions that a database has, as VersionStore has them.
VersionsIn(d) ==
    {e \in [schema : Keys, version : Numbers, file : Contents] :
        d.versions[e.schema][e.version] = e.file}
Promised == INSTANCE VersionStore WITH Schemas <- Keys, Files <- Contents, contents <- VersionsIn(db)

\* After "draining": conn.Close is next, GracefulStop is next, db.Close is
\* next, the end of the process is next.
Phases == {"starting", "serving", "deaf", "draining", "closing", "stopping", "closingDb",
           "exiting", "down"}
ConnOpen == phase \in {"starting", "serving", "deaf", "draining", "closing"}
TakesGRPC == phase \in {"serving", "draining", "closing"}
DbOpen == phase \notin {"exiting", "down"}

\* Steps of a call: in its HTTP handler, in its gRPC handler, over.  at is what
\* an upload has kept from its check, Nil before it.
Running(u) == call[u] # Nil /\ call[u].step # "done"
InGRPC(u) == Running(u) /\ call[u].step = "grpc"
InHTTP(u) == Running(u) /\ call[u].via # "grpc"
Pending(via, method, in, body, step) ==
    [via |-> via, method |-> method, in |-> in, body |-> body, step |-> step, at |-> Nil]
GoesOn(c, at) ==
    [via |-> c.via, method |-> c.method, in |-> c.in, body |-> c.body, step |-> c.step, at |-> at]
Done(c, code, out) == [via |-> c.via, method |-> c.method, step |-> "done", code |-> code, out |-> out]

NoCommand == [name |-> Nil, args |-> Nil, replies |-> <<>>, state |-> "idle", code |-> 0]

Init ==
    /\ db \in Databases0
    /\ phase = "starting" /\ forced = FALSE
    /\ call = [u \in Users |-> Nil]
    /\ cmd = [u \in CliUsers |-> NoCommand]
    /\ ops = 0 /\ events = {}

-----------------------------------------------------------------------------
(***************************************************************************)
(* Command lines.                                                          *)
(***************************************************************************)
CommandExits(u, code) == cmd' = [cmd EXCEPT ![u].state = "idle", ![u].code = code]

RunCommand(u) ==
    /\ cmd[u].state = "idle" /\ ops < MaxOps
    /\ \E c \in Commands :
         LET first == BeforeDial(c.name, c.args)
         IN  cmd' = [cmd EXCEPT ![u] =
                [name |-> c.name, args |-> c.args, replies |-> <<>>,
                 state |-> IF first.kind = "exit" THEN "idle" ELSE "dial",
                 code |-> IF first.kind = "exit" THEN first.code ELSE 0]]
    /\ ops' = ops + 1
    /\ UNCHANGED <<db, phase, forced, call, events>>

\* Mutant: the dial has no deadline.
DialFailsWithoutDeadline(u) ==
    /\ cmd[u].state = "dial" /\ phase = "down"
    /\ CommandExits(u, 1)
    /\ UNCHANGED <<db, phase, forced, call, ops, events>>

\* createClient: no host, or two seconds without a connection.
DialFails(u) ==
    /\ cmd[u].state = "dial"
    /\ CommandExits(u, 1)
    /\ UNCHANGED <<db, phase, forced, call, ops, events>>

Dial(u) ==
    /\ cmd[u].state = "dial" /\ phase = "serving"
    /\ cmd' = [cmd EXCEPT ![u].state = "ready"]
    /\ UNCHANGED <<db, phase, forced, call, ops, events>>

\* The connection outlives the listener: Shutdown does not know the
\* connections that h2c has taken over.
NextStep(u) ==
    /\ cmd[u].state = "ready"
    /\ \E step \in {RunE(cmd[u].name, cmd[u].args, cmd[u].replies)} :
         \/ /\ step.kind = "exit"
            /\ CommandExits(u, step.code)
            /\ UNCHANGED call
         \/ /\ step.kind = "call" /\ TakesGRPC
            /\ call' = [call EXCEPT ![u] = Pending("grpc", step.method, step.in, NoBody, "grpc")]
            /\ cmd' = [cmd EXCEPT ![u].state = "waiting"]
         \/ /\ step.kind = "call" /\ ~TakesGRPC
            /\ cmd' = [cmd EXCEPT ![u].replies = Append(@, [code |-> "Unavailable", out |-> Nil])]
            /\ UNCHANGED call
    /\ UNCHANGED <<db, phase, forced, ops, events>>

Receive(u) ==
    /\ cmd[u].state = "waiting" /\ call[u].step = "done"
    /\ cmd' = [cmd EXCEPT ![u].state = "ready",
                          ![u].replies = Append(@, [code |-> call[u].code, out |-> call[u].out])]
    /\ call' = [call EXCEPT ![u] = Nil]
    /\ UNCHANGED <<db, phase, forced, ops, events>>

-----------------------------------------------------------------------------
(***************************************************************************)
(* The server.                                                             *)
(***************************************************************************)
HTTPRequest(u) ==
    /\ ~Running(u) /\ ops < MaxOps /\ phase = "serving"
    /\ \E q \in HttpRequests :
         call' = [call EXCEPT ![u] = Pending(q.via, q.method, q.path, q.body, "http")]
    /\ ops' = ops + 1
    /\ UNCHANGED <<db, phase, forced, cmd, events>>

\* A request_ function: its error, or its call over conn, which may have lost
\* the port it leads to.
Gateway(u) ==
    LET c == call[u]
        in == Translate(c.method, c.in, c.body)
    IN  /\ Running(u) /\ c.via = "gateway" /\ c.step = "http"
        /\ call' = [call EXCEPT ![u] =
             CASE in = Nil -> Done(c, "InvalidArgument", Nil)
               [] in # Nil /\ ConnOpen -> Pending("gateway", c.method, in, c.body, "grpc")
               [] OTHER -> Done(c, "Canceled", Nil)]
        /\ UNCHANGED <<db, phase, forced, cmd, ops, events>>

\* What a successful call did to the schemas.  Two uploads have crossed when
\* the later of them is stored although its check found no version at all.
UploadMethods == {"CreateSchema", "HTTPUpload"}
UploadEvents(c, old) ==
    (IF Unchecked(c.at.meta.compatibility) THEN {"unchecked"} ELSE {})
    \cup (IF c.at.step = "insert" /\ c.at.first /\ Latest(old, Key(c.in)) # 0 THEN {"crossed"} ELSE {})
    \cup (IF c.method = "HTTPUpload" /\ c.in.data = Empty THEN {"emptyUpload"} ELSE {})
Events(c, old) ==
    CASE c.method \in {"DeleteNamespace", "DeleteSchema", "DeleteVersion"} -> {"deleted"}
      [] c.method \in {"UpdateNamespace", "UpdateSchemaMetadata"} -> {"edited"}
      [] c.method \in UploadMethods -> UploadEvents(c, old)
      [] OTHER -> {}

\* A handler runs, or an upload takes its next step.  Without the pool every
\* statement fails.
Served(c) ==
    CASE ~DbOpen -> Refuse(db, "Unknown")
      [] DbOpen /\ c.at # Nil -> Store(db, Key(c.in), c.at, c.in.data)
      [] DbOpen /\ c.at = Nil /\ c.step = "grpc" -> ServeGRPC(db, c.method, c.in)
      [] DbOpen /\ c.at = Nil /\ c.step = "http" -> ServeRoute(db, c.method, c.in)
CallAfter(c, res) ==
    IF res.code = "more" THEN GoesOn(c, res.out) ELSE Done(c, res.code, res.out)
Recorded(c, res) == events \cup (IF res.code = "OK" THEN Events(c, db) ELSE {})

Handle(u) ==
    /\ InGRPC(u) \/ (Running(u) /\ call[u].via = "route")
    /\ call[u].via = "gateway" => ConnOpen
    /\ \E res \in {Served(call[u])} :
         /\ db' = res.db
         /\ call' = [call EXCEPT ![u] = CallAfter(call[u], res)]
         /\ events' = Recorded(call[u], res)
    /\ UNCHANGED <<phase, forced, cmd, ops>>

\* The gateway's connection fails, or is closed, under its call: the handler
\* has run by then, or its context is canceled before it changes anything.
GatewayFails(u) ==
    /\ InGRPC(u) /\ call[u].via = "gateway"
    /\ \E res \in {Served(call[u]), Refuse(db, "Canceled")} :
         /\ db' = res.db
         /\ events' = Recorded(call[u], res)
    /\ call' = [call EXCEPT ![u] = Done(call[u], IF ConnOpen THEN "Unavailable" ELSE "Canceled", Nil)]
    /\ UNCHANGED <<phase, forced, cmd, ops>>

\* Ristretto drops an entry, or never took it.
Evict ==
    /\ \E k \in Keys, v \in Numbers :
         db.cache[k][v] # Nil /\ db' = [db EXCEPT !.cache[k][v] = Nil]
    /\ UNCHANGED <<phase, forced, call, cmd, ops, events>>

-----------------------------------------------------------------------------
(***************************************************************************)
(* runWithGracefulShutdown.                                                *)
(***************************************************************************)
Goto(p) == phase' = p /\ UNCHANGED <<db, call, cmd, ops, events>>

\* ListenAndServe: an error other than ErrServerClosed goes unnoticed, and the
\* process waits for its signal without a port.
Listen == phase = "starting" /\ (Goto("serving") \/ Goto("deaf")) /\ UNCHANGED forced

Signal == phase \in {"starting", "serving", "deaf"} /\ Goto("draining") /\ UNCHANGED forced

\* Mutant: Close instead of Shutdown.
DrainedAtOnce ==
    /\ phase = "draining"
    /\ Goto("closing") /\ UNCHANGED forced

\* Mutant: after a Shutdown that timed out the process waits for another signal.
DrainTimeoutWaits ==
    /\ phase = "draining" /\ \E u \in Users : InHTTP(u)
    /\ Goto("deaf") /\ forced' = TRUE

\* Shutdown returns when no HTTP connection is active, or after the timeout.
Drained ==
    /\ phase = "draining" /\ \A u \in Users : ~InHTTP(u)
    /\ Goto("closing") /\ UNCHANGED forced
DrainTimeout ==
    /\ phase = "draining" /\ \E u \in Users : InHTTP(u)
    /\ Goto("closing") /\ forced' = TRUE

\* Mutant: the gRPC server is not stopped before the pool is closed.
CloseConnThenDb == phase = "closing" /\ Goto("closingDb") /\ UNCHANGED forced

CloseConn == phase = "closing" /\ Goto("stopping") /\ UNCHANGED forced

GracefulStop ==
    /\ phase = "stopping" /\ \A u \in Users : ~InGRPC(u)
    /\ Goto("closingDb") /\ UNCHANGED forced

CloseDb == phase = "closingDb" /\ Goto("exiting") /\ UNCHANGED forced

\* The process is gone: what runs in it is cut, and an HTTP user has no reply.
ProcessEnds ==
    /\ phase' = "down"
    /\ call' = [u \in Users |->
         IF ~Running(u) THEN call[u]
         ELSE Done(call[u], IF u \in CliUsers THEN "Unavailable" ELSE "reset", Nil)]
    /\ UNCHANGED <<db, forced, cmd, ops, events>>

ExitProcess == phase = "exiting" /\ ProcessEnds

\* A gRPC call served through ServeHTTP has no Drain: GracefulStop may panic.
StopPanics == phase = "stopping" /\ (\E u \in Users : InGRPC(u)) /\ ProcessEnds

\* Nothing is left to do.
Idle ==
    /\ phase = "down" /\ \A u \in CliUsers : cmd[u].state = "idle" /\ ops = MaxOps
    /\ UNCHANGED vars

Serving(u) == Handle(u) \/ Gateway(u) \/ GatewayFails(u)
Commanding(u) == DialFails(u) \/ Dial(u) \/ NextStep(u) \/ Receive(u)
Stopping == Drained \/ DrainTimeout \/ CloseConn \/ GracefulStop \/ CloseDb \/ ExitProcess \/ StopPanics

Next ==
    \/ \E u \in CliUsers : RunCommand(u) \/ Commanding(u)
    \/ \E u \in HttpUsers : HTTPRequest(u)
    \/ \E u \in Users : Serving(u)
    \/ Evict
    \/ Listen \/ Signal \/ Stopping
    \/ Idle

Spec == Init /\ [][Next]_vars

\* Handlers end (their statements do), the client's deadlines pass, and the
\* process goes on with its shutdown.
FairSpec ==
    /\ Spec
    /\ \A u \in Users : WF_vars(Serving(u))
    /\ \A u \in CliUsers : WF_vars(Commanding(u))
    /\ WF_vars(Stopping)

-----------------------------------------------------------------------------
\* Every variable has its type; what is on the wire is a message of its method.
TypeOK ==
    /\ db \in Databases
    /\ phase \in Phases /\ forced \in BOOLEAN
    /\ \A u \in Users : call[u] # Nil =>
         /\ call[u].via \in {"grpc", "gateway", "route"}
         /\ call[u].step \in {"http", "grpc", "done"}
         /\ call[u].step = "grpc" => call[u].in \in RequestOf[call[u].method]
         /\ call[u].step = "done" =>
              /\ call[u].code \in Codes
              /\ call[u].code = "OK" /\ call[u].method \in Methods
                    => call[u].out \in ResponseOf[call[u].method]
    /\ \A u \in CliUsers : cmd[u].state \in {"idle", "dial", "ready", "waiting"} /\ cmd[u].code \in {0, 1}
    /\ ops \in Nat

\* The database pool is closed under no gRPC handler, and under an HTTP handler
\* only when Shutdown has given up waiting for it (server.go closes conn, the
\* gRPC server and db in this order).
DbOutlivesCalls ==
    ~DbOpen => \A u \in Users : ~InGRPC(u) /\ (InHTTP(u) => forced)

\* Unless Shutdown has given up waiting, every HTTP request is answered by its
\* handler: neither conn.Close nor the end of the process gets in between.
GracefulAnswersHTTP ==
    \A u \in HttpUsers :
        call[u] # Nil /\ call[u].step = "done" /\ call[u].code \in {"Canceled", "reset"} => forced

\* The file and the metadata that fetchSchemaAndMeta puts together belong
\* together: the file is one of that format, whoever uploads in between, as
\* long as nothing is deleted, every upload is checked in some mode, and no two
\* first uploads of a schema have crossed.
FetchedPairMatches ==
    \A u \in CliUsers :
        LET f == fetchSchemaAndMeta(cmd[u].args, cmd[u].replies)
        IN  /\ cmd[u].name \in {"schema download", "schema view", "schema graph"}
            /\ Len(cmd[u].replies) = 2
            /\ cmd[u].replies[2].code = "OK"
            /\ events \cap {"deleted", "unchecked", "crossed"} = {}
            => <<f.format, f.data>> \in Parses

\* An empty file is stored by an HTTP upload only, and no namespace has an
\* empty id: the validator stands before every other way in.
BlankKeptOut ==
    /\ \A k \in Keys, v \in Numbers : db.versions[k][v] = Empty => "emptyUpload" \in events
    /\ db.namespaces[Blank] = Nil

\* A create command that ends with 0 has left its schema or namespace behind,
\* also when it says that it already exists.
ZeroMeansThere ==
    \A u \in CliUsers :
        cmd[u].state = "idle" /\ cmd[u].code = 0 /\ "deleted" \notin events =>
            /\ cmd[u].name = "schema create" =>
                 \E v \in Numbers :
                     db.versions[<<cmd[u].args.namespace, cmd[u].args.id>>][v] = cmd[u].args.data
            /\ cmd[u].name = "namespace create" => db.namespaces[cmd[u].args.id] # Nil

\* Whoever calls, over gRPC or HTTP, and however the call ends, the versions
\* change as those of a VersionStore: an upload adds one version at most, newer
\* than the others of its schema and with a content that none of them has; a
\* delete takes one version away or whole schemas; nothing else touches them.
VersionsAsPromised == [][db'.versions # db.versions => Promised!Next]_db

\* Once the process has its signal it ends, whatever runs in it.
SignalStops == phase = "draining" ~> phase = "down"

\* Every command ends, also when the server has no port or goes away.
CommandsEnd == \A u \in CliUsers : cmd[u].state # "idle" ~> cmd[u].state = "idle"
=============================================================================
