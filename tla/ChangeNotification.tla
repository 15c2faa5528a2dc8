------------------------- MODULE ChangeNotification -------------------------
(***************************************************************************)
(* Schema-change notification: the tail of Service.Create with the         *)
(* goroutine it starts (identifySchemaChange, sendNotification), and the   *)
(* reconciliation call DetectSchemaChange, over the table                  *)
(* notification_events and a Kafka topic.                                  *)
(*                                                                         *)
(* The versions are those of VersionStore, which Registry implements: an   *)
(* upload is stored in one step and a delete takes effect in one step.  A  *)
(* task is an upload followed by its goroutine, or a reconciliation; the   *)
(* handler does nothing after it has started the goroutine but answer.     *)
(***************************************************************************)
EXTENDS Naturals, FiniteSets

CONSTANTS
    Tasks,        \* uploads with their goroutines, and reconciliations
    Schemas,      \* schemas of the registry
    Files,        \* schema contents
    Descriptors,  \* the contents that parse as a FileDescriptorSet
    Changed,      \* <<old, new>> : the new content has UpdatedSchemas
    Enable,       \* SchemaChange.Enable; when FALSE the producer is NoopProducer
    MaxOps,       \* bound on uploads, reconciliations and deletes
    MaxFaults,    \* bound on errors of the database and of Kafka, and crashes
    Nil           \* the empty version id; no data

ASSUME NilAssumption == Nil \notin Files
ASSUME DescriptorsAssumption == Descriptors \subseteq Files
ASSUME EnableAssumption == Enable \in BOOLEAN
\* A server runs finitely many goroutines.
ASSUME TasksAssumption == IsFiniteSet(Tasks)
ASSUME BoundAssumption == MaxOps \in Nat /\ MaxFaults \in Nat

VARIABLES
    contents,  \* the versions that exist (VersionStore)
    sid,       \* [Schemas -> Nat]: schemas.id, 0 without a row
    serial,    \* the last schemas.id given out
    events,    \* table notification_events: rows [id, schema_id, version_id, success]
    topic,     \* messages the Kafka topic holds
    eventIds,  \* number of event ids (uuids) made so far
    pc, task,  \* per task: next step, ChangeRequest and what it has found
    ops, faults

vars == <<contents, sid, serial, events, topic, eventIds, pc, task, ops, faults>>
stored == <<contents, sid, serial>>

Store == INSTANCE VersionStore

\* Mutant: the id leaves out the content.
VersionIDOfSchema(s, f) == [schema |-> s, file |-> Nil]

\* getIDforSchema, taken as injective on namespace, schema and content.
VersionID(s, f) == [schema |-> s, file |-> f]
VersionIDs == [schema : Schemas, file : Files]

Rows(s) == {e \in contents : e.schema = s}
Latest(s) == {e \in Rows(s) : \A d \in Rows(s) : d.version <= e.version}
NextVersions(s) ==
    IF Rows(s) = {} THEN {1} ELSE {e.version + 1 : e \in Latest(s)}

ChangeRequests ==
    [schema : Schemas, new : Files \cup {Nil}, old : Files \cup {Nil}, version : Nat,
     version_id : VersionIDs \cup {Nil}, schema_id : Nat, id : Nat]
EventRows ==
    [id : Nat, schema_id : Nat, version_id : VersionIDs \cup {Nil}, success : BOOLEAN]
Messages ==
    [id : Nat, schema : Schemas, schema_id : Nat, version_id : VersionIDs \cup {Nil},
     version : Nat, old : Descriptors, new : Descriptors]
PCs == {"idle", "create", "detect", "schemaId", "lookup", "touch", "insert",
        "write", "mark"}

Init ==
    /\ contents = {} /\ sid = [s \in Schemas |-> 0] /\ serial = 0
    /\ events = {} /\ topic = {} /\ eventIds = 0
    /\ pc = [t \in Tasks |-> "idle"]
    /\ \E s \in Schemas :
         task = [t \in Tasks |-> [schema |-> s, new |-> Nil, old |-> Nil, version |-> 0,
                                  version_id |-> Nil, schema_id |-> 0, id |-> 0]]
    /\ ops = 0 /\ faults = 0

-----------------------------------------------------------------------------
Goto(t, step, l) ==
    /\ pc' = [pc EXCEPT ![t] = step]
    /\ task' = [task EXCEPT ![t] = l]
Stop(t) == Goto(t, "idle", task[t])

\* The upload has passed its checks (Registry has them) and reads the latest
\* version for the goroutine; without one, or on an error, err2 leaves no data.
Upload(t) ==
    /\ pc[t] = "idle" /\ ops < MaxOps
    /\ \E s \in Schemas, f \in Files, old \in Files \cup {Nil} :
         /\ \/ old \in {e.file : e \in Latest(s)} /\ UNCHANGED faults
            \/ old = Nil /\ Rows(s) = {} /\ UNCHANGED faults
            \/ old = Nil /\ Rows(s) # {} /\ faults < MaxFaults /\ faults' = faults + 1
         /\ Goto(t, "create",
                 [schema |-> s, new |-> f, old |-> old, version |-> 0,
                  version_id |-> VersionID(s, f), schema_id |-> 0, id |-> 0])
    /\ ops' = ops + 1
    /\ UNCHANGED <<stored, events, topic, eventIds>>

\* Mutant: no goroutine for a content that was stored before.
SpawnForNewVersion(t, v) ==
    IF Enable /\ task[t].old # Nil /\ v \in NextVersions(task[t].schema)
    THEN Goto(t, "schemaId", [task[t] EXCEPT !.version = v])
    ELSE Stop(t)

\* The goroutine starts whether or not repo.Create failed, if the latest
\* version could be read before.
Spawn(t, v) ==
    IF Enable /\ task[t].old # Nil
    THEN Goto(t, "schemaId", [task[t] EXCEPT !.version = v])
    ELSE Stop(t)

\* repo.Create: a known content keeps its version, a new one is published.
Create(t) ==
    LET s == task[t].schema
        known == {e \in Rows(s) : e.file = task[t].new}
    IN  /\ pc[t] = "create"
        /\ \/ /\ \E e \in known : Spawn(t, e.version)
              /\ UNCHANGED stored
           \/ /\ known = {}
              /\ \E v \in NextVersions(s) :
                   /\ Store!Publish([schema |-> s, version |-> v, file |-> task[t].new])
                   /\ Spawn(t, v)
              /\ IF sid[s] # 0
                 THEN UNCHANGED <<sid, serial>>
                 ELSE serial' = serial + 1 /\ sid' = [sid EXCEPT ![s] = serial + 1]
        /\ UNCHANGED <<events, topic, eventIds, ops, faults>>

\* repo.Create fails and stores nothing.  The version is 0, or the one the
\* transaction had scanned when its commit failed.
CreateFails(t) ==
    /\ pc[t] = "create" /\ faults < MaxFaults
    /\ \E v \in {0} \cup NextVersions(task[t].schema) : Spawn(t, v)
    /\ faults' = faults + 1
    /\ UNCHANGED <<stored, events, topic, eventIds, ops>>

-----------------------------------------------------------------------------
\* IdentifySchemaChange, and sendNotification up to its first statement.
Identify(t, l) ==
    IF {l.old, l.new} \subseteq Descriptors /\ <<l.old, l.new>> \in Changed
    THEN Goto(t, "insert", [l EXCEPT !.id = eventIds + 1]) /\ eventIds' = eventIds + 1
    ELSE Goto(t, "idle", l) /\ UNCHANGED eventIds

GetSchemaID(t) ==
    /\ pc[t] = "schemaId"
    /\ IF sid[task[t].schema] = 0
       THEN Stop(t)
       ELSE Goto(t, "lookup", [task[t] EXCEPT !.schema_id = sid[task[t].schema]])
    /\ UNCHANGED <<stored, events, topic, eventIds, ops, faults>>

\* Mutant: the lookup asks for the failed events.
NotifiedFailed(t) ==
    {e \in events : /\ e.schema_id = task[t].schema_id
                    /\ e.version_id = task[t].version_id /\ ~e.success}

Notified(t) ==
    {e \in events : /\ e.schema_id = task[t].schema_id
                    /\ e.version_id = task[t].version_id /\ e.success}

\* GetByNameSpaceSchemaVersionAndSuccess: one row is a duplicate request,
\* more than one an error of pgxscan.Get.
Lookup(t) ==
    /\ pc[t] = "lookup"
    /\ CASE Notified(t) = {} -> Identify(t, task[t])
         [] Cardinality(Notified(t)) = 1 ->
              /\ \E e \in Notified(t) : Goto(t, "touch", [task[t] EXCEPT !.id = e.id])
              /\ UNCHANGED eventIds
         [] OTHER -> Stop(t) /\ UNCHANGED eventIds
    /\ UNCHANGED <<stored, events, topic, ops, faults>>

\* notificationEventRepo.Update(id, true).
Marked(id) ==
    {IF e.id = id THEN [e EXCEPT !.success = TRUE] ELSE e : e \in events}

Touch(t) ==
    /\ pc[t] = "touch"
    /\ events' = Marked(task[t].id)
    /\ Stop(t)
    /\ UNCHANGED <<stored, topic, eventIds, ops, faults>>

\* Mutant: the row is inserted as a success.
NewEventDone(t) ==
    [id |-> task[t].id, schema_id |-> task[t].schema_id,
     version_id |-> task[t].version_id, success |-> TRUE]

\* createNotificationEvent(sce, request, schemaID, false).
NewEvent(t) ==
    [id |-> task[t].id, schema_id |-> task[t].schema_id,
     version_id |-> task[t].version_id, success |-> FALSE]

\* Mutant: an error of the insert does not end the goroutine.
InsertEventUnchecked(t) ==
    /\ pc[t] = "insert"
    /\ \/ events' = events \cup {NewEvent(t)} /\ UNCHANGED faults
       \/ faults < MaxFaults /\ faults' = faults + 1 /\ UNCHANGED events
    /\ Goto(t, "write", task[t])
    /\ UNCHANGED <<stored, topic, eventIds, ops>>

InsertEvent(t) ==
    /\ pc[t] = "insert"
    /\ events' = events \cup {NewEvent(t)}
    /\ Goto(t, "write", task[t])
    /\ UNCHANGED <<stored, topic, eventIds, ops, faults>>

Message(t) ==
    [id |-> task[t].id, schema |-> task[t].schema, schema_id |-> task[t].schema_id,
     version_id |-> task[t].version_id, version |-> task[t].version,
     old |-> task[t].old, new |-> task[t].new]

\* producer.Write: Kafka has the message, or NoopProducer has done nothing.
Write(t) ==
    /\ pc[t] = "write"
    /\ topic' = IF Enable THEN topic \cup {Message(t)} ELSE topic
    /\ Goto(t, "mark", task[t])
    /\ UNCHANGED <<stored, events, eventIds, ops, faults>>

MarkEvent(t) ==
    /\ pc[t] = "mark"
    /\ events' = Marked(task[t].id)
    /\ Stop(t)
    /\ UNCHANGED <<stored, topic, eventIds, ops, faults>>

-----------------------------------------------------------------------------
\* DetectSchemaChange: ValidateVersions accepts 1 <= from < to, and the data
\* of the from version is read ...
DetectSchemaChange(t) ==
    /\ pc[t] = "idle" /\ ops < MaxOps
    /\ \E e \in contents, to \in 2..MaxOps :
         /\ e.version < to
         /\ Goto(t, "detect",
                 [schema |-> e.schema, new |-> Nil, old |-> e.file, version |-> to,
                  version_id |-> Nil, schema_id |-> 0, id |-> 0])
    /\ ops' = ops + 1
    /\ UNCHANGED <<stored, events, topic, eventIds, faults>>

\* ... then the data of the to version and the schema id.  The request has
\* no version id, and no event is looked up.
DetectTo(t) ==
    /\ pc[t] = "detect"
    /\ LET to == {e \in Rows(task[t].schema) : e.version = task[t].version}
       IN  \/ to = {} /\ Stop(t) /\ UNCHANGED eventIds
           \/ \E e \in to :
                Identify(t, [task[t] EXCEPT !.new = e.file,
                                            !.schema_id = sid[task[t].schema]])
    /\ UNCHANGED <<stored, events, topic, ops, faults>>

\* Deletes of other requests, as VersionStore has them.
DeleteVersion ==
    /\ ops < MaxOps
    /\ \E e \in contents : Store!Remove(e)
    /\ ops' = ops + 1
    /\ UNCHANGED <<sid, serial, events, topic, eventIds, pc, task, faults>>

DeleteSchema ==
    /\ ops < MaxOps
    /\ \E s \in Schemas :
         sid[s] # 0 /\ Store!RemoveAll({s}) /\ sid' = [sid EXCEPT ![s] = 0]
    /\ ops' = ops + 1
    /\ UNCHANGED <<serial, events, topic, eventIds, pc, task, faults>>

-----------------------------------------------------------------------------
\* A statement fails, with or without effect (the goroutine's context ends
\* after an hour); every error ends the goroutine.
DbError(t) ==
    /\ pc[t] \notin {"idle", "create", "write"} /\ faults < MaxFaults
    /\ \/ UNCHANGED events
       \/ pc[t] = "insert" /\ events' = events \cup {NewEvent(t)}
       \/ pc[t] = "mark" /\ events' = Marked(task[t].id)
    /\ Stop(t)
    /\ faults' = faults + 1
    /\ UNCHANGED <<stored, topic, eventIds, ops>>

\* WriteMessages returns an error after its attempts; the topic may have the
\* message all the same.
KafkaError(t) ==
    /\ pc[t] = "write" /\ Enable /\ faults < MaxFaults
    /\ topic' \in {topic, topic \cup {Message(t)}}
    /\ Stop(t)
    /\ faults' = faults + 1
    /\ UNCHANGED <<stored, events, eventIds, ops>>

\* The server stops; a shutdown does not wait for the goroutines either.
Crash ==
    /\ faults < MaxFaults
    /\ pc' = [t \in Tasks |-> "idle"]
    /\ faults' = faults + 1
    /\ UNCHANGED <<stored, events, topic, eventIds, task, ops>>

Quiet ==
    /\ ops = MaxOps /\ \A t \in Tasks : pc[t] = "idle"
    /\ UNCHANGED vars

Run(t) ==
    \/ Create(t) \/ GetSchemaID(t) \/ Lookup(t) \/ Touch(t)
    \/ InsertEvent(t) \/ Write(t) \/ MarkEvent(t) \/ DetectTo(t)

Next ==
    \/ \E t \in Tasks :
         \/ Upload(t) \/ DetectSchemaChange(t) \/ Run(t)
         \/ CreateFails(t) \/ DbError(t) \/ KafkaError(t)
    \/ DeleteVersion \/ DeleteSchema \/ Crash \/ Quiet

Spec == Init /\ [][Next]_vars

\* The Go scheduler runs every goroutine.
FairSpec == Spec /\ \A t \in Tasks : WF_vars(Run(t))

-----------------------------------------------------------------------------
\* Every variable has its type.
TypeOK ==
    /\ contents \subseteq Store!Entries
    /\ sid \in [Schemas -> Nat] /\ serial \in Nat
    /\ events \subseteq EventRows
    /\ topic \subseteq Messages
    /\ eventIds \in Nat
    /\ pc \in [Tasks -> PCs]
    /\ task \in [Tasks -> ChangeRequests]
    /\ ops \in Nat /\ faults \in Nat

\* An event is marked successful only if Kafka has its message (guide
\* 5_schema_change.md, step 9: "it will update the notification_events
\* database table with success=true after pushing the object to kafka").
SuccessMeansSent ==
    \A e \in events : e.success => \E m \in topic : m.id = e.id

\* Every message has its row in notification_events, for the same schema and
\* version, whatever failed after it was sent.
SentIsRecorded ==
    \A m \in topic :
        \E e \in events : /\ e.id = m.id /\ e.schema_id = m.schema_id
                          /\ e.version_id = m.version_id

\* Without failures a version of a schema row is announced once by each task
\* that was at work when the first announcement was marked, and never after
\* that, however often the content comes again: one message when uploads come
\* one after the other (the duplicate check of identifySchemaChange).
DuplicatesBounded ==
    \A m \in topic :
        faults = 0 /\ m.version_id # Nil =>
            Cardinality({n \in topic : n.version_id = m.version_id /\ n.schema_id = m.schema_id})
                <= Cardinality(Tasks)

\* A message is about a version that exists, with its content, as long as
\* nothing is deleted (5_schema_change.md: "when the schema is uploaded in DB.
\* Below things happened parallely in separate go routine").
MessagesNameStoredVersions ==
    \A m \in topic : [schema |-> m.schema, version |-> m.version, file |-> m.new] \in contents

\* Task t uploads f to s, and f changes messages of the version it has read.
Announces(s, f, t) ==
    /\ pc[t] = "create" /\ task[t].schema = s /\ task[t].new = f
    /\ {task[t].old, f} \subseteq Descriptors /\ <<task[t].old, f>> \in Changed

\* Without failures every upload that changes messages against the latest
\* version is announced, unless its schema is deleted meanwhile (the goroutine
\* of Service.Create, for new and for known contents).
ChangesAnnounced ==
    \A s \in Schemas, f \in Files :
        (\E t \in Tasks : Announces(s, f, t))
            ~> ((\E m \in topic : m.version_id = VersionID(s, f)) \/ sid[s] = 0 \/ faults > 0)
=============================================================================
