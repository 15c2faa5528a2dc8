------------------------- MODULE NotificationProofs -------------------------
(***************************************************************************)
(* Proofs about ChangeNotification, for every set of tasks, schemas and    *)
(* contents, every relation Changed and every bound.                       *)
(***************************************************************************)
EXTENDS ChangeNotification, TLAPS, FiniteSetTheorems

\* A task that is about to insert its event or to send it has two descriptor sets.
Parsed ==
    \A t \in Tasks :
        pc[t] \in {"insert", "write"} => task[t].old \in Descriptors /\ task[t].new \in Descriptors

TInv == TypeOK /\ Parsed

-----------------------------------------------------------------------------
LEMMA GotoType ==
    ASSUME TInv, NEW t \in Tasks, NEW step \in PCs, NEW l \in ChangeRequests, Goto(t, step, l),
           step \in {"insert", "write"} => l.old \in Descriptors /\ l.new \in Descriptors
    PROVE  pc' \in [Tasks -> PCs] /\ task' \in [Tasks -> ChangeRequests] /\ Parsed'
BY DEF TInv, TypeOK, Parsed, Goto

LEMMA StopType ==
    ASSUME TInv, NEW t \in Tasks, Stop(t)
    PROVE  pc' \in [Tasks -> PCs] /\ task' \in [Tasks -> ChangeRequests] /\ Parsed'
<1>1. task[t] \in ChangeRequests /\ "idle" \in PCs
  BY DEF TInv, TypeOK, PCs
<1> QED
  BY <1>1, GotoType DEF Stop

LEMMA SpawnType ==
    ASSUME TInv, NEW t \in Tasks, NEW v \in Nat, Spawn(t, v)
    PROVE  pc' \in [Tasks -> PCs] /\ task' \in [Tasks -> ChangeRequests] /\ Parsed'
<1>1. [task[t] EXCEPT !.version = v] \in ChangeRequests /\ "schemaId" \in PCs
  BY DEF TInv, TypeOK, PCs, ChangeRequests
<1>2. CASE Enable /\ task[t].old # Nil
  BY <1>1, <1>2, GotoType DEF Spawn
<1>3. CASE ~(Enable /\ task[t].old # Nil)
  BY <1>3, StopType DEF Spawn
<1> QED
  BY <1>2, <1>3

LEMMA IdentifyType ==
    ASSUME TInv, NEW t \in Tasks, NEW l \in ChangeRequests, Identify(t, l)
    PROVE  /\ pc' \in [Tasks -> PCs] /\ task' \in [Tasks -> ChangeRequests] /\ Parsed'
           /\ eventIds' \in Nat
<1>1. eventIds \in Nat /\ "insert" \in PCs /\ "idle" \in PCs
  BY DEF TInv, TypeOK, PCs
<1>2. CASE {l.old, l.new} \subseteq Descriptors /\ <<l.old, l.new>> \in Changed
  <2> DEFINE m == [l EXCEPT !.id = eventIds + 1]
  <2>1. m \in ChangeRequests /\ m.old = l.old /\ m.new = l.new
    BY <1>1 DEF ChangeRequests
  <2>2. Goto(t, "insert", m) /\ eventIds' = eventIds + 1
    BY <1>2 DEF Identify
  <2>3. m.old \in Descriptors /\ m.new \in Descriptors
    BY <1>2, <2>1
  <2> HIDE DEF m
  <2> QED
    BY <1>1, <2>1, <2>2, <2>3, GotoType
<1>3. CASE ~({l.old, l.new} \subseteq Descriptors /\ <<l.old, l.new>> \in Changed)
  BY <1>1, <1>3, GotoType DEF Identify
<1> QED
  BY <1>2, <1>3

LEMMA NewEventType ==
    ASSUME TInv, NEW t \in Tasks
    PROVE  NewEvent(t) \in EventRows
BY DEF TInv, TypeOK, NewEvent, EventRows, ChangeRequests

LEMMA MarkedType ==
    ASSUME TInv, NEW id
    PROVE  Marked(id) \subseteq EventRows
BY DEF TInv, TypeOK, Marked, EventRows

LEMMA MessageType ==
    ASSUME TInv, NEW t \in Tasks, pc[t] = "write"
    PROVE  Message(t) \in Messages
BY DEF TInv, TypeOK, Parsed, Message, Messages, ChangeRequests

LEMMA RowsType ==
    ASSUME TInv, NEW s \in Schemas
    PROVE  /\ Rows(s) \subseteq Store!Entries
           /\ \A e \in Rows(s) : e.version \in Nat /\ e.file \in Files
           /\ Latest(s) \subseteq Rows(s)
           /\ NextVersions(s) \subseteq Nat
BY DEF TInv, TypeOK, Rows, Latest, NextVersions, Store!Entries

LEMMA InitType == Init => TInv
BY DEF Init, TInv, TypeOK, Parsed, PCs, ChangeRequests

(***************************************************************************)
(* Every action preserves the types.                                       *)
(***************************************************************************)
LEMMA StepType == TInv /\ [Next]_vars => TInv'
<1> SUFFICES ASSUME TInv, [Next]_vars PROVE TInv'
  OBVIOUS
<1> USE DEF stored
<1>a. /\ contents \subseteq Store!Entries
      /\ sid \in [Schemas -> Nat] /\ serial \in Nat
      /\ events \subseteq EventRows /\ topic \subseteq Messages /\ eventIds \in Nat
      /\ pc \in [Tasks -> PCs] /\ task \in [Tasks -> ChangeRequests]
      /\ ops \in Nat /\ faults \in Nat
  BY DEF TInv, TypeOK
<1>b. \A t \in Tasks : task[t].schema \in Schemas
  BY <1>a DEF ChangeRequests
<1>c. PCs = {"idle", "create", "detect", "schemaId", "lookup", "touch", "insert", "write", "mark"}
  BY DEF PCs
<1>d. SUFFICES TypeOK' /\ Parsed'
  BY DEF TInv
<1>1. ASSUME NEW t \in Tasks, Upload(t) PROVE TypeOK' /\ Parsed'
  <2>1. PICK s \in Schemas, f \in Files, old \in Files \cup {Nil} :
          /\ faults' \in {faults, faults + 1}
          /\ Goto(t, "create",
                  [schema |-> s, new |-> f, old |-> old, version |-> 0,
                   version_id |-> VersionID(s, f), schema_id |-> 0, id |-> 0])
    BY <1>1 DEF Upload
  <2>2. [schema |-> s, new |-> f, old |-> old, version |-> 0,
         version_id |-> VersionID(s, f), schema_id |-> 0, id |-> 0] \in ChangeRequests
    BY DEF ChangeRequests, VersionID, VersionIDs
  <2>3. pc' \in [Tasks -> PCs] /\ task' \in [Tasks -> ChangeRequests] /\ Parsed'
    BY <1>c, <2>1, <2>2, GotoType
  <2> QED
    BY <1>1, <1>a, <2>1, <2>3 DEF Upload, TypeOK
<1>2. ASSUME NEW t \in Tasks, Create(t) PROVE TypeOK' /\ Parsed'
  <2> DEFINE s == task[t].schema
  <2>1. s \in Schemas
    BY <1>b
  <2>2. CASE \E e \in {e \in Rows(s) : e.file = task[t].new} :
               Spawn(t, e.version) /\ UNCHANGED stored
    <3>1. PICK e \in Rows(s) : Spawn(t, e.version) /\ UNCHANGED stored
      BY <2>2
    <3>2. e.version \in Nat
      BY <2>1, RowsType
    <3> QED
      BY <1>2, <1>a, <3>1, <3>2, SpawnType DEF Create, TypeOK
  <2>3. CASE \E v \in NextVersions(s) :
               /\ Store!Publish([schema |-> s, version |-> v, file |-> task[t].new])
               /\ Spawn(t, v)
               /\ IF sid[s] # 0
                  THEN UNCHANGED <<sid, serial>>
                  ELSE serial' = serial + 1 /\ sid' = [sid EXCEPT ![s] = serial + 1]
    <3>1. PICK v \in NextVersions(s) :
            /\ Store!Publish([schema |-> s, version |-> v, file |-> task[t].new])
            /\ Spawn(t, v)
            /\ IF sid[s] # 0
               THEN UNCHANGED <<sid, serial>>
               ELSE serial' = serial + 1 /\ sid' = [sid EXCEPT ![s] = serial + 1]
      BY <2>3
    <3>2. v \in Nat
      BY <2>1, RowsType
    <3>3. pc' \in [Tasks -> PCs] /\ task' \in [Tasks -> ChangeRequests] /\ Parsed'
      BY <3>1, <3>2, SpawnType
    <3>4. contents' \subseteq Store!Entries
      BY <1>a, <3>1 DEF Store!Publish
    <3>5. sid' \in [Schemas -> Nat] /\ serial' \in Nat
      BY <1>a, <2>1, <3>1
    <3> QED
      BY <1>2, <1>a, <3>3, <3>4, <3>5 DEF Create, TypeOK
  <2> QED
    BY <1>2, <2>2, <2>3 DEF Create
<1>3. ASSUME NEW t \in Tasks, CreateFails(t) PROVE TypeOK' /\ Parsed'
  <2>1. PICK v \in {0} \cup NextVersions(task[t].schema) : Spawn(t, v)
    BY <1>3 DEF CreateFails
  <2>2. v \in Nat
    BY <1>b, RowsType
  <2> QED
    BY <1>3, <1>a, <2>1, <2>2, SpawnType DEF CreateFails, TypeOK
<1>4. ASSUME NEW t \in Tasks, GetSchemaID(t) PROVE TypeOK' /\ Parsed'
  <2>1. [task[t] EXCEPT !.schema_id = sid[task[t].schema]] \in ChangeRequests
    BY <1>a, <1>b DEF ChangeRequests
  <2>2. pc' \in [Tasks -> PCs] /\ task' \in [Tasks -> ChangeRequests] /\ Parsed'
    BY <1>4, <1>c, <2>1, GotoType, StopType DEF GetSchemaID
  <2> QED
    BY <1>4, <1>a, <2>2 DEF GetSchemaID, TypeOK
<1>5. ASSUME NEW t \in Tasks, Lookup(t) PROVE TypeOK' /\ Parsed'
  <2>1. \/ Identify(t, task[t])
        \/ /\ \E e \in Notified(t) : Goto(t, "touch", [task[t] EXCEPT !.id = e.id])
           /\ UNCHANGED eventIds
        \/ Stop(t) /\ UNCHANGED eventIds
    BY <1>5 DEF Lookup
  <2>2. \A e \in Notified(t) : [task[t] EXCEPT !.id = e.id] \in ChangeRequests
    BY <1>a DEF Notified, EventRows, ChangeRequests
  <2>3. /\ pc' \in [Tasks -> PCs] /\ task' \in [Tasks -> ChangeRequests] /\ Parsed'
        /\ eventIds' \in Nat
    BY <1>a, <1>c, <2>1, <2>2, IdentifyType, GotoType, StopType
  <2> QED
    BY <1>5, <1>a, <2>3 DEF Lookup, TypeOK
<1>6. ASSUME NEW t \in Tasks, Touch(t) \/ MarkEvent(t) PROVE TypeOK' /\ Parsed'
  BY <1>6, <1>a, MarkedType, StopType DEF Touch, MarkEvent, TypeOK
<1>7. ASSUME NEW t \in Tasks, InsertEvent(t) PROVE TypeOK' /\ Parsed'
  <2>1. task[t].old \in Descriptors /\ task[t].new \in Descriptors
    BY <1>7 DEF TInv, Parsed, InsertEvent
  <2>2. pc' \in [Tasks -> PCs] /\ task' \in [Tasks -> ChangeRequests] /\ Parsed'
    BY <1>7, <1>a, <1>c, <2>1, GotoType DEF InsertEvent
  <2> QED
    BY <1>7, <1>a, <2>2, NewEventType DEF InsertEvent, TypeOK
<1>8. ASSUME NEW t \in Tasks, Write(t) PROVE TypeOK' /\ Parsed'
  <2>1. pc' \in [Tasks -> PCs] /\ task' \in [Tasks -> ChangeRequests] /\ Parsed'
    BY <1>8, <1>a, <1>c, GotoType DEF Write
  <2> QED
    BY <1>8, <1>a, <2>1, MessageType DEF Write, TypeOK
<1>9. ASSUME NEW t \in Tasks, DetectSchemaChange(t) PROVE TypeOK' /\ Parsed'
  <2>1. PICK e \in contents, to \in 2..MaxOps :
          Goto(t, "detect",
               [schema |-> e.schema, new |-> Nil, old |-> e.file, version |-> to,
                version_id |-> Nil, schema_id |-> 0, id |-> 0])
    BY <1>9 DEF DetectSchemaChange
  <2>2. [schema |-> e.schema, new |-> Nil, old |-> e.file, version |-> to,
         version_id |-> Nil, schema_id |-> 0, id |-> 0] \in ChangeRequests
    BY <1>a, BoundAssumption DEF ChangeRequests, Store!Entries
  <2>3. pc' \in [Tasks -> PCs] /\ task' \in [Tasks -> ChangeRequests] /\ Parsed'
    BY <1>c, <2>1, <2>2, GotoType
  <2> QED
    BY <1>9, <1>a, <2>3 DEF DetectSchemaChange, TypeOK
<1>10. ASSUME NEW t \in Tasks, DetectTo(t) PROVE TypeOK' /\ Parsed'
  <2>1. \/ Stop(t) /\ UNCHANGED eventIds
        \/ \E e \in Rows(task[t].schema) :
             Identify(t, [task[t] EXCEPT !.new = e.file, !.schema_id = sid[task[t].schema]])
    BY <1>10 DEF DetectTo
  <2>2. ASSUME NEW e \in Rows(task[t].schema)
        PROVE  [task[t] EXCEPT !.new = e.file, !.schema_id = sid[task[t].schema]]
                 \in ChangeRequests
    <3>1. e.file \in Files
      BY <1>b, RowsType
    <3> QED
      BY <1>a, <1>b, <3>1 DEF ChangeRequests
  <2>3. /\ pc' \in [Tasks -> PCs] /\ task' \in [Tasks -> ChangeRequests] /\ Parsed'
        /\ eventIds' \in Nat
    BY <1>a, <2>1, <2>2, IdentifyType, StopType
  <2> QED
    BY <1>10, <1>a, <2>3 DEF DetectTo, TypeOK
<1>11. ASSUME NEW t \in Tasks, DbError(t) PROVE TypeOK' /\ Parsed'
  <2>1. events' \subseteq EventRows
    BY <1>11, <1>a, NewEventType, MarkedType DEF DbError
  <2> QED
    BY <1>11, <1>a, <2>1, StopType DEF DbError, TypeOK
<1>12. ASSUME NEW t \in Tasks, KafkaError(t) PROVE TypeOK' /\ Parsed'
  <2>1. topic' \subseteq Messages
    BY <1>12, <1>a, MessageType DEF KafkaError
  <2> QED
    BY <1>12, <1>a, <2>1, StopType DEF KafkaError, TypeOK
<1>13. CASE DeleteVersion
  BY <1>13, <1>a DEF DeleteVersion, Store!Remove, TypeOK, TInv, Parsed
<1>14. CASE DeleteSchema
  BY <1>14, <1>a DEF DeleteSchema, Store!RemoveAll, TypeOK, TInv, Parsed
<1>15. CASE Crash
  BY <1>15, <1>a, <1>c DEF Crash, TypeOK, Parsed
<1>16. CASE UNCHANGED vars \/ Quiet
  BY <1>16 DEF vars, Quiet, TInv, TypeOK, Parsed
<1> QED
  BY <1>1, <1>2, <1>3, <1>4, <1>5, <1>6, <1>7, <1>8, <1>9, <1>10, <1>11, <1>12, <1>13, <1>14,
     <1>15, <1>16
  DEF Next, Run

\* Every reachable state of the notification subsystem is well typed; in
\* particular only contents that parse reach a message (IdentifySchemaChange).
THEOREM NotificationTypes == Spec => []TypeOK
<1>1. TInv => TypeOK
  BY DEF TInv
<1> QED
  BY <1>1, InitType, StepType, PTL DEF Spec

-----------------------------------------------------------------------------
(***************************************************************************)
(* What a task relies on between two statements: after the insert the row  *)
(* of its event exists, and after the write, or when the lookup found a    *)
(* successful event, Kafka has the message.                                *)
(***************************************************************************)
Recorded(l) ==
    \E e \in events : e.id = l.id /\ e.schema_id = l.schema_id /\ e.version_id = l.version_id
Sent(id) == \E m \in topic : m.id = id

InsertedInv == \A t \in Tasks : pc[t] = "write" => Recorded(task[t])
WrittenInv == \A t \in Tasks : pc[t] \in {"mark", "touch"} => Sent(task[t].id)

\* No step removes an event or a message, or turns an event into another's.
Kept ==
    /\ \A e \in events :
         \E f \in events' : /\ f.id = e.id /\ f.schema_id = e.schema_id
                            /\ f.version_id = e.version_id
    /\ topic \subseteq topic'

LEMMA MarkedKeeps ==
    ASSUME TypeOK, NEW id
    PROVE  /\ \A e \in events :
                \E f \in Marked(id) : /\ f.id = e.id /\ f.schema_id = e.schema_id
                                      /\ f.version_id = e.version_id
           /\ \A f \in Marked(id) :
                f.success => \/ f.id = id
                             \/ \E e \in events : e.id = f.id /\ e.success
           /\ \A f \in Marked(id) : \E e \in events : e.id = f.id
<1>1. ASSUME NEW e \in events
      PROVE  \E f \in Marked(id) : /\ f.id = e.id /\ f.schema_id = e.schema_id
                                   /\ f.version_id = e.version_id
  <2> DEFINE f == IF e.id = id THEN [e EXCEPT !.success = TRUE] ELSE e
  <2>1. f \in Marked(id)
    BY DEF Marked
  <2>2. f.id = e.id /\ f.schema_id = e.schema_id /\ f.version_id = e.version_id
    BY DEF TypeOK, EventRows
  <2> QED
    BY <2>1, <2>2
<1>2. ASSUME NEW f \in Marked(id)
      PROVE  \E e \in events : e.id = f.id /\ (f.success => f.id = id \/ e.success)
  <2>1. PICK e \in events : f = IF e.id = id THEN [e EXCEPT !.success = TRUE] ELSE e
    BY DEF Marked
  <2> QED
    BY <2>1 DEF TypeOK, EventRows
<1> QED
  BY <1>1, <1>2

LEMMA StepKeeps == TypeOK /\ [Next]_vars => Kept
<1> SUFFICES ASSUME TypeOK, [Next]_vars PROVE Kept
  OBVIOUS
<1>1. \/ \E t \in Tasks : events' = Marked(task[t].id)
      \/ events \subseteq events'
  BY DEF Next, Run, vars, Quiet, Upload, Create, CreateFails, GetSchemaID, Lookup, Touch,
         InsertEvent, Write, MarkEvent, DetectSchemaChange, DetectTo, DeleteVersion,
         DeleteSchema, DbError, KafkaError, Crash
<1>2. topic \subseteq topic'
  BY DEF Next, Run, vars, Quiet, Upload, Create, CreateFails, GetSchemaID, Lookup, Touch,
         InsertEvent, Write, MarkEvent, DetectSchemaChange, DetectTo, DeleteVersion,
         DeleteSchema, DbError, KafkaError, Crash
<1>3. ASSUME NEW e \in events
      PROVE  \E f \in events' : /\ f.id = e.id /\ f.schema_id = e.schema_id
                                /\ f.version_id = e.version_id
  BY <1>1, MarkedKeeps
<1> QED
  BY <1>2, <1>3 DEF Kept

\* Where the step of one task leaves every task.
LEMMA GotoMoves ==
    ASSUME TypeOK, NEW u \in Tasks, NEW step, NEW l, Goto(u, step, l), NEW t \in Tasks
    PROVE  \/ t = u /\ pc'[t] = step /\ task'[t] = l
           \/ t # u /\ pc'[t] = pc[t] /\ task'[t] = task[t]
<1>1. pc \in [Tasks -> PCs] /\ task \in [Tasks -> ChangeRequests]
  BY DEF TypeOK
<1>2. pc' = [pc EXCEPT ![u] = step] /\ task' = [task EXCEPT ![u] = l]
  BY DEF Goto
<1>. QED
  BY <1>1, <1>2

\* The statements up to the start of the goroutine lead to these ...
LEMMA CallMoves ==
    ASSUME NEW u \in Tasks
    PROVE  /\ Upload(u) => \E l : Goto(u, "create", l)
           /\ DetectSchemaChange(u) => \E l : Goto(u, "detect", l)
           /\ Create(u) \/ CreateFails(u) =>
                \E step \in {"idle", "schemaId"} : \E l : Goto(u, step, l)
<1>1. ASSUME NEW v, Spawn(u, v) PROVE \E step \in {"idle", "schemaId"} : \E l : Goto(u, step, l)
  BY <1>1 DEF Spawn, Stop
<1>2. Create(u) => \E v : Spawn(u, v)
  BY DEF Create
<1>3. CreateFails(u) => \E v : Spawn(u, v)
  BY DEF CreateFails
<1>4. Upload(u) => \E l : Goto(u, "create", l)
  BY DEF Upload
<1>5. DetectSchemaChange(u) => \E l : Goto(u, "detect", l)
  BY DEF DetectSchemaChange
<1>. QED
  BY <1>1, <1>2, <1>3, <1>4, <1>5

\* ... and its lookups to those.
LEMMA LookupMoves ==
    ASSUME NEW u \in Tasks, GetSchemaID(u) \/ DetectTo(u) \/ Lookup(u)
    PROVE  \E step \in {"idle", "lookup", "insert", "touch"} : \E l : Goto(u, step, l)
<1>1. ASSUME NEW l, Identify(u, l) PROVE \E step \in {"idle", "insert"} : \E m : Goto(u, step, m)
  BY <1>1 DEF Identify
<1>2. CASE GetSchemaID(u)
  BY <1>2 DEF GetSchemaID, Stop
<1>3. CASE DetectTo(u)
  <2>1. Stop(u) \/ \E l : Identify(u, l)
    BY <1>3 DEF DetectTo
  <2>. QED
    BY <1>1, <2>1 DEF Stop
<1>4. CASE Lookup(u)
  <2>1. Stop(u) \/ Identify(u, task[u]) \/ \E l : Goto(u, "touch", l)
    BY <1>4 DEF Lookup
  <2>. QED
    BY <1>1, <2>1 DEF Stop
<1>. QED
  BY <1>2, <1>3, <1>4

\* A task is at "write" only after its insert, and at "mark" or "touch" only
\* after its write or its lookup; every other step leaves it where it was.
LEMMA Arrivals ==
    ASSUME TypeOK, [Next]_vars, NEW t \in Tasks
    PROVE  /\ pc'[t] = "write" =>
                 \/ pc[t] = "write" /\ task'[t] = task[t]
                 \/ InsertEvent(t) /\ task'[t] = task[t]
           /\ pc'[t] = "mark" =>
                 \/ pc[t] = "mark" /\ task'[t] = task[t]
                 \/ Write(t) /\ task'[t] = task[t]
           /\ pc'[t] = "touch" =>
                 \/ pc[t] = "touch" /\ task'[t] = task[t]
                 \/ \E e \in events : e.success /\ task'[t].id = e.id
<1> USE DEF Goto
<1>t. pc \in [Tasks -> PCs] /\ task \in [Tasks -> ChangeRequests]
  BY DEF TypeOK
<1>1. CASE \E u \in Tasks :
           Upload(u) \/ DetectSchemaChange(u) \/ Create(u) \/ CreateFails(u)
  <2>. HIDE DEF Goto
  <2>1. PICK u \in Tasks, step \in {"idle", "create", "detect", "schemaId"} :
          \E l : Goto(u, step, l)
    BY <1>1, CallMoves
  <2>2. (pc'[t] = step) \/ (pc'[t] = pc[t] /\ task'[t] = task[t])
    BY <2>1, GotoMoves
  <2>. QED
    BY <2>2
<1>3. CASE \E u \in Tasks : GetSchemaID(u) \/ DetectTo(u)
  <2>. HIDE DEF Goto
  <2>1. PICK u \in Tasks : GetSchemaID(u) \/ DetectTo(u)
    BY <1>3
  <2>2. PICK step \in {"idle", "lookup", "insert"} : \E l : Goto(u, step, l)
    BY <2>1 DEF GetSchemaID, DetectTo, Identify, Stop
  <2>3. (pc'[t] = step) \/ (pc'[t] = pc[t] /\ task'[t] = task[t])
    BY <2>2, GotoMoves
  <2>. QED
    BY <2>3
<1>4. CASE \E u \in Tasks : Lookup(u)
  <2>1. PICK u \in Tasks : Lookup(u)
    BY <1>4
  <2>2. CASE Identify(u, task[u]) \/ Stop(u)
    BY <1>t, <2>2 DEF Identify, Stop
  <2>3. CASE \E e \in Notified(u) : Goto(u, "touch", [task[u] EXCEPT !.id = e.id])
    <3>1. PICK e \in Notified(u) : Goto(u, "touch", [task[u] EXCEPT !.id = e.id])
      BY <2>3
    <3>2. e \in events /\ e.success
      BY DEF Notified
    <3>3. t = u => task'[t].id = e.id
      BY <1>t, <3>1 DEF ChangeRequests
    <3>4. t # u => pc'[t] = pc[t] /\ task'[t] = task[t]
      BY <1>t, <3>1
    <3>5. t = u => pc'[t] = "touch"
      BY <1>t, <3>1
    <3> QED
      BY <3>2, <3>3, <3>4, <3>5
  <2> QED
    BY <2>1, <2>2, <2>3 DEF Lookup
<1>5. CASE \E u \in Tasks : Touch(u) \/ MarkEvent(u) \/ DbError(u) \/ KafkaError(u)
  <2>. HIDE DEF Goto
  <2>1. PICK u \in Tasks : Stop(u)
    BY <1>5 DEF Touch, MarkEvent, DbError, KafkaError
  <2>2. pc'[t] = "idle" \/ (pc'[t] = pc[t] /\ task'[t] = task[t])
    BY <2>1, GotoMoves DEF Stop
  <2>. QED
    BY <2>2
<1>6. CASE \E u \in Tasks : InsertEvent(u)
  BY <1>6, <1>t DEF InsertEvent
<1>7. CASE \E u \in Tasks : Write(u)
  BY <1>7, <1>t DEF Write
<1>8. CASE Crash
  BY <1>8, <1>t DEF Crash
<1>9. CASE DeleteVersion \/ DeleteSchema \/ Quiet \/ UNCHANGED vars
  BY <1>9 DEF DeleteVersion, DeleteSchema, Quiet, vars
<1> QED
  BY <1>1, <1>3, <1>4, <1>5, <1>6, <1>7, <1>8, <1>9 DEF Next, Run

-----------------------------------------------------------------------------
(***************************************************************************)
(* Messages have their rows.                                               *)
(***************************************************************************)
LEMMA InsertedStep ==
    TypeOK /\ InsertedInv /\ SentIsRecorded /\ [Next]_vars => InsertedInv' /\ SentIsRecorded'
<1> SUFFICES ASSUME TypeOK, InsertedInv, SentIsRecorded, [Next]_vars
             PROVE  InsertedInv' /\ SentIsRecorded'
  OBVIOUS
<1>1. Kept
  BY StepKeeps
<1>2. InsertedInv'
  <2> SUFFICES ASSUME NEW t \in Tasks, pc'[t] = "write" PROVE Recorded(task[t])'
    BY DEF InsertedInv
  <2>1. CASE pc[t] = "write" /\ task'[t] = task[t]
    BY <1>1, <2>1 DEF InsertedInv, Recorded, Kept
  <2>2. CASE InsertEvent(t) /\ task'[t] = task[t]
    <3>1. NewEvent(t) \in events'
      BY <2>2 DEF InsertEvent
    <3> QED
      BY <2>2, <3>1 DEF NewEvent, Recorded
  <2> QED
    BY <2>1, <2>2, Arrivals
<1>3. SentIsRecorded'
  <2> SUFFICES ASSUME NEW m \in topic'
               PROVE  \E e \in events' : /\ e.id = m.id /\ e.schema_id = m.schema_id
                                         /\ e.version_id = m.version_id
    BY DEF SentIsRecorded
  <2>1. CASE m \in topic
    BY <1>1, <2>1 DEF SentIsRecorded, Kept
  <2>2. CASE \E t \in Tasks : pc[t] = "write" /\ m = Message(t)
    BY <1>1, <2>2 DEF InsertedInv, Recorded, Message, Kept
  <2>3. m \in topic \/ \E t \in Tasks : pc[t] = "write" /\ m = Message(t)
    BY DEF Next, Run, vars, Quiet, Upload, Create, CreateFails, GetSchemaID, Lookup, Touch,
           InsertEvent, Write, MarkEvent, DetectSchemaChange, DetectTo, DeleteVersion,
           DeleteSchema, DbError, KafkaError, Crash
  <2> QED
    BY <2>1, <2>2, <2>3
<1> QED
  BY <1>2, <1>3

\* Whatever fails, is deleted or runs at the same time, every message on the
\* topic has the row that sendNotification inserted before it.
THEOREM MessagesAreRecorded == Spec => []SentIsRecorded
<1>1. Init => InsertedInv /\ SentIsRecorded
  BY DEF Init, InsertedInv, SentIsRecorded
<1> QED
  BY <1>1, InsertedStep, NotificationTypes, PTL DEF Spec

-----------------------------------------------------------------------------
(***************************************************************************)
(* Successful events were sent, with a producer that sends.                *)
(***************************************************************************)
LEMMA WrittenStep ==
    ASSUME Enable
    PROVE  TypeOK /\ WrittenInv /\ SuccessMeansSent /\ [Next]_vars
             => WrittenInv' /\ SuccessMeansSent'
<1> SUFFICES ASSUME TypeOK, WrittenInv, SuccessMeansSent, [Next]_vars
             PROVE  WrittenInv' /\ SuccessMeansSent'
  OBVIOUS
<1>1. topic \subseteq topic'
  BY StepKeeps DEF Kept
<1>2. WrittenInv'
  <2> SUFFICES ASSUME NEW t \in Tasks, pc'[t] \in {"mark", "touch"} PROVE Sent(task[t].id)'
    BY DEF WrittenInv
  <2>1. CASE pc[t] \in {"mark", "touch"} /\ task'[t] = task[t]
    BY <1>1, <2>1 DEF WrittenInv, Sent
  <2>2. CASE Write(t) /\ task'[t] = task[t]
    <3>1. Message(t) \in topic'
      BY <2>2 DEF Write
    <3> QED
      BY <2>2, <3>1 DEF Message, Sent
  <2>3. CASE \E e \in events : e.success /\ task'[t].id = e.id
    BY <1>1, <2>3 DEF SuccessMeansSent, Sent
  <2> QED
    BY <2>1, <2>2, <2>3, Arrivals
<1>3. SuccessMeansSent'
  <2> SUFFICES ASSUME NEW e \in events', e.success PROVE \E m \in topic' : m.id = e.id
    BY DEF SuccessMeansSent
  <2>1. CASE e \in events
    BY <1>1, <2>1 DEF SuccessMeansSent
  <2>2. CASE \E t \in Tasks : pc[t] \in {"mark", "touch"} /\ e \in Marked(task[t].id)
    <3>1. PICK t \in Tasks : pc[t] \in {"mark", "touch"} /\ e \in Marked(task[t].id)
      BY <2>2
    <3>2. e.id = task[t].id \/ \E d \in events : d.id = e.id /\ d.success
      BY <3>1, MarkedKeeps
    <3> QED
      BY <1>1, <3>1, <3>2 DEF WrittenInv, Sent, SuccessMeansSent
  <2>3. CASE \E t \in Tasks : e = NewEvent(t)
    BY <2>3 DEF NewEvent
  <2>4. \/ e \in events
        \/ \E t \in Tasks : pc[t] \in {"mark", "touch"} /\ e \in Marked(task[t].id)
        \/ \E t \in Tasks : e = NewEvent(t)
    BY DEF Next, Run, vars, Quiet, Upload, Create, CreateFails, GetSchemaID, Lookup, Touch,
           InsertEvent, Write, MarkEvent, DetectSchemaChange, DetectTo, DeleteVersion,
           DeleteSchema, DbError, KafkaError, Crash
  <2> QED
    BY <2>1, <2>2, <2>3, <2>4
<1> QED
  BY <1>2, <1>3

\* With SchemaChange.Enable, an event marked successful has its message on the
\* topic, under any interleaving of goroutines, reconciliations, errors and
\* crashes.
THEOREM SuccessIsSent ==
    ASSUME Enable
    PROVE  Spec => []SuccessMeansSent
<1>1. Init => WrittenInv /\ SuccessMeansSent
  BY DEF Init, WrittenInv, SuccessMeansSent
<1>2. TypeOK /\ WrittenInv /\ SuccessMeansSent /\ [Next]_vars => WrittenInv' /\ SuccessMeansSent'
  BY WrittenStep
<1> QED
  BY <1>1, <1>2, NotificationTypes, PTL DEF Spec

-----------------------------------------------------------------------------
(***************************************************************************)
(* No announcement is repeated without a failure.                          *)
(***************************************************************************)
\* Each event id is one task's until its message is sent, and one message's after.
Ids ==
    /\ \A m \in topic : m.id <= eventIds
    /\ \A m, n \in topic : m.id = n.id => m = n
    /\ \A t \in Tasks : pc[t] \in {"insert", "write"} =>
         /\ task[t].id <= eventIds
         /\ \A m \in topic : m.id # task[t].id
         /\ \A u \in Tasks : u # t /\ pc[u] \in {"insert", "write"} => task[u].id # task[t].id

\* Only a reconciliation reads the version to compare with, and it has no version id.
Reconciles == \A t \in Tasks : pc[t] = "detect" => task[t].version_id = Nil

\* A step is an entry into sendNotification with a new id, a write, or neither.
LEMMA Sending ==
    ASSUME TypeOK, [Next]_vars
    PROVE  \/ \E t \in Tasks :
                /\ pc[t] \in {"lookup", "detect"} /\ pc'[t] = "insert"
                /\ task'[t].id = eventIds + 1 /\ eventIds' = eventIds + 1 /\ topic' = topic
                /\ task'[t].version_id = task[t].version_id
                /\ pc[t] = "lookup" => Notified(t) = {} /\ task'[t].schema_id = task[t].schema_id
                /\ \A u \in Tasks : u # t => pc'[u] = pc[u] /\ task'[u] = task[u]
                /\ events' = events /\ faults' = faults
           \/ \E t \in Tasks :
                /\ pc[t] = "write" /\ pc'[t] \in {"mark", "idle"} /\ task' = task
                /\ topic' \in {topic, topic \cup {Message(t)}} /\ eventIds' = eventIds
                /\ faults' = faults => pc'[t] = "mark"
                /\ \A u \in Tasks : u # t => pc'[u] = pc[u]
                /\ events' = events
           \/ /\ topic' = topic /\ eventIds' = eventIds
              /\ \A u \in Tasks : pc'[u] \in {"insert", "write"} =>
                   pc[u] \in {"insert", "write"} /\ task'[u] = task[u]
<1>. USE DEF Goto
<1>t. pc \in [Tasks -> PCs] /\ task \in [Tasks -> ChangeRequests] /\ faults \in Nat
  BY DEF TypeOK
<1>1. CASE \E u \in Tasks :
           Upload(u) \/ DetectSchemaChange(u) \/ Create(u) \/ CreateFails(u)
  <2>. HIDE DEF Goto
  <2>1. PICK u \in Tasks : Upload(u) \/ DetectSchemaChange(u) \/ Create(u) \/ CreateFails(u)
    BY <1>1
  <2>2. PICK step \in {"idle", "create", "detect", "schemaId"} : \E l : Goto(u, step, l)
    BY <2>1, CallMoves
  <2>3. topic' = topic /\ eventIds' = eventIds
    BY <2>1 DEF Upload, DetectSchemaChange, Create, CreateFails
  <2>4. \A t \in Tasks : (pc'[t] = step) \/ (pc'[t] = pc[t] /\ task'[t] = task[t])
    BY <2>2, GotoMoves
  <2>. QED
    BY <2>3, <2>4
<1>3. CASE \E u \in Tasks : GetSchemaID(u)
  BY <1>3, <1>t DEF GetSchemaID, Stop
<1>4. ASSUME NEW u \in Tasks, NEW l \in ChangeRequests, Identify(u, l), pc[u] \in {"lookup", "detect"},
             l.version_id = task[u].version_id,
             pc[u] = "lookup" => Notified(u) = {} /\ l.schema_id = task[u].schema_id,
             UNCHANGED <<events, topic, faults>>
      PROVE  \/ /\ pc[u] \in {"lookup", "detect"} /\ pc'[u] = "insert"
                /\ task'[u].id = eventIds + 1 /\ eventIds' = eventIds + 1 /\ topic' = topic
                /\ task'[u].version_id = task[u].version_id
                /\ pc[u] = "lookup" => Notified(u) = {} /\ task'[u].schema_id = task[u].schema_id
                /\ \A v \in Tasks : v # u => pc'[v] = pc[v] /\ task'[v] = task[v]
                /\ events' = events /\ faults' = faults
             \/ /\ topic' = topic /\ eventIds' = eventIds
                /\ \A v \in Tasks : pc'[v] \in {"insert", "write"} =>
                     pc[v] \in {"insert", "write"} /\ task'[v] = task[v]
  <2>1. CASE Goto(u, "insert", [l EXCEPT !.id = eventIds + 1]) /\ eventIds' = eventIds + 1
    <3>. DEFINE x == [l EXCEPT !.id = eventIds + 1]
    <3>1. x.id = eventIds + 1 /\ x.version_id = l.version_id /\ x.schema_id = l.schema_id
      BY DEF ChangeRequests
    <3>2. /\ pc' = [pc EXCEPT ![u] = "insert"] /\ task' = [task EXCEPT ![u] = x]
      BY <2>1
    <3>. HIDE DEF x
    <3>3. /\ pc'[u] = "insert" /\ task'[u] = x
          /\ \A v \in Tasks : v # u => pc'[v] = pc[v] /\ task'[v] = task[v]
      BY <1>t, <3>2
    <3>. QED
      BY <1>4, <2>1, <3>1, <3>3
  <2>2. CASE Goto(u, "idle", l) /\ UNCHANGED eventIds
    BY <1>4, <1>t, <2>2
  <2>. QED
    BY <1>4, <2>1, <2>2 DEF Identify
<1>5. CASE \E u \in Tasks : DetectTo(u)
  <2>1. PICK u \in Tasks : DetectTo(u)
    BY <1>5
  <2>2. CASE Stop(u) /\ UNCHANGED eventIds
    BY <1>t, <2>1, <2>2 DEF DetectTo, Stop
  <2>3. CASE \E e \in {e \in Rows(task[u].schema) : e.version = task[u].version} :
               Identify(u, [task[u] EXCEPT !.new = e.file, !.schema_id = sid[task[u].schema]])
    <3>1. PICK e \in Rows(task[u].schema) :
               Identify(u, [task[u] EXCEPT !.new = e.file, !.schema_id = sid[task[u].schema]])
      BY <2>3
    <3>. DEFINE l == [task[u] EXCEPT !.new = e.file, !.schema_id = sid[task[u].schema]]
    <3>2. task[u] \in ChangeRequests /\ e.file \in Files /\ sid[task[u].schema] \in Nat
      BY <1>t DEF TypeOK, ChangeRequests, Rows, Store!Entries
    <3>3. l \in ChangeRequests /\ l.version_id = task[u].version_id
      BY <3>2 DEF ChangeRequests
    <3>. HIDE DEF l
    <3>4. Identify(u, l)
      BY <3>1 DEF l
    <3>5. pc[u] = "detect" /\ UNCHANGED <<events, topic, faults>>
      BY <2>1 DEF DetectTo
    <3>. QED
      BY <1>4, <3>3, <3>4, <3>5
  <2>. QED
    BY <2>1, <2>2, <2>3 DEF DetectTo
<1>6. CASE \E u \in Tasks : Lookup(u)
  <2>1. PICK u \in Tasks : Lookup(u)
    BY <1>6
  <2>0. pc[u] = "lookup" /\ UNCHANGED <<events, topic, faults>>
    BY <2>1 DEF Lookup
  <2>2. CASE Stop(u) /\ UNCHANGED eventIds
    BY <1>t, <2>0, <2>2 DEF Stop
  <2>3. CASE (\E e \in Notified(u) : Goto(u, "touch", [task[u] EXCEPT !.id = e.id])) /\ UNCHANGED eventIds
    BY <1>t, <2>0, <2>3
  <2>4. CASE Notified(u) = {} /\ Identify(u, task[u])
    <3>1. task[u] \in ChangeRequests
      BY <1>t
    <3>. QED
      BY <1>4, <2>0, <2>4, <3>1
  <2>. QED
    BY <2>1, <2>2, <2>3, <2>4 DEF Lookup
<1>7. CASE \E u \in Tasks : Touch(u) \/ MarkEvent(u) \/ DbError(u)
  BY <1>7, <1>t DEF Touch, MarkEvent, DbError, Stop
<1>8. CASE \E u \in Tasks : KafkaError(u)
  BY <1>8, <1>t DEF KafkaError, Stop
<1>9. CASE \E u \in Tasks : InsertEvent(u)
  BY <1>9, <1>t DEF InsertEvent
<1>10. CASE \E u \in Tasks : Write(u)
  BY <1>10, <1>t DEF Write
<1>11. CASE Crash
  BY <1>11, <1>t DEF Crash
<1>12. CASE DeleteVersion \/ DeleteSchema \/ Quiet \/ UNCHANGED vars
  BY <1>12 DEF DeleteVersion, DeleteSchema, Quiet, vars
<1>. QED
  BY <1>1, <1>3, <1>5, <1>6, <1>7, <1>8, <1>9, <1>10, <1>11, <1>12 DEF Next, Run

\* Ids is inductive: a new id is above all that came before, and one task writes it.
LEMMA IdsStep == TypeOK /\ Ids /\ [Next]_vars => Ids'
<1>. SUFFICES ASSUME TypeOK, Ids, [Next]_vars PROVE Ids'
  OBVIOUS
<1>t. /\ eventIds \in Nat /\ topic \subseteq Messages /\ \A m \in topic : m.id \in Nat
      /\ \A t \in Tasks : task[t].id \in Nat
  BY DEF TypeOK, Messages, ChangeRequests
<1>1. CASE \E t \in Tasks :
             /\ pc'[t] = "insert" /\ task'[t].id = eventIds + 1 /\ eventIds' = eventIds + 1
             /\ topic' = topic /\ \A u \in Tasks : u # t => pc'[u] = pc[u] /\ task'[u] = task[u]
  <2>1. PICK t \in Tasks :
             /\ pc'[t] = "insert" /\ task'[t].id = eventIds + 1 /\ eventIds' = eventIds + 1
             /\ topic' = topic /\ \A u \in Tasks : u # t => pc'[u] = pc[u] /\ task'[u] = task[u]
    BY <1>1
  <2>2. \A m \in topic : m.id <= eventIds' /\ m.id # eventIds + 1
    BY <1>t, <2>1 DEF Ids
  <2>3. \A u \in Tasks : u # t /\ pc[u] \in {"insert", "write"} =>
          task[u].id <= eventIds' /\ task[u].id # eventIds + 1
    BY <1>t, <2>1 DEF Ids
  <2>. QED
    BY <1>t, <2>1, <2>2, <2>3 DEF Ids
<1>2. CASE \E t \in Tasks :
             /\ pc[t] = "write" /\ pc'[t] \in {"mark", "idle"} /\ task' = task
             /\ topic' \in {topic, topic \cup {Message(t)}} /\ eventIds' = eventIds
             /\ \A u \in Tasks : u # t => pc'[u] = pc[u]
  <2>1. PICK t \in Tasks :
             /\ pc[t] = "write" /\ pc'[t] \in {"mark", "idle"} /\ task' = task
             /\ topic' \in {topic, topic \cup {Message(t)}} /\ eventIds' = eventIds
             /\ \A u \in Tasks : u # t => pc'[u] = pc[u]
    BY <1>2
  <2>2. Message(t).id = task[t].id
    BY DEF Message
  <2>3. \A m \in topic' : m \in topic \/ m = Message(t)
    BY <2>1
  <2>4. \A u \in Tasks : pc'[u] \in {"insert", "write"} => u # t /\ pc[u] \in {"insert", "write"}
    BY <2>1
  <2>. QED
    BY <2>1, <2>2, <2>3, <2>4 DEF Ids
<1>3. CASE /\ topic' = topic /\ eventIds' = eventIds
           /\ \A u \in Tasks : pc'[u] \in {"insert", "write"} =>
                pc[u] \in {"insert", "write"} /\ task'[u] = task[u]
  BY <1>3 DEF Ids
<1>. QED
  BY <1>1, <1>2, <1>3, Sending

\* Reconciles is inductive.
LEMMA ReconcilesStep == TypeOK /\ Reconciles /\ [Next]_vars => Reconciles'
<1>. SUFFICES ASSUME TypeOK, Reconciles, [Next]_vars, NEW t \in Tasks, pc'[t] = "detect"
              PROVE  task'[t].version_id = Nil
  BY DEF Reconciles
<1>. USE DEF Goto
<1>t. pc \in [Tasks -> PCs] /\ task \in [Tasks -> ChangeRequests]
  BY DEF TypeOK
<1>1. CASE \E u \in Tasks : DetectSchemaChange(u)
  BY <1>1, <1>t DEF DetectSchemaChange, Reconciles
<1>2. CASE pc[t] = "detect" /\ task'[t] = task[t]
  BY <1>2 DEF Reconciles
<1>3. CASE \E u \in Tasks :
           \/ Upload(u) \/ Create(u) \/ CreateFails(u)
           \/ GetSchemaID(u) \/ DetectTo(u) \/ Lookup(u)
  <2>. HIDE DEF Goto
  <2>1. PICK u \in Tasks,
             step \in {"idle", "create", "schemaId", "lookup", "insert", "touch"} :
               \E l : Goto(u, step, l)
    BY <1>3, CallMoves, LookupMoves
  <2>2. (pc'[t] = step) \/ (pc'[t] = pc[t] /\ task'[t] = task[t])
    BY <2>1, GotoMoves
  <2>. QED
    BY <1>2, <2>2
<1>6. CASE \E u \in Tasks : Touch(u) \/ MarkEvent(u) \/ DbError(u) \/ KafkaError(u)
  BY <1>6, <1>t, <1>2 DEF Touch, MarkEvent, DbError, KafkaError, Stop
<1>7. CASE \E u \in Tasks : InsertEvent(u) \/ Write(u)
  BY <1>7, <1>t, <1>2 DEF InsertEvent, Write
<1>8. CASE Crash
  BY <1>8, <1>t DEF Crash
<1>9. CASE DeleteVersion \/ DeleteSchema \/ Quiet \/ UNCHANGED vars
  BY <1>9, <1>2 DEF DeleteVersion, DeleteSchema, Quiet, vars
<1>. QED
  BY <1>1, <1>3, <1>6, <1>7, <1>8, <1>9 DEF Next, Run

\* Without a failure a task that has sent its message marks its event next.
LEMMA Marking ==
    ASSUME TypeOK, [Next]_vars, NEW t \in Tasks, pc[t] = "mark"
    PROVE  (pc'[t] = "mark" /\ task'[t] = task[t]) \/ MarkEvent(t) \/ faults' = faults + 1
<1>. USE DEF Goto
<1>t. pc \in [Tasks -> PCs] /\ task \in [Tasks -> ChangeRequests]
  BY DEF TypeOK
<1>1. CASE \E u \in Tasks : Upload(u) \/ DetectSchemaChange(u)
  BY <1>1, <1>t DEF Upload, DetectSchemaChange
<1>2. CASE \E u \in Tasks : Create(u) \/ CreateFails(u)
  BY <1>2, <1>t DEF Create, CreateFails, Spawn, Stop
<1>3. CASE \E u \in Tasks : GetSchemaID(u) \/ DetectTo(u) \/ Lookup(u)
  BY <1>3, <1>t DEF GetSchemaID, DetectTo, Lookup, Identify, Stop
<1>4. CASE \E u \in Tasks : Touch(u) \/ InsertEvent(u) \/ Write(u)
  BY <1>4, <1>t DEF Touch, InsertEvent, Write, Stop
<1>5. CASE \E u \in Tasks : MarkEvent(u)
  BY <1>5, <1>t DEF MarkEvent, Stop
<1>6. CASE (\E u \in Tasks : DbError(u) \/ KafkaError(u)) \/ Crash
  BY <1>6 DEF DbError, KafkaError, Crash
<1>7. CASE DeleteVersion \/ DeleteSchema \/ Quiet \/ UNCHANGED vars
  BY <1>7 DEF DeleteVersion, DeleteSchema, Quiet, vars
<1>. QED
  BY <1>1, <1>2, <1>3, <1>4, <1>5, <1>6, <1>7 DEF Next, Run

\* The number of failures only grows.
LEMMA Failures == ASSUME TypeOK, [Next]_vars, faults' = 0 PROVE faults = 0
<1>1. faults' \in {faults, faults + 1}
  BY DEF Next, Run, vars, Quiet, Upload, Create, CreateFails, GetSchemaID, Lookup, Touch,
         InsertEvent, Write, MarkEvent, DetectSchemaChange, DetectTo, DeleteVersion,
         DeleteSchema, DbError, KafkaError, Crash
<1>. QED
  BY <1>1 DEF TypeOK

\* A version of a schema row is announced: it has a successful event.
Announced(k, v) == \E e \in events : e.schema_id = k /\ e.version_id = v /\ e.success

\* Marking an event keeps what it announces announced, and announces what it marks.
LEMMA MarkedAnnounces ==
    ASSUME TypeOK, NEW id, NEW e \in events, e.success \/ e.id = id
    PROVE  \E f \in Marked(id) : f.schema_id = e.schema_id /\ f.version_id = e.version_id /\ f.success
<1>. DEFINE f == IF e.id = id THEN [e EXCEPT !.success = TRUE] ELSE e
<1>1. f \in Marked(id)
  BY DEF Marked
<1>2. f.schema_id = e.schema_id /\ f.version_id = e.version_id /\ f.success
  BY DEF TypeOK, EventRows
<1>. QED
  BY <1>1, <1>2

\* What is announced stays announced: events are inserted or marked, never removed.
LEMMA AnnouncedStays ==
    ASSUME TypeOK, [Next]_vars, NEW k, NEW v, Announced(k, v)
    PROVE  Announced(k, v)'
<1>1. \/ \E t \in Tasks : events' = Marked(task[t].id)
      \/ events \subseteq events'
  BY DEF Next, Run, vars, Quiet, Upload, Create, CreateFails, GetSchemaID, Lookup, Touch,
         InsertEvent, Write, MarkEvent, DetectSchemaChange, DetectTo, DeleteVersion,
         DeleteSchema, DbError, KafkaError, Crash
<1>2. PICK e \in events : e.schema_id = k /\ e.version_id = v /\ e.success
  BY DEF Announced
<1>3. CASE events \subseteq events'
  BY <1>2, <1>3 DEF Announced
<1>4. CASE \E t \in Tasks : events' = Marked(task[t].id)
  BY <1>2, <1>4, MarkedAnnounces DEF Announced
<1>. QED
  BY <1>1, <1>3, <1>4

-----------------------------------------------------------------------------
\* The messages about version v of schema row k, and the tasks that are about
\* to send one.
About(k, v) == {m \in topic : m.schema_id = k /\ m.version_id = v}
Ahead(k, v) ==
    {t \in Tasks : pc[t] \in {"insert", "write"} /\ task[t].schema_id = k /\ task[t].version_id = v}

\* Each of these messages has a task of its own that is not about to send
\* another.  Until one of them is marked, that is the task that will mark it.
Shares(k, v, f) ==
    /\ f \in [About(k, v) -> Tasks]
    /\ \A m, n \in About(k, v) : f[m] = f[n] => m = n
    /\ \A m \in About(k, v) : f[m] \notin Ahead(k, v)
Marks(t, m) ==
    /\ pc[t] = "mark" /\ task[t].id = m.id
    /\ task[t].schema_id = m.schema_id /\ task[t].version_id = m.version_id
ToBeMarked(k, v) == \A m \in About(k, v) : \E t \in Tasks : Marks(t, m)
Shared ==
    faults = 0 => \A k, v :
        v # Nil => (\E f : Shares(k, v, f)) /\ (Announced(k, v) \/ ToBeMarked(k, v))

\* Messages that are still to be marked are shared out to the tasks that will.
LEMMA MarkersShare ==
    ASSUME Ids, NEW k, NEW v, ToBeMarked(k, v)
    PROVE  \E f : /\ f \in [About(k, v) -> {t \in Tasks : pc[t] = "mark"}]
                  /\ \A m, n \in About(k, v) : f[m] = f[n] => m = n
<1>. DEFINE A == About(k, v)
            f == [m \in A |-> CHOOSE t \in Tasks : Marks(t, m)]
<1>1. \A m \in A : f[m] \in Tasks /\ Marks(f[m], m)
  BY DEF ToBeMarked
<1>2. f \in [A -> {t \in Tasks : pc[t] = "mark"}]
  <2>1. \A m \in A : f[m] \in {t \in Tasks : pc[t] = "mark"}
    BY <1>1 DEF Marks
  <2>. QED
    BY <2>1
<1>. HIDE DEF f
<1>3. \A m, n \in A : f[m] = f[n] => m = n
  <2>. SUFFICES ASSUME NEW m \in A, NEW n \in A, f[m] = f[n] PROVE m = n
    OBVIOUS
  <2>1. m.id = n.id
    BY <1>1 DEF Marks
  <2>. QED
    BY <2>1 DEF Ids, About
<1>. QED
  BY <1>2, <1>3

\* Shared is inductive.
LEMMA SharedStep ==
    TypeOK /\ Ids /\ Reconciles /\ SentIsRecorded /\ Shared /\ [Next]_vars => Shared'
<1>. SUFFICES ASSUME TypeOK, Ids, Reconciles, SentIsRecorded, Shared, [Next]_vars, faults' = 0,
                     NEW k, NEW v, v # Nil
              PROVE  (\E f : Shares(k, v, f)') /\ (Announced(k, v)' \/ ToBeMarked(k, v)')
  BY DEF Shared
<1>t. pc \in [Tasks -> PCs] /\ task \in [Tasks -> ChangeRequests]
  BY DEF TypeOK
<1>0. faults = 0
  BY Failures
<1>1. (\E f : Shares(k, v, f)) /\ (Announced(k, v) \/ ToBeMarked(k, v))
  BY <1>0 DEF Shared
<1>2. ASSUME topic' = topic PROVE About(k, v)' = About(k, v)
  BY <1>2 DEF About
<1>3. ASSUME NEW m \in topic, NEW t \in Tasks, Marks(t, m)
      PROVE  Marks(t, m)' \/ Announced(m.schema_id, m.version_id)'
  <2>1. CASE pc'[t] = "mark" /\ task'[t] = task[t]
    BY <1>3, <2>1 DEF Marks
  <2>2. CASE MarkEvent(t)
    <3>1. PICK e \in events : e.id = m.id /\ e.schema_id = m.schema_id /\ e.version_id = m.version_id
      BY DEF SentIsRecorded
    <3>2. events' = Marked(task[t].id) /\ e.id = task[t].id
      BY <1>3, <2>2, <3>1 DEF MarkEvent, Marks
    <3>. QED
      BY <3>1, <3>2, MarkedAnnounces DEF Announced
  <2>. QED
    BY <1>0, <1>3, <2>1, <2>2, Marking DEF Marks
<1>4. ASSUME About(k, v)' = About(k, v), Ahead(k, v)' \subseteq Ahead(k, v)
      PROVE  \E f : Shares(k, v, f)'
  <2>1. PICK f : Shares(k, v, f)
    BY <1>1
  <2>. QED
    BY <1>4, <2>1 DEF Shares
<1>5. ASSUME ToBeMarked(k, v), NEW m \in About(k, v)
      PROVE  (\E t \in Tasks : Marks(t, m)') \/ Announced(k, v)'
  BY <1>3, <1>5 DEF ToBeMarked, About
<1>6. ASSUME About(k, v)' = About(k, v) PROVE Announced(k, v)' \/ ToBeMarked(k, v)'
  <2>1. CASE Announced(k, v)
    BY <2>1, AnnouncedStays
  <2>2. CASE ToBeMarked(k, v)
    <3>1. ASSUME ~Announced(k, v)', NEW m \in About(k, v)' PROVE \E t \in Tasks : Marks(t, m)'
      BY <1>5, <1>6, <2>2, <3>1
    <3>. QED
      BY <3>1 DEF ToBeMarked
  <2>. QED
    BY <1>1, <2>1, <2>2
<1>7. ASSUME NEW t \in Tasks,
             /\ pc[t] \in {"lookup", "detect"} /\ pc'[t] = "insert" /\ topic' = topic
             /\ task'[t].version_id = task[t].version_id
             /\ pc[t] = "lookup" => Notified(t) = {} /\ task'[t].schema_id = task[t].schema_id
             /\ \A u \in Tasks : u # t => pc'[u] = pc[u] /\ task'[u] = task[u]
      PROVE  \E f : Shares(k, v, f)'
  <2>1. CASE task'[t].version_id = v /\ task'[t].schema_id = k
    <3>1. pc[t] = "lookup"
      BY <1>7, <2>1 DEF Reconciles
    <3>2. Notified(t) = {} /\ task[t].version_id = v /\ task[t].schema_id = k
      BY <1>7, <2>1, <3>1
    <3>3. ~Announced(k, v)
      BY <3>2 DEF Announced, Notified
    <3>4. ToBeMarked(k, v)
      BY <1>1, <3>3
    <3>5. PICK f : /\ f \in [About(k, v) -> {u \in Tasks : pc[u] = "mark"}]
                   /\ \A m, n \in About(k, v) : f[m] = f[n] => m = n
      BY <3>4, MarkersShare
    <3>6. \A m \in About(k, v) : f[m] \in Tasks /\ f[m] # t /\ pc[f[m]] = "mark"
      BY <3>1, <3>5
    <3>7. \A m \in About(k, v) : f[m] \notin Ahead(k, v)'
      BY <1>7, <3>6 DEF Ahead
    <3>8. f \in [About(k, v) -> Tasks]
      BY <3>5
    <3>. QED
      BY <1>2, <1>7, <3>5, <3>7, <3>8 DEF Shares
  <2>2. CASE ~(task'[t].version_id = v /\ task'[t].schema_id = k)
    <3>1. Ahead(k, v)' \subseteq Ahead(k, v)
      BY <1>7, <2>2 DEF Ahead
    <3>. QED
      BY <1>2, <1>4, <1>7, <3>1
  <2>. QED
    BY <2>1, <2>2
<1>8. ASSUME NEW t \in Tasks,
             /\ pc[t] = "write" /\ pc'[t] = "mark" /\ task' = task
             /\ topic' \in {topic, topic \cup {Message(t)}}
             /\ \A u \in Tasks : u # t => pc'[u] = pc[u]
      PROVE  (\E f : Shares(k, v, f)') /\ (Announced(k, v)' \/ ToBeMarked(k, v)')
  <2>0. PICK x : x = Message(t)
    OBVIOUS
  <2>1. x.id = task[t].id /\ x.schema_id = task[t].schema_id /\ x.version_id = task[t].version_id
    BY <2>0 DEF Message
  <2>2. Ahead(k, v)' = Ahead(k, v) \ {t}
    BY <1>8 DEF Ahead
  <2>3. x \notin topic
    BY <1>8, <2>1 DEF Ids
  <2>4. CASE topic' = topic \cup {x} /\ x.schema_id = k /\ x.version_id = v
    <3>1. About(k, v)' = About(k, v) \cup {x} /\ x \notin About(k, v)
      BY <2>3, <2>4 DEF About
    <3>2. t \in Ahead(k, v)
      BY <1>8, <2>1, <2>4 DEF Ahead
    <3>3. PICK f : Shares(k, v, f)
      BY <1>1
    <3>. DEFINE A == About(k, v)
                g == [m \in A \cup {x} |-> IF m = x THEN t ELSE f[m]]
    <3>4. /\ f \in [A -> Tasks] /\ \A m, n \in A : f[m] = f[n] => m = n
          /\ \A m \in A : f[m] \notin Ahead(k, v)
      BY <3>3 DEF Shares
    <3>. HIDE DEF A
    <3>5. \A m \in A : g[m] = f[m] /\ f[m] \in Tasks /\ f[m] # t
      BY <3>1, <3>2, <3>4 DEF A
    <3>6. g[x] = t /\ g \in [A \cup {x} -> Tasks]
      BY <3>4
    <3>. HIDE DEF g
    <3>7. \A m, n \in A \cup {x} : g[m] = g[n] => m = n
      BY <3>4, <3>5, <3>6
    <3>8. \A m \in A \cup {x} : g[m] \notin Ahead(k, v)'
      BY <2>2, <3>4, <3>5, <3>6
    <3>9. \E h : Shares(k, v, h)'
      <4>1. PICK h : h = g
        OBVIOUS
      <4>. QED
        BY <3>1, <3>6, <3>7, <3>8, <4>1 DEF Shares, A
    <3>10. Marks(t, x)'
      BY <1>8, <2>1 DEF Marks
    <3>11. Announced(k, v)' \/ ToBeMarked(k, v)'
      <4>1. CASE Announced(k, v)
        BY <4>1, AnnouncedStays
      <4>2. CASE ToBeMarked(k, v)
        <5>1. ASSUME ~Announced(k, v)', NEW m \in About(k, v)' PROVE \E u \in Tasks : Marks(u, m)'
          BY <1>5, <3>1, <3>10, <4>2, <5>1
        <5>. QED
          BY <5>1 DEF ToBeMarked
      <4>. QED
        BY <1>1, <4>1, <4>2
    <3>. QED
      BY <3>9, <3>11
  <2>5. CASE ~(topic' = topic \cup {x} /\ x.schema_id = k /\ x.version_id = v)
    <3>1. About(k, v)' = About(k, v)
      BY <1>8, <2>0, <2>5 DEF About
    <3>2. Ahead(k, v)' \subseteq Ahead(k, v)
      BY <2>2
    <3>. QED
      BY <1>4, <1>6, <3>1, <3>2
  <2>. QED
    BY <2>4, <2>5
<1>9. CASE /\ topic' = topic
           /\ \A u \in Tasks : pc'[u] \in {"insert", "write"} =>
                pc[u] \in {"insert", "write"} /\ task'[u] = task[u]
  <2>1. Ahead(k, v)' \subseteq Ahead(k, v)
    BY <1>9 DEF Ahead
  <2>. QED
    BY <1>2, <1>4, <1>6, <1>9, <2>1
<1>10. CASE \E t \in Tasks :
             /\ pc[t] \in {"lookup", "detect"} /\ pc'[t] = "insert" /\ topic' = topic
             /\ task'[t].version_id = task[t].version_id
             /\ pc[t] = "lookup" => Notified(t) = {} /\ task'[t].schema_id = task[t].schema_id
             /\ \A u \in Tasks : u # t => pc'[u] = pc[u] /\ task'[u] = task[u]
  BY <1>2, <1>6, <1>7, <1>10
<1>11. CASE \E t \in Tasks :
             /\ pc[t] = "write" /\ pc'[t] = "mark" /\ task' = task
             /\ topic' \in {topic, topic \cup {Message(t)}}
             /\ \A u \in Tasks : u # t => pc'[u] = pc[u]
  BY <1>8, <1>11
<1>. QED
  BY <1>0, <1>9, <1>10, <1>11, Sending

\* Without failures a version of a schema row is announced at most once by each
\* task, for any number of tasks, however their lookups, inserts and writes
\* interleave, and never again once an event of it is marked successful.
THEOREM AnnouncementsAreBounded == Spec => []DuplicatesBounded
<1>1. Init => Ids /\ Reconciles /\ Shared
  <2>. SUFFICES ASSUME Init PROVE Ids /\ Reconciles /\ Shared
    OBVIOUS
  <2>1. Ids /\ Reconciles
    BY DEF Init, Ids, Reconciles
  <2>2. ASSUME NEW k, NEW v PROVE Shares(k, v, [m \in {} |-> m]) /\ ToBeMarked(k, v)
    <3>1. About(k, v) = {}
      BY DEF Init, About
    <3>. QED
      BY <3>1 DEF Shares, ToBeMarked
  <2>. QED
    BY <2>1, <2>2 DEF Shared
<1>2. TypeOK /\ Ids /\ Reconciles /\ SentIsRecorded /\ Shared /\ [Next]_vars
        => Ids' /\ Reconciles' /\ Shared'
  BY IdsStep, ReconcilesStep, SharedStep
<1>3. Shared => DuplicatesBounded
  <2>. SUFFICES ASSUME Shared, NEW x \in topic, faults = 0, x.version_id # Nil
                PROVE  Cardinality({n \in topic : n.version_id = x.version_id /\ n.schema_id = x.schema_id})
                         <= Cardinality(Tasks)
    BY DEF DuplicatesBounded
  <2>. DEFINE A == About(x.schema_id, x.version_id)
  <2>1. PICK f : Shares(x.schema_id, x.version_id, f)
    BY DEF Shared
  <2>2. f \in Injection(A, Tasks)
    BY <2>1 DEF Shares, Injection, IsInjective
  <2>3. Cardinality(A) <= Cardinality(Tasks)
    <3>. HIDE DEF A
    <3>. QED
      BY <2>2, TasksAssumption, FS_Injection
  <2>4. A = {n \in topic : n.version_id = x.version_id /\ n.schema_id = x.schema_id}
    BY DEF About
  <2>. QED
    BY <2>3, <2>4
<1>. QED
  BY <1>1, <1>2, <1>3, NotificationTypes, MessagesAreRecorded, PTL DEF Spec
=============================================================================
