# Stencil: TLA+ models, checks and proofs

Stencil is a schema registry. A server (Go) keeps schemas by namespace, name and
version in PostgreSQL, checks each new version for compatibility with the latest
one, caches what it reads, and tells Kafka when a new version changes messages.
Clients (Go, Java, JavaScript, Clojure) download a schema and refresh it while
they run; people use it through a command line, gRPC and HTTP. This directory holds
TLA+ models of the server, of the command line and of the Go client, the TLC runs that check them on small instances, and
TLAPS proofs of the main properties for every instance. `PROJECT.json` maps every
definition to the source lines it models and lists runs, mutants, findings,
hazards and theorems.

## Inventory

| Component | State | Operations | Talks to | Hard behaviour | What makes it correct |
|---|---|---|---|---|---|
| `core/schema` service | cache entries | Create, CheckCompatibility, Get, GetLatest, Delete, DeleteVersion, UpdateMetadata, DetectSchemaChange, GetLineage | repositories, cache, namespace service, formats, change detector, producer | check and store are not one transaction; three reads behind one answer; goroutines that outlive the request | versions numbered and stored once, answers belong to the right schema and version, successive versions compatible, changes announced |
| `core/namespace` service and repository | table `namespaces` | Create, Update, Get, List, Delete | schema rows by cascade | deletion races creates of schemas | no schema without its namespace |
| schema repository | tables `schemas`, `versions`, `versions_schema_files`, `schema_files` | one transaction (Create), single statements, an orphan sweep | PostgreSQL | locks, pending rows, commits whose answer is lost | referential integrity, distinct numbers and contents, every listed version readable |
| cache (ristretto) | key to content | get, set, evict | schema service | entries are never invalidated | entries agree with the tables |
| notification | table `notification_events`, Kafka topic | goroutine of Create, reconciliation | change detector, Kafka | three writes to two systems; duplicates; crash in between | `success` means sent, sent means recorded, no change unannounced |
| change detector | none | IdentifySchemaChange | | depth-bounded search | exactly the messages within the depth, each once |
| lineage | none | GetLineage | schema service | level-bounded search, recursive types | every reachable type once, at its distance |
| formats | none | parse, compatibility rules of protobuf, avro, JSON; modes | schema service | reserved ranges compared by their ends; the transitive modes see one version; series of uploads | numbers and names keep their meaning through all versions, additions always accepted, the modes relate as their names say |
| search | none | two read-only queries | PostgreSQL | combinations of optional arguments | hits are stored versions |
| API, validator, gateway | none | decode, validate, call, encode: 16 gRPC methods, 12 gateway routes, 4 hand-written routes | services | several ways to one operation, of which not all are validated | messages have their types, nothing empty gets in unnoticed |
| server process | listener, gRPC server, connection to itself, database pool | start, serve, graceful shutdown | all of the above | calls run while the parts they need are closed one by one; a listener that failed unnoticed | nothing is closed under a call that still needs it, the process ends |
| Go client | per url: data, last version, ticker, channels | NewClient, Parse/Serialize/GetDescriptor, Refresh, Close | server | timer goroutine, readers, Refresh and Close on shared state | data never lost or older, Close ends the background work and returns, data becomes fresh |
| Java, JS, Clojure clients | cached descriptors, last version | get, refresh, close | server | loading cache, shared strategy | as the Go client |
| command line | none | 17 commands of one to three calls | server over gRPC | the server stops, or other users act, between two calls | exit codes tell the truth, what is put together belongs together, commands end |
| web UI | none | | server | none | |

The tables are shared by all requests; the cache by all requests of one server
process. Service.Create starts the notification goroutine, which only shares the
tables with later requests. Clients see the server through two GET endpoints, the
list of versions and the content of a version. Command lines and other programs reach
the handlers over one port: gRPC calls are told apart by their content type, the rest
goes to hand-written routes or to the gateway, which calls the same server over gRPC.

## Modules

| Module | Stands for | Uses |
|---|---|---|
| `VersionStore` | what the registry promises: versions `[schema, version, file]` that are published as the newest one, removed singly, or removed with their schema, each in one step | |
| `Registry` | requests of the schema and namespace services, statement by statement, over the five tables and the cache | implements `VersionStore` |
| `ChangeNotification` | the end of Service.Create with its goroutine, reconciliation, `notification_events`, Kafka | `VersionStore` as its store |
| `GoClient` | the Go client's stores, timer, loaders and calls | `VersionStore` as its server |
| `TypeGraph` | the change detector's search for impacted schemas and the lineage of a type | |
| `ProtoCompat` | the compatibility rules of the three formats, the modes, and a schema that is uploaded again and again | |
| `StencilMessages` | the messages, enums and methods of the service | |
| `Api` | every handler as a function of the database, the validator, the gateway's translation | `StencilMessages` |
| `Cli` | every command as a function of its arguments and of the replies so far | `Api` |
| `Server` | the server process from start to end, with command lines and HTTP clients | `Cli`; its versions change as a `VersionStore`'s |
| `MCRegistry`, `MCChangeNotification`, `MCGoClient`, `MCTypeGraph`, `MCProtoCompat`, `MCServer` | instances for TLC: sets of model values, relations, who calls what | |
| `RegistryProofs` | type correctness of `Registry` | |
| `RegistryIntegrity` | the inductive invariants of `Registry` and the safety theorems | `RegistryProofs` |
| `RegistryRefinement` | `Registry` implements `VersionStore` | `RegistryIntegrity` |
| `NotificationProofs` | type correctness and the delivery theorems of `ChangeNotification` | |
| `GoClientProofs` | types, data and freshness of `GoClient`, and that Close ends the refreshing | |
| `ServerProofs` | types, the shutdown order, what the validator and the exit codes promise, with `Api` and `Cli` | |
| `TypeGraphProofs` | the searches of `TypeGraph` find exactly what they should, for every graph | |
| `ProtoCompatProofs` | what the compatibility rules guarantee for any series of versions | |

`ChangeNotification`, `GoClient` and `Server` stand on an atomic store instead of the
five tables. That is what the refinement justifies for the rows: a create takes effect
at its commit, a delete at its first statement. The read of the previous version in
`ChangeNotification` is atomic and uncached, which the code's three reads are not;
what those can return is `Registry`'s subject (`ReadsWereStored`, `CacheIsCurrent`,
the run `stale`).

### Registry

A request is a process `p` with a program counter `pc[p]`, its request `req[p]`, the
local variables `loc[p]` and its answer `resp[p]`. Each SQL statement is one atomic
step under READ COMMITTED; Go code between two statements belongs to the step before.

* `NamespaceGet`, `GetLatestVersion`, `GetMetadata`, `CacheGet`, `GetVersionID`,
  `GetSchemaData`, `CacheSet` are the reads behind GetLatest and Get. The operators
  `Got`, `NotFound` and `Checked` continue with what the caller does with the result:
  answer, check compatibility, or start the transaction. `loc[p].ret` names the caller.
* `TxBegin`, `TxSchema`, `TxVersion`, `TxCommit` are the transaction of
  SchemaRepository.Create: the lookup by version id, the upsert that locks the
  schema's row, the insert with `MAX(version)+1`, the commit. Rows appear at the
  commit. `HoldsRow`, `WaitsForPendingRow` and `FileLocked` are the locks that other
  transactions wait for.
* `DeleteSchema`, `NamespaceDelete`, `DeleteVersion` are the delete statements with
  `Cascade`; `SelectOrphans` and `DeleteOrphans` are the sweep, in two steps because
  PostgreSQL selects the rows and then locks and rechecks each; `TxFileSwept` is the
  insert that meets a file being swept.
* `UpdateMetadata`, `NamespaceCreate`, `NamespaceUpdate` are single statements.
* `DbError` fails any statement, `CommitAnswerLost` commits and reports an error,
  `Crash` stops the server and empties the cache, `Evict` drops a cache entry.

Data is abstracted: a content is a model value whose hash is itself; parsing and
compatibility are the relations `Parses` and `Allowed`; a name is a sequence of
dash-free segments, so that joining with `-` is concatenation and ambiguous where the
code's is. `stored` is a history variable: every version ever committed.

### ChangeNotification

A task is an upload followed by its goroutine, or a reconciliation. `Upload` is
Service.Create up to the read of the previous version, `Create` and `CreateFails` are
repo.Create with its outcome, after either of which `Spawn` starts the goroutine;
`GetSchemaID`, `Lookup`, `Touch`, `InsertEvent`, `Write`, `MarkEvent` are the calls of
identifySchemaChange and sendNotification. `DetectSchemaChange` and `DetectTo` are
the reconciliation. `DbError` fails a statement before or after its effect,
`KafkaError` returns an error with or without the message on the topic, `Crash` ends
all goroutines (a graceful shutdown does not wait for them either). `Changed` is the
result of the change detector, `Enable` the configuration flag that selects Kafka or
NoopProducer.

### GoClient

Each url `u` is a store. `timer[u]` is the place of setInterval's goroutine (its
select, waiting for access, in its refresh, gone), `ticked[u]` the ticker's one-place
channel, `closed[u]` the access channel. A load runs through `list`, `fetch`, `assign`
and `set` (versionBasedRefresh; longPollingRefresh has `fetch` and `set`), once per
goroutine and store: the timer's own, and one for each Refresh of a caller.
`lastVersion` and `data` are written in separate steps because the code does so.
The unsynchronised accesses to `lastVersion` are word-sized reads and writes and are
modelled as atomic steps in any order. A reader is `GetResolver`; on a closed store it
panics, as does a second Close. Ticker.Stop is part of `CloseAccess`: a tick between
the two statements is a tick before both.

### TypeGraph

A call, `IdentifySchemaChange` or `GetLineage`, leads to one walk per root, and every
walk to a loop of rounds and visits: `ImpactRound` and `ImpactVisit` are the loops of
getDependentImpactedSchemas with its one queue and its `size`, `LineageRound` and
`LineageVisit` those of walkLineage with its two queues and its paths. `uses` is the
set of message and enum fields; a type is named by its segments, so that nesting is a
prefix and the lookup of a requested name a suffix. `change` is what comparing two
descriptors with proto.Equal says of each declaration. The order of fields, and the
order in which Go ranges over the roots, is arbitrary. The result is compared with
`Ball`, the types within k steps of a type.

### ProtoCompat

A descriptor set is its messages, nested ones included, and its enums under their full
names; a field has a name, a label, a kind and a type, and two field names may share a
JSON name. `CompareSchemas` is the set of kinds of differences that compareSchemas
reports, `BackwardRefused`, `ForwardRefused`, `FullRefused` are the three lists, and
`IsBackwardCompatible`, `IsForwardCompatible`, `IsFullCompatible` choose the format's own
answer: avro's relation between two schemas is the library's (`AvroReads`), JSON schemas are
compatible with nothing. `CheckerAccepts` is getCompatibilityChecker with validateLatest and
validateAll, and `Previous` what checkCompatibility gives it: the latest version and no
other, in every mode. `Has` and `HasEnumNumber` are the library's: a message's reserved
range excludes its end, an enum's includes it. The state is a mode and the series of
versions of one schema; the only action is `Upload`. Each property relates versions that
were never compared with each other.

### StencilMessages, Api, Cli

A message is a record of the fields that code reads. `RequestOf` and `ResponseOf` are the
methods with their types, `RequiredFields` the fields annotated as required. A handler is
a function of the database to the new one, a code and a response; `Check` and `Read` are the
service behind several handlers. An upload is the exception: Service.Create reads, checks and
inserts with calls that others can come between, so that `Create` ends with its check
(`Checked`) and hands on to `Store`, which takes the lookup of the content (`Lookup`) and the
insert (`Insert`) one at a time; what was checked may be overtaken by then, content that was
stored since the lookup is AlreadyExists. `ServeGRPC` has the validator in front,
which a required enum passes also as UNSPECIFIED; `ServeRoute` has none. `Translate` is
what the generated request_ functions make of a path and a body: a field of the path
overrides the body's, an empty body is an empty message. A command is a function of its
arguments and of the replies so far: it makes the next call or exits. The data that
`schema view`, `graph` and `diff` show is abstracted to whether it can be shown.

### Server

`phase` is how far the process is: starting, serving, or deaf (ListenAndServe failed and
nobody noticed), then the signal and the steps of the shutdown in their order: draining,
closing (conn.Close is next), stopping (GracefulStop is next), closingDb, exiting, down.
`call[u]` is the one call a user has in the server: in its HTTP handler, in its gRPC
handler, or done. A gateway call passes through both. `Handle` runs a handler in one step, an
upload in three, with `at` as what it keeps from one to the next;
`GatewayFails` is a lost inner connection, which ends the HTTP call whether the handler has
done its work by then or is cancelled before it changes anything; after conn.Close it is
Canceled. HTTP connections are waited for by
Shutdown, until its timeout; gRPC connections are not, because h2c has taken them over:
GracefulStop waits for their handlers, or panics, because a call that came through
ServeHTTP cannot be drained (external, grpc 1.55). A user whose call is cut by the end of
the process sees Unavailable (gRPC) or a reset connection (HTTP). A command dials with a
deadline of two seconds, then makes its calls one after the other over a connection that
outlives the listener. `VersionsIn` is the database's versions as `VersionStore` has them,
and `Promised` that store. `events` is a history of what successful calls did, which the
properties use to say what must not have happened; two uploads have "crossed" when the later
is stored though its check found no version at all. Ids are free of dashes here; joined
names are the subject of `Registry`.

## Runs

Passing runs:

| Run | Instance | Shows |
|---|---|---|
| `faults` | 2 handlers, one with all changes and reads, one with creates and deletes, 3 requests, 1 fault, fairness | the tables stay consistent (`NoDanglingRows`), every listed version can be read (`VersionsReadable`), numbers and contents are unique (`VersionsDistinct`), a conflict is a real one (`ConflictMeansSameContent`), the tables implement the atomic store, and locks never form a cycle (`RequestsAnswered`), through any single failure |
| `names` | 1 creator, 1 handler that reads and changes defaults, 2 namespaces with the same schema name, 3 contents, 3 requests | `CreatedIsStored`, `ReadsWereStored`: answers belong to the right schema and version; `SuccessiveCompatible`, `CacheIsCurrent`: what holds without concurrent creates and without deletes |
| `notify` | 2 tasks, 2 contents, 5 operations, 1 fault, fairness | `SuccessMeansSent`, `SentIsRecorded` through any single failure; without one, every change is announced (`ChangesAnnounced`) and twice only by tasks that overlap (`DuplicatesBounded`) |
| `client` | 1 store, 2 callers, 3 versions, a Refresh, a delete, a failed download, a content that does not parse, Close at any time, both strategies, fairness | `ReadyHasData`, `NeverOlder`, `ClosedStandsStill`, `CloseReturns`, and `TimerKeepsFresh`: the timer alone comes to hold the latest version |
| `graph` | 3 messages, a nested message and a nested enum, all 256 graphs over 8 fields, depths -1, 0, 1, levels 0, 1, 2 | `ImpactIsExact`, `LineageIsComplete`, `LevelsAreDistances` |
| `compat` | series of 3 versions under each of the 6 modes; variants of one message with two fields, reserved numbers and names, of one enum, avro and JSON schemas | `FormatsStay`, `MeaningsKept`, `TransitiveByLatest`, `FullIsBoth`, `AdditionsAccepted` |
| `users` | 1 command line with 25 commands, 1 HTTP client with 27 requests, 2 commands or requests, 3 initial databases, signal at any time, fairness | the shutdown order (`DbOutlivesCalls`, `GracefulAnswersHTTP`), two-call reads (`FetchedPairMatches`), validation (`BlankKeptOut`), exit codes (`ZeroMeansThere`), versions that change as those of a `VersionStore` (`VersionsAsPromised`), the end of the process and of every command (`SignalStops`, `CommandsEnd`) |

Runs in which the code and a text of the repository disagree:

| Run | Text | What happens |
|---|---|---|
| `race` | glossary: a new version is compatible with the earlier one | two creates pass against the same predecessor, then commit one after the other |
| `stale` | clients overview: the latest file points to the new version | the cache keeps the deleted content of a number that was used again |
| `notify_phantom` | guide 5: the goroutine runs when the schema was uploaded | it runs after a failed repo.Create too, and announces a version that does not exist |
| `depth` | guide 5 and server overview: a depth counts the changed schema (depth 2 names `Address` and `Friend` only), and -1 takes all indirectly impacted schemas | in the guide's sample with one more level, at depth 3, `Group` is named too: the code counts the steps after the changed schema; `Shop`, which uses `Address` through a map field, is not named: the code follows the fields of top-level messages only |
| `client_stuck` | Go client: new versions update the cache | a Refresh and the timer leave the later number with the earlier data; the store is stale for good |

More disagreements are plain from the models and have no run of their own; they are
under the hazards. Names that join to the same string (schema `b-c` of namespace `a`,
schema `c` of namespace `a-b`) share version ids, so that Create can answer with another
schema's version (api.md). Only the ends of a reserved range are looked
up in the next version, so that numbers inside a wide range can be freed and used again
(`MeaningsKept` and `TransitiveByLatest` are stated for ranges without an interior).
FORWARD_TRANSITIVE is not transitive: after a rename that keeps the JSON name, deleting
the field reserves the new name only. `schema create` without a mode sends UNSPECIFIED,
which is not checked at all, although an HTTP upload without one is checked in the
namespace's mode. An HTTP upload with an empty body stores an empty descriptor set, which
gRPC refuses. The mode recorded for a schema is never read by Create, so that an upload
without a mode is checked in the namespace's (glossary.md has the schema's original mode
honoured by all later versions). Two first uploads of one schema in two formats can both
find no version to be checked against and both commit: the schema keeps one format and
the latest file has the other, whose content type is then wrong (api.md); this is why
`FetchedPairMatches` leaves out first uploads that have crossed. Deleting every version leaves the schema's row with its format behind.
Reconciliation with notifications disabled
marks an event successful without sending, and an update that fails after the write
leaves `success=false` for a message that was sent (5_schema_change.md). A client under
VersionBasedRefresh never loads a version whose number was used before and deleted.

Every property of a passing run has a mutant in `PROJECT.json`: a plausible slip in
one definition (a dropped guard, a missing lock, a swapped order) under which TLC
finds the property violated. The mutants stand before the definitions they replace.

### Bounds

The bounds are `MaxOps` (requests, commands, or uploads, reconciliations and deletes),
`MaxFaults`, `MaxVersions` of a series, and for the client `MaxVersion`, `MaxDeletes` and
`MaxRefreshes`. Two handlers are enough for every race of two requests; three requests
let two race against what a third has left behind (`stale` has five: create, delete,
create again under the same number, read). Two contents tell "the same" from "another";
three are used where a compatibility chain or an overtaken version needs them. One fault
per run is enough for any single failure between two statements. `notify` needs five
operations for a version to come up for announcement a third time. The client needs two
versions and a delete for its data to be able to go back, and three versions for a load to
be overtaken by a later one; its stores share only the loops of NewClient, Refresh and
Close, so that one url is enough for what a store does. In `compat` three versions put one
version between two that are compared by the properties; the variants have each kind of
difference, ranges of one, two and three numbers, and two names with one JSON name. In
`users` two operations are one command line against one HTTP request, or two in a row,
from a database that is empty, has a namespace, or has a schema: two uploads cross in every
order of their steps, and a second user of a kind would only repeat the first. `graph` has
depths up to two levels; `depth` has the one graph that its text is about.
What the bounds cut off is covered by the proofs where there
are any. Symmetry is only used in runs without temporal properties other than action
properties, over handlers, tasks, callers or contents that no definition tells apart.

### Fairness

`Registry!FairSpec` asks that every handler with an enabled statement takes it: the Go
scheduler runs goroutines, PostgreSQL serves statements, and a lock is granted once it
is free. `ChangeNotification!FairSpec` asks the same of the goroutines.
`GoClient!FairSpec` asks it of goroutines and downloads (which have a timeout), of the
ticker, and, for freshness, of an application that goes on asking for types: the timer
waits for a reader by design. New requests, faults, Close, Refresh, publishing and
deleting are never fair. `Server!FairSpec` asks that handlers end, that a command goes on
when it can (its dial has a deadline), and that the shutdown takes its next step; a
listener may fail, and nobody need ever send the signal. No strong fairness is assumed.

## Proofs

All theorems hold for any sets and bounds, under the ASSUMEs of the modules. Every
invariant and every action property that a passing run checks is one of them; what is left
to TLC alone is liveness.

* `RegistryProofs!TypeCorrect`: `Spec => []TypeOK`. `TypeOK` is not inductive: a
  step reads fields of the request and locals that only some requests have.
  `TInv = Control /\ Tables` adds what a handler at each step knows of its request
  (`HandlerOK`) and that version numbers have an upper bound, without which
  `MAX(version)` would not exist.
* `RegistryIntegrity!Invariance`: `Spec => [](TInv /\ IInv)` with
  `IInv = RowsOK /\ TxOK /\ HistoryOK /\ AnswersOK`. `RowsOK` is the integrity of the
  committed rows; `TxOK` what a transaction holds between its statements (the schema
  row exists while it is locked, no two transactions hold the same row or version id,
  the number in hand is above the committed ones, its file is not being swept);
  `HistoryOK` relates rows and cache entries to versions ever stored; `AnswersOK` what
  an answer, or data in hand, says of them. The first two need each other: integrity
  after a commit rests on what the transaction held, and that rests on deletes and
  sweeps respecting the locks. From it follow `ReferentialIntegrity`, `Readability`,
  `Distinctness`, `ConflictsAreGenuine`, and, under the assumption `NamesDistinct` that
  no two pairs of names join to the same string, `CreatesAreStored` and
  `ReadsAreStored`. Names that share a join show
  that the assumption is needed. Two theorems need to know who calls what.
  `CacheStaysCurrent` assumes that nothing is deleted (`NoDeletes`), for any number of
  creating and reading handlers: then the history and the tables are one
  (`NothingLost`), and an entry that was stored is still right. `VersionsFollow` assumes in
  addition that one handler creates (`SingleCreator`): `CreatesOK` follows its create from
  the read of the latest number to the commit and says that what it was checked against is
  still the latest version. The run `names` has such handlers; the runs `race` and `stale`
  show what happens without the two assumptions.
* `RegistryRefinement!Refinement`: `Spec => ImplementsVersionStore`, step by step: a
  commit is a `Publish`, a delete statement a `Remove` or `RemoveAll`, every other step
  leaves the abstract store as it is.
* `NotificationProofs`: `NotificationTypes`; `MessagesAreRecorded` from `InsertedInv`
  (a task about to write has its row); `SuccessIsSent`, with `Enable`, from
  `WrittenInv` (a task about to mark a row, or that found one marked, has its message
  on the topic). Both rest on `Kept`: no step removes a message or an event.
  `AnnouncementsAreBounded`: while nothing fails, the messages about one version of a
  schema row have a task each, which is not about to send another (`Shared`). Until the
  first of them is marked, that is the task that will mark it; once one is marked, every
  lookup finds it. That needs each event id to be one task's (`Ids`), and reconciliations to
  announce no version of their own (`Reconciles`). The tasks must be finitely many
  (`TasksAssumption`) for the messages to be counted.
* `GoClientProofs`: `ClientTypes`; `ReadyClientsAnswer`, `CloseEndsRefresh` and
  `VersionsNeverGoBack` from `ClientInv`: loaded contents parse (`LoadsParsed`), a timer
  exists where and while NewClient and Close say so (`TimersOK`, `ClosedOK`), and the client
  goroutine's own load is at the store that NewClient or the caller has come to (`OwnIdle`,
  `OwnNew`, `OwnReady`). `VersionsNeverGoBack` adds how the versions in a load, of the last
  refresh and of the data lie while only the timer refreshes (`VersionsOf`, `OwnVersions`).
* `ServerProofs`: `PoolClosedLast` and `ShutdownAnswersHTTP` from `Draining`, which says at
  each phase of the shutdown which calls can still be inside. `ServerTypes` from `Typed`: a
  pending call has a request of its method, a command line has as many replies as it has made
  calls, each a response of the method that its own arguments and the replies before it led
  to (`StepOf`, a function of both, so that a reply is never read as another's);
  every handler and every route is shown to answer with its response type (`Answer`) and to
  change the database in one of a few ways (`Effect`, `DatabaseStep`). `ValidatorStandsBefore`
  from `KeptOut`. `ChangesOnlyAsPromised` from `DatabaseStep`: what `Insert` adds is newer than
  every version of its schema and a content that none of them has (`Newer`), and a delete
  empties one version or all of some schemas (`Emptied`), which `Adds` and `Drops` say of
  sets of versions (`VersionsIn`), the actions of `VersionStore`. `VersionsAsPromised` is to
  the calls of the users what `ImplementsVersionStore` is to single statements.
  `AllMet` is what an upload between two of its steps still knows: its file parses in the
  merged format, and the row, if one was there for its check, is there with that format until
  the insert unless something is deleted. An upload whose check found no version knows nothing
  of a row that has come since; its insert is what `crossed` records (`UploadRecorded`,
  `ServedResult`), and without it
  `FetchesMatch` and `ZeroIsTruthful` from `Trusted` and `AllHeard`: what a command has been
  told is still so (what it created is there, a file it got is one of the format of its
  schema), and the cache has what the tables have, while nothing is deleted.
* `TypeGraphProofs`: the reference `Ball(R, r, k)`, the types within k steps, is a
  recursive function on numbers; what is needed of it is proved by contradiction at a
  least number (`BallSteps`: what is reached next; `BallStands` and `BallSaturates`: a ball that
  stops growing stays, which happens within as many steps as there are types, so that
  2^31-1, which the code takes for no limit, is none under `SizeAssumption`). `WInv` follows the walks:
  at the start of a round the seen types are the ball of the rounds done and the queue
  is its border, and within a round the part of the next ball that the types visited so
  far lead to; nodes carry their distance as level and a path that follows fields
  (`ImpactWalk`, `LineageWalk`); the walks done so far have complete answers (`ImpactPart`,
  `LineagePart`). `ImpactExactness`, `LineageCompleteness` and `LevelsAreExact` follow when no
  walk is left, and so does `UnlimitedAsDocumented`: `ImpactAsDocumented` holds without a
  limit on the depth where all fields are of top-level messages, the two conditions that
  the run `depth` lacks. `WInv` was checked with TLC on the instance of `graph` in the form in which the ball is an operator; in the proofs the relation and the ball
  are quantified variables, which TLC cannot evaluate.
* `ProtoCompatProofs`: the sets of differences are first turned into predicates on two
  descriptor sets (`FieldDifferences`, `MessageWithoutRefused`, `EnumWithoutRefused`).
  BACKWARD and FULL accept exactly the uploads that are `Clean`, and `Clean` is transitive
  where ranges have no interior (`RangesCarryOver`: a range whose two ends are reserved in
  the next version is reserved there as a whole); this gives `LatestSuffices`,
  `FullMeansBoth` and `AdditionsAlwaysAccepted`. `MeaningsNeverChange` needs more under
  FORWARD, where a field may go: `KeptInv` adds that its number, or the name of an enum
  value, is reserved in every later version, and what is reserved is not declared in a
  descriptor set that protodesc accepts (`UploadsAssumption`). `FormatsNeverChange` is the
  same induction on formats. `BoundAssumption`, `RangesAssumption` and `NilAssumption` say
  what numbers and ranges are.

What the code's constants are assumed to be, beyond numbers being numbers and the empty string
being none of the names: users of the two kinds differ, and there are finitely many ids
(`UsersAssumption`, `IdsAssumption`); what parses is a relation on formats and contents
(`ParsesAssumption`); commands and requests are lists of the program's own kinds
(`CommandsAssumption`, `RequestsAssumption`); the database at the start has a version for
every schema and parsed files (`StartAssumption`); there are no more types than an int32 counts
(`SizeAssumption`). TLC evaluates each of them on every run of the module.

Only model-checked: liveness (`RequestsAnswered`, `ChangesAnnounced`, `CloseReturns`,
`TimerKeepsFresh`, `SignalStops`, `CommandsEnd`), which the prover cannot do under
fairness. Neither proved nor checked is that the modules which keep versions for themselves
keep the same ones: `ChangeNotification` and `GoClient` take `VersionStore`'s actions as their
store, `Registry` implements it statement by statement (`Refinement`), and the handlers of `Server`,
an upload's in three steps and the others' in one, change their versions only as it does (`ChangesOnlyAsPromised`); no
module composes `Registry`'s statements with `Server`'s connections.

## Not modelled

Metrics, logging, configuration files, the drawing of graphs and the UI have no state of
the system, and neither have the commands `config` and `server migrate`. Encodings are
abstracted to whether they decode. Of the generated code, the local_request_ functions and
RegisterStencilServiceHandlerServer of the gateway and all of `stencil.pb.validate.go` are
never called; the accessors, reflection tables and raw descriptors of `stencil.pb.go` carry
no more than the messages. What avro's library compares, what matches a search and whether
the change detector finds a change are parameters (`AvroReads`, `Matches`, `Changed`), as
are parsing and compatibility in `Registry` and `Server` (`ProtoCompat` is where the rules
are); the lists of changed fields are left out of `TypeGraph`. PostgreSQL, ristretto,
kafka-go, grpc, net/http and the Go runtime are modelled from their use. Deadlock detection
of PostgreSQL is not modelled; `RequestsAnswered` shows that it is not needed for these
statements. The Java client keeps its refresh in a loading cache of a library whose
scheduling decides what can happen; it, the JavaScript client (a timer that downloads
again) and the Clojure wrapper are left out.

## Plan

1. Done: `VersionStore`, `Registry`, `ChangeNotification`, `GoClient`, `TypeGraph`,
   `ProtoCompat`, `StencilMessages`, `Api`, `Cli`, `Server`, and the proofs above.
2. Proofs: weaker hypotheses for `VersionsFollow` (one creator for each schema) and for
   `CacheStaysCurrent` (deletes of other schemas).
3. The change detector's lists of updated fields beside `ProtoCompat`; the Java client.
