-------------------------------- MODULE Api ---------------------------------
(***************************************************************************)
(* The handlers of internal/api as functions of the database, and the two  *)
(* ways to them: gRPC, with the validator in front, and HTTP, through the  *)
(* gateway or the routes of RegisterSchemaHandlers.  A handler is atomic   *)
(* here, except an upload, whose check, lookup and insert are steps of     *)
(* their own; what the statements of the others look like to each other is *)
(* the subject of Registry, which implements VersionStore.  db is a record *)
(* of the tables and of the cache in front of them.                        *)
(***************************************************************************)
EXTENDS StencilMessages, FiniteSetsExt

CONSTANTS
    MaxVersion,  \* bound on version numbers
    Parses,      \* <<format, content>> : ParseSchema succeeds
    Compatible,  \* <<mode, new, prev>> : the strategy of mode accepts
    Matches      \* <<query, content>> : some type or field matches; a query
                 \* that is not a regular expression matches <<query, Nil>>

ASSUME MaxVersionAssumption == MaxVersion \in Nat /\ 0..MaxVersion \subseteq VersionIds
ASSUME IdsAssumption == IsFiniteSet(NamespaceIds) /\ IsFiniteSet(SchemaIds)
ASSUME ParsesAssumption == Parses \subseteq (Schema_Format \X Contents)

Numbers == 1..MaxVersion
Keys == NamespaceIds \X SchemaIds
\* A mode is what a request or a header said; "other" names no mode.
Metadata == [format : Schema_Format, compatibility : Schema_Compatibility \cup {"other"}]
Files == [Numbers -> Contents \cup {Nil}]
Databases ==
    [namespaces : [NamespaceIds -> Metadata \cup {Nil}], schemas : [Keys -> Metadata \cup {Nil}],
     versions : [Keys -> Files], cache : [Keys -> Files]]

NoFiles == [v \in Numbers |-> Nil]
ASSUME NilAssumption == Nil \notin Metadata

EmptyDatabase ==
    [namespaces |-> [n \in NamespaceIds |-> Nil], schemas |-> [k \in Keys |-> Nil],
     versions |-> [k \in Keys |-> NoFiles], cache |-> [k \in Keys |-> NoFiles]]

\* An error that brings no gRPC status with it is Unknown.
Codes == {"OK", "NotFound", "AlreadyExists", "InvalidArgument", "Unknown", "Unavailable", "Canceled",
          "reset"}  \* the last stands for no reply at all
Reply(db, out) == [db |-> db, code |-> "OK", out |-> out]
Refuse(db, code) == [db |-> db, code |-> code, out |-> Nil]
\* No reply yet: the handler goes on from at.
Proceed(db, at) == [db |-> db, code |-> "more", out |-> at]

Key(in) == <<in.namespace_id, in.schema_id>>
GetNonEmpty(a, b) == IF a # Blank THEN a ELSE b

-----------------------------------------------------------------------------
(***************************************************************************)
(* The schema service.                                                     *)
(***************************************************************************)
Latest(db, k) == Max({0} \cup {v \in Numbers : db.versions[k][v] # Nil})

\* Get: the metadata first, then the cache, then the table; what the table
\* has goes into the cache.
Fetched(db, k, v) ==
    IF db.schemas[k] = Nil \/ v \notin Numbers THEN Nil
    ELSE IF db.cache[k][v] # Nil THEN db.cache[k][v]
    ELSE db.versions[k][v]
Cached(db, k, v) ==
    IF Fetched(db, k, v) = Nil THEN db ELSE [db EXCEPT !.cache[k][v] = Fetched(db, k, v)]
Read(db, k, v) ==
    IF Fetched(db, k, v) = Nil THEN Refuse(db, "NotFound")
    ELSE Reply(Cached(db, k, v), [data |-> Fetched(db, k, v)])

\* getCompatibilityChecker: what names no mode is not checked; every strategy
\* refuses another format, and JSON schemas always.
Unchecked(mode) == mode \in {"COMPATIBILITY_NONE", "COMPATIBILITY_UNSPECIFIED", "other"}
Accepts(mode, format, new, prevFormat, prev) ==
    \/ Unchecked(mode)
    \/ format = prevFormat /\ format # "FORMAT_JSON" /\ <<mode, new, prev>> \in Compatible

\* checkCompatibility: the latest version, if there is one, is read and parsed.
CheckLatest(db, k, format, mode, data) ==
    LET prev == Fetched(db, k, Latest(db, k))
        prevFormat == db.schemas[k].format
    IN  CASE prev = Nil -> "OK"
          [] prev # Nil /\ <<prevFormat, prev>> \notin Parses -> "Unknown"
          [] OTHER -> IF Accepts(mode, format, data, prevFormat, prev) THEN "OK"
                      ELSE IF format = "FORMAT_PROTOBUF" /\ prevFormat = format THEN "InvalidArgument"
                      ELSE "Unknown"
AfterCheck(db, k) == Cached(db, k, Latest(db, k))

\* What an upload keeps between its steps: the merged metadata, and whether the
\* check found no version before it.
Continuation(step, meta, first) == [step |-> step, meta |-> meta, first |-> first]

\* repo.Create, the insert.  The row needs its namespace, and keeps the metadata
\* it has.  Version ids are unique: content stored since the lookup is a
\* conflict.  A number that the int32 of the caller cannot hold fails in Scan,
\* and the transaction with it.
Insert(db, k, meta, data) ==
    LET next == Latest(db, k) + 1
    IN  CASE db.namespaces[k[1]] = Nil -> Refuse(db, "Unknown")
          [] db.namespaces[k[1]] # Nil /\ data \in Range(db.versions[k]) -> Refuse(db, "AlreadyExists")
          [] OTHER -> IF next \notin Numbers THEN Refuse(db, "Unknown")
                      ELSE Reply([db EXCEPT !.schemas[k] = IF @ = Nil THEN meta ELSE @,
                                            !.versions[k][next] = data],
                                 [version |-> next])

\* The rest of Create: the latest version is read again, for the change
\* detection, and content that the schema has already keeps its version.
Lookup(db, k, at, data) ==
    LET same == {v \in Numbers : db.versions[k][v] = data}
    IN  IF same # {} THEN Reply(AfterCheck(db, k), [version |-> Max(same)])
        ELSE Proceed(AfterCheck(db, k), [at EXCEPT !.step = "insert"])

\* Mutant: version ids are not unique.
StoreAgain(db, k, at, data) ==
    LET next == Latest(db, k) + 1
    IN  CASE at.step = "lookup" -> Lookup(db, k, at, data)
          [] at.step = "insert" /\ next \notin Numbers -> Refuse(db, "Unknown")
          [] OTHER -> Reply([db EXCEPT !.schemas[k] = IF @ = Nil THEN at.meta ELSE @,
                                       !.versions[k][next] = data], [version |-> next])

Store(db, k, at, data) ==
    CASE at.step = "lookup" -> Lookup(db, k, at, data)
      [] at.step = "insert" -> Insert(db, k, at.meta, data)

\* Create up to its check.
Checked(db, k, format, mode, meta, data) ==
    LET checked == CheckLatest(db, k, format, mode, data)
    IN  CASE db.namespaces[k[1]] = Nil -> Refuse(db, "NotFound")
          [] db.namespaces[k[1]] # Nil /\ <<format, data>> \notin Parses -> Refuse(db, "Unknown")
          [] OTHER -> IF checked # "OK" THEN Refuse(AfterCheck(db, k), checked)
                      ELSE Proceed(AfterCheck(db, k),
                                   Continuation("lookup", meta, Fetched(db, k, Latest(db, k)) = Nil))

\* Mutant: the metadata of the request is stored, not the merged one.
CreateStoresRequest(db, k, format, mode, data) ==
    LET ns == db.namespaces[k[1]]
    IN  Checked(db, k, GetNonEmpty(format, ns.format), GetNonEmpty(mode, ns.compatibility),
                [format |-> format, compatibility |-> mode], data)

\* Mutant: the file is parsed and checked in the namespace's format, as a check's is.
CreateParsesByNamespace(db, k, format, mode, data) ==
    LET ns == db.namespaces[k[1]]
        m == GetNonEmpty(mode, ns.compatibility)
    IN  Checked(db, k, ns.format, m,
                [format |-> GetNonEmpty(format, ns.format), compatibility |-> m], data)

Create(db, k, format, mode, data) ==
    LET ns == db.namespaces[k[1]]
        meta == [format |-> GetNonEmpty(format, ns.format),
                 compatibility |-> GetNonEmpty(mode, ns.compatibility)]
    IN  Checked(db, k, meta.format, meta.compatibility, meta, data)

\* The format of a check is the namespace's.
Check(db, k, mode, data) ==
    LET ns == db.namespaces[k[1]]
        checked == CheckLatest(db, k, ns.format, GetNonEmpty(mode, ns.compatibility), data)
    IN  CASE ns = Nil -> Refuse(db, "NotFound")
          [] ns # Nil /\ <<ns.format, data>> \notin Parses -> Refuse(db, "Unknown")
          [] OTHER -> IF checked = "OK" THEN Reply(AfterCheck(db, k), NoFields)
                      ELSE Refuse(AfterCheck(db, k), checked)

-----------------------------------------------------------------------------
(***************************************************************************)
(* The handlers.                                                           *)
(***************************************************************************)
NamespaceToProto(db, n) ==
    [id |-> n, format |-> FormatValue(db.namespaces[n].format),
     compatibility |-> CompatibilityValue(db.namespaces[n].compatibility)]
MetadataToProto(meta) ==
    [format |-> FormatValue(meta.format), compatibility |-> CompatibilityValue(meta.compatibility)]
Success == [message |-> "success"]
NamespaceRow(in) == [format |-> in.format, compatibility |-> in.compatibility]

CreateNamespace(db, in) ==
    IF db.namespaces[in.id] # Nil THEN Refuse(db, "AlreadyExists")
    ELSE Reply([db EXCEPT !.namespaces[in.id] = NamespaceRow(in)], [namespace |-> in])
UpdateNamespace(db, in) ==
    IF db.namespaces[in.id] = Nil THEN Refuse(db, "NotFound")
    ELSE Reply([db EXCEPT !.namespaces[in.id] = NamespaceRow(in)], [namespace |-> in])
GetNamespace(db, in) ==
    IF db.namespaces[in.id] = Nil THEN Refuse(db, "NotFound")
    ELSE Reply(db, [namespace |-> NamespaceToProto(db, in.id)])
ListNamespaces(db) ==
    Reply(db, [namespaces |-> {NamespaceToProto(db, n) : n \in {i \in NamespaceIds : db.namespaces[i] # Nil}}])
\* The schemas and versions go with the namespace; the cache keeps its entries.
DeleteNamespace(db, in) ==
    Reply([db EXCEPT !.namespaces[in.id] = Nil,
                     !.schemas = [k \in Keys |-> IF k[1] = in.id THEN Nil ELSE @[k]],
                     !.versions = [k \in Keys |-> IF k[1] = in.id THEN NoFiles ELSE @[k]]],
          Success)

ListSchemas(db, in) ==
    LET names == {s \in SchemaIds : db.schemas[<<in.id, s>>] # Nil}
        Row(s) == MetadataToProto(db.schemas[<<in.id, s>>])
    IN  Reply(db, [schemas |-> {[name |-> s, format |-> Row(s).format,
                                 compatibility |-> Row(s).compatibility] : s \in names}])

\* String() names the modes, so neither the format nor the mode is ever empty.
CreateSchema(db, in) == Create(db, Key(in), in.format, in.compatibility, in.data)
CheckCompatibility(db, in) == Check(db, Key(in), in.compatibility, in.data)
GetLatestSchema(db, in) == Read(db, Key(in), Latest(db, Key(in)))
GetSchema(db, in) == Read(db, Key(in), in.version_id)
ListVersions(db, in) ==
    Reply(db, [versions |-> {v \in Numbers : db.versions[Key(in)][v] # Nil}])
GetSchemaMetadata(db, in) ==
    IF db.schemas[Key(in)] = Nil THEN Refuse(db, "NotFound")
    ELSE Reply(db, MetadataToProto(db.schemas[Key(in)]))
UpdateSchemaMetadata(db, in) ==
    IF db.schemas[Key(in)] = Nil THEN Refuse(db, "NotFound")
    ELSE LET meta == [db.schemas[Key(in)] EXCEPT !.compatibility = in.compatibility]
         IN  Reply([db EXCEPT !.schemas[Key(in)] = meta], MetadataToProto(meta))
DeleteSchema(db, in) ==
    Reply([db EXCEPT !.schemas[Key(in)] = Nil, !.versions[Key(in)] = NoFiles], Success)
DeleteVersion(db, in) ==
    Reply([db EXCEPT !.versions[Key(in)] =
             [v \in Numbers |-> IF v = in.version_id THEN Nil ELSE @[v]]], Success)

\* Service.Search and its two queries: the latest version of every schema, or,
\* with a version or history, all of them or the one asked for.
Search(db, in) ==
    LET version == IF in.version \in [version_id : VersionIds] THEN in.version.version_id ELSE 0
        history == in.version \in [history : {TRUE}]
        Asked(k, v) ==
            /\ in.namespace_id \in {Blank, k[1]} /\ in.schema_id \in {Blank, k[2]}
            /\ IF version = 0 /\ ~history THEN v = Latest(db, k) ELSE version \in {0, v}
        hits == {h \in [namespace_id : NamespaceIds, schema_id : SchemaIds, version_id : Numbers] :
                   LET file == db.versions[Key(h)][h.version_id]
                   IN  Asked(Key(h), h.version_id) /\ file # Nil /\ <<in.query, file>> \in Matches}
    IN  IF \/ in.query = Blank
           \/ in.schema_id # Blank /\ in.namespace_id = Blank
           \/ version > 0 /\ in.schema_id = Blank
           \/ <<in.query, Nil>> \in Matches
        THEN Refuse(db, "Unknown")
        ELSE Reply(db, [hits |-> hits, meta |-> [total |-> Cardinality(hits)]])

\* The routes that are not generated.  Headers are texts, and may be missing.
HTTPUpload(db, in) == Create(db, Key(in), in.format, in.compatibility, in.data)
HTTPCheckCompatibility(db, in) == Check(db, Key(in), in.compatibility, in.data)
HTTPLatestSchema(db, in) == Read(db, Key(in), Latest(db, Key(in)))
HTTPGetSchema(db, in) ==
    IF in.version_id = Nil THEN Refuse(db, "InvalidArgument") ELSE Read(db, Key(in), in.version_id)

-----------------------------------------------------------------------------
(***************************************************************************)
(* gRPC: the interceptor and the method handlers.                          *)
(***************************************************************************)

\* validateMessage: a required string or file is not empty.  A required enum
\* has a declared value, and UNSPECIFIED is one.
Missing(method, in) == \E f \in RequiredFields(method) : in[f] \in {Blank, Empty}

DispatchNamespace(db, method, in) ==
    CASE method = "ListNamespaces" -> ListNamespaces(db)
      [] method = "GetNamespace" -> GetNamespace(db, in)
      [] method = "CreateNamespace" -> CreateNamespace(db, in)
      [] method = "UpdateNamespace" -> UpdateNamespace(db, in)
      [] method = "DeleteNamespace" -> DeleteNamespace(db, in)
      [] method = "ListSchemas" -> ListSchemas(db, in)

DispatchSchema(db, method, in) ==
    CASE method = "CreateSchema" -> CreateSchema(db, in)
      [] method = "CheckCompatibility" -> CheckCompatibility(db, in)
      [] method = "GetSchemaMetadata" -> GetSchemaMetadata(db, in)
      [] method = "UpdateSchemaMetadata" -> UpdateSchemaMetadata(db, in)
      [] method = "GetLatestSchema" -> GetLatestSchema(db, in)
      [] method = "DeleteSchema" -> DeleteSchema(db, in)
      [] method = "GetSchema" -> GetSchema(db, in)
      [] method = "ListVersions" -> ListVersions(db, in)
      [] method = "DeleteVersion" -> DeleteVersion(db, in)
      [] method = "Search" -> Search(db, in)

NamespaceMethods == {"ListNamespaces", "GetNamespace", "CreateNamespace", "UpdateNamespace",
                     "DeleteNamespace", "ListSchemas"}

ServeGRPC(db, method, in) ==
    CASE Missing(method, in) -> Refuse(db, "InvalidArgument")
      [] ~Missing(method, in) /\ method \in NamespaceMethods -> DispatchNamespace(db, method, in)
      [] OTHER -> DispatchSchema(db, method, in)

\* HTTP: the hand-written routes.
\* What a route takes from the path, the headers and the body.
UploadRequest ==
    [namespace_id : NamespaceIds, schema_id : SchemaIds, data : Contents,
     format : Schema_Format \cup {Blank, "other"},
     compatibility : Schema_Compatibility \cup {Blank, "other"}]
VersionPath ==
    [namespace_id : NamespaceIds, schema_id : SchemaIds, version_id : VersionIds \cup {Nil}]
RouteRequestOf ==
    [HTTPUpload |-> UploadRequest, HTTPCheckCompatibility |-> UploadRequest,
     HTTPLatestSchema |-> GetLatestSchemaRequest, HTTPGetSchema |-> VersionPath]
Routes == DOMAIN RouteRequestOf
ServeRoute(db, route, in) ==
    CASE route = "HTTPUpload" -> HTTPUpload(db, in)
      [] route = "HTTPCheckCompatibility" -> HTTPCheckCompatibility(db, in)
      [] route = "HTTPLatestSchema" -> HTTPLatestSchema(db, in)
      [] route = "HTTPGetSchema" -> HTTPGetSchema(db, in)

-----------------------------------------------------------------------------
(***************************************************************************)
(* The gateway: the message that a request_ function makes of the path and *)
(* the body of an HTTP request, or Nil when it does not decode.  A body is *)
(* a message, Nil (not JSON, or an unknown name) or NoBody.                *)
(***************************************************************************)
NoBody == <<>>
Decoded(body, zero) == IF body = NoBody THEN zero ELSE body
ZeroNamespace ==
    [id |-> Blank, format |-> "FORMAT_UNSPECIFIED", compatibility |-> "COMPATIBILITY_UNSPECIFIED"]
SchemaPath(path) == [namespace_id |-> path.namespace_id, schema_id |-> path.schema_id]

request_ListNamespaces(path, body) == NoFields
request_GetNamespace(path, body) == [id |-> path.id]
request_CreateNamespace(path, body) == Decoded(body, ZeroNamespace)
\* The id of the path overrides the body's.
request_UpdateNamespace(path, body) ==
    LET m == Decoded(body, ZeroNamespace) IN IF m = Nil THEN Nil ELSE [m EXCEPT !.id = path.id]
request_DeleteNamespace(path, body) == [id |-> path.id]
request_ListSchemas(path, body) == [id |-> path.id]
request_GetSchemaMetadata(path, body) == SchemaPath(path)
request_UpdateSchemaMetadata(path, body) ==
    LET m == Decoded(body, [compatibility |-> "COMPATIBILITY_UNSPECIFIED"])
    IN  IF m = Nil THEN Nil
        ELSE [namespace_id |-> path.namespace_id, schema_id |-> path.schema_id,
              compatibility |-> m.compatibility]
request_DeleteSchema(path, body) == SchemaPath(path)
request_ListVersions(path, body) == SchemaPath(path)
\* runtime.Int32 refuses what is not a number.
request_DeleteVersion(path, body) ==
    IF path.version_id = Nil THEN Nil
    ELSE [namespace_id |-> path.namespace_id, schema_id |-> path.schema_id,
          version_id |-> path.version_id]
\* The query string; it may set one field of a oneof.
request_Search(path, body) ==
    IF path.version_id # Nil /\ path.history # Nil THEN Nil
    ELSE [namespace_id |-> path.namespace_id, schema_id |-> path.schema_id, query |-> path.query,
          version |-> CASE path.version_id # Nil -> [version_id |-> path.version_id]
                        [] path.history # Nil -> [history |-> path.history]
                        [] OTHER -> Nil]

TranslateNamespace(method, path, body) ==
    CASE method = "ListNamespaces" -> request_ListNamespaces(path, body)
      [] method = "GetNamespace" -> request_GetNamespace(path, body)
      [] method = "CreateNamespace" -> request_CreateNamespace(path, body)
      [] method = "UpdateNamespace" -> request_UpdateNamespace(path, body)
      [] method = "DeleteNamespace" -> request_DeleteNamespace(path, body)
      [] method = "ListSchemas" -> request_ListSchemas(path, body)
TranslateSchema(method, path, body) ==
    CASE method = "GetSchemaMetadata" -> request_GetSchemaMetadata(path, body)
      [] method = "UpdateSchemaMetadata" -> request_UpdateSchemaMetadata(path, body)
      [] method = "DeleteSchema" -> request_DeleteSchema(path, body)
      [] method = "ListVersions" -> request_ListVersions(path, body)
      [] method = "DeleteVersion" -> request_DeleteVersion(path, body)
      [] method = "Search" -> request_Search(path, body)
Translate(method, path, body) ==
    IF method \in NamespaceMethods THEN TranslateNamespace(method, path, body)
    ELSE TranslateSchema(method, path, body)

\* The pattern of a method: what it takes from the path and the query string,
\* and what its body decodes to.
PathOf ==
    [ListNamespaces |-> {NoFields}, GetNamespace |-> GetNamespaceRequest,
     CreateNamespace |-> {NoFields}, UpdateNamespace |-> GetNamespaceRequest,
     DeleteNamespace |-> DeleteNamespaceRequest, ListSchemas |-> ListSchemasRequest,
     GetSchemaMetadata |-> GetSchemaMetadataRequest,
     UpdateSchemaMetadata |-> GetSchemaMetadataRequest,
     DeleteSchema |-> DeleteSchemaRequest, ListVersions |-> ListVersionsRequest,
     DeleteVersion |-> VersionPath,
     Search |-> [namespace_id : NamespaceIds, schema_id : SchemaIds, query : Queries,
                 version_id : VersionIds \cup {Nil}, history : BOOLEAN \cup {Nil}]]
BodyOf(method) ==
    {NoBody} \cup (CASE method \in {"CreateNamespace", "UpdateNamespace"} -> Namespace \cup {Nil}
                   [] method = "UpdateSchemaMetadata" -> [compatibility : Schema_Compatibility] \cup {Nil}
                   [] OTHER -> {})
=============================================================================
