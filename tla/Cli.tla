-------------------------------- MODULE Cli ---------------------------------
(***************************************************************************)
(* The commands of the stencil command line.  A command is a function of   *)
(* its arguments a and of the replies r it has had so far: it makes the    *)
(* next call, or it exits.  What it prints is left out.                    *)
(***************************************************************************)
EXTENDS Api, Sequences

CONSTANT Diffable  \* <<name, content>> : the content, or its message of that
                   \* name, can be shown as a JSON object

Call(method, in) == [kind |-> "call", method |-> method, in |-> in]
Exit(ok) == [kind |-> "exit", code |-> IF ok THEN 0 ELSE 1]

\* A command of one call exits with 0 when the reply has one of the codes.
OneCall(r, method, in, codes) ==
    IF r = <<>> THEN Call(method, in) ELSE Exit(r[1].code \in codes)

-----------------------------------------------------------------------------
\* Namespaces.
listNamespaceCmd(a, r) == OneCall(r, "ListNamespaces", NoFields, {"OK"})
NamespaceArgs(a) ==
    [id |-> a.id, format |-> FormatValue(a.format), compatibility |-> CompatibilityValue(a.comp)]
createNamespaceCmd(a, r) == OneCall(r, "CreateNamespace", NamespaceArgs(a), {"OK", "AlreadyExists"})
editNamespaceCmd(a, r) == OneCall(r, "UpdateNamespace", NamespaceArgs(a), {"OK", "NotFound"})
viewNamespaceCmd(a, r) == OneCall(r, "GetNamespace", [id |-> a.id], {"OK", "NotFound"})
deleteNamespaceCmd(a, r) ==
    IF a.confirm # a.id THEN Exit(TRUE)
    ELSE OneCall(r, "DeleteNamespace", [id |-> a.id], {"OK", "NotFound"})

\* Schemas.  An argument data = Nil is a file that cannot be read.
SchemaArgs(a) == [namespace_id |-> a.namespace, schema_id |-> a.id]
VersionArgs(a, v) == [namespace_id |-> a.namespace, schema_id |-> a.id, version_id |-> v]

\* Mutant: every reply is taken for a success.
createSchemaCmdIgnoresErrors(a, r) ==
    IF a.data = Nil THEN Exit(FALSE)
    ELSE OneCall(r, "CreateSchema",
                 [namespace_id |-> a.namespace, schema_id |-> a.id, data |-> a.data,
                  format |-> FormatValue(a.format), compatibility |-> CompatibilityValue(a.comp)],
                 Codes)

createSchemaCmd(a, r) ==
    IF a.data = Nil THEN Exit(FALSE)
    ELSE OneCall(r, "CreateSchema",
                 [namespace_id |-> a.namespace, schema_id |-> a.id, data |-> a.data,
                  format |-> FormatValue(a.format), compatibility |-> CompatibilityValue(a.comp)],
                 {"OK", "AlreadyExists"})
checkSchemaCmd(a, r) ==
    IF a.data = Nil THEN Exit(FALSE)
    ELSE OneCall(r, "CheckCompatibility",
                 [namespace_id |-> a.namespace, schema_id |-> a.id, data |-> a.data,
                  compatibility |-> CompatibilityValue(a.comp)], {"OK"})
listSchemaCmd(a, r) == OneCall(r, "ListSchemas", [id |-> a.namespace], {"OK"})
infoSchemaCmd(a, r) == OneCall(r, "GetSchemaMetadata", SchemaArgs(a), {"OK", "NotFound"})
versionSchemaCmd(a, r) == OneCall(r, "ListVersions", SchemaArgs(a), {"OK"})
editSchemaCmd(a, r) ==
    OneCall(r, "UpdateSchemaMetadata",
            [namespace_id |-> a.namespace, schema_id |-> a.id,
             compatibility |-> CompatibilityValue(a.comp)], {"OK"})
\* Version 0 is the flag that was not given.
deleteSchemaCmd(a, r) ==
    IF a.version = 0 THEN OneCall(r, "DeleteSchema", SchemaArgs(a), {"OK"})
    ELSE OneCall(r, "DeleteVersion", VersionArgs(a, a.version), {"OK"})

-----------------------------------------------------------------------------
\* Two calls: the file, then the metadata it is read with.
fetchSchemaAndMeta(a, r) ==
    CASE r = <<>> -> IF a.version # 0 THEN Call("GetSchema", VersionArgs(a, a.version))
                     ELSE Call("GetLatestSchema", SchemaArgs(a))
      [] Len(r) = 1 -> IF r[1].code = "OK" THEN Call("GetSchemaMetadata", SchemaArgs(a)) ELSE Exit(FALSE)
      [] Len(r) = 2 -> IF r[2].code = "OK"
                       THEN [kind |-> "fetched", data |-> r[1].out.data, format |-> r[2].out.format]
                       ELSE Exit(FALSE)

downloadSchemaCmd(a, r) ==
    LET f == fetchSchemaAndMeta(a, r) IN IF f.kind = "fetched" THEN Exit(a.writable) ELSE f
\* What printProtoSchema returns is dropped.
printSchemaCmd(a, r) ==
    LET f == fetchSchemaAndMeta(a, r) IN IF f.kind = "fetched" THEN Exit(TRUE) ELSE f
graphSchemaCmd(a, r) ==
    LET f == fetchSchemaAndMeta(a, r)
    IN  IF f.kind = "fetched"
        THEN Exit(f.format # "FORMAT_PROTOBUF" \/ (<<f.format, f.data>> \in Parses /\ a.writable))
        ELSE f

\* The metadata, then the two versions; protobuf needs the name of a message.
diffSchemaCmd(a, r) ==
    LET name == IF r[1].out.format = "FORMAT_PROTOBUF" THEN a.fullname ELSE Nil
        Shown(i) == r[i].code = "OK" /\ <<name, r[i].out.data>> \in Diffable
        shown == IF name = Nil THEN r[2].code = "OK" ELSE Shown(2)
    IN  CASE r = <<>> -> Call("GetSchemaMetadata", SchemaArgs(a))
          [] Len(r) = 1 -> IF r[1].code = "OK" /\ name # Blank
                           THEN Call("GetSchema", VersionArgs(a, a.earlier)) ELSE Exit(FALSE)
          [] Len(r) = 2 -> IF shown THEN Call("GetSchema", VersionArgs(a, a.later)) ELSE Exit(FALSE)
          [] Len(r) = 3 -> Exit(Shown(2) /\ Shown(3))

SearchCmd(a, r) ==
    IF a.id # Blank /\ a.namespace = Blank THEN Exit(TRUE)
    ELSE OneCall(r, "Search",
                 [namespace_id |-> a.namespace, schema_id |-> a.id, query |-> a.query,
                  version |-> CASE a.version # 0 -> [version_id |-> a.version]
                                [] a.version = 0 /\ a.history -> [history |-> TRUE]
                                [] OTHER -> Nil], {"OK"})

-----------------------------------------------------------------------------
RunE(name, a, r) ==
    CASE name = "namespace list" -> listNamespaceCmd(a, r)
      [] name = "namespace create" -> createNamespaceCmd(a, r)
      [] name = "namespace edit" -> editNamespaceCmd(a, r)
      [] name = "namespace view" -> viewNamespaceCmd(a, r)
      [] name = "namespace delete" -> deleteNamespaceCmd(a, r)
      [] name = "schema create" -> createSchemaCmd(a, r)
      [] name = "schema check" -> checkSchemaCmd(a, r)
      [] name = "schema list" -> listSchemaCmd(a, r)
      [] name = "schema info" -> infoSchemaCmd(a, r)
      [] name = "schema version" -> versionSchemaCmd(a, r)
      [] name = "schema edit" -> editSchemaCmd(a, r)
      [] name = "schema delete" -> deleteSchemaCmd(a, r)
      [] name = "schema download" -> downloadSchemaCmd(a, r)
      [] name = "schema view" -> printSchemaCmd(a, r)
      [] name = "schema graph" -> graphSchemaCmd(a, r)
      [] name = "schema diff" -> diffSchemaCmd(a, r)
      [] name = "search" -> SearchCmd(a, r)

\* What a command does before it connects: two read their file, one has the
\* user type the id again.  search looks at its flags only after it has connected.
ReadFile(a) == IF a.data = Nil THEN Exit(FALSE) ELSE [kind |-> "dial"]
Confirm(a) == IF a.confirm # a.id THEN Exit(TRUE) ELSE [kind |-> "dial"]
BeforeDial(name, a) ==
    CASE name \in {"schema create", "schema check"} -> ReadFile(a)
      [] name = "namespace delete" -> Confirm(a)
      [] OTHER -> [kind |-> "dial"]

\* The arguments and flags that a command looks at; a format or a mode is a text.
Texts == Schema_Format \cup Schema_Compatibility \cup {Blank, "other"}
SchemaFlags ==
    [namespace : NamespaceIds, id : SchemaIds, version : VersionIds, writable : BOOLEAN]
ArgsOf(name) ==
    CASE name = "namespace list" -> {Nil}
      [] name \in {"namespace create", "namespace edit"} ->
           [id : NamespaceIds, format : Texts, comp : Texts]
      [] name = "namespace view" -> [id : NamespaceIds]
      [] name = "namespace delete" -> [id : NamespaceIds, confirm : NamespaceIds]
      [] name \in {"schema create", "schema check"} ->
           [namespace : NamespaceIds, id : SchemaIds, data : Contents \cup {Nil},
            format : Texts, comp : Texts]
      [] name = "schema list" -> [namespace : NamespaceIds]
      [] name \in {"schema info", "schema version", "schema delete", "schema download", "schema view",
                   "schema graph"} -> SchemaFlags
      [] name = "schema edit" -> [namespace : NamespaceIds, id : SchemaIds, comp : Texts]
      [] name = "schema diff" ->
           [namespace : NamespaceIds, id : SchemaIds, earlier : VersionIds, later : VersionIds,
            fullname : {d[1] : d \in Diffable} \cup {Blank}]
      [] name = "search" ->
           [namespace : NamespaceIds, id : SchemaIds, query : Queries, version : VersionIds,
            history : BOOLEAN]
CommandNames ==
    {"namespace list", "namespace create", "namespace edit", "namespace view", "namespace delete",
     "schema create", "schema check", "schema list", "schema info", "schema version", "schema edit",
     "schema delete", "schema download", "schema view", "schema graph", "schema diff", "search"}
=============================================================================
