-------------------------- MODULE StencilMessages ---------------------------
(***************************************************************************)
(* The messages of StencilService and its methods.  A message is a record  *)
(* of the fields that code looks at; descriptions, authorities, urls,      *)
(* times, ids of versions and the texts of search results are left out.    *)
(***************************************************************************)
EXTENDS Integers

CONSTANTS
    NamespaceIds, SchemaIds,  \* strings given as ids; Blank is one
    Contents,                 \* contents of schema files; Empty may be one
    Queries,                  \* strings searched for; Blank may be one
    VersionIds,               \* int32 values given or stored as versions
    Blank, Empty,             \* the empty string, the empty file
    Nil                       \* a missing row, an unset field

ASSUME VersionIdsAssumption == VersionIds \subseteq Int /\ 0 \in VersionIds
\* A string that is not set is Blank.
ASSUME BlankAssumption ==
    Blank \in NamespaceIds \cap SchemaIds /\ Nil \notin NamespaceIds \cup SchemaIds \cup Contents \cup {Empty}

Schema_Format == {"FORMAT_UNSPECIFIED", "FORMAT_PROTOBUF", "FORMAT_AVRO", "FORMAT_JSON"}
Schema_Compatibility ==
    {"COMPATIBILITY_UNSPECIFIED", "COMPATIBILITY_BACKWARD", "COMPATIBILITY_BACKWARD_TRANSITIVE",
     "COMPATIBILITY_FORWARD", "COMPATIBILITY_FORWARD_TRANSITIVE", "COMPATIBILITY_FULL",
     "COMPATIBILITY_FULL_TRANSITIVE", "COMPATIBILITY_NONE"}

\* Schema_Format_value and Schema_Compatibility_value map what they do not
\* know to 0.
FormatValue(name) == IF name \in Schema_Format THEN name ELSE "FORMAT_UNSPECIFIED"
CompatibilityValue(name) == IF name \in Schema_Compatibility THEN name ELSE "COMPATIBILITY_UNSPECIFIED"

Namespace == [id : NamespaceIds, format : Schema_Format, compatibility : Schema_Compatibility]
Schema == [name : SchemaIds, format : Schema_Format, compatibility : Schema_Compatibility]

-----------------------------------------------------------------------------
\* A message without fields.
NoFields == <<>>

ListNamespacesRequest == {NoFields}
ListNamespacesResponse == [namespaces : SUBSET Namespace]
GetNamespaceRequest == [id : NamespaceIds]
GetNamespaceResponse == [namespace : Namespace]
CreateNamespaceRequest == Namespace
CreateNamespaceResponse == [namespace : Namespace]
UpdateNamespaceRequest == Namespace
UpdateNamespaceResponse == [namespace : Namespace]
DeleteNamespaceRequest == [id : NamespaceIds]
DeleteNamespaceResponse == [message : {"success"}]

ListSchemasRequest == [id : NamespaceIds]
ListSchemasResponse == [schemas : SUBSET Schema]
GetLatestSchemaRequest == [namespace_id : NamespaceIds, schema_id : SchemaIds]
GetLatestSchemaResponse == [data : Contents]
CreateSchemaRequest ==
    [namespace_id : NamespaceIds, schema_id : SchemaIds, data : Contents,
     format : Schema_Format, compatibility : Schema_Compatibility]
CreateSchemaResponse == [version : VersionIds]
CheckCompatibilityRequest ==
    [namespace_id : NamespaceIds, schema_id : SchemaIds, data : Contents,
     compatibility : Schema_Compatibility]
CheckCompatibilityResponse == {NoFields}
GetSchemaMetadataRequest == [namespace_id : NamespaceIds, schema_id : SchemaIds]
GetSchemaMetadataResponse == [format : Schema_Format, compatibility : Schema_Compatibility]
UpdateSchemaMetadataRequest ==
    [namespace_id : NamespaceIds, schema_id : SchemaIds, compatibility : Schema_Compatibility]
UpdateSchemaMetadataResponse == [format : Schema_Format, compatibility : Schema_Compatibility]
DeleteSchemaRequest == [namespace_id : NamespaceIds, schema_id : SchemaIds]
DeleteSchemaResponse == [message : {"success"}]

ListVersionsRequest == [namespace_id : NamespaceIds, schema_id : SchemaIds]
ListVersionsResponse == [versions : SUBSET VersionIds]
GetSchemaRequest == [namespace_id : NamespaceIds, schema_id : SchemaIds, version_id : VersionIds]
GetSchemaResponse == [data : Contents]
DeleteVersionRequest == [namespace_id : NamespaceIds, schema_id : SchemaIds, version_id : VersionIds]
DeleteVersionResponse == [message : {"success"}]

\* The oneof of version_id and history.
SearchRequest_Version == {Nil} \cup [version_id : VersionIds] \cup [history : BOOLEAN]
SearchRequest ==
    [namespace_id : NamespaceIds, schema_id : SchemaIds, query : Queries,
     version : SearchRequest_Version]
SearchHits == [namespace_id : NamespaceIds, schema_id : SchemaIds, version_id : VersionIds]
SearchMeta == [total : Nat]
SearchResponse == [hits : SUBSET SearchHits, meta : SearchMeta]

-----------------------------------------------------------------------------
\* The service: the request and the response of every method.
RequestOf ==
    [ListNamespaces |-> ListNamespacesRequest, GetNamespace |-> GetNamespaceRequest,
     CreateNamespace |-> CreateNamespaceRequest, UpdateNamespace |-> UpdateNamespaceRequest,
     DeleteNamespace |-> DeleteNamespaceRequest, ListSchemas |-> ListSchemasRequest,
     CreateSchema |-> CreateSchemaRequest, CheckCompatibility |-> CheckCompatibilityRequest,
     GetSchemaMetadata |-> GetSchemaMetadataRequest,
     UpdateSchemaMetadata |-> UpdateSchemaMetadataRequest,
     GetLatestSchema |-> GetLatestSchemaRequest, DeleteSchema |-> DeleteSchemaRequest,
     GetSchema |-> GetSchemaRequest, ListVersions |-> ListVersionsRequest,
     DeleteVersion |-> DeleteVersionRequest, Search |-> SearchRequest]
ResponseOf ==
    [ListNamespaces |-> ListNamespacesResponse, GetNamespace |-> GetNamespaceResponse,
     CreateNamespace |-> CreateNamespaceResponse, UpdateNamespace |-> UpdateNamespaceResponse,
     DeleteNamespace |-> DeleteNamespaceResponse, ListSchemas |-> ListSchemasResponse,
     CreateSchema |-> CreateSchemaResponse, CheckCompatibility |-> CheckCompatibilityResponse,
     GetSchemaMetadata |-> GetSchemaMetadataResponse,
     UpdateSchemaMetadata |-> UpdateSchemaMetadataResponse,
     GetLatestSchema |-> GetLatestSchemaResponse, DeleteSchema |-> DeleteSchemaResponse,
     GetSchema |-> GetSchemaResponse, ListVersions |-> ListVersionsResponse,
     DeleteVersion |-> DeleteVersionResponse, Search |-> SearchResponse]
Methods == DOMAIN RequestOf

\* Mutant: the data of a schema is not annotated.
RequiredFieldsWithoutData(method) ==
    CASE method = "CreateNamespace" -> {"id", "format", "compatibility"}
      [] method = "UpdateNamespace" -> {"format", "compatibility"}
      [] method = "Search" -> {"query"}
      [] OTHER -> {}

\* The fields annotated with field_behavior = REQUIRED.
RequiredFields(method) ==
    CASE method = "CreateNamespace" -> {"id", "format", "compatibility"}
      [] method = "UpdateNamespace" -> {"format", "compatibility"}
      [] method \in {"CreateSchema", "CheckCompatibility"} -> {"data"}
      [] method = "Search" -> {"query"}
      [] OTHER -> {}
=============================================================================
