------------------------------ MODULE MCServer ------------------------------
(***************************************************************************)
(* Instances of Server for TLC.  p1 and p2 are descriptor sets, p2 is p1   *)
(* with a field deleted and reserved; a1 is an avro schema; the empty file *)
(* is a descriptor set without files.                                      *)
(***************************************************************************)
EXTENDS Server

CONSTANTS n1, s1, p1, p2, a1, q1, M1, c1, h1

B == "COMPATIBILITY_BACKWARD"
F == "COMPATIBILITY_FORWARD"
Pb == "FORMAT_PROTOBUF"
Av == "FORMAT_AVRO"

Parsed == {<<Pb, p1>>, <<Pb, p2>>, <<Pb, Empty>>, <<Av, a1>>}
\* Additions are accepted in every mode, the deletion in one.
Accepted == {<<F, p2, p1>>} \cup {<<m, c, Empty>> : m \in {B, F}, c \in {p1, p2}}
            \cup {<<m, c, c>> : m \in {B, F}, c \in {p1, p2, a1, Empty}}
Matched == {<<q1, p1>>}
Shown == {<<M1, p1>>, <<M1, p2>>, <<Nil, a1>>}
Versions == -1..MaxVersion

WithNamespace ==
    [EmptyDatabase EXCEPT !.namespaces[n1] = [format |-> Pb, compatibility |-> F]]
WithSchema ==
    [WithNamespace EXCEPT !.schemas[<<n1, s1>>] = [format |-> Pb, compatibility |-> F],
                          !.versions[<<n1, s1>>][1] = p1]

C(name, args) == [name |-> name, args |-> args]
OnSchema(v) == [namespace |-> n1, id |-> s1, version |-> v, writable |-> TRUE]
Upload(data, format, comp) ==
    [namespace |-> n1, id |-> s1, data |-> data, format |-> format, comp |-> comp]
NamespaceArg(id, format, comp) == [id |-> id, format |-> format, comp |-> comp]

ReadCommands ==
    {C("namespace list", Nil), C("namespace view", [id |-> n1]),
     C("schema list", [namespace |-> n1]), C("schema info", OnSchema(0)),
     C("schema version", OnSchema(0)), C("schema check", Upload(p2, Blank, F)),
     C("schema download", OnSchema(0)), C("schema view", OnSchema(1)),
     C("schema graph", OnSchema(2)),
     C("schema diff", [namespace |-> n1, id |-> s1, earlier |-> 1, later |-> 2, fullname |-> M1]),
     C("search", [namespace |-> Blank, id |-> Blank, query |-> q1, version |-> 0, history |-> FALSE]),
     C("search", [namespace |-> n1, id |-> s1, query |-> q1, version |-> -1, history |-> FALSE]),
     C("search", [namespace |-> Blank, id |-> s1, query |-> q1, version |-> 0, history |-> TRUE])}
WriteCommands ==
    {C("namespace create", NamespaceArg(n1, Pb, B)), C("namespace create", NamespaceArg(Blank, Pb, B)),
     C("namespace edit", NamespaceArg(n1, Av, "other")),
     C("namespace delete", [id |-> n1, confirm |-> n1]), C("namespace delete", [id |-> n1, confirm |-> Blank]),
     C("schema create", Upload(p2, Pb, F)), C("schema create", Upload(a1, Av, B)),
     C("schema create", Upload(Empty, Pb, Blank)), C("schema create", Upload(Nil, Pb, F)),
     C("schema edit", [namespace |-> n1, id |-> s1, comp |-> B]),
     C("schema delete", OnSchema(0)), C("schema delete", OnSchema(1))}
AllCommands == ReadCommands \cup WriteCommands

R(method, path, body) == [via |-> "route", method |-> method, path |-> path, body |-> body]
G(method, path, body) == [via |-> "gateway", method |-> method, path |-> path, body |-> body]
SchemaPart == [namespace_id |-> n1, schema_id |-> s1]
VersionPart(v) == [namespace_id |-> n1, schema_id |-> s1, version_id |-> v]
Sent(data, format, mode) ==
    [namespace_id |-> n1, schema_id |-> s1, data |-> data, format |-> format, compatibility |-> mode]
Body(id, format, mode) == [id |-> id, format |-> format, compatibility |-> mode]
Query(v, h) == [namespace_id |-> n1, schema_id |-> s1, query |-> q1, version_id |-> v, history |-> h]

Uploads ==
    {R("HTTPUpload", Sent(p1, Blank, Blank), Nil), R("HTTPUpload", Sent(p1, Pb, B), Nil),
     R("HTTPUpload", Sent(p2, Blank, Blank), Nil), R("HTTPUpload", Sent(p1, Av, B), Nil),
     R("HTTPUpload", Sent(a1, Av, "other"), Nil), R("HTTPUpload", Sent(Empty, Blank, Blank), Nil)}
AllHttpRequests ==
    Uploads \cup
    {R("HTTPCheckCompatibility", Sent(p2, Blank, B), Nil), R("HTTPLatestSchema", SchemaPart, Nil),
     R("HTTPGetSchema", VersionPart(1), Nil), R("HTTPGetSchema", VersionPart(Nil), Nil),
     G("ListNamespaces", NoFields, NoBody), G("GetNamespace", [id |-> n1], NoBody),
     G("CreateNamespace", NoFields, Body(n1, Pb, F)), G("CreateNamespace", NoFields, NoBody),
     G("UpdateNamespace", [id |-> n1], Body(Blank, Av, B)), G("UpdateNamespace", [id |-> n1], Nil),
     G("DeleteNamespace", [id |-> n1], NoBody), G("ListSchemas", [id |-> n1], NoBody),
     G("GetSchemaMetadata", SchemaPart, NoBody),
     G("UpdateSchemaMetadata", SchemaPart, [compatibility |-> B]),
     G("UpdateSchemaMetadata", SchemaPart, NoBody),
     G("DeleteSchema", SchemaPart, NoBody), G("ListVersions", SchemaPart, NoBody),
     G("DeleteVersion", VersionPart(1), NoBody), G("DeleteVersion", VersionPart(Nil), NoBody),
     G("Search", Query(Nil, TRUE), NoBody), G("Search", Query(1, TRUE), NoBody)}

AnyStart == {EmptyDatabase, WithNamespace, WithSchema}
=============================================================================
