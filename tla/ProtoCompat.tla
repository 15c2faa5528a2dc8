---------------------------- MODULE ProtoCompat -----------------------------
(***************************************************************************)
(* The compatibility rules of the three schema formats, and what they      *)
(* guarantee about the whole series of versions of one schema when each    *)
(* upload is checked against the latest version alone.                     *)
(***************************************************************************)
EXTENDS Naturals, Sequences

CONSTANTS
    MessageNames, EnumNames,  \* full names of messages and enums
    FieldNames,    \* names of fields
    JSONName,      \* [FieldNames -> JSON names]; two names may share one
    ValueNames,    \* names of enum values
    Numbers,       \* numbers of fields and enum values
    Kinds,         \* kinds of fields; "message" and "enum" have a type
    Ranges,        \* reserved ranges <<start, end>> that files declare
    Uploads,       \* the schemas that are uploaded
    AvroReads,     \* <<reader, writer>> of the avro library's Compatible
    Modes,         \* compatibility modes the schema may be under
    MaxVersions,   \* bound on the number of versions
    Nil

ASSUME BoundAssumption == MaxVersions \in Nat
ASSUME RangesAssumption == Ranges \subseteq (Nat \X Nat) /\ Numbers \subseteq Nat

Formats == {"FORMAT_PROTOBUF", "FORMAT_AVRO", "FORMAT_JSON"}
Labels == {"optional", "required", "repeated"}
Syntaxes == {"proto2", "proto3"}

(***************************************************************************)
(* Descriptor sets: the messages, nested ones included, and the enums of   *)
(* all files under their full names.  A message's reserved range excludes  *)
(* its end, an enum's includes it.                                         *)
(***************************************************************************)
Field == [name : FieldNames, label : Labels, kind : Kinds, type : MessageNames \cup EnumNames \cup {Nil}]
Message == [syntax : Syntaxes, fields : [Numbers -> Field \cup {Nil}],
            ranges : SUBSET Ranges, names : SUBSET FieldNames]
Enum == [values : [ValueNames -> Numbers \cup {Nil}],
         ranges : SUBSET Ranges, names : SUBSET ValueNames]
Files == [messages : [MessageNames -> Message \cup {Nil}], enums : [EnumNames -> Enum \cup {Nil}]]

ASSUME NilAssumption ==
    Nil \notin Field /\ Nil \notin Message /\ Nil \notin Enum /\ Nil \notin Numbers

Has(ranges, n) == \E r \in ranges : r[1] <= n /\ n < r[2]

\* Mutant: the end is excluded as in a message.
HasEnumNumberBelowEnd(ranges, n) == \E r \in ranges : r[1] <= n /\ n < r[2]
HasEnumNumber(ranges, n) == \E r \in ranges : r[1] <= n /\ n <= r[2]

\* What protodesc.NewFiles checks: nothing reserved is declared, no name is
\* declared twice, and no range is empty.
WellFormedMessage(m) ==
    /\ \A r \in m.ranges : r[1] < r[2]
    /\ \A n \in Numbers : m.fields[n] # Nil =>
         /\ ~Has(m.ranges, n) /\ m.fields[n].name \notin m.names
         /\ \A k \in Numbers : m.fields[k] # Nil /\ m.fields[k].name = m.fields[n].name => k = n
WellFormedEnum(e) ==
    /\ \A r \in e.ranges : r[1] <= r[2]
    /\ \A v \in ValueNames : e.values[v] # Nil =>
         v \notin e.names /\ ~HasEnumNumber(e.ranges, e.values[v])
WellFormed(f) ==
    /\ \A m \in MessageNames : f.messages[m] # Nil => WellFormedMessage(f.messages[m])
    /\ \A e \in EnumNames : f.enums[e] # Nil => WellFormedEnum(f.enums[e])

\* A parsed schema: its format and its content.
IsProto(s) == s.format = "FORMAT_PROTOBUF"

ASSUME UploadsAssumption ==
    \A s \in Uploads :
        /\ s.format \in Formats
        /\ IsProto(s) => s.value \in Files /\ WellFormed(s.value)

-----------------------------------------------------------------------------
(***************************************************************************)
(* compareSchemas: the kinds of differences between two descriptor sets.   *)
(***************************************************************************)
Found(kind, condition) == IF condition THEN {kind} ELSE {}

CompareFields(c, p) ==
    Found("fieldNameChange", JSONName[c.name] # JSONName[p.name])
    \cup Found("fieldLabelChange", c.label # p.label)
    \cup Found("fieldKindChange", c.kind # p.kind)
    \cup Found("fieldTypeChange",
               c.kind = p.kind /\ p.kind \in {"message", "enum"} /\ c.type # p.type)

FieldDeleted(c, p, n) == p.fields[n] # Nil /\ c.fields[n] = Nil

\* Only the two ends of a previous range are looked up.
CompareMessages(c, p) ==
    Found("nonInclusiveReservedRange",
          \E r \in p.ranges : ~(Has(c.ranges, r[1]) /\ Has(c.ranges, r[2] - 1)))
    \cup Found("nonInclusiveReservedNames", \E x \in p.names : x \notin c.names)
    \cup Found("fieldDelete", \E n \in Numbers : FieldDeleted(c, p, n))
    \cup Found("fieldDeleteWithoutReservedNumber",
               \E n \in Numbers : FieldDeleted(c, p, n) /\ ~Has(c.ranges, n))
    \cup Found("fieldDeleteWithoutReservedName",
               \E n \in Numbers : FieldDeleted(c, p, n) /\ p.fields[n].name \notin c.names)
    \cup UNION {CompareFields(c.fields[n], p.fields[n]) :
                  n \in {k \in Numbers : p.fields[k] # Nil /\ c.fields[k] # Nil}}

ValueDeleted(c, p, v) == p.values[v] # Nil /\ c.values[v] = Nil

CompareEnums(c, p) ==
    Found("nonInclusiveReservedRange",
          \E r \in p.ranges : ~(HasEnumNumber(c.ranges, r[1]) /\ HasEnumNumber(c.ranges, r[2])))
    \cup Found("nonInclusiveReservedNames", \E x \in p.names : x \notin c.names)
    \cup Found("enumValueDelete", \E v \in ValueNames : ValueDeleted(c, p, v))
    \cup Found("enumValueDeleteWithoutReservedNumber",
               \E v \in ValueNames : ValueDeleted(c, p, v) /\ ~HasEnumNumber(c.ranges, p.values[v]))
    \cup Found("enumValueDeleteWithoutReservedName",
               \E v \in ValueNames : ValueDeleted(c, p, v) /\ v \notin c.names)
    \cup Found("enumValueNumberChange",
               \E v \in ValueNames : /\ p.values[v] # Nil /\ c.values[v] # Nil
                                     /\ c.values[v] # p.values[v])

MessageDiffs(c, p) ==
    IF c = Nil THEN {"messageDelete"}
    ELSE Found("syntaxChange", c.syntax # p.syntax) \cup CompareMessages(c, p)
EnumDiffs(c, p) == IF c = Nil THEN {"enumDelete"} ELSE CompareEnums(c, p)

CompareSchemas(c, p) ==
    (UNION {MessageDiffs(c.messages[m], p.messages[m]) : m \in {x \in MessageNames : p.messages[x] # Nil}})
    \cup (UNION {EnumDiffs(c.enums[e], p.enums[e]) : e \in {x \in EnumNames : p.enums[x] # Nil}})

-----------------------------------------------------------------------------
\* The differences each mode refuses.
AlwaysRefused ==
    {"messageDelete", "nonInclusiveReservedRange", "nonInclusiveReservedNames", "fieldNameChange",
     "fieldLabelChange", "fieldKindChange", "fieldTypeChange", "enumDelete",
     "enumValueNumberChange", "syntaxChange"}
BackwardRefused == AlwaysRefused \cup {"fieldDelete", "enumValueDelete"}

\* Mutant: a deleted field need not be reserved by number.
ForwardRefusedByName ==
    AlwaysRefused \cup {"fieldDeleteWithoutReservedName", "enumValueDeleteWithoutReservedNumber",
                        "enumValueDeleteWithoutReservedName"}

ForwardRefused ==
    AlwaysRefused \cup {"fieldDeleteWithoutReservedNumber", "fieldDeleteWithoutReservedName",
                        "enumValueDeleteWithoutReservedNumber", "enumValueDeleteWithoutReservedName"}

\* Mutant: the list of FULL is the list of FORWARD.
FullRefusedAsForward == ForwardRefused
FullRefused == AlwaysRefused \cup {"fieldDelete", "enumValueDelete"}

ProtoAccepts(c, p, refused) == IsProto(p) /\ CompareSchemas(c.value, p.value) \cap refused = {}

\* The ParsedSchema of each format.  Protobuf schemas have a list for each
\* question; the others ask Forward of the other schema, and Full of both.  JSON
\* schemas are never compatible.
ProtobufIsBackward(c, p) == ProtoAccepts(c, p, BackwardRefused)
ProtobufIsForward(c, p) == ProtoAccepts(c, p, ForwardRefused)
ProtobufIsFull(c, p) == ProtoAccepts(c, p, FullRefused)

\* Mutant: avro schemas do not look at the other's format.
AvroIsBackwardAnyFormat(c, p) == p.format = c.format => <<c.value, p.value>> \in AvroReads

AvroIsBackward(c, p) == p.format = c.format /\ <<c.value, p.value>> \in AvroReads
JsonIsBackward(c, p) == FALSE

IsBackwardCompatible(c, p) ==
    CASE IsProto(c) -> ProtobufIsBackward(c, p)
      [] c.format = "FORMAT_AVRO" -> AvroIsBackward(c, p)
      [] c.format = "FORMAT_JSON" -> JsonIsBackward(c, p)
IsForwardCompatible(c, p) ==
    IF IsProto(c) THEN ProtobufIsForward(c, p) ELSE IsBackwardCompatible(p, c)
IsFullCompatible(c, p) ==
    IF IsProto(c) THEN ProtobufIsFull(c, p)
    ELSE IsForwardCompatible(c, p) /\ IsBackwardCompatible(c, p)

BackwardModes == {"COMPATIBILITY_BACKWARD", "COMPATIBILITY_BACKWARD_TRANSITIVE"}
ForwardModes == {"COMPATIBILITY_FORWARD", "COMPATIBILITY_FORWARD_TRANSITIVE"}
FullModes == {"COMPATIBILITY_FULL", "COMPATIBILITY_FULL_TRANSITIVE"}
TransitiveModes == {"COMPATIBILITY_BACKWARD_TRANSITIVE", "COMPATIBILITY_FORWARD_TRANSITIVE",
                    "COMPATIBILITY_FULL_TRANSITIVE"}
CheckedModes == BackwardModes \cup ForwardModes \cup FullModes

\* backwardStrategy, forwardStrategy and fullStrategy.
Strategy(compatibility, c, p) ==
    CASE compatibility \in BackwardModes -> IsBackwardCompatible(c, p)
      [] compatibility \in ForwardModes -> IsForwardCompatible(c, p)
      [] compatibility \in FullModes -> IsFullCompatible(c, p)

\* getCompatibilityChecker: validateAll looks at every previous schema,
\* validateLatest at the first; any other mode accepts everything.
CheckerAccepts(compatibility, c, prevs) ==
    CASE compatibility \in TransitiveModes ->
           \A i \in DOMAIN prevs : Strategy(compatibility, c, prevs[i])
      [] compatibility \in CheckedModes \ TransitiveModes ->
           prevs # <<>> => Strategy(compatibility, c, prevs[1])
      [] OTHER -> TRUE

-----------------------------------------------------------------------------
VARIABLES mode, versions   \* the mode the schema is under, its versions in order

vars == <<mode, versions>>
Latest == versions[Len(versions)]

Init == mode \in Modes /\ versions = <<>>

\* Mutant: the check is against the first version.
PreviousFirst == IF versions = <<>> THEN <<>> ELSE <<versions[1]>>

\* checkCompatibility: whatever the mode, the latest version is the only one
\* the checker is given, and none if there is none.
Previous == IF versions = <<>> THEN <<>> ELSE <<Latest>>

\* An upload becomes the latest version, or is refused and changes nothing.
Upload(s) ==
    /\ Len(versions) < MaxVersions
    /\ versions' = IF CheckerAccepts(mode, s, Previous) THEN Append(versions, s) ELSE versions
    /\ UNCHANGED mode

\* The run's versions are used up.
Quiet == Len(versions) = MaxVersions /\ UNCHANGED vars

Next == (\E s \in Uploads : Upload(s)) \/ Quiet

Spec == Init /\ [][Next]_vars

-----------------------------------------------------------------------------
(***************************************************************************)
(* Properties.                                                             *)
(***************************************************************************)
\* Every version is one of the uploads.
TypeOK == mode \in Modes /\ versions \in Seq(Uploads) /\ Len(versions) <= MaxVersions

\* Under every mode that checks, a schema keeps its format (verify of the
\* formats); JSON schemas never get a second version (rules.md, feature
\* support matrix).
FormatsStay ==
    mode \in CheckedModes =>
        \A i, j \in DOMAIN versions :
            /\ versions[i].format = versions[j].format
            /\ i # j => versions[i].format # "FORMAT_JSON"

\* The field with number n of message m in version i.
FieldAt(i, m, n) ==
    IF IsProto(versions[i]) /\ versions[i].value.messages[m] # Nil
    THEN versions[i].value.messages[m].fields[n] ELSE Nil
\* The number of value v of enum e in version i.
ValueAt(i, e, v) ==
    IF IsProto(versions[i]) /\ versions[i].value.enums[e] # Nil
    THEN versions[i].value.enums[e].values[v] ELSE Nil

\* No reserved range has a number strictly between its ends.
NoInterior(s) ==
    IsProto(s) =>
        /\ \A m \in MessageNames : s.value.messages[m] # Nil =>
             \A r \in s.value.messages[m].ranges : r[2] <= r[1] + 2
        /\ \A e \in EnumNames : s.value.enums[e] # Nil =>
             \A r \in s.value.enums[e].ranges : r[2] <= r[1] + 1
ShortRanges == \A i \in DOMAIN versions : NoInterior(versions[i])

SameMeaning(f, g) ==
    /\ JSONName[f.name] = JSONName[g.name] /\ f.label = g.label /\ f.kind = g.kind
    /\ f.kind \in {"message", "enum"} => f.type = g.type

\* A field number and an enum value mean the same in every version that
\* declares them, however many versions lie between and although each was
\* compared with its predecessor only; under BACKWARD and FULL they are
\* declared in every later version.  Under FORWARD this rests on the reserved
\* numbers, and needs that no range has an interior (compareMessages,
\* compareFields, compareEnums).
MeaningsKept ==
    mode \in CheckedModes /\ (mode \in ForwardModes => ShortRanges) =>
        \A i, j \in DOMAIN versions : i < j =>
            /\ \A m \in MessageNames, n \in Numbers :
                 FieldAt(i, m, n) # Nil =>
                    \/ FieldAt(j, m, n) # Nil /\ SameMeaning(FieldAt(i, m, n), FieldAt(j, m, n))
                    \/ FieldAt(j, m, n) = Nil /\ mode \in ForwardModes
            /\ \A e \in EnumNames, v \in ValueNames :
                 ValueAt(i, e, v) # Nil =>
                    \/ ValueAt(j, e, v) = ValueAt(i, e, v)
                    \/ ValueAt(j, e, v) = Nil /\ mode \in ForwardModes

\* BACKWARD_TRANSITIVE and FULL_TRANSITIVE, whose checker is given the latest
\* version only, accept what the check against every earlier version would, for
\* protobuf schemas whose reserved ranges have no interior (checkCompatibility,
\* validateAll).  FORWARD_TRANSITIVE does not: after a rename that keeps the
\* JSON name, deleting the field reserves the new name and not the old one.
TransitiveByLatest ==
    mode \in TransitiveModes \ ForwardModes /\ ShortRanges =>
        \A i, j \in DOMAIN versions :
            i < j /\ IsProto(versions[j]) => Strategy(mode, versions[j], versions[i])

\* FULL accepts exactly what BACKWARD and FORWARD both accept, in every format,
\* although protobuf has a list of its own for it (fullCompatibility,
\* IsFullCompatible).  Any upload can be the first version.
FullIsBoth ==
    Len(versions) = 1 =>
        \A s \in Uploads :
            IsFullCompatible(s, Latest)
                <=> IsForwardCompatible(s, Latest) /\ IsBackwardCompatible(s, Latest)

\* c has everything p has, unchanged, and maybe more.
ExtendsMessage(c, p) ==
    /\ c.syntax = p.syntax /\ p.ranges \subseteq c.ranges /\ p.names \subseteq c.names
    /\ \A n \in Numbers : p.fields[n] # Nil => c.fields[n] = p.fields[n]
ExtendsEnum(c, p) ==
    /\ p.ranges \subseteq c.ranges /\ p.names \subseteq c.names
    /\ \A v \in ValueNames : p.values[v] # Nil => c.values[v] = p.values[v]
ExtendsFiles(c, p) ==
    /\ \A m \in MessageNames : p.messages[m] # Nil =>
         c.messages[m] # Nil /\ ExtendsMessage(c.messages[m], p.messages[m])
    /\ \A e \in EnumNames : p.enums[e] # Nil =>
         c.enums[e] # Nil /\ ExtendsEnum(c.enums[e], p.enums[e])

\* Adding messages, fields, enums, values and reservations is accepted under
\* every mode, and so is the upload of the same content again (schema.go:
\* "Allowed changes: field addition").
AdditionsAccepted ==
    Len(versions) = 1 /\ IsProto(Latest) =>
        \A s \in Uploads, a \in CheckedModes :
            IsProto(s) /\ ExtendsFiles(s.value, Latest.value) => CheckerAccepts(a, s, Previous)
=============================================================================
