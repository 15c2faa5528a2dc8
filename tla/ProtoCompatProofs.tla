------------------------- MODULE ProtoCompatProofs --------------------------
(***************************************************************************)
(* What the compatibility rules guarantee, for any names, numbers, ranges, *)
(* uploads and bounds.  The differences of two descriptor sets are first   *)
(* turned into predicates; these are transitive, which is what a series    *)
(* of versions needs that are only compared with their predecessors.       *)
(***************************************************************************)
EXTENDS ProtoCompat, Integers, TLAPS

-----------------------------------------------------------------------------
(***************************************************************************)
(* Steps and types.                                                        *)
(***************************************************************************)

\* Every version is one of the uploads, and there are no more than the bound.
THEOREM TypeCorrect == Spec => []TypeOK
<1>1. Init => TypeOK
  BY BoundAssumption DEF Init, TypeOK
<1>2. TypeOK /\ [Next]_vars => TypeOK'
  BY BoundAssumption DEF TypeOK, Next, Upload, Quiet, vars
<1>. QED
  BY <1>1, <1>2, PTL DEF Spec

\* An upload that is accepted after another version was accepted by the
\* strategy of the mode against the latest version (checkCompatibility).
LEMMA AcceptedByStrategy ==
    ASSUME NEW s, mode \in CheckedModes, versions # <<>>, CheckerAccepts(mode, s, Previous)
    PROVE  Strategy(mode, s, Latest)
<1>1. Previous = <<Latest>> /\ 1 \in DOMAIN <<Latest>> /\ <<Latest>>[1] = Latest /\ <<Latest>> # <<>>
  BY DEF Previous
<1>2. CASE mode \in TransitiveModes
  BY <1>1, <1>2 DEF CheckerAccepts
<1>3. CASE mode \in CheckedModes \ TransitiveModes
  BY <1>1, <1>3 DEF CheckerAccepts
<1>. QED
  BY <1>2, <1>3

\* What a step does: nothing, or one more version, which the strategy has
\* accepted after the latest if there is one.
LEMMA StepAppends ==
    ASSUME TypeOK, [Next]_vars
    PROVE  /\ mode' = mode
           /\ \/ versions' = versions
              \/ \E s \in Uploads :
                    /\ versions' = Append(versions, s)
                    /\ mode \in CheckedModes /\ versions # <<>> => Strategy(mode, s, Latest)
<1>1. CASE UNCHANGED vars
  BY <1>1 DEF vars
<1>2. CASE Quiet
  BY <1>2 DEF Quiet, vars
<1>3. ASSUME NEW s \in Uploads, Upload(s)
      PROVE  /\ mode' = mode
             /\ \/ versions' = versions
                \/ /\ versions' = Append(versions, s)
                   /\ mode \in CheckedModes /\ versions # <<>> => Strategy(mode, s, Latest)
  BY <1>3, AcceptedByStrategy DEF Upload
<1>. QED
  BY <1>1, <1>2, <1>3 DEF Next

\* The latest version is one of the uploads.
LEMMA LatestIsUpload ==
    ASSUME TypeOK, versions # <<>>
    PROVE  Latest \in Uploads /\ Len(versions) \in DOMAIN versions
  BY DEF TypeOK, Latest

\* Pairs of versions after a version was appended: pairs of old ones, or an
\* old one and the new one.
LEMMA PairsAfterAppend ==
    ASSUME TypeOK, NEW s \in Uploads, versions' = Append(versions, s),
           NEW i \in DOMAIN versions', NEW j \in DOMAIN versions', i < j
    PROVE  /\ i \in DOMAIN versions /\ versions'[i] = versions[i] /\ versions[i] \in Uploads
           /\ versions # <<>> /\ Len(versions) \in DOMAIN versions /\ Latest \in Uploads
           /\ \/ j \in DOMAIN versions /\ versions'[j] = versions[j]
              \/ j = Len(versions) + 1 /\ versions'[j] = s /\ i <= Len(versions)
  BY DEF TypeOK, Latest

-----------------------------------------------------------------------------
(***************************************************************************)
(* Formats.                                                                *)
(***************************************************************************)

\* IsBackwardCompatible accepts only the same format, and never JSON.
LEMMA BackwardKeepsFormat ==
    ASSUME NEW c \in Uploads, NEW p \in Uploads, IsBackwardCompatible(c, p)
    PROVE  c.format = p.format /\ c.format # "FORMAT_JSON"
<1>1. CASE IsProto(c)
  <2>1. ProtoAccepts(c, p, BackwardRefused)
    BY <1>1 DEF IsBackwardCompatible, ProtobufIsBackward, IsProto
  <2>. QED
    BY <1>1, <2>1 DEF ProtoAccepts, IsProto
<1>2. CASE c.format = "FORMAT_AVRO"
  <2>1. p.format = c.format /\ <<c.value, p.value>> \in AvroReads
    BY <1>2 DEF IsBackwardCompatible, AvroIsBackward, IsProto
  <2>. QED
    BY <1>2, <2>1
<1>3. CASE c.format = "FORMAT_JSON"
  BY <1>3 DEF IsBackwardCompatible, JsonIsBackward, IsProto
<1>. QED
  BY <1>1, <1>2, <1>3, UploadsAssumption DEF Formats, IsProto

\* Whatever a strategy accepts has the format of what it was compared with,
\* and is not a JSON schema (verify of the formats).
LEMMA AcceptedKeepsFormat ==
    ASSUME NEW a \in CheckedModes, NEW c \in Uploads, NEW p \in Uploads, Strategy(a, c, p)
    PROVE  c.format = p.format /\ c.format # "FORMAT_JSON"
<1>1. c.format \in Formats /\ p.format \in Formats
  BY UploadsAssumption
<1>2. IsBackwardCompatible(c, p) => c.format = p.format /\ c.format # "FORMAT_JSON"
  BY BackwardKeepsFormat
<1>3. IsBackwardCompatible(p, c) => c.format = p.format /\ c.format # "FORMAT_JSON"
  BY BackwardKeepsFormat
<1>4. IsForwardCompatible(c, p) => c.format = p.format /\ c.format # "FORMAT_JSON"
  BY <1>1, <1>3 DEF IsForwardCompatible, ProtobufIsForward, ProtoAccepts, IsProto, Formats
<1>5. IsFullCompatible(c, p) => c.format = p.format /\ c.format # "FORMAT_JSON"
  BY <1>1, <1>2 DEF IsFullCompatible, ProtobufIsFull, ProtoAccepts, IsProto, Formats
<1>6. IsBackwardCompatible(c, p) \/ IsForwardCompatible(c, p) \/ IsFullCompatible(c, p)
  BY DEF Strategy, CheckedModes, BackwardModes, ForwardModes, FullModes
<1>. QED
  BY <1>2, <1>4, <1>5, <1>6

\* Under every mode that checks, all versions of a schema have one format, and
\* a JSON schema has one version: each upload is compared with its predecessor
\* only, and the formats refuse what has another format.
THEOREM FormatsNeverChange == Spec => []FormatsStay
<1>1. Init => FormatsStay
  BY DEF Init, FormatsStay
<1>2. TypeOK /\ FormatsStay /\ [Next]_vars => FormatsStay'
  <2>. SUFFICES ASSUME TypeOK, FormatsStay, [Next]_vars
                PROVE  FormatsStay'
    OBVIOUS
  <2>1. CASE versions' = versions
    BY <2>1, StepAppends DEF FormatsStay
  <2>2. ASSUME NEW s \in Uploads, versions' = Append(versions, s),
               mode \in CheckedModes /\ versions # <<>> => Strategy(mode, s, Latest)
        PROVE  FormatsStay'
    <3>. SUFFICES ASSUME mode \in CheckedModes,
                         NEW i \in DOMAIN versions', NEW j \in DOMAIN versions', i < j
                  PROVE  /\ versions'[i].format = versions'[j].format
                         /\ versions'[i].format # "FORMAT_JSON"
                         /\ versions'[j].format # "FORMAT_JSON"
      BY StepAppends, <2>2 DEF FormatsStay, TypeOK
    <3>1. CASE j \in DOMAIN versions
      BY <3>1, <2>2, PairsAfterAppend DEF FormatsStay, TypeOK
    <3>2. CASE j \notin DOMAIN versions
      <4>1. /\ versions'[i] = versions[i] /\ versions'[j] = s /\ i \in DOMAIN versions
            /\ Len(versions) \in DOMAIN versions /\ Latest \in Uploads /\ versions # <<>>
        BY <3>2, <2>2, PairsAfterAppend
      <4>2. s.format = Latest.format /\ s.format # "FORMAT_JSON"
        BY <2>2, <4>1, AcceptedKeepsFormat
      <4>3. versions[i].format = Latest.format
        BY <4>1 DEF FormatsStay, Latest
      <4>. QED
        BY <4>1, <4>2, <4>3
    <3>. QED
      BY <3>1, <3>2
  <2>. QED
    BY <2>1, <2>2, StepAppends
<1>. QED
  BY <1>1, <1>2, TypeCorrect, PTL DEF Spec

-----------------------------------------------------------------------------
(***************************************************************************)
(* The differences as predicates.                                          *)
(***************************************************************************)

\* What no mode lets change in a message that stays.
MessageAgrees(c, p) ==
    /\ c # Nil /\ c.syntax = p.syntax
    /\ \A r \in p.ranges : Has(c.ranges, r[1]) /\ Has(c.ranges, r[2] - 1)
    /\ \A x \in p.names : x \in c.names
    /\ \A n \in Numbers : p.fields[n] # Nil /\ c.fields[n] # Nil => SameMeaning(p.fields[n], c.fields[n])

\* What no mode lets change in an enum that stays.
EnumAgrees(c, p) ==
    /\ c # Nil
    /\ \A r \in p.ranges : HasEnumNumber(c.ranges, r[1]) /\ HasEnumNumber(c.ranges, r[2])
    /\ \A x \in p.names : x \in c.names
    /\ \A v \in ValueNames : p.values[v] # Nil /\ c.values[v] # Nil => c.values[v] = p.values[v]

\* Two fields without a difference have the same meaning.
LEMMA FieldDifferences ==
    ASSUME NEW c, NEW p
    PROVE  /\ SameMeaning(p, c) => CompareFields(c, p) = {}
           /\ CompareFields(c, p) \cap AlwaysRefused = {} => SameMeaning(p, c)
  BY DEF CompareFields, Found, SameMeaning, AlwaysRefused

\* A message in which nothing of a list that has AlwaysRefused is found agrees.
LEMMA MessageWithoutRefused ==
    ASSUME NEW c, NEW p, NEW R, AlwaysRefused \subseteq R, MessageDiffs(c, p) \cap R = {}
    PROVE  /\ MessageAgrees(c, p)
           /\ "fieldDelete" \in R => \A n \in Numbers : ~FieldDeleted(c, p, n)
           /\ "fieldDeleteWithoutReservedNumber" \in R =>
                \A n \in Numbers : FieldDeleted(c, p, n) => Has(c.ranges, n)
<1>1. c # Nil
  BY DEF MessageDiffs, AlwaysRefused
<1>2. MessageDiffs(c, p) = Found("syntaxChange", c.syntax # p.syntax) \cup CompareMessages(c, p)
  BY <1>1 DEF MessageDiffs
<1>3. c.syntax = p.syntax
  BY <1>2 DEF Found, AlwaysRefused
<1>4. CompareMessages(c, p) \cap R = {}
  BY <1>2
<1>5. \A r \in p.ranges : Has(c.ranges, r[1]) /\ Has(c.ranges, r[2] - 1)
  <2>1. "nonInclusiveReservedRange" \notin CompareMessages(c, p)
    BY <1>4 DEF AlwaysRefused
  <2>. QED
    BY <2>1 DEF CompareMessages, Found
<1>6. \A x \in p.names : x \in c.names
  <2>1. "nonInclusiveReservedNames" \notin CompareMessages(c, p)
    BY <1>4 DEF AlwaysRefused
  <2>. QED
    BY <2>1 DEF CompareMessages, Found
<1>7. ASSUME NEW n \in Numbers, p.fields[n] # Nil, c.fields[n] # Nil
      PROVE  SameMeaning(p.fields[n], c.fields[n])
  <2>1. CompareFields(c.fields[n], p.fields[n]) \subseteq CompareMessages(c, p)
    BY <1>7 DEF CompareMessages
  <2>2. CompareFields(c.fields[n], p.fields[n]) \cap AlwaysRefused = {}
    BY <2>1, <1>4
  <2>. QED
    BY <2>2, FieldDifferences
<1>8. ASSUME "fieldDelete" \in R
      PROVE  \A n \in Numbers : ~FieldDeleted(c, p, n)
  <2>1. "fieldDelete" \notin CompareMessages(c, p)
    BY <1>4, <1>8
  <2>. QED
    BY <2>1 DEF CompareMessages, Found
<1>9. ASSUME "fieldDeleteWithoutReservedNumber" \in R
      PROVE  \A n \in Numbers : FieldDeleted(c, p, n) => Has(c.ranges, n)
  <2>1. "fieldDeleteWithoutReservedNumber" \notin CompareMessages(c, p)
    BY <1>4, <1>9
  <2>. QED
    BY <2>1 DEF CompareMessages, Found
<1>. QED
  BY <1>1, <1>3, <1>5, <1>6, <1>7, <1>8, <1>9 DEF MessageAgrees

\* The same of an enum.
LEMMA EnumWithoutRefused ==
    ASSUME NEW c, NEW p, NEW R, AlwaysRefused \subseteq R, EnumDiffs(c, p) \cap R = {}
    PROVE  /\ EnumAgrees(c, p)
           /\ "enumValueDelete" \in R => \A v \in ValueNames : ~ValueDeleted(c, p, v)
           /\ "enumValueDeleteWithoutReservedName" \in R =>
                \A v \in ValueNames : ValueDeleted(c, p, v) => v \in c.names
<1>1. c # Nil
  BY DEF EnumDiffs, AlwaysRefused
<1>2. CompareEnums(c, p) \cap R = {}
  BY <1>1 DEF EnumDiffs
<1>3. \A r \in p.ranges : HasEnumNumber(c.ranges, r[1]) /\ HasEnumNumber(c.ranges, r[2])
  <2>1. "nonInclusiveReservedRange" \notin CompareEnums(c, p)
    BY <1>2 DEF AlwaysRefused
  <2>. QED
    BY <2>1 DEF CompareEnums, Found
<1>4. \A x \in p.names : x \in c.names
  <2>1. "nonInclusiveReservedNames" \notin CompareEnums(c, p)
    BY <1>2 DEF AlwaysRefused
  <2>. QED
    BY <2>1 DEF CompareEnums, Found
<1>5. \A v \in ValueNames : p.values[v] # Nil /\ c.values[v] # Nil => c.values[v] = p.values[v]
  <2>1. "enumValueNumberChange" \notin CompareEnums(c, p)
    BY <1>2 DEF AlwaysRefused
  <2>. QED
    BY <2>1 DEF CompareEnums, Found
<1>6. ASSUME "enumValueDelete" \in R
      PROVE  \A v \in ValueNames : ~ValueDeleted(c, p, v)
  <2>1. "enumValueDelete" \notin CompareEnums(c, p)
    BY <1>2, <1>6
  <2>. QED
    BY <2>1 DEF CompareEnums, Found
<1>7. ASSUME "enumValueDeleteWithoutReservedName" \in R
      PROVE  \A v \in ValueNames : ValueDeleted(c, p, v) => v \in c.names
  <2>1. "enumValueDeleteWithoutReservedName" \notin CompareEnums(c, p)
    BY <1>2, <1>7
  <2>. QED
    BY <2>1 DEF CompareEnums, Found
<1>. QED
  BY <1>1, <1>3, <1>4, <1>5, <1>6, <1>7 DEF EnumAgrees

\* The differences of the parts are differences of the whole.
LEMMA PartsOfFiles ==
    ASSUME NEW c, NEW p, NEW R, CompareSchemas(c, p) \cap R = {}
    PROVE  /\ \A m \in MessageNames : p.messages[m] # Nil =>
                MessageDiffs(c.messages[m], p.messages[m]) \cap R = {}
           /\ \A e \in EnumNames : p.enums[e] # Nil => EnumDiffs(c.enums[e], p.enums[e]) \cap R = {}
<1>1. ASSUME NEW m \in MessageNames, p.messages[m] # Nil
      PROVE  MessageDiffs(c.messages[m], p.messages[m]) \subseteq CompareSchemas(c, p)
  BY <1>1 DEF CompareSchemas
<1>2. ASSUME NEW e \in EnumNames, p.enums[e] # Nil
      PROVE  EnumDiffs(c.enums[e], p.enums[e]) \subseteq CompareSchemas(c, p)
  BY <1>2 DEF CompareSchemas
<1>. QED
  BY <1>1, <1>2

\* Nothing of p is deleted or changed in c.
Clean(c, p) ==
    /\ \A m \in MessageNames : p.messages[m] # Nil =>
         /\ MessageAgrees(c.messages[m], p.messages[m])
         /\ \A n \in Numbers : ~FieldDeleted(c.messages[m], p.messages[m], n)
    /\ \A e \in EnumNames : p.enums[e] # Nil =>
         /\ EnumAgrees(c.enums[e], p.enums[e])
         /\ \A v \in ValueNames : ~ValueDeleted(c.enums[e], p.enums[e], v)

\* Where nothing is deleted or changed, no difference of any kind is found.
LEMMA CleanHasNoDifference ==
    ASSUME NEW c, NEW p, Clean(c, p)
    PROVE  CompareSchemas(c, p) = {}
<1>1. ASSUME NEW m \in MessageNames, p.messages[m] # Nil
      PROVE  MessageDiffs(c.messages[m], p.messages[m]) = {}
  <2>. DEFINE cm == c.messages[m]
              pm == p.messages[m]
  <2>1. MessageAgrees(cm, pm) /\ \A n \in Numbers : ~FieldDeleted(cm, pm, n)
    BY <1>1 DEF Clean
  <2>. HIDE DEF cm, pm
  <2>2. UNION {CompareFields(cm.fields[n], pm.fields[n]) :
                 n \in {k \in Numbers : pm.fields[k] # Nil /\ cm.fields[k] # Nil}} = {}
    BY <2>1, FieldDifferences DEF MessageAgrees
  <2>3. CompareMessages(cm, pm) = {}
    BY <2>1, <2>2 DEF CompareMessages, Found, MessageAgrees
  <2>4. MessageDiffs(cm, pm) = {}
    BY <2>1, <2>3 DEF MessageDiffs, Found, MessageAgrees
  <2>. QED
    BY <2>4 DEF cm, pm
<1>2. ASSUME NEW e \in EnumNames, p.enums[e] # Nil
      PROVE  EnumDiffs(c.enums[e], p.enums[e]) = {}
  <2>1. /\ EnumAgrees(c.enums[e], p.enums[e])
        /\ \A v \in ValueNames : ~ValueDeleted(c.enums[e], p.enums[e], v)
    BY <1>2 DEF Clean
  <2>2. CompareEnums(c.enums[e], p.enums[e]) = {}
    BY <2>1 DEF CompareEnums, Found, EnumAgrees
  <2>. QED
    BY <2>1, <2>2 DEF EnumDiffs, EnumAgrees
<1>. QED
  BY <1>1, <1>2 DEF CompareSchemas

\* The lists of BACKWARD and of FULL are the same, and leave nothing open.
LEMMA BackwardIsClean ==
    ASSUME NEW c, NEW p
    PROVE  /\ FullRefused = BackwardRefused
           /\ CompareSchemas(c, p) \cap BackwardRefused = {} => Clean(c, p)
<1>1. FullRefused = BackwardRefused
  BY DEF FullRefused, BackwardRefused
<1>2. AlwaysRefused \subseteq BackwardRefused /\ "fieldDelete" \in BackwardRefused
      /\ "enumValueDelete" \in BackwardRefused
  BY DEF BackwardRefused
<1>3. ASSUME CompareSchemas(c, p) \cap BackwardRefused = {}
      PROVE  Clean(c, p)
  <2>1. /\ \A m \in MessageNames : p.messages[m] # Nil =>
             MessageDiffs(c.messages[m], p.messages[m]) \cap BackwardRefused = {}
        /\ \A e \in EnumNames : p.enums[e] # Nil =>
             EnumDiffs(c.enums[e], p.enums[e]) \cap BackwardRefused = {}
    BY <1>3, PartsOfFiles
  <2>2. \A m \in MessageNames : p.messages[m] # Nil =>
          /\ MessageAgrees(c.messages[m], p.messages[m])
          /\ \A n \in Numbers : ~FieldDeleted(c.messages[m], p.messages[m], n)
    BY <1>2, <2>1, MessageWithoutRefused
  <2>3. \A e \in EnumNames : p.enums[e] # Nil =>
          /\ EnumAgrees(c.enums[e], p.enums[e])
          /\ \A v \in ValueNames : ~ValueDeleted(c.enums[e], p.enums[e], v)
    BY <1>2, <2>1, EnumWithoutRefused
  <2>. QED
    BY <2>2, <2>3 DEF Clean
<1>. QED
  BY <1>1, <1>3

\* Each mode accepts a clean descriptor set; BACKWARD and FULL nothing else.
LEMMA ProtoStrategies ==
    ASSUME NEW c \in Uploads, NEW p \in Uploads, IsProto(c)
    PROVE  /\ IsBackwardCompatible(c, p) <=> IsProto(p) /\ Clean(c.value, p.value)
           /\ IsFullCompatible(c, p) <=> IsProto(p) /\ Clean(c.value, p.value)
           /\ IsForwardCompatible(c, p) <=> ProtoAccepts(c, p, ForwardRefused)
           /\ IsProto(p) /\ Clean(c.value, p.value) => IsForwardCompatible(c, p)
<1>1. IsBackwardCompatible(c, p) <=> ProtoAccepts(c, p, BackwardRefused)
  BY DEF IsBackwardCompatible, ProtobufIsBackward, IsProto
<1>2. IsFullCompatible(c, p) <=> ProtoAccepts(c, p, FullRefused)
  BY DEF IsFullCompatible, ProtobufIsFull
<1>3. IsForwardCompatible(c, p) <=> ProtoAccepts(c, p, ForwardRefused)
  BY DEF IsForwardCompatible, ProtobufIsForward
<1>4. \A R : IsProto(p) /\ Clean(c.value, p.value) => ProtoAccepts(c, p, R)
  BY CleanHasNoDifference DEF ProtoAccepts
<1>5. ProtoAccepts(c, p, BackwardRefused) => IsProto(p) /\ Clean(c.value, p.value)
  BY BackwardIsClean DEF ProtoAccepts
<1>6. FullRefused = BackwardRefused
  BY BackwardIsClean
<1>. QED
  BY <1>1, <1>2, <1>3, <1>4, <1>5, <1>6

\* FULL accepts exactly what BACKWARD and FORWARD both accept, in every format
\* and although protobuf has a list of its own (IsFullCompatible).
THEOREM FullMeansBoth == Spec => []FullIsBoth
<1>1. ASSUME NEW c \in Uploads, NEW p \in Uploads
      PROVE  IsFullCompatible(c, p) <=> IsForwardCompatible(c, p) /\ IsBackwardCompatible(c, p)
  <2>1. CASE IsProto(c)
    BY <2>1, ProtoStrategies
  <2>2. CASE ~IsProto(c)
    BY <2>2 DEF IsFullCompatible
  <2>. QED
    BY <2>1, <2>2
<1>2. TypeOK => FullIsBoth
  BY <1>1 DEF FullIsBoth, TypeOK, Latest
<1>. QED
  BY <1>2, TypeCorrect, PTL

-----------------------------------------------------------------------------
(***************************************************************************)
(* Additions.                                                              *)
(***************************************************************************)

\* A descriptor set that has everything of a well-formed one is clean.
LEMMA ExtensionIsClean ==
    ASSUME NEW c, NEW p \in Files, WellFormed(p), ExtendsFiles(c, p)
    PROVE  Clean(c, p)
<1>1. ASSUME NEW m \in MessageNames, p.messages[m] # Nil
      PROVE  /\ MessageAgrees(c.messages[m], p.messages[m])
             /\ \A n \in Numbers : ~FieldDeleted(c.messages[m], p.messages[m], n)
  <2>1. /\ c.messages[m] # Nil /\ ExtendsMessage(c.messages[m], p.messages[m])
        /\ WellFormedMessage(p.messages[m]) /\ p.messages[m] \in Message
    BY <1>1 DEF ExtendsFiles, WellFormed, Files
  <2>2. ASSUME NEW r \in p.messages[m].ranges
        PROVE  Has(c.messages[m].ranges, r[1]) /\ Has(c.messages[m].ranges, r[2] - 1)
    <3>1. r \in c.messages[m].ranges /\ r[1] < r[2] /\ r[1] \in Nat /\ r[2] \in Nat
      BY <2>1, <2>2, RangesAssumption DEF ExtendsMessage, WellFormedMessage, Message
    <3>. QED
      BY <3>1 DEF Has
  <2>. QED
    BY <2>1, <2>2 DEF MessageAgrees, ExtendsMessage, FieldDeleted, SameMeaning
<1>2. ASSUME NEW e \in EnumNames, p.enums[e] # Nil
      PROVE  /\ EnumAgrees(c.enums[e], p.enums[e])
             /\ \A v \in ValueNames : ~ValueDeleted(c.enums[e], p.enums[e], v)
  <2>1. /\ c.enums[e] # Nil /\ ExtendsEnum(c.enums[e], p.enums[e])
        /\ WellFormedEnum(p.enums[e]) /\ p.enums[e] \in Enum
    BY <1>2 DEF ExtendsFiles, WellFormed, Files
  <2>2. ASSUME NEW r \in p.enums[e].ranges
        PROVE  HasEnumNumber(c.enums[e].ranges, r[1]) /\ HasEnumNumber(c.enums[e].ranges, r[2])
    <3>1. r \in c.enums[e].ranges /\ r[1] <= r[2] /\ r[1] \in Nat /\ r[2] \in Nat
      BY <2>1, <2>2, RangesAssumption DEF ExtendsEnum, WellFormedEnum, Enum
    <3>. QED
      BY <3>1 DEF HasEnumNumber
  <2>. QED
    BY <2>1, <2>2 DEF EnumAgrees, ExtendsEnum, ValueDeleted
<1>. QED
  BY <1>1, <1>2 DEF Clean

\* Adding messages, fields, enums, values and reservations is accepted under
\* every mode, and so is the same content again (compareSchemas finds nothing).
THEOREM AdditionsAlwaysAccepted == Spec => []AdditionsAccepted
<1>1. ASSUME NEW c \in Uploads, NEW p \in Uploads, IsProto(c), IsProto(p), ExtendsFiles(c.value, p.value),
             NEW a \in CheckedModes
      PROVE  Strategy(a, c, p)
  <2>1. Clean(c.value, p.value)
    BY <1>1, ExtensionIsClean, UploadsAssumption
  <2>2. IsBackwardCompatible(c, p) /\ IsForwardCompatible(c, p) /\ IsFullCompatible(c, p)
    BY <1>1, <2>1, ProtoStrategies
  <2>. QED
    BY <2>2 DEF Strategy, CheckedModes, BackwardModes, ForwardModes, FullModes
<1>2. ASSUME TypeOK, Len(versions) = 1, IsProto(Latest), NEW s \in Uploads, NEW a \in CheckedModes,
             IsProto(s), ExtendsFiles(s.value, Latest.value)
      PROVE  CheckerAccepts(a, s, Previous)
  <2>. versions # <<>>
    BY <1>2, Len(<<>>) = 0
  <2>1. Latest \in Uploads /\ versions # <<>>
    BY <1>2, LatestIsUpload
  <2>2. Strategy(a, s, Latest)
    BY <1>1, <1>2, <2>1
  <2>3. Previous = <<Latest>>
    BY <2>1 DEF Previous
  <2>4. <<Latest>>[1] = Latest /\ DOMAIN <<Latest>> = {1}
    OBVIOUS
  <2>5. CASE a \in TransitiveModes
    BY <2>2, <2>3, <2>4, <2>5 DEF CheckerAccepts
  <2>6. CASE a \in CheckedModes \ TransitiveModes
    BY <2>2, <2>3, <2>4, <2>6 DEF CheckerAccepts
  <2>. QED
    BY <2>5, <2>6
<1>3. TypeOK => AdditionsAccepted
  BY <1>2 DEF AdditionsAccepted
<1>. QED
  BY <1>3, TypeCorrect, PTL

-----------------------------------------------------------------------------
(***************************************************************************)
(* Series of versions: what is clean step by step is clean throughout.     *)
(***************************************************************************)

\* The ends of the ranges of a message without interiors are all its numbers.
LEMMA RangesCarryOver ==
    ASSUME NEW P \in SUBSET (Nat \X Nat), NEW C, NEW n \in Int, Has(P, n),
           \A r \in P : r[2] <= r[1] + 2,
           \A r \in P : Has(C, r[1]) /\ Has(C, r[2] - 1)
    PROVE  Has(C, n)
<1>1. PICK r \in P : r[1] <= n /\ n < r[2]
  BY DEF Has
<1>2. n = r[1] \/ n = r[2] - 1
  BY <1>1
<1>. QED
  BY <1>1, <1>2

\* The same of an enum, whose ranges include their ends.
LEMMA EnumRangesCarryOver ==
    ASSUME NEW P \in SUBSET (Nat \X Nat), NEW C, NEW n \in Int, HasEnumNumber(P, n),
           \A r \in P : r[2] <= r[1] + 1,
           \A r \in P : HasEnumNumber(C, r[1]) /\ HasEnumNumber(C, r[2])
    PROVE  HasEnumNumber(C, n)
<1>1. PICK r \in P : r[1] <= n /\ n <= r[2]
  BY DEF HasEnumNumber
<1>2. n = r[1] \/ n = r[2]
  BY <1>1
<1>. QED
  BY <1>1, <1>2

\* Clean steps compose when no range of the version between has an interior.
LEMMA CleanTransitive ==
    ASSUME NEW a \in Uploads, NEW b \in Uploads, NEW c, IsProto(a), IsProto(b), NoInterior(b),
           Clean(b.value, a.value), Clean(c.value, b.value)
    PROVE  Clean(c.value, a.value)
<1>1. a.value \in Files /\ b.value \in Files
  BY UploadsAssumption
<1>2. ASSUME NEW m \in MessageNames, a.value.messages[m] # Nil
      PROVE  /\ MessageAgrees(c.value.messages[m], a.value.messages[m])
             /\ \A n \in Numbers : ~FieldDeleted(c.value.messages[m], a.value.messages[m], n)
  <2>. DEFINE am == a.value.messages[m]
              bm == b.value.messages[m]
              cm == c.value.messages[m]
  <2>1. MessageAgrees(bm, am) /\ \A n \in Numbers : ~FieldDeleted(bm, am, n)
    BY <1>2 DEF Clean
  <2>2. bm # Nil
    BY <2>1 DEF MessageAgrees
  <2>3. MessageAgrees(cm, bm) /\ \A n \in Numbers : ~FieldDeleted(cm, bm, n)
    BY <2>2 DEF Clean
  <2>4. am.ranges \subseteq Nat \X Nat /\ bm.ranges \in SUBSET (Nat \X Nat)
    BY <1>1, <1>2, <2>2, RangesAssumption DEF Files, Message
  <2>5. \A r \in bm.ranges : r[2] <= r[1] + 2
    BY <2>2 DEF NoInterior
  <2>. HIDE DEF am, bm, cm
  <2>6. ASSUME NEW r \in am.ranges
        PROVE  Has(cm.ranges, r[1]) /\ Has(cm.ranges, r[2] - 1)
    <3>1. Has(bm.ranges, r[1]) /\ Has(bm.ranges, r[2] - 1)
      BY <2>1, <2>6 DEF MessageAgrees
    <3>2. r[1] \in Int /\ r[2] - 1 \in Int
      BY <2>4, <2>6
    <3>3. \A q \in bm.ranges : Has(cm.ranges, q[1]) /\ Has(cm.ranges, q[2] - 1)
      BY <2>3 DEF MessageAgrees
    <3>. QED
      BY <3>1, <3>2, <3>3, <2>4, <2>5, RangesCarryOver
  <2>7. ASSUME NEW n \in Numbers, am.fields[n] # Nil
        PROVE  bm.fields[n] # Nil /\ cm.fields[n] # Nil /\ SameMeaning(am.fields[n], cm.fields[n])
    BY <2>1, <2>3, <2>7 DEF FieldDeleted, MessageAgrees, SameMeaning
  <2>8. MessageAgrees(cm, am) /\ \A n \in Numbers : ~FieldDeleted(cm, am, n)
    BY <2>1, <2>3, <2>6, <2>7 DEF MessageAgrees, FieldDeleted
  <2>. QED
    BY <2>8 DEF am, cm
<1>3. ASSUME NEW e \in EnumNames, a.value.enums[e] # Nil
      PROVE  /\ EnumAgrees(c.value.enums[e], a.value.enums[e])
             /\ \A v \in ValueNames : ~ValueDeleted(c.value.enums[e], a.value.enums[e], v)
  <2>. DEFINE ae == a.value.enums[e]
              be == b.value.enums[e]
              ce == c.value.enums[e]
  <2>1. EnumAgrees(be, ae) /\ \A v \in ValueNames : ~ValueDeleted(be, ae, v)
    BY <1>3 DEF Clean
  <2>2. be # Nil
    BY <2>1 DEF EnumAgrees
  <2>3. EnumAgrees(ce, be) /\ \A v \in ValueNames : ~ValueDeleted(ce, be, v)
    BY <2>2 DEF Clean
  <2>4. ae.ranges \subseteq Nat \X Nat /\ be.ranges \in SUBSET (Nat \X Nat)
    BY <1>1, <1>3, <2>2, RangesAssumption DEF Files, Enum
  <2>5. \A r \in be.ranges : r[2] <= r[1] + 1
    BY <2>2 DEF NoInterior
  <2>. HIDE DEF ae, be, ce
  <2>6. ASSUME NEW r \in ae.ranges
        PROVE  HasEnumNumber(ce.ranges, r[1]) /\ HasEnumNumber(ce.ranges, r[2])
    <3>1. HasEnumNumber(be.ranges, r[1]) /\ HasEnumNumber(be.ranges, r[2])
      BY <2>1, <2>6 DEF EnumAgrees
    <3>2. r[1] \in Int /\ r[2] \in Int
      BY <2>4, <2>6
    <3>3. \A q \in be.ranges : HasEnumNumber(ce.ranges, q[1]) /\ HasEnumNumber(ce.ranges, q[2])
      BY <2>3 DEF EnumAgrees
    <3>. QED
      BY <3>1, <3>2, <3>3, <2>4, <2>5, EnumRangesCarryOver
  <2>7. ASSUME NEW v \in ValueNames, ae.values[v] # Nil
        PROVE  be.values[v] # Nil /\ ce.values[v] # Nil /\ ce.values[v] = ae.values[v]
    BY <2>1, <2>3, <2>7 DEF ValueDeleted, EnumAgrees
  <2>8. EnumAgrees(ce, ae) /\ \A v \in ValueNames : ~ValueDeleted(ce, ae, v)
    BY <2>1, <2>3, <2>6, <2>7 DEF EnumAgrees, ValueDeleted
  <2>. QED
    BY <2>8 DEF ae, ce
<1>. QED
  BY <1>2, <1>3 DEF Clean

\* The strategy of the modes that only let additions pass.
LEMMA StrategyIsClean ==
    ASSUME NEW a \in CheckedModes \ ForwardModes, NEW c \in Uploads, NEW p \in Uploads, IsProto(c)
    PROVE  Strategy(a, c, p) <=> IsProto(p) /\ Clean(c.value, p.value)
<1>1. CASE a \in BackwardModes
  <2>1. Strategy(a, c, p) <=> IsBackwardCompatible(c, p)
    BY <1>1 DEF Strategy, BackwardModes, ForwardModes, FullModes
  <2>. QED
    BY <2>1, ProtoStrategies
<1>2. CASE a \in FullModes
  <2>1. Strategy(a, c, p) <=> IsFullCompatible(c, p)
    BY <1>2 DEF Strategy, BackwardModes, ForwardModes, FullModes
  <2>. QED
    BY <2>1, ProtoStrategies
<1>. QED
  BY <1>1, <1>2 DEF CheckedModes

\* BACKWARD_TRANSITIVE and FULL_TRANSITIVE accept nothing that the check
\* against every earlier version would refuse, although their checker is given
\* the latest version only; for protobuf, and ranges without interiors.
THEOREM LatestSuffices == Spec => []TransitiveByLatest
<1>1. Init => TransitiveByLatest
  BY DEF Init, TransitiveByLatest
<1>2. TypeOK /\ TransitiveByLatest /\ [Next]_vars => TransitiveByLatest'
  <2>. SUFFICES ASSUME TypeOK, TransitiveByLatest, [Next]_vars,
                       mode \in TransitiveModes \ ForwardModes, ShortRanges',
                       NEW i \in DOMAIN versions', NEW j \in DOMAIN versions', i < j,
                       IsProto(versions'[j])
                PROVE  Strategy(mode, versions'[j], versions'[i])
    BY StepAppends DEF TransitiveByLatest, Strategy, IsBackwardCompatible, IsForwardCompatible,
       IsFullCompatible
  <2>1. mode \in CheckedModes \ ForwardModes
    BY DEF TransitiveModes, ForwardModes, CheckedModes, BackwardModes, FullModes
  <2>2. CASE versions' = versions
    BY <2>2 DEF TransitiveByLatest, ShortRanges
  <2>3. ASSUME NEW s \in Uploads, versions' = Append(versions, s),
               mode \in CheckedModes /\ versions # <<>> => Strategy(mode, s, Latest)
        PROVE  Strategy(mode, versions'[j], versions'[i])
    <3>1. \A k \in DOMAIN versions : k \in DOMAIN versions' /\ versions'[k] = versions[k]
      BY <2>3 DEF TypeOK
    <3>2. ShortRanges
      BY <3>1 DEF ShortRanges
    <3>3. CASE j \in DOMAIN versions
      BY <3>2, <3>3, <2>3, PairsAfterAppend DEF TransitiveByLatest
    <3>4. CASE j \notin DOMAIN versions
      <4>1. /\ versions'[i] = versions[i] /\ versions'[j] = s /\ i \in DOMAIN versions
            /\ Len(versions) \in DOMAIN versions /\ Latest \in Uploads /\ versions # <<>>
            /\ versions[i] \in Uploads /\ i <= Len(versions)
        BY <3>4, <2>3, PairsAfterAppend
      <4>2. IsProto(s) /\ Strategy(mode, s, Latest)
        BY <4>1, <2>1, <2>3
      <4>3. IsProto(Latest) /\ Clean(s.value, Latest.value)
        BY <4>1, <4>2, <2>1, StrategyIsClean
      <4>4. CASE i = Len(versions)
        BY <4>1, <4>2, <4>4 DEF Latest
      <4>5. CASE i < Len(versions)
        <5>1. Strategy(mode, Latest, versions[i])
          BY <4>1, <4>3, <4>5, <3>2 DEF TransitiveByLatest, Latest
        <5>2. IsProto(versions[i]) /\ Clean(Latest.value, versions[i].value)
          BY <5>1, <4>1, <4>3, <2>1, StrategyIsClean
        <5>3. NoInterior(Latest)
          BY <3>2, <4>1 DEF ShortRanges, Latest
        <5>4. Clean(s.value, versions[i].value)
          BY <4>1, <4>3, <5>2, <5>3, CleanTransitive
        <5>. QED
          BY <4>1, <4>2, <5>2, <5>4, <2>1, StrategyIsClean
      <4>6. Len(versions) \in Nat /\ i \in Nat
        BY <4>1 DEF TypeOK
      <4>. QED
        BY <4>1, <4>4, <4>5, <4>6
    <3>. QED
      BY <3>3, <3>4
  <2>. QED
    BY <2>2, <2>3, StepAppends
<1>. QED
  BY <1>1, <1>2, TypeCorrect, PTL DEF Spec

-----------------------------------------------------------------------------
(***************************************************************************)
(* Series of versions: meanings.  Under FORWARD a field may go, and only   *)
(* its reserved number keeps a later version from using it again; so the   *)
(* invariant speaks of reserved numbers and names too.                     *)
(***************************************************************************)
FieldOf(x, m, n) ==
    IF IsProto(x) /\ x.value.messages[m] # Nil THEN x.value.messages[m].fields[n] ELSE Nil
ReservedOf(x, m) ==
    IF IsProto(x) /\ x.value.messages[m] # Nil THEN x.value.messages[m].ranges ELSE {}
ValueOf(x, e, v) ==
    IF IsProto(x) /\ x.value.enums[e] # Nil THEN x.value.enums[e].values[v] ELSE Nil
ReservedNamesOf(x, e) ==
    IF IsProto(x) /\ x.value.enums[e] # Nil THEN x.value.enums[e].names ELSE {}

\* What p declares means the same in c or is gone and reserved there, and what
\* p reserves c reserves too.  Only with fwd may anything go.
FieldsKept(c, p, fwd) ==
    \A m \in MessageNames, n \in Numbers :
        /\ FieldOf(p, m, n) # Nil =>
             \/ FieldOf(c, m, n) # Nil /\ SameMeaning(FieldOf(p, m, n), FieldOf(c, m, n))
             \/ FieldOf(c, m, n) = Nil /\ fwd /\ Has(ReservedOf(c, m), n)
        /\ fwd /\ Has(ReservedOf(p, m), n) => Has(ReservedOf(c, m), n)
ValuesKept(c, p, fwd) ==
    \A e \in EnumNames, v \in ValueNames :
        /\ ValueOf(p, e, v) # Nil =>
             \/ ValueOf(c, e, v) = ValueOf(p, e, v)
             \/ ValueOf(c, e, v) = Nil /\ fwd /\ v \in ReservedNamesOf(c, e)
        /\ fwd /\ v \in ReservedNamesOf(p, e) => v \in ReservedNamesOf(c, e)

\* What is reserved is not declared (protodesc.NewFiles).
LEMMA ReservedIsUnused ==
    ASSUME NEW c \in Uploads
    PROVE  /\ \A m \in MessageNames, n \in Numbers : Has(ReservedOf(c, m), n) => FieldOf(c, m, n) = Nil
           /\ \A e \in EnumNames, v \in ValueNames : v \in ReservedNamesOf(c, e) => ValueOf(c, e, v) = Nil
<1>1. IsProto(c) => WellFormed(c.value)
  BY UploadsAssumption
<1>2. ASSUME NEW m \in MessageNames, NEW n \in Numbers, Has(ReservedOf(c, m), n)
      PROVE  FieldOf(c, m, n) = Nil
  BY <1>1, <1>2 DEF ReservedOf, FieldOf, WellFormed, WellFormedMessage, Has
<1>3. ASSUME NEW e \in EnumNames, NEW v \in ValueNames, v \in ReservedNamesOf(c, e)
      PROVE  ValueOf(c, e, v) = Nil
  BY <1>1, <1>3 DEF ReservedNamesOf, ValueOf, WellFormed, WellFormedEnum
<1>. QED
  BY <1>2, <1>3

\* Keeping composes: what is gone and reserved cannot come back.
LEMMA KeptTransitive ==
    ASSUME NEW a \in Uploads, NEW b \in Uploads, NEW c \in Uploads, NEW fwd \in BOOLEAN
    PROVE  /\ FieldsKept(b, a, fwd) /\ FieldsKept(c, b, fwd) => FieldsKept(c, a, fwd)
           /\ ValuesKept(b, a, fwd) /\ ValuesKept(c, b, fwd) => ValuesKept(c, a, fwd)
<1>1. ASSUME FieldsKept(b, a, fwd), FieldsKept(c, b, fwd), NEW m \in MessageNames, NEW n \in Numbers
      PROVE  /\ FieldOf(a, m, n) # Nil =>
                  \/ FieldOf(c, m, n) # Nil /\ SameMeaning(FieldOf(a, m, n), FieldOf(c, m, n))
                  \/ FieldOf(c, m, n) = Nil /\ fwd /\ Has(ReservedOf(c, m), n)
             /\ fwd /\ Has(ReservedOf(a, m), n) => Has(ReservedOf(c, m), n)
  BY <1>1, ReservedIsUnused DEF FieldsKept, SameMeaning
<1>2. ASSUME ValuesKept(b, a, fwd), ValuesKept(c, b, fwd), NEW e \in EnumNames, NEW v \in ValueNames
      PROVE  /\ ValueOf(a, e, v) # Nil =>
                  \/ ValueOf(c, e, v) = ValueOf(a, e, v)
                  \/ ValueOf(c, e, v) = Nil /\ fwd /\ v \in ReservedNamesOf(c, e)
             /\ fwd /\ v \in ReservedNamesOf(a, e) => v \in ReservedNamesOf(c, e)
  BY <1>2, ReservedIsUnused DEF ValuesKept
<1>. QED
  BY <1>1, <1>2 DEF FieldsKept, ValuesKept

\* What FORWARD accepts keeps or reserves everything (compareMessages,
\* compareEnums with forwardCompatibility).
LEMMA ForwardKeeps ==
    ASSUME NEW c \in Uploads, NEW p \in Uploads, IsProto(c), IsForwardCompatible(c, p), NoInterior(p)
    PROVE  FieldsKept(c, p, TRUE) /\ ValuesKept(c, p, TRUE)
<1>1. IsProto(p) /\ CompareSchemas(c.value, p.value) \cap ForwardRefused = {}
  BY ProtoStrategies DEF ProtoAccepts
<1>2. /\ AlwaysRefused \subseteq ForwardRefused
      /\ "fieldDeleteWithoutReservedNumber" \in ForwardRefused
      /\ "enumValueDeleteWithoutReservedName" \in ForwardRefused
  BY DEF ForwardRefused
<1>3. p.value \in Files
  BY <1>1, UploadsAssumption
<1>4. ASSUME NEW m \in MessageNames, p.value.messages[m] # Nil, NEW n \in Numbers
      PROVE  /\ FieldOf(p, m, n) # Nil =>
                  \/ FieldOf(c, m, n) # Nil /\ SameMeaning(FieldOf(p, m, n), FieldOf(c, m, n))
                  \/ FieldOf(c, m, n) = Nil /\ Has(ReservedOf(c, m), n)
             /\ Has(ReservedOf(p, m), n) => Has(ReservedOf(c, m), n)
  <2>. DEFINE cm == c.value.messages[m]
              pm == p.value.messages[m]
  <2>1. MessageDiffs(cm, pm) \cap ForwardRefused = {}
    BY <1>1, <1>4, PartsOfFiles
  <2>2. MessageAgrees(cm, pm) /\ (FieldDeleted(cm, pm, n) => Has(cm.ranges, n))
    BY <1>2, <2>1, MessageWithoutRefused
  <2>3. cm # Nil
    BY <2>2 DEF MessageAgrees
  <2>4. /\ FieldOf(p, m, n) = pm.fields[n] /\ FieldOf(c, m, n) = cm.fields[n]
        /\ ReservedOf(p, m) = pm.ranges /\ ReservedOf(c, m) = cm.ranges
    BY <1>1, <1>4, <2>3 DEF FieldOf, ReservedOf
  <2>5. pm.ranges \in SUBSET (Nat \X Nat) /\ n \in Int
    BY <1>3, <1>4, RangesAssumption DEF Files, Message
  <2>6. \A r \in pm.ranges : r[2] <= r[1] + 2
    BY <1>1, <1>4 DEF NoInterior
  <2>. HIDE DEF cm, pm
  <2>7. Has(pm.ranges, n) => Has(cm.ranges, n)
    BY <2>2, <2>5, <2>6, RangesCarryOver DEF MessageAgrees
  <2>. QED
    BY <2>2, <2>4, <2>7 DEF MessageAgrees, FieldDeleted
<1>5. ASSUME NEW e \in EnumNames, p.value.enums[e] # Nil, NEW v \in ValueNames
      PROVE  /\ ValueOf(p, e, v) # Nil =>
                  \/ ValueOf(c, e, v) = ValueOf(p, e, v)
                  \/ ValueOf(c, e, v) = Nil /\ v \in ReservedNamesOf(c, e)
             /\ v \in ReservedNamesOf(p, e) => v \in ReservedNamesOf(c, e)
  <2>. DEFINE ce == c.value.enums[e]
              pe == p.value.enums[e]
  <2>1. EnumDiffs(ce, pe) \cap ForwardRefused = {}
    BY <1>1, <1>5, PartsOfFiles
  <2>2. EnumAgrees(ce, pe) /\ (ValueDeleted(ce, pe, v) => v \in ce.names)
    BY <1>2, <2>1, EnumWithoutRefused
  <2>3. ce # Nil
    BY <2>2 DEF EnumAgrees
  <2>4. /\ ValueOf(p, e, v) = pe.values[v] /\ ValueOf(c, e, v) = ce.values[v]
        /\ ReservedNamesOf(p, e) = pe.names /\ ReservedNamesOf(c, e) = ce.names
    BY <1>1, <1>5, <2>3 DEF ValueOf, ReservedNamesOf
  <2>. HIDE DEF ce, pe
  <2>. QED
    BY <2>2, <2>4 DEF EnumAgrees, ValueDeleted
<1>6. /\ \A m \in MessageNames : p.value.messages[m] = Nil =>
           ReservedOf(p, m) = {} /\ \A n \in Numbers : FieldOf(p, m, n) = Nil
      /\ \A e \in EnumNames : p.value.enums[e] = Nil =>
           ReservedNamesOf(p, e) = {} /\ \A v \in ValueNames : ValueOf(p, e, v) = Nil
  BY DEF ReservedOf, FieldOf, ReservedNamesOf, ValueOf
<1>7. FieldsKept(c, p, TRUE)
  BY <1>4, <1>6 DEF FieldsKept, Has
<1>8. ValuesKept(c, p, TRUE)
  BY <1>5, <1>6 DEF ValuesKept
<1>. QED
  BY <1>7, <1>8

\* What is clean keeps everything.
LEMMA CleanKeeps ==
    ASSUME NEW c, NEW p, IsProto(c), Clean(c.value, p.value)
    PROVE  FieldsKept(c, p, FALSE) /\ ValuesKept(c, p, FALSE)
<1>1. ASSUME NEW m \in MessageNames, NEW n \in Numbers, FieldOf(p, m, n) # Nil
      PROVE  FieldOf(c, m, n) # Nil /\ SameMeaning(FieldOf(p, m, n), FieldOf(c, m, n))
  BY <1>1 DEF FieldOf, Clean, MessageAgrees, FieldDeleted
<1>2. ASSUME NEW e \in EnumNames, NEW v \in ValueNames, ValueOf(p, e, v) # Nil
      PROVE  ValueOf(c, e, v) = ValueOf(p, e, v)
  BY <1>2 DEF ValueOf, Clean, EnumAgrees, ValueDeleted
<1>. QED
  BY <1>1, <1>2 DEF FieldsKept, ValuesKept

\* What the strategy of a mode accepts keeps, or under FORWARD reserves,
\* everything.  Schemas of other formats have no fields here.
LEMMA AcceptedKeeps ==
    ASSUME NEW a \in CheckedModes, NEW c \in Uploads, NEW p \in Uploads, Strategy(a, c, p),
           a \in ForwardModes => NoInterior(p)
    PROVE  FieldsKept(c, p, a \in ForwardModes) /\ ValuesKept(c, p, a \in ForwardModes)
<1>1. CASE ~IsProto(p)
  BY <1>1 DEF FieldsKept, ValuesKept, FieldOf, ReservedOf, ValueOf, ReservedNamesOf, Has
<1>2. CASE IsProto(p) /\ a \in ForwardModes
  <2>1. IsProto(c)
    BY <1>2, AcceptedKeepsFormat DEF IsProto
  <2>2. IsForwardCompatible(c, p)
    BY <1>2 DEF Strategy, ForwardModes, BackwardModes, FullModes
  <2>3. FieldsKept(c, p, TRUE) /\ ValuesKept(c, p, TRUE) /\ (a \in ForwardModes) = TRUE
    BY <1>2, <2>1, <2>2, ForwardKeeps
  <2>. QED
    BY <2>3
<1>3. CASE IsProto(p) /\ a \notin ForwardModes
  <2>1. IsProto(c)
    BY <1>3, AcceptedKeepsFormat DEF IsProto
  <2>2. Clean(c.value, p.value)
    BY <1>3, <2>1, StrategyIsClean
  <2>3. FieldsKept(c, p, FALSE) /\ ValuesKept(c, p, FALSE)
    BY <2>1, <2>2, CleanKeeps
  <2>4. (a \in ForwardModes) = FALSE
    BY <1>3
  <2>. QED
    BY <2>3, <2>4
<1>. QED
  BY <1>1, <1>2, <1>3

\* Every version keeps what every earlier one declares.
KeptInv ==
    mode \in CheckedModes /\ (mode \in ForwardModes => ShortRanges) =>
        \A i, j \in DOMAIN versions : i < j =>
            /\ FieldsKept(versions[j], versions[i], mode \in ForwardModes)
            /\ ValuesKept(versions[j], versions[i], mode \in ForwardModes)

\* The invariant says of two versions what the property says of them.
LEMMA KeptMeansKept == KeptInv => MeaningsKept
<1>. SUFFICES ASSUME KeptInv, mode \in CheckedModes, mode \in ForwardModes => ShortRanges,
                     NEW i \in DOMAIN versions, NEW j \in DOMAIN versions, i < j
              PROVE  /\ \A m \in MessageNames, n \in Numbers :
                          FieldAt(i, m, n) # Nil =>
                             \/ FieldAt(j, m, n) # Nil /\ SameMeaning(FieldAt(i, m, n), FieldAt(j, m, n))
                             \/ FieldAt(j, m, n) = Nil /\ mode \in ForwardModes
                     /\ \A e \in EnumNames, v \in ValueNames :
                          ValueAt(i, e, v) # Nil =>
                             \/ ValueAt(j, e, v) = ValueAt(i, e, v)
                             \/ ValueAt(j, e, v) = Nil /\ mode \in ForwardModes
  BY DEF MeaningsKept
<1>1. /\ FieldsKept(versions[j], versions[i], mode \in ForwardModes)
      /\ ValuesKept(versions[j], versions[i], mode \in ForwardModes)
  BY DEF KeptInv
<1>2. \A k, m, n : FieldAt(k, m, n) = FieldOf(versions[k], m, n)
  BY DEF FieldAt, FieldOf
<1>3. \A k, e, v : ValueAt(k, e, v) = ValueOf(versions[k], e, v)
  BY DEF ValueAt, ValueOf
<1>4. ASSUME NEW m \in MessageNames, NEW n \in Numbers, FieldOf(versions[i], m, n) # Nil
      PROVE  \/ /\ FieldOf(versions[j], m, n) # Nil
                /\ SameMeaning(FieldOf(versions[i], m, n), FieldOf(versions[j], m, n))
             \/ FieldOf(versions[j], m, n) = Nil /\ mode \in ForwardModes
  BY <1>1, <1>4 DEF FieldsKept
<1>5. ASSUME NEW e \in EnumNames, NEW v \in ValueNames, ValueOf(versions[i], e, v) # Nil
      PROVE  \/ ValueOf(versions[j], e, v) = ValueOf(versions[i], e, v)
             \/ ValueOf(versions[j], e, v) = Nil /\ mode \in ForwardModes
  BY <1>1, <1>5 DEF ValuesKept
<1>. QED
  BY <1>2, <1>3, <1>4, <1>5

\* A field number and an enum value never change their meaning along the
\* versions of a schema, however many lie between, although each upload is
\* compared with the latest version only; under FORWARD a deleted one never
\* comes back, for ranges without interiors (compareMessages, compareFields,
\* compareEnums).
THEOREM MeaningsNeverChange == Spec => []MeaningsKept
<1>1. Init => KeptInv
  BY DEF Init, KeptInv
<1>2. TypeOK /\ KeptInv /\ [Next]_vars => KeptInv'
  <2>. DEFINE fwd == mode \in ForwardModes
              Kept(c, p) == FieldsKept(c, p, fwd) /\ ValuesKept(c, p, fwd)
  <2>. SUFFICES ASSUME TypeOK, KeptInv, [Next]_vars,
                       mode \in CheckedModes, mode \in ForwardModes => ShortRanges',
                       NEW i \in DOMAIN versions', NEW j \in DOMAIN versions', i < j
                PROVE  Kept(versions'[j], versions'[i])
    BY StepAppends DEF KeptInv
  <2>1. CASE versions' = versions
    BY <2>1 DEF KeptInv, ShortRanges
  <2>2. ASSUME NEW s \in Uploads, versions' = Append(versions, s),
               mode \in CheckedModes /\ versions # <<>> => Strategy(mode, s, Latest)
        PROVE  Kept(versions'[j], versions'[i])
    <3>1. \A k \in DOMAIN versions : k \in DOMAIN versions' /\ versions'[k] = versions[k]
      BY <2>2 DEF TypeOK
    <3>2. mode \in ForwardModes => ShortRanges
      BY <3>1 DEF ShortRanges
    <3>3. CASE j \in DOMAIN versions
      BY <3>2, <3>3, <2>2, PairsAfterAppend DEF KeptInv
    <3>4. CASE j \notin DOMAIN versions
      <4>1. /\ versions'[i] = versions[i] /\ versions'[j] = s /\ i \in DOMAIN versions
            /\ Len(versions) \in DOMAIN versions /\ Latest \in Uploads /\ versions # <<>>
            /\ versions[i] \in Uploads /\ i <= Len(versions)
        BY <3>4, <2>2, PairsAfterAppend
      <4>2. mode \in ForwardModes => NoInterior(Latest)
        BY <3>2, <4>1 DEF ShortRanges, Latest
      <4>3. Kept(s, Latest)
        BY <4>1, <4>2, <2>2, AcceptedKeeps
      <4>4. CASE i = Len(versions)
        BY <4>1, <4>3, <4>4 DEF Latest
      <4>5. CASE i < Len(versions)
        <5>1. Kept(Latest, versions[i])
          BY <4>1, <4>5, <3>2 DEF KeptInv, Latest
        <5>2. fwd \in BOOLEAN
          OBVIOUS
        <5>. HIDE DEF fwd
        <5>. QED
          BY <4>1, <4>3, <5>1, <5>2, KeptTransitive
      <4>6. Len(versions) \in Nat /\ i \in Nat
        BY <4>1 DEF TypeOK
      <4>. QED
        BY <4>1, <4>4, <4>5, <4>6
    <3>. QED
      BY <3>3, <3>4
  <2>. QED
    BY <2>1, <2>2, StepAppends
<1>. QED
  BY <1>1, <1>2, TypeCorrect, KeptMeansKept, PTL DEF Spec
=============================================================================
