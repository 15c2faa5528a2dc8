--------------------------- MODULE MCProtoCompat ----------------------------
(***************************************************************************)
(* Instances of ProtoCompat for TLC: a message with up to three numbers, a *)
(* message that is only referred to, an enum, two avro and one JSON        *)
(* schema.                                                                 *)
(***************************************************************************)
EXTENDS ProtoCompat

\* "foo_bar" and "fooBar" have the same JSON name.
SomeJSONNames == [foo_bar |-> "fooBar", fooBar |-> "fooBar", baz |-> "baz"]

Scalar(x, l) == [name |-> x, label |-> l, kind |-> "int32", type |-> Nil]
OfType(t) == [name |-> "baz", label |-> "optional", kind |-> "message", type |-> t]

SomeRanges == {<<1, 1>>, <<2, 2>>, <<1, 2>>, <<2, 3>>, <<3, 4>>, <<1, 3>>, <<1, 4>>}
NoFields == [n \in Numbers |-> Nil]
Empty == [syntax |-> "proto3", fields |-> NoFields, ranges |-> {}, names |-> {}]

\* Number 1 is a scalar, number 2 a scalar or of a message type.
MessageVariants ==
    {m \in [syntax : {"proto3"},
            fields : {[n \in Numbers |-> IF n = 1 THEN f ELSE IF n = 2 THEN g ELSE Nil] :
                        f \in {Nil, Scalar("foo_bar", "optional"), Scalar("fooBar", "optional"),
                               Scalar("foo_bar", "repeated"),
                               [Scalar("foo_bar", "optional") EXCEPT !.kind = "string"]},
                        g \in {Nil, OfType("M"), OfType("N"), Scalar("fooBar", "optional")}},
            ranges : {{}, {<<1, 2>>}, {<<1, 3>>}, {<<2, 3>>}, {<<1, 4>>}, {<<1, 2>>, <<3, 4>>}},
            names : {{}, {"foo_bar"}, {"baz"}}] : WellFormedMessage(m)}
EnumVariants ==
    {e \in [values : [ValueNames -> {1, 2, Nil}],
            ranges : {{}, {<<1, 1>>}, {<<1, 2>>}}, names : {{}, {"ONE"}}] :
        WellFormedEnum(e) /\ \E v \in ValueNames : e.values[v] # Nil}

PlainEnum == [values |-> [v \in ValueNames |-> IF v = "ONE" THEN 1 ELSE 2], ranges |-> {}, names |-> {}]
Proto(m, n, e) ==
    [format |-> "FORMAT_PROTOBUF",
     value |-> [messages |-> [x \in MessageNames |-> IF x = "M" THEN m ELSE n],
                enums |-> [x \in EnumNames |-> e]]]
SomeUploads ==
    {Proto(m, Empty, PlainEnum) : m \in MessageVariants}
    \cup {Proto(Empty, Empty, e) : e \in EnumVariants \cup {Nil}}
    \cup {Proto(Empty, Nil, PlainEnum), Proto([Empty EXCEPT !.syntax = "proto2"], Empty, PlainEnum)}
    \cup [format : {"FORMAT_AVRO"}, value : {"A1", "A2"}]
    \cup [format : {"FORMAT_JSON"}, value : {"J1"}]

\* A2 can read what A1 wrote, and not the other way round.
SomeReads == {<<"A1", "A1">>, <<"A2", "A2">>, <<"A2", "A1">>}
=============================================================================
