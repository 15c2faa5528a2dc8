---------------------------- MODULE MCTypeGraph -----------------------------
(***************************************************************************)
(* An instance of TypeGraph for TLC: messages A, B and C, a message and an *)
(* enum declared in A, and every graph over a set of fields with cycles.   *)
(***************************************************************************)
EXTENDS TypeGraph

A == <<"A">>
B == <<"B">>
C == <<"C">>
AB == <<"A", "B">>   \* a message inside A with the name of another message
AE == <<"A", "E">>   \* an enum inside A

SomeMessages == {A, B, C, AB}
SomeEnums == {AE}

\* Two cycles, of A and B and of all three, a recursive message, and fields of
\* and in the nested types.
Fields ==
    {<<A, A>>, <<A, B>>, <<B, A>>, <<B, C>>, <<C, A>>, <<C, AB>>, <<AB, B>>, <<B, AE>>}
AllGraphs == SUBSET Fields
\* The guide's sample and one step more: a Friend has an Address, a User a
\* Friend, a Group a User; and a Shop has a map of Addresses, whose entries are
\* of a message inside it.
Address == <<"Address">>
Friend == <<"Friend">>
User == <<"User">>
Group == <<"Group">>
Shop == <<"Shop">>
Entry == <<"Shop", "Entry">>
SampleMessages == {Address, Friend, User, Group, Shop, Entry}
Sample ==
    {{<<Friend, Address>>, <<User, Friend>>, <<Group, User>>, <<Shop, Entry>>, <<Entry, Address>>}}
AddressChanges == {[t \in SampleMessages |-> IF t = Address THEN "changed" ELSE "same"]}

\* One declaration differs or is new.
OneChange ==
    {[t \in SomeMessages \cup SomeEnums |-> IF t = x THEN "changed" ELSE "same"] :
        x \in SomeMessages \cup SomeEnums}
    \cup {[t \in SomeMessages \cup SomeEnums |-> IF IsPrefix(x, t) THEN "absent" ELSE "same"] :
        x \in {A, B, AE}}

SomeDepths == {-1, 0, 1}
SomeLevels == {0, 1, 2}
\* B means two types, X none.
SomeNames == {A, B, AE, <<"X">>}
=============================================================================
