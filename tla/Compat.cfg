SPECIFICATION Spec
CONSTANTS
    Nil = Nil
    MessageNames = {"M", "N"}
    EnumNames = {"E"}
    FieldNames = {"foo_bar", "fooBar", "baz"}
    JSONName <- SomeJSONNames
    ValueNames = {"ONE", "TWO"}
    Numbers = {1, 2, 3}
    Kinds = {"int32", "string", "message"}
    Ranges <- SomeRanges
    Uploads <- SomeUploads
    AvroReads <- SomeReads
    Modes <- CheckedModes
    MaxVersions = 3
INVARIANT FormatsStay
INVARIANT MeaningsKept
INVARIANT TransitiveByLatest
INVARIANT FullIsBoth
INVARIANT AdditionsAccepted
