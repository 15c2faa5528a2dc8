SPECIFICATION Spec
CONSTANTS
    p1 = p1
    p2 = p2
    f1 = f1
    f2 = f2
    f3 = f3
    Nil = Nil
    Procs = {p1, p2}
    Namespaces <- TwoNamespaces
    Names <- OneName
    Files = {f1, f2, f3}
    Formats <- Proto
    Compats <- BackwardOrNone
    Parses <- AllParse
    Allowed <- ChainAllowed
    NsSetup <- WithNamespaces
    Ops <- OneCreator
    MaxOps = 3
    MaxFaults = 0
INVARIANT SuccessiveCompatible
INVARIANT CacheIsCurrent
INVARIANT CreatedIsStored
INVARIANT ReadsWereStored
