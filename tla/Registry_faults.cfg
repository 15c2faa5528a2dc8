SPECIFICATION FairSpec
CONSTANTS
    p1 = p1
    p2 = p2
    f1 = f1
    f2 = f2
    f3 = f3
    Nil = Nil
    Procs = {p1, p2}
    Namespaces <- OneNamespace
    Names <- OneName
    Files = {f1, f2}
    Formats <- Proto
    Compats <- Backward
    Parses <- AllParse
    Allowed <- AllAllowed
    NsSetup <- WithNamespaces
    Ops <- ChangesAgainstDeletes
    MaxOps = 3
    MaxFaults = 1
INVARIANT TypeOK
INVARIANT NoDanglingRows
INVARIANT VersionsReadable
INVARIANT VersionsDistinct
INVARIANT ConflictMeansSameContent
PROPERTY ImplementsVersionStore
PROPERTY RequestsAnswered
