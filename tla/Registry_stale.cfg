SPECIFICATION Spec
CONSTANTS
    p1 = p1
    p2 = p2
    f1 = f1
    f2 = f2
    f3 = f3
    Nil = Nil
    Procs = {p1}
    Namespaces <- OneNamespace
    Names <- OneName
    Files = {f1, f2}
    Formats <- Proto
    Compats <- Backward
    Parses <- AllParse
    Allowed <- AllAllowed
    NsSetup <- WithNamespaces
    Ops <- CreateDeleteRead
    MaxOps = 5
    MaxFaults = 0
INVARIANT LatestIsNewest
