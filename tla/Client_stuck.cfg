SPECIFICATION FairSpec
CONSTANTS
    c1 = c1
    c2 = c2
    f1 = f1
    f2 = f2
    f3 = f3
    Nil = Nil
    Own = Own
    N = 1
    Callers = {c1}
    Files = {f1, f2, f3}
    Descriptors = {f1, f2, f3}
    Strategies <- VersionBased
    MaxVersion = 3
    MaxDeletes = 0
    MaxRefreshes = 1
    MaxFaults = 0
PROPERTY EventuallyFresh
