SPECIFICATION FairSpec
CONSTANTS
    t1 = t1
    t2 = t2
    s1 = s1
    f1 = f1
    f2 = f2
    Nil = Nil
    Tasks = {t1, t2}
    Schemas = {s1}
    Files = {f1, f2}
    Descriptors = {f1, f2}
    Changed <- Differing
    Enable = TRUE
    MaxOps = 5
    MaxFaults = 1
INVARIANT TypeOK
INVARIANT SuccessMeansSent
INVARIANT SentIsRecorded
INVARIANT DuplicatesBounded
PROPERTY ChangesAnnounced
