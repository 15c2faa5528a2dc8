SPECIFICATION FairSpec
CONSTANTS
    n1 = n1
    s1 = s1
    p1 = p1
    p2 = p2
    a1 = a1
    q1 = q1
    M1 = M1
    c1 = c1
    h1 = h1
    Blank = Blank
    Empty = Empty
    Nil = Nil
    NamespaceIds = {n1, Blank}
    SchemaIds = {s1, Blank}
    Contents = {p1, p2, a1, Empty}
    Queries = {q1, Blank}
    VersionIds <- Versions
    MaxVersion = 3
    Parses <- Parsed
    Compatible <- Accepted
    Matches <- Matched
    Diffable <- Shown
    CliUsers = {c1}
    HttpUsers = {h1}
    Commands <- AllCommands
    HttpRequests <- AllHttpRequests
    Databases0 <- AnyStart
    MaxOps = 2
INVARIANT TypeOK
INVARIANT DbOutlivesCalls
INVARIANT GracefulAnswersHTTP
INVARIANT FetchedPairMatches
INVARIANT BlankKeptOut
INVARIANT ZeroMeansThere
PROPERTY SignalStops
PROPERTY CommandsEnd
PROPERTY VersionsAsPromised
