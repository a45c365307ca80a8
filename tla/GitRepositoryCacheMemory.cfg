SPECIFICATION FairSpec
CONSTANTS
    Method = "memory"
    r1 = r1
    r2 = r2
    p1 = p1
    p2 = p2
    main = main
    hexBranch = hexBranch
    Replica = {p1}
    Request = {r1}
    Home <- MCOneReplica
    Shared = redis
    Repository = {repo}
    Commit = {c1, c2}
    Name <- MCName
    HexName <- MCHexName
    None = none
    TTL = 2
    Lag = 1
INVARIANT BoundedStaleness
PROPERTY Converges
