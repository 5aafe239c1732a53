CONSTANTS
    i1 = i1  s1 = s1  s2 = s2  s3 = s3  p1 = p1  p2 = p2
    n1 = n1  n2 = n2  nofact = nofact
    NoFact = nofact
    Instances <- OneInstance
    Sessions <- ThreeSessions
    Recipients <- TwoRecipients
    CallerOf <- MCCallerOf
    OwnerOf <- OwnOwner
    HostOf <- MCHostOf
    Ids <- TwoIds
    Capacity = 1
    Chunk = 1
    MaxFaults = 0
SPECIFICATION StreamsSpec
SYMMETRY SessionSymmetry
INVARIANTS
    TypeOK
    NothingForeign
    RegistryHoldsStreams
PROPERTIES
    ToldInOrder
    NothingPastGap
