CONSTANTS
    i1 = i1  s1 = s1  s2 = s2  s3 = s3  p1 = p1  p2 = p2
    n1 = n1  n2 = n2  nofact = nofact
    NoFact = nofact
    Instances <- OneInstance
    Sessions <- OneSession
    Recipients <- OneRecipient
    CallerOf <- MCCallerOf
    OwnerOf <- SameOwner
    HostOf <- MCHostOf
    Ids <- OneId
    Capacity = 2
    Chunk = 1
    MaxFaults = 1
SPECIFICATION Spec
INVARIANT NothingLostAcrossRestart
