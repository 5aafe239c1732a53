CONSTANTS
    p1 = p1  x1 = x1  x2 = x2  x3 = x3  x4 = x4
    Ids <- MCIds
    Recipients <- MCRecipients
    OwnerOf <- MCOwnerOf
    Caller = p1
    CreatedAt <- MCCreatedAt
    Rank <- MCRank
    Corrupt <- MCCorrupt
    Firsts <- MCFirsts
    MaxFirst = 2
    NoId = noid
SPECIFICATION ListingSpec
INVARIANT NoFalseEnd
CHECK_DEADLOCK FALSE
