CONSTANTS
    p1 = p1  p2 = p2  x1 = x1  x2 = x2  x3 = x3
    marker = marker  markall = markall  remover = remover
    purger = purger  helper = helper  robot = robot
    NoOne = noone
    Ids <- MCIds
    Recipients <- MCRecipients
    OwnerOf <- MCOwnerOf
    Requests <- MCRequestsSet
    OpOf <- MCOpOf
    TargetsOf <- MCTargetsOf
    PassportOf <- MCPassportOf
    MaxSent = 3
    Budget = 2
SPECIFICATION FairSpec
INVARIANTS
    TypeOK
    AckedIsDone
    NotFoundIsGone
    ToldOnce
    OnlyTheActorsOwn
PROPERTIES
    Implements
    Answered
CHECK_DEADLOCK FALSE
