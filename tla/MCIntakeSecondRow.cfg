CONSTANTS
    r1 = r1  r2 = r2  s1 = s1  p1 = p1  p2 = p2
    d1 = d1  d2 = d2  x1 = x1  x2 = x2
    f1 = f1  f2 = f2  f3 = f3
    none = none  noframe = noframe  unreadable = unreadable
    Replicas <- OneReplica
    Sources <- MCSources
    Recipients <- MCRecipients
    Unreadable = unreadable
    NoRow = none
    NoFrame = noframe
    Commands <- FanOutCommands
    Frames <- FanOutFrames
    CommandOf <- FanOutCommandOf
    SourceOf <- MCSourceOf
    RecipientsOf <- MCRecipientsOf
    FaultsOf <- MCFaultsOf
    Evictable <- NoEviction
    MaxRecvErrors = 2
    MaxFaults = 1
    MaxDeletes = 1
SPECIFICATION Spec
INVARIANT NoSecondRow
