CONSTANTS
    MaxLink = 4
    MaxTemplate = 2
    NoLink = nolink
    Absent = absent
    Null = null
    Other = other
    Nothing = nothing
SPECIFICATION Spec
INVARIANTS
    LinksStayHome
    StoredReadsBack
    TypedArrives
    OnlyPayloadsPoison
CHECK_DEADLOCK FALSE
