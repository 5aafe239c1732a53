CONSTANTS
    c1 = c1  c2 = c2
    Clients <- MCClients
    WithNats = TRUE
    MaxFaults = 3
SPECIFICATION FairSpec
INVARIANTS
    TypeOK
    ExitCodeTells
    OnlyLiveTasksFailLoud
    ReadyOverDeadIsLeaving
PROPERTIES
    LiveTaskComesBack
    UnfedStreamEnds
