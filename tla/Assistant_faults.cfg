SPECIFICATION MCFairSpec
CONSTANTS
    c1 = c1
    r1 = r1
    r2 = r2
    Conversations <- OneConversation
    Requests <- TwoRequests
    Target <- SameTarget
    MaxFaults <- OneOfEach
    MaxTurns = 3
    Orgs = {"home", "work"}
    RefreshEvery = 2
    Shown = 2
    Says <- ThreeTurns
    MaxMemoryFaults = 1
CHECK_DEADLOCK FALSE
CONSTRAINT FirstAtHome
INVARIANTS
    OneStream
    OnlyBrokenWritesLeaveLoading
    TurnsAreWhole
    TextReachesBoundary
    BoundaryKeepsUp
    
PROPERTIES
    BusyEnds
    StoredIsIndexed
