SPECIFICATION MCSpec
CONSTANTS
    a1 = a1
    a2 = a2
    b1 = b1
    b2 = b2
    c1 = c1
    c2 = c2
    only = only
    Roles = {only}
    Menus = {a1, a2}
    Apis = {only}
    Builtin = {}
    Calls = {b1, b2}
    RouteSets = {{}, {only}}
    NoMenu = NoMenu
    MaxAccessCalls = 3
    Instances = {a1, a2}
    Requests = {b1, b2}
    NoToken = NoToken
    MaxTime = 2
    MaxCalls = 3
    MaxFaults = 1
    Conns = {a1, a2}
    ConnIds = {b1, b2}
    Subjects = {only}
    Past <- PastEvents
    Events = {c1, c2}
    QueueCapacity = 1
    MaxConnectionsPerSubject = 1
    ReplayLimit = 1
    Nobody = Nobody
    Titles = {only}
    Questions = {a1, a2}
    TitleOf <- OneTitle
    Tasks = {b1, b2}
    Syncs = {c1, c2}
    Handlers = {only}
    None = None
    MaxItems = 2
    MaxIntakeFaults = 1
SYMMETRY Symmetric
CHECK_DEADLOCK FALSE
CONSTRAINT Few
INVARIANTS
    GraphIsAnnounced
    GrantsAreCurrent
    OthersAreListed
    DrainEndsAll
    OpenMissesNothing
    DraftsAreWhole
    PendingWasMissed
    ExecutedIsDecided
PROPERTIES
    ArchivedStays
    RefusedStaysRefused
