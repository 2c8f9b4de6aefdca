SPECIFICATION MCFairSpec
CONSTANTS
    p1 = p1
    p2 = p2
    Nobody = Nobody
    Procs = {p1, p2}
    Spans = {s1, s2}
    Errors = {s1}
    QueueSize = 1
    BatchSize = 2
    ReadCount = 2
    MaxEntries = 3
    MaxSpanFaults <- OneSpanFault
    Requests = {r1, r2}
    Owners = {u1}
    Contents = {a}
    Cleaners = {p1, p2}
    Quota = 2
    MaxUploads = 2
    MaxImages = 2
    MaxImageFaults <- OneImageFault
    Servers = {p1, p2}
    DayLength = 2
    Days = 3
    FineRetention = 1
    RollupTimes = {0, 1}
    MaxRequests = 2
    MaxMetricFaults <- OneMetricFault
CHECK_DEADLOCK FALSE
CONSTRAINT FewFaults
INVARIANTS
    SpansSurvive
    CountedOnce
    DayIsWhole
    FilesFollowRows
PROPERTIES StreamedIsStored
