SPECIFICATION Spec
CONSTANTS
    Messages = {m1, m2}
    m1 = m1
    m2 = m2
    Jobs <- MCJobs
    PruneAges = {0, 1}
    PruneAge = 1
    MaxDrops = 2
    MaxNow = 2
    MaxPrinted = 3
INVARIANTS
    TypeOK
    CountKept
    SubscriptionsClosed
    CapturedReadable
PROPERTIES
    StreamResumes
