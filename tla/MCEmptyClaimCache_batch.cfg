SPECIFICATION BatchSpec
CONSTANTS
    MaxVersion = 2
    t1 = t1
    r1 = r1
    r2 = r2
    q1 = q1
    Task = {t1}
    Runtime = {r1, r2}
    RuntimeOf <- SameRuntime
    Poll = {q1}
    Machine <- OneBatch
    EmptyTTL = 2
    VersionTTL = 4
    PollBound = 2
    NoVerdict = NoVerdict
INVARIANTS TypeOK AnnouncedRowsAreSeen
PROPERTIES QueuedRowsAreListed
