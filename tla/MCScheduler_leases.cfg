SPECIFICATION FairSpec
CONSTANTS
    m1 = m1
    m2 = m2
    Runner = {m1, m2}
    Plan = {1, 2}
    Mode = "hook"
    ScheduleDelay = 0
    CatchUpWindow = 4
    MaxPlansPerTick = 2
    Lateness = 2
    Anchor = 0
    ReplayWindow = 4
    MaxOccurrences = 1
    StaleTimeout = 1
    AllowStaleReentry = TRUE
    MaxAttempts = 2
    RetryDelay <- OneUnit
    MaxTime = 4
    NoTime = NoTime
    NoPlan = NoPlan
INVARIANTS TypeOK LeaseExclusive
PROPERTIES OutcomeByHolder SuccessIsFinal AbandonedIsClosed NewestIsRetried NewestIsDispatched
CHECK_DEADLOCK FALSE
