SPECIFICATION ServedSpec
CONSTANTS
    a1 = a1
    a2 = a2
    i1 = i1
    c1 = c1
    r1 = r1
    r2 = r2
    t1 = t1
    t2 = t2
    t3 = t3
    q1 = q1
    q2 = q2
    Task = {t1, t2, t3}
    Agent = {a1, a2}
    Issue = {i1}
    Chat = {}
    QuickCreate = QuickCreate
    RunOnly = RunOnly
    Runtime = {r1, r2}
    Machine <- OneMachine
    Poll = {q1}
    AgentOf <- FallbackAgent
    LaneOf <- LaneLane
    RuntimeOf <- FallbackRuntime
    MaxConcurrent <- OneSlot
    MaxAttempts = 2
    ReportedReason = {"agent_error"}
    NoTask = NoTask
    NoAgent = NoAgent
    NoPoll = NoPoll
PROPERTIES QueuedIsServed
CHECK_DEADLOCK FALSE
