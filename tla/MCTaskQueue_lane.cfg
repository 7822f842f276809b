SPECIFICATION Spec
CONSTANTS
    a1 = a1
    a2 = a2
    i1 = i1
    c1 = c1
    r1 = r1
    r2 = r2
    t1 = t1
    t2 = t2
    t3 = t3
    q1 = q1
    q2 = q2
    Task = {t1, t2, t3}
    Agent = {a1}
    Issue = {i1}
    Chat = {}
    QuickCreate = QuickCreate
    RunOnly = RunOnly
    Runtime = {r1}
    Machine <- OneMachine
    Poll = {q1, q2}
    AgentOf <- LaneAgent
    LaneOf <- LaneLane
    RuntimeOf <- LaneRuntime
    MaxConcurrent <- TwoSlots
    MaxAttempts = 2
    ReportedReason = {"agent_error", "provider_network"}
    NoTask = NoTask
    NoAgent = NoAgent
    NoPoll = NoPoll
CONSTRAINT OneOwed
SYMMETRY Alike
INVARIANTS TypeOK Serialized RetryLineage
PROPERTIES RetryJoinsFailure AnsweredClaimStands TerminalIsFinal ImplementsWorkQueue
CHECK_DEADLOCK FALSE
