SPECIFICATION BoundedSpec
CONSTANTS
    u1 = u1
    u2 = u2
    o1 = o1
    o2 = o2
    User = {u1, u2}
    NoUser = NoUser
    NoToken = NoToken
    Op = {o1, o2}
    MaxCalls = 4
    AtLaunch <- NothingRuns
SYMMETRY Alike
INVARIANTS LogoutStops

CHECK_DEADLOCK FALSE
