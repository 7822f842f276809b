SPECIFICATION BoundedSpec
CONSTANTS
    u1 = u1
    u2 = u2
    o1 = o1
    o2 = o2
    User = {u1, u2}
    NoUser = NoUser
    NoToken = NoToken
    Op = {o1, o2}
    MaxCalls = 3
    AtLaunch <- DownOrForeign
SYMMETRY Alike
INVARIANTS TypeOK GuardIsHeld NoStuckStopping PatIsOwn SwitchTakesEffect LogoutLeavesNothing
PROPERTIES NoFlapping
CHECK_DEADLOCK FALSE
