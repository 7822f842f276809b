-------------------------- MODULE MCDaemonManager --------------------------
(* Instances of DaemonManager.  What the user and the restarts of the app   *)
(* do is bounded; what the app, the daemon and the server do is not.        *)
EXTENDS DaemonManager, Naturals, TLC

CONSTANTS u1, u2, o1, o2,
          MaxCalls      \* bound on the calls of the renderer

VARIABLE calls          \* how many there were

Alike == Permutations(Op) \cup Permutations(User)

\* Nothing on the port, or a daemon in a place the native CLI cannot reach.
DownOrForeign ==
    {Down, [Down EXCEPT !.status = "running", !.native = FALSE]}
NothingRuns == {Down}

BoundedNext ==
    \/ /\ \E o \in Op : Renderer(o)
       /\ calls < MaxCalls
       /\ calls' = calls + 1
    \/ /\ \/ \E o \in Op : Health(o) \/ Lifecycle(o) \/ Credentials(o) \/ GuardedStop(o)
          \/ Environment
       /\ UNCHANGED calls

BoundedInit == Init /\ calls = 0
BoundedSpec == BoundedInit /\ [][BoundedNext]_<<vars, calls>>
=============================================================================
