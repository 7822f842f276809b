----------------------------- MODULE MCTaskQueue -----------------------------
(****************************************************************************)
(* Small instances of TaskQueue.  A scenario says which agent, lane and     *)
(* runtime each row id stands for.                                          *)
(****************************************************************************)
EXTENDS TaskQueue, TLC

CONSTANTS a1, a2, i1, c1, r1, r2, t1, t2, t3, q1, q2

Alike == Permutations(Task) \cup Permutations(Poll)
AlikePolls == Permutations(Poll)

OneMachine == {{r1}}
OneSlot == [a \in Agent |-> 1]
TwoSlots == [a \in Agent |-> 2]

\* The runtimes stay online: sweeps, silence and restarts are other instances.
OnlineNext ==
    \/ Enqueues \/ Claims \/ Callbacks \/ FollowUps \/ Cancels
    \/ FailStaleTasks
    \/ (\E t \in Task : Elapse(t)) \/ ServerCrash
OnlineSpec == Init /\ [][OnlineNext]_vars

\* A bound on the follow-ups that are owed at once; MCTaskQueue_live has none.
OneOwed == Cardinality(owed) <= 1

\* One agent, one issue: a run, its retries and a fresh request share a lane.
LaneAgent == [t \in Task |-> a1]
LaneLane == [t \in Task |-> i1]
LaneRuntime == [t \in Task |-> r1]

\* Two agents on one issue: t1 is the thread owner's, t2 and t3 the assignee's.
\* In RivalLane t3 is in a chat: it meets t2 at the assignee's capacity only.
RivalLane == (t1 :> i1) @@ (t2 :> i1) @@ (t3 :> c1)
FallbackAgent == (t1 :> a1) @@ (t2 :> a2) @@ (t3 :> a2)
FallbackRuntime == (t1 :> r2) @@ (t2 :> r1) @@ (t3 :> r1)

-----------------------------------------------------------------------------
(* Liveness: the database works and the servers stay up; daemons poll, start *)
(* what they are given and end what they started, while they are online; the *)
(* sweepers go on.                                                           *)

ServedNext ==
    \/ Enqueues \/ Callbacks \/ FollowUps
    \/ \E q \in Poll : (\E rs \in Machine : PollStart(q, rs)) \/ ClaimStep(q) \/ PollAnswer(q)
    \/ \E t \in In({"deferred", "dispatched"}) : Elapse(t)

LiveNext ==
    \/ ServedNext \/ Sweeps
    \/ \E r \in Runtime : Silence(r) \/ Heartbeat(r)
    \/ \E t \in Task : Elapse(t)

Online(rs) == \A r \in rs : runtime[r] = "online"

DaemonFairness ==
    /\ \A q \in Poll : WF_vars(ClaimStep(q) \/ PollAnswer(q))
    /\ \A rs \in Machine : WF_vars(Online(rs) /\ \E q \in Poll : PollStart(q, rs))
    /\ \A t \in Task : WF_vars(Online({RuntimeOf[t]}) /\ StartTask(t))
    /\ \A t \in Task : WF_vars(/\ Online({RuntimeOf[t]})
                               /\ \/ CompleteTask(t)
                                  \/ \E why \in ReportedReason : FailTask(t, why))

SweeperFairness ==
    /\ \A r \in Runtime : WF_vars(MarkOffline({r}))
    /\ WF_vars(FailTasksForOfflineRuntimes)
    /\ WF_vars(FailStaleTasks)
    /\ \A t \in Task : WF_vars(Elapse(t))

LiveSpec == Init /\ [][LiveNext]_vars /\ DaemonFairness /\ SweeperFairness

\* No sweep and no silence: what a queued row has to wait for is its daemon.
ServedSpec == Init /\ [][ServedNext]_vars /\ DaemonFairness

\* Daemons that shut down in order, or never answer, and a server that may stop.
StoppedSpec ==
    /\ Init
    /\ [][LiveNext \/ ServerCrash \/ \E r \in Runtime : Deregister(r)]_vars
    /\ SweeperFairness

\* A queued row of a daemon that stays online and polls is claimed or ends:
\* ClaimTaskForRuntime says it "becomes claimable on the next call rather than
\* waiting for the TTL".
QueuedIsServed ==
    \A t \in Task :
        /\ row[t].status = "queued" /\ RuntimeOf[t] \in UNION Machine
        /\ runtime[RuntimeOf[t]] = "online"
        ~> row[t].status # "queued" \/ runtime[RuntimeOf[t]] # "online"

\* Whatever a runtime that fell silent had in flight is released unless it
\* comes back, the rows that wait for a directory included.
SilentIsReleased ==
    \A t \in Task :
        row[t].status \in InFlight /\ runtime[RuntimeOf[t]] = "stale"
        ~> row[t].status \notin InFlight \/ runtime[RuntimeOf[t]] = "online"

\* FailTasksForOfflineRuntimes "cleans up orphaned tasks after a daemon crash
\* or network partition": what is in flight on an offline runtime is failed.
OfflineIsReleased ==
    \A t \in Task :
        row[t].status \in InFlight /\ runtime[RuntimeOf[t]] = "offline"
        ~> row[t].status \notin InFlight \/ runtime[RuntimeOf[t]] # "offline"
=============================================================================
