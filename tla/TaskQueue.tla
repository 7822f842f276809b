------------------------------ MODULE TaskQueue ------------------------------
(****************************************************************************)
(* The agent_task_queue table and the operations of the server on it: the   *)
(* statements of src/core/pkg/db/queries/agent.sql as the handlers of       *)
(* internal/service/task.go order them.  A claim request (a member of Poll) *)
(* is a sequence of transactions, other requests interleave between them;   *)
(* what a handler still has to do after its commit is in memory (owed) and  *)
(* is lost when the server stops.  Callbacks about a task may come at any   *)
(* time from any daemon: here the SQL guards alone decide.                  *)
(*                                                                          *)
(* The clock is abstracted to row.age: for a deferred row 2 says that       *)
(* fire_at has passed, for a queued one that its two hours have, for a      *)
(* running one that its 9000 s have.  A dispatched row is 1 once its prepare *)
(* lease and the 90 s recovery window are over and 2 once the lease and the *)
(* 300 s dispatch timeout are; a lease that is extended puts it back to 0.  *)
(* The claim generation dispatched_at is the request that made the claim.   *)
(****************************************************************************)
EXTENDS Naturals, FiniteSets

CONSTANTS
    Task,           \* row ids; an id stands for one (agent, lane, runtime)
    Agent,
    Issue,          \* lanes a queued or dispatched row is unique in
    Chat,           \* chat sessions
    QuickCreate,    \* the one lane of an agent's quick-create rows
    RunOnly,        \* run_only autopilot rows, which nothing serializes
    Runtime,
    Machine,        \* the sets of runtimes one daemon claims for
    Poll,           \* claim requests the servers handle at a time
    AgentOf,        \* agent_id of a row
    LaneOf,         \* issue_id, chat_session_id or neither
    RuntimeOf,      \* runtime_id of a row
    MaxConcurrent,  \* agent.max_concurrent_tasks
    MaxAttempts,    \* the max_attempts a row is enqueued with
    ReportedReason, \* failure reasons daemons report
    NoTask, NoAgent, NoPoll

ASSUME ColumnAssumption ==
    /\ AgentOf \in [Task -> Agent]
    /\ LaneOf \in [Task -> Issue \cup Chat \cup {QuickCreate, RunOnly}]
    /\ RuntimeOf \in [Task -> Runtime]
    /\ Machine \subseteq SUBSET Runtime
    /\ RunOnly \notin Issue \cup Chat \cup {QuickCreate}
    /\ NoTask \notin Task /\ NoPoll \notin Poll /\ NoAgent \notin Agent

ASSUME LimitAssumption ==
    /\ IsFiniteSet(Task)
    /\ MaxConcurrent \in [Agent -> Nat]
    /\ MaxAttempts \in Nat \ {0}

InFlight == {"dispatched", "waiting_local_directory", "running"}
Pending == {"queued", "dispatched"}
Active == InFlight \cup {"queued", "deferred"}
Terminal == {"completed", "failed", "cancelled"}
Status == Active \cup Terminal \cup {"absent"}

\* Failure reasons an automatic retry is allowed for.
Retryable == {"runtime_offline", "runtime_recovery", "timeout",
              "codex_semantic_inactivity", "provider_network",
              "skill_bundle_unavailable"}
Reason == Retryable \cup {"agent_error", "queued_expired", "none"}

\* Retryable failures that no sweeper and no restart writes.
DaemonReason == {"codex_semantic_inactivity", "provider_network", "skill_bundle_unavailable"}

ASSUME ReasonAssumption == ReportedReason \subseteq Reason \ {"none"}

ProviderNetworkMaxAttempts == 3

VARIABLES
    row,      \* the table
    runtime,  \* agent_runtime: online and fresh, stale (online by an old beat) or offline
    poll,     \* the claim requests being handled
    owed      \* what handlers have yet to do after their commit

vars == <<row, runtime, poll, owed>>

Row == [status : Status, attempt : Nat, budget : Nat, reason : Reason,
        parent : Task \cup {NoTask}, escalates : Task \cup {NoTask},
        age : 0..2, claim : Poll \cup {NoPoll}]

Step == {"fallback", "unescalate", "comment", "retry", "rerun", "failOffline"}
Owed == [op : Step, task : Task \cup {NoTask}]

PollState ==
    [pc : {"idle", "promote", "reclaim", "list", "try", "counted", "claimed"},
     runtimes : SUBSET Runtime, agents : SUBSET Agent,
     agent : Agent \cup {NoAgent}, task : Task \cup {NoTask}]

TypeOK ==
    /\ row \in [Task -> Row]
    /\ runtime \in [Runtime -> {"online", "stale", "offline"}]
    /\ poll \in [Poll -> PollState]
    /\ owed \subseteq Owed

-----------------------------------------------------------------------------
(* The table.                                                               *)

Absent == [status |-> "absent", attempt |-> 0, budget |-> 0, reason |-> "none",
           parent |-> NoTask, escalates |-> NoTask,
           age |-> 0, claim |-> NoPoll]

Inserted(s) == [Absent EXCEPT !.status = s, !.attempt = 1, !.budget = MaxAttempts]

\* A row in its next status: nothing is left of the clocks of the last one.
Moved(r, s) == [r EXCEPT !.status = s, !.age = 0, !.claim = NoPoll]

Dispatched(r, q) ==
    [r EXCEPT !.status = "dispatched", !.age = 0, !.claim = q]

Failed(r, why) == [Moved(r, "failed") EXCEPT !.reason = why]

In(statuses) == {t \in Task : row[t].status \in statuses}

\* The serialization key of ClaimAgentTask: issue, else chat session, else the
\* quick-create shape; a run_only row shares its key with no other.
SameLane(s, t) ==
    AgentOf[s] = AgentOf[t] /\ LaneOf[s] = LaneOf[t] /\ LaneOf[t] # RunOnly

SameColumns(s, t) ==
    AgentOf[s] = AgentOf[t] /\ LaneOf[s] = LaneOf[t] /\ RuntimeOf[s] = RuntimeOf[t]

\* idx_one_pending_task_per_issue_agent
Unique(table) ==
    \A s, t \in Task :
        /\ s # t /\ SameLane(s, t) /\ LaneOf[t] \in Issue
        => ~ (table[s].status \in Pending /\ table[t].status \in Pending)

\* The statement whose result is `table' commits, or is refused by the index.
Commits(table) == Unique(table) /\ row' = table
Refused(table) == ~ Unique(table) /\ UNCHANGED row

\* The statements that write many rows.
MoveAll(rows, s) == [t \in Task |-> IF t \in rows THEN Moved(row[t], s) ELSE row[t]]
FailAll(rows, why) == [t \in Task |-> IF t \in rows THEN Failed(row[t], why) ELSE row[t]]

-----------------------------------------------------------------------------
(* Retry.                                                                   *)

Ceiling(why, r) ==
    IF r.budget > 1 /\ why = "provider_network" /\ r.budget < ProviderNetworkMaxAttempts
    THEN ProviderNetworkMaxAttempts ELSE r.budget

\* Mutated form of RetryEligible: one attempt too many.
RetryEligibleOffByOne(why, t) ==
    /\ why \in Retryable
    /\ row[t].attempt <= Ceiling(why, row[t])
    /\ LaneOf[t] \in Issue \cup Chat

RetryEligible(why, t) ==
    /\ why \in Retryable
    /\ row[t].attempt < Ceiling(why, row[t])
    /\ LaneOf[t] \in Issue \cup Chat

\* Mutated form of RetryStatus: a status the column's CHECK does not know.
RetryStatusUnknown(why, r) == IF r.attempt >= 1 THEN "pending" ELSE "queued"

\* Only the final attempt after a provider_network failure is delayed.
RetryStatus(why, r) ==
    IF why = "provider_network" /\ r.attempt >= ProviderNetworkMaxAttempts - 1
    THEN "deferred" ELSE "queued"

RetryOf(t, why) ==
    [Absent EXCEPT !.status = RetryStatus(why, row[t]),
                   !.attempt = row[t].attempt + 1,
                   !.budget = Ceiling(why, row[t]),
                   !.parent = t]

Spare(t) == {c \in Task : row[c].status = "absent" /\ SameColumns(c, t)}

-----------------------------------------------------------------------------
Init ==
    /\ row = [t \in Task |-> Absent]
    /\ runtime = [r \in Runtime |-> "online"]
    /\ poll = [q \in Poll |-> [pc |-> "idle", runtimes |-> {}, agents |-> {},
                               agent |-> NoAgent, task |-> NoTask]]
    /\ owed = {}

(* Enqueue.                                                                 *)

\* An assignment, a mention, a chat message, a quick-create: one insert, which
\* the index may refuse (the caller then merges or reports a duplicate).
Enqueue(t) ==
    /\ row[t].status = "absent"
    /\ Commits([row EXCEPT ![t] = Inserted("queued")])
    /\ UNCHANGED <<runtime, poll, owed>>

\* A comment routed to the owner of its thread: the primary row is inserted
\* first, the delayed fallback to the assignee is a second request to the
\* database that FallbackInsert makes.
EnqueueRouted(p) ==
    /\ row[p].status = "absent" /\ LaneOf[p] \in Issue
    /\ Commits([row EXCEPT ![p] = Inserted("queued")])
    /\ owed' = owed \cup {[op |-> "fallback", task |-> p]}
    /\ UNCHANGED <<runtime, poll>>

\* A channel message whose media is still being fetched waits for it; fire_at
\* is the deadline of that wait.
EnqueueChatDeferred(t) ==
    /\ row[t].status = "absent" /\ LaneOf[t] \in Chat
    /\ row' = [row EXCEPT ![t] = Inserted("deferred")]
    /\ UNCHANGED <<runtime, poll, owed>>

\* The media is there: the rows that waited for it, and no deferred retry.
ChatMediaReady(l) ==
    LET waiting == {t \in In({"deferred"}) : LaneOf[t] = l /\ row[t].parent = NoTask}
    IN  /\ l \in Chat /\ waiting # {}
        /\ row' = MoveAll(waiting, "queued")
        /\ UNCHANGED <<runtime, poll, owed>>

FallbackInsert(f, p) ==
    /\ [op |-> "fallback", task |-> p] \in owed
    /\ row[f].status = "absent"
    /\ LaneOf[f] = LaneOf[p] /\ AgentOf[f] # AgentOf[p]
    /\ Commits([row EXCEPT ![f] = [Inserted("deferred") EXCEPT !.escalates = p]])
    /\ owed' = owed \ {[op |-> "fallback", task |-> p]}
    /\ UNCHANGED <<runtime, poll>>

-----------------------------------------------------------------------------
(* Claim: ClaimTaskForRuntime and ClaimTasksForRuntimes with one free slot. *)

Idle == [pc |-> "idle", runtimes |-> {}, agents |-> {}, agent |-> NoAgent, task |-> NoTask]

PollStart(q, rs) ==
    /\ poll[q].pc = "idle"
    /\ poll' = [poll EXCEPT ![q] = [Idle EXCEPT !.pc = "promote", !.runtimes = rs]]
    /\ UNCHANGED <<row, runtime, owed>>

Due(rs) == {t \in In({"deferred"}) : row[t].age = 2 /\ RuntimeOf[t] \in rs}

\* One UPDATE promotes every due row of the runtimes; when the index refuses
\* one of them the statement fails as a whole and so does the request.
PollPromote(q) ==
    LET promoted == MoveAll(Due(poll[q].runtimes), "queued")
    IN  /\ poll[q].pc = "promote"
        /\ \/ Commits(promoted) /\ poll' = [poll EXCEPT ![q].pc = "reclaim"]
           \/ Refused(promoted) /\ poll' = [poll EXCEPT ![q] = Idle]
        /\ UNCHANGED <<runtime, owed>>

Reclaimable(rs) ==
    {t \in In({"dispatched"}) : row[t].age >= 1 /\ RuntimeOf[t] \in rs}

PollReclaim(q) ==
    /\ poll[q].pc = "reclaim"
    /\ \/ \E t \in Reclaimable(poll[q].runtimes) :
            /\ row' = [row EXCEPT ![t] = Dispatched(row[t], q)]
            /\ poll' = [poll EXCEPT ![q].pc = "claimed", ![q].task = t]
       \/ /\ Reclaimable(poll[q].runtimes) = {}
          /\ poll' = [poll EXCEPT ![q].pc = "list"]
          /\ UNCHANGED row
    /\ UNCHANGED <<runtime, owed>>

\* The request goes on to the agents it has not tried, or answers "no task".
Try(q, agents) ==
    poll' = [poll EXCEPT ![q] = IF agents = {} THEN Idle
                                ELSE [@ EXCEPT !.pc = "try", !.agents = agents,
                                               !.agent = NoAgent]]

PollList(q) ==
    /\ poll[q].pc = "list"
    /\ Try(q, {AgentOf[t] : t \in {u \in In({"queued"}) : RuntimeOf[u] \in poll[q].runtimes}})
    /\ UNCHANGED <<row, runtime, owed>>

\* GetAgentForClaimUpdate locks the agent's row until ClaimPick commits.
LockedByNone(a) == FALSE  \* mutated form: GetAgent without FOR UPDATE
Locked(a) == \E q \in Poll : poll[q].pc = "counted" /\ poll[q].agent = a

\* Mutated form of Running: rows that still queue take a slot.
RunningOrQueued(a) == {t \in In(InFlight \cup {"queued"}) : AgentOf[t] = a}
Running(a) == {t \in In(InFlight) : AgentOf[t] = a}

ClaimCount(q, a) ==
    /\ poll[q].pc = "try" /\ a \in poll[q].agents
    /\ ~ Locked(a)
    /\ IF Cardinality(Running(a)) < MaxConcurrent[a]
       THEN poll' = [poll EXCEPT ![q].pc = "counted", ![q].agent = a,
                                 ![q].agents = @ \ {a}]
       ELSE Try(q, poll[q].agents \ {a})
    /\ UNCHANGED <<row, runtime, owed>>

\* Mutated form of Claimable: rows that wait for a directory do not count.
ClaimableBesideWaiting(a) ==
    {t \in In({"queued"}) :
        AgentOf[t] = a /\ ~ \E s \in In({"dispatched", "running"}) : SameLane(s, t)}

Claimable(a) ==
    {t \in In({"queued"}) :
        AgentOf[t] = a /\ ~ \E s \in In(InFlight) : SameLane(s, t)}

\* The row may be of a runtime that is not polled here: it stays dispatched,
\* for the polls of its own runtime to reclaim.
ClaimPick(q) ==
    /\ poll[q].pc = "counted"
    /\ \/ \E t \in Claimable(poll[q].agent) :
            IF RuntimeOf[t] \in poll[q].runtimes
            THEN /\ row' = [row EXCEPT ![t] = Dispatched(row[t], q)]
                 /\ poll' = [poll EXCEPT ![q].pc = "claimed", ![q].task = t,
                                         ![q].agents = {}, ![q].agent = NoAgent]
            ELSE /\ row' = [row EXCEPT ![t] = Dispatched(row[t], NoPoll)]
                 /\ Try(q, poll[q].agents)
       \/ /\ Claimable(poll[q].agent) = {}
          /\ Try(q, poll[q].agents)
          /\ UNCHANGED row
    /\ UNCHANGED <<runtime, owed>>

\* The claim is out of the server's hands: it is answered, or the answer is
\* lost or could not be built, and the row stays dispatched.
Release(q) ==
    LET t == poll[q].task
    IN  IF row[t].claim = q THEN row' = [row EXCEPT ![t].claim = NoPoll]
                            ELSE UNCHANGED row

PollAnswer(q) ==
    /\ poll[q].pc = "claimed"
    /\ Release(q)
    /\ poll' = [poll EXCEPT ![q] = Idle]
    /\ UNCHANGED <<runtime, owed>>

\* Mutated form of PollRequeue: without the comparison of dispatched_at.
PollRequeueAnyClaim(q) ==
    LET t == poll[q].task
    IN  /\ poll[q].pc = "claimed"
        /\ IF row[t].status = "dispatched"
           THEN row' = [row EXCEPT ![t] = Moved(row[t], "queued")]
           ELSE UNCHANGED row
        /\ poll' = [poll EXCEPT ![q] = Idle]
        /\ UNCHANGED <<runtime, owed>>

\* Token or receipt could not be written: RequeueAgentTaskAfterClaimFailure
\* takes back this claim and no later one.
PollRequeue(q) ==
    LET t == poll[q].task
    IN  /\ poll[q].pc = "claimed"
        /\ IF row[t].status = "dispatched" /\ row[t].claim = q
           THEN row' = [row EXCEPT ![t] = Moved(row[t], "queued")]
           ELSE UNCHANGED row
        /\ poll' = [poll EXCEPT ![q] = Idle]
        /\ UNCHANGED <<runtime, owed>>

-----------------------------------------------------------------------------
(* Daemon callbacks.                                                        *)

ExtendLease(t) ==
    /\ row[t].status \in {"dispatched", "waiting_local_directory"}
    /\ row' = [row EXCEPT ![t].age = 0]
    /\ UNCHANGED <<runtime, poll, owed>>

WaitLocalDirectory(t) ==
    /\ row[t].status = "dispatched"
    /\ row' = [row EXCEPT ![t] = Moved(row[t], "waiting_local_directory")]
    /\ UNCHANGED <<runtime, poll, owed>>

StartTask(t) ==
    /\ row[t].status \in {"dispatched", "waiting_local_directory"}
    /\ row' = [row EXCEPT ![t] = Moved(row[t], "running")]
    /\ owed' = owed \cup {[op |-> "unescalate", task |-> t]}
    /\ UNCHANGED <<runtime, poll>>

\* The comment the server writes in the agent's name: about the outcome of a
\* run, and about a failure nothing retries.
Comments(t) == IF LaneOf[t] \in Issue THEN {[op |-> "comment", task |-> t]} ELSE {}

\* Mutated form of CompleteTask: the UPDATE without its status condition.
CompleteTaskAnyStatus(t) ==
    /\ row[t].status # "absent"
    /\ row' = [row EXCEPT ![t] = Moved(row[t], "completed")]
    /\ owed' \in {owed, owed \cup Comments(t)}
    /\ UNCHANGED <<runtime, poll>>

CompleteTask(t) ==
    /\ row[t].status = "running"
    /\ row' = [row EXCEPT ![t] = Moved(row[t], "completed")]
    /\ owed' \in {owed, owed \cup Comments(t)}
    /\ UNCHANGED <<runtime, poll>>

\* Mutated form of FailTask: the retry is made after the commit.
FailTaskThenRetry(t, why) ==
    /\ row[t].status \in InFlight
    /\ row' = [row EXCEPT ![t] = Failed(row[t], why)]
    /\ owed' = owed \cup [op : {"retry"}, task : {t}]
    /\ UNCHANGED <<runtime, poll>>

\* The failure and its retry are one transaction.  What the retry is made from
\* is read before it: when the read fails, as when the row is not eligible, the
\* failure commits alone.
FailTask(t, why) ==
    /\ row[t].status \in InFlight
    /\ \/ /\ RetryEligible(why, t)
          /\ \E c \in Spare(t) :
               Commits([row EXCEPT ![t] = Failed(row[t], why), ![c] = RetryOf(t, why)])
          /\ UNCHANGED owed
       \/ /\ row' = [row EXCEPT ![t] = Failed(row[t], why)]
          /\ owed' = owed \cup Comments(t)
    /\ UNCHANGED <<runtime, poll>>

\* FailTask when the index refuses the retry: nothing is written and the
\* daemon is answered 500.
FailTaskRefused(t, why) ==
    /\ row[t].status \in InFlight /\ RetryEligible(why, t)
    /\ \E c \in Spare(t) :
         Refused([row EXCEPT ![t] = Failed(row[t], why), ![c] = RetryOf(t, why)])
    /\ UNCHANGED <<runtime, poll, owed>>

-----------------------------------------------------------------------------
(* What handlers do after their commit.                                     *)

Quenchable == In({"deferred", "queued", "dispatched", "waiting_local_directory"})

CancelEscalationsForTask(t) ==
    /\ [op |-> "unescalate", task |-> t] \in owed
    /\ row' = MoveAll({f \in Quenchable : row[f].escalates = t}, "cancelled")
    /\ owed' = owed \ {[op |-> "unescalate", task |-> t]}
    /\ UNCHANGED <<runtime, poll>>

\* Any comment of the agent on the issue acknowledges what was routed to it.
CancelEscalationsForIssueAgent(t) ==
    /\ [op |-> "comment", task |-> t] \in owed
    /\ row' = MoveAll({f \in Quenchable : \E p \in Task : row[f].escalates = p /\ SameLane(p, t)},
                      "cancelled")
    /\ owed' = owed \ {[op |-> "comment", task |-> t]}
    /\ UNCHANGED <<runtime, poll>>

\* The agent of a running task comments on the task's issue.
AgentComment(t) ==
    /\ row[t].status = "running" /\ LaneOf[t] \in Issue
    /\ row' = row
    /\ owed' = owed \cup Comments(t)
    /\ UNCHANGED <<runtime, poll>>

\* MaybeRetryFailedTask, for a row a sweeper or a restart failed: a refused
\* insert is logged and the retry is given up.
MaybeRetry(t) ==
    LET why == row[t].reason
        rest == owed \ {[op |-> "retry", task |-> t]}
    IN  /\ [op |-> "retry", task |-> t] \in owed
        /\ IF RetryEligible(why, t)
           THEN \E c \in Spare(t) : \/ Commits([row EXCEPT ![c] = RetryOf(t, why)])
                                    \/ Refused([row EXCEPT ![c] = RetryOf(t, why)])
           ELSE UNCHANGED row
        /\ owed' = rest
        /\ UNCHANGED <<runtime, poll>>

-----------------------------------------------------------------------------
(* Cancellation and rerun.                                                  *)

CancelTask(t) ==
    /\ row[t].status \in Active
    /\ row' = MoveAll({t}, "cancelled")
    /\ UNCHANGED <<runtime, poll, owed>>

\* The issue or the chat session is deleted.
CancelLane(l) ==
    /\ row' = MoveAll({t \in In(Active) : LaneOf[t] = l}, "cancelled")
    /\ row' # row
    /\ UNCHANGED <<runtime, poll, owed>>

CancelAgent(a) ==
    /\ row' = MoveAll({t \in In(Active) : AgentOf[t] = a}, "cancelled")
    /\ row' # row
    /\ UNCHANGED <<runtime, poll, owed>>

\* RerunIssue cancels what the agent has on the issue and then inserts the
\* fresh row, in two transactions.
Rerun(t) ==
    /\ row[t].status # "absent" /\ LaneOf[t] \in Issue
    /\ row' = MoveAll({s \in In(Active) : SameLane(s, t)}, "cancelled")
    /\ owed' = owed \cup {[op |-> "rerun", task |-> t]}
    /\ UNCHANGED <<runtime, poll>>

RerunInsert(t) ==
    /\ [op |-> "rerun", task |-> t] \in owed
    /\ \E c \in Spare(t) : \/ Commits([row EXCEPT ![c] = Inserted("queued")])
                           \/ Refused([row EXCEPT ![c] = Inserted("queued")])
    /\ owed' = owed \ {[op |-> "rerun", task |-> t]}
    /\ UNCHANGED <<runtime, poll>>

-----------------------------------------------------------------------------
(* Sweepers, restarts and the health of the runtimes.                       *)

\* The rows fail in one statement; HandleFailedTasks then retries each.
Sweep(rows, why) ==
    /\ row' = FailAll(rows, why)
    /\ owed' = owed \cup [op : {"retry"}, task : rows]

FailStaleTasks ==
    LET stale == {t \in In({"dispatched"}) : row[t].age = 2}
                 \cup {t \in In({"running"}) : row[t].age = 2 /\ runtime[RuntimeOf[t]] # "online"}
    IN  /\ stale # {}
        /\ Sweep(stale, "timeout")
        /\ UNCHANGED <<runtime, poll>>

\* Capped by a LIMIT per tick: any part of the expired rows.
ExpireStaleQueuedTasks ==
    \E expired \in SUBSET {t \in In({"queued"}) : row[t].age = 2} :
        /\ expired # {}
        /\ Sweep(expired, "queued_expired")
        /\ UNCHANGED <<runtime, poll>>

\* sweepStaleRuntimes marks the runtimes it found stale and only then, in
\* another statement, fails what is in flight on any offline runtime.
MarkOffline(rs) ==
    /\ rs # {} /\ \A r \in rs : runtime[r] = "stale"
    /\ runtime' = [r \in Runtime |-> IF r \in rs THEN "offline" ELSE runtime[r]]
    /\ owed' = owed \cup {[op |-> "failOffline", task |-> NoTask]}
    /\ UNCHANGED <<row, poll>>

\* Mutated form of FailTasksForOfflineRuntimes: rows that wait are left.
FailStartedForOfflineRuntimes ==
    LET lost == {t \in In({"dispatched", "running"}) : runtime[RuntimeOf[t]] = "offline"}
    IN  /\ [op |-> "failOffline", task |-> NoTask] \in owed
        /\ row' = FailAll(lost, "runtime_offline")
        /\ owed' = (owed \ {[op |-> "failOffline", task |-> NoTask]})
                   \cup [op : {"retry"}, task : lost]
        /\ UNCHANGED <<runtime, poll>>

FailTasksForOfflineRuntimes ==
    LET lost == {t \in In(InFlight) : runtime[RuntimeOf[t]] = "offline"}
    IN  /\ [op |-> "failOffline", task |-> NoTask] \in owed
        /\ row' = FailAll(lost, "runtime_offline")
        /\ owed' = (owed \ {[op |-> "failOffline", task |-> NoTask]})
                   \cup [op : {"retry"}, task : lost]
        /\ UNCHANGED <<runtime, poll>>

\* A daemon that starts reports what its last incarnation left in flight.
RecoverOrphanedTasks(r) ==
    /\ Sweep({t \in In(InFlight) : RuntimeOf[t] = r}, "runtime_recovery")
    /\ UNCHANGED <<runtime, poll>>

Silence(r) ==
    /\ runtime[r] = "online"
    /\ runtime' = [runtime EXCEPT ![r] = "stale"]
    /\ UNCHANGED <<row, poll, owed>>

Heartbeat(r) ==
    /\ runtime[r] # "online"
    /\ runtime' = [runtime EXCEPT ![r] = "online"]
    /\ UNCHANGED <<row, poll, owed>>

\* The daemon shuts down in order; its tasks are not touched.
Deregister(r) ==
    /\ runtime[r] # "offline"
    /\ runtime' = [runtime EXCEPT ![r] = "offline"]
    /\ UNCHANGED <<row, poll, owed>>

Elapse(t) ==
    /\ row[t].status \in Active \ {"waiting_local_directory"} /\ row[t].age < 2
    /\ row' = [row EXCEPT ![t].age = IF row[t].status = "dispatched" THEN @ + 1 ELSE 2]
    /\ UNCHANGED <<runtime, poll, owed>>

\* The server process stops: transactions roll back, follow-ups are lost.
ServerCrash ==
    /\ poll' = [q \in Poll |-> Idle]
    /\ owed' = {}
    /\ UNCHANGED <<row, runtime>>

-----------------------------------------------------------------------------
Enqueues ==
    \/ \E t \in Task : Enqueue(t) \/ EnqueueRouted(t) \/ EnqueueChatDeferred(t)
    \/ \E l \in Chat : ChatMediaReady(l)

ClaimStep(q) ==
    \/ PollPromote(q) \/ PollReclaim(q) \/ PollList(q)
    \/ \E a \in Agent : ClaimCount(q, a)
    \/ ClaimPick(q)

Claims ==
    \E q \in Poll :
        \/ \E rs \in Machine : PollStart(q, rs)
        \/ ClaimStep(q) \/ PollAnswer(q) \/ PollRequeue(q)

Callbacks ==
    \E t \in Task :
        \/ ExtendLease(t) \/ WaitLocalDirectory(t) \/ StartTask(t)
        \/ CompleteTask(t) \/ AgentComment(t)
        \/ \E why \in ReportedReason : FailTask(t, why) \/ FailTaskRefused(t, why)

FollowUp(t) ==
    \/ \E f \in Task : FallbackInsert(f, t)
    \/ CancelEscalationsForTask(t) \/ CancelEscalationsForIssueAgent(t)
    \/ MaybeRetry(t) \/ RerunInsert(t)
FollowUps == \E t \in Task : FollowUp(t)

Cancels ==
    \/ \E t \in Task : CancelTask(t) \/ Rerun(t)
    \/ \E l \in Issue \cup Chat : CancelLane(l)
    \/ \E a \in Agent : CancelAgent(a)

Sweeps ==
    \/ FailStaleTasks \/ ExpireStaleQueuedTasks \/ FailTasksForOfflineRuntimes
    \/ \E rs \in SUBSET Runtime : MarkOffline(rs)

Environment ==
    \/ \E r \in Runtime :
          RecoverOrphanedTasks(r) \/ Silence(r) \/ Heartbeat(r) \/ Deregister(r)
    \/ \E t \in Task : Elapse(t)
    \/ ServerCrash

Next == Enqueues \/ Claims \/ Callbacks \/ FollowUps \/ Cancels \/ Sweeps \/ Environment

Spec == Init /\ [][Next]_vars

-----------------------------------------------------------------------------
(* Safety.                                                                  *)

\* An agent never has two rows of one issue (or chat session, or two quick
\* creates) in flight: ClaimAgentTask is the only way into that set, and what
\* it looks at must name every status that counts.
Serialized ==
    \A s, t \in In(InFlight) : s # t => ~ SameLane(s, t)

\* max_concurrent_tasks holds although the count and the claim are two
\* statements and several servers claim for one agent: the lock on the agent's
\* row spans both.
CapacityRespected ==
    \A a \in Agent : Cardinality(Running(a)) <= MaxConcurrent[a]

\* A failed row is retried at most once, whoever fails it and however often:
\* the daemon's callback, a sweeper on each server, the restart of the daemon.
\* The chain of attempts stays within the budget its rows record.
RetryLineage ==
    \A c \in Task :
        LET p == row[c].parent
        IN  p # NoTask =>
            /\ row[p].status = "failed" /\ row[p].reason \in Retryable
            /\ row[c].attempt = row[p].attempt + 1
            /\ row[c].attempt <= row[c].budget
            /\ \A d \in Task : row[d].parent = p => d = c

\* The retry of a failure only a daemon reports appears in the step that takes its
\* parent out of flight, or never: FailTask leaves no window in which "a newer
\* chat task could claim the now-idle session and jump ahead of the retry", and no
\* sweep, restart or repeated callback makes up for a retry that was not made.
RetryJoinsFailure ==
    [][\A c \in Task :
          LET p == row'[c].parent
          IN  row[c].parent = NoTask /\ p # NoTask /\ row'[p].reason \in DaemonReason
                  => row[p].status \in InFlight]_vars

\* Once an answer carried a claim to a daemon no other request takes the row
\* back to the queue: a handler that was slow to fail its claim must not undo
\* the reclaim that followed it.
AnsweredClaimStands ==
    [][\A t \in Task : row[t].status = "dispatched" /\ row[t].claim = NoPoll
                          => row'[t].status # "queued"]_vars

\* Completed, failed and cancelled are final: a late callback, a slow claim
\* handler or a sweeper that raced the transition changes nothing.
TerminalIsFinal ==
    [][\A t \in Task : row[t].status \in Terminal => row'[t] = row[t]]_vars
-----------------------------------------------------------------------------
(* What the queue promises.                                                 *)

PhaseOf ==
    [status \in Status |->
        CASE status = "absent" -> "none"
          [] status \in {"queued", "deferred"} -> "waiting"
          [] status = "dispatched" -> "claimed"
          [] status \in {"waiting_local_directory", "running"} -> "begun"
          [] OTHER -> status]

Rivals == {pair \in Task \X Task : SameLane(pair[1], pair[2])}

Promise == INSTANCE WorkQueue WITH
    Work <- Task, Rival <- Rivals, NoWork <- NoTask,
    phase <- [t \in Task |-> PhaseOf[row[t].status]],
    origin <- [t \in Task |-> row[t].parent]

\* Polls of several servers, lost answers, reclaims, sweeps, restarts and
\* crashes show the one who asked for work nothing but the life of WorkQueue:
\* claimed by one rival at a time, given back only before it began, closed
\* once, tried again once.
ImplementsWorkQueue == Promise!Spec
=============================================================================
