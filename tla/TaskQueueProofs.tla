--------------------------- MODULE TaskQueueProofs ---------------------------
(****************************************************************************)
(* What the runs of MCTaskQueue check on small instances, for every set of  *)
(* rows, agents, lanes, runtimes and claim requests.                        *)
(****************************************************************************)
EXTENDS TaskQueue, TLAPS, FiniteSetTheorems

-----------------------------------------------------------------------------
(* Types.                                                                   *)

\* What the statements write is a row again.
LEMMA RowOperators ==
    /\ Absent \in Row
    /\ \A s \in Status : Inserted(s) \in Row
    /\ \A r \in Row, s \in Status : Moved(r, s) \in Row
    /\ \A r \in Row, q \in Poll \cup {NoPoll} : Dispatched(r, q) \in Row
    /\ \A r \in Row, why \in Reason : Failed(r, why) \in Row
<1>0. MaxAttempts \in Nat
  BY LimitAssumption
<1>1. /\ {"absent", "dispatched", "failed"} \subseteq Status
      /\ "none" \in Reason
  BY DEF Status, Active, InFlight, Terminal, Reason, Retryable
<1>2. 0 \in 0..2 /\ 0 \in Nat /\ 1 \in Nat
  OBVIOUS
<1> USE DEF Row
<1>3. Absent \in Row
  BY <1>1, <1>2 DEF Absent
<1>4. ASSUME NEW s \in Status PROVE Inserted(s) \in Row
  BY <1>0, <1>2, <1>3 DEF Inserted
<1>5. ASSUME NEW r \in Row, NEW s \in Status PROVE Moved(r, s) \in Row
  BY <1>2 DEF Moved
<1>6. ASSUME NEW r \in Row, NEW q \in Poll \cup {NoPoll} PROVE Dispatched(r, q) \in Row
  BY <1>1, <1>2 DEF Dispatched
<1>7. ASSUME NEW r \in Row, NEW why \in Reason PROVE Failed(r, why) \in Row
  <2>1. Moved(r, "failed") \in Row
    BY <1>1, <1>5
  <2> QED BY <2>1 DEF Failed
<1> QED
  BY <1>3, <1>4, <1>5, <1>6, <1>7

\* A retry is a row, one attempt on.
LEMMA RetryOfType ==
    ASSUME TypeOK, NEW t \in Task, NEW why \in Reason
    PROVE  RetryOf(t, why) \in Row
<1>1. row[t] \in Row
  BY DEF TypeOK
<1>2. row[t].attempt \in Nat /\ row[t].budget \in Nat
  BY <1>1 DEF Row
<1>3. Ceiling(why, row[t]) \in Nat
  BY <1>2 DEF Ceiling, ProviderNetworkMaxAttempts
<1>4. RetryStatus(why, row[t]) \in Status
  BY DEF RetryStatus, Status, Active
<1> QED
  <2>1. row[t].attempt + 1 \in Nat
    BY <1>2
  <2>2. Absent \in Row
    BY RowOperators
  <2> QED BY <1>3, <1>4, <2>1, <2>2 DEF RetryOf, Row

\* The initial state has the types.
LEMMA InitType == Init => TypeOK
BY RowOperators DEF Init, TypeOK, PollState

\* The steps of a claim request keep the types.
LEMMA ClaimsType == TypeOK /\ Claims => TypeOK'
<1> SUFFICES ASSUME TypeOK, NEW q \in Poll,
                    \/ \E rs \in Machine : PollStart(q, rs)
                    \/ ClaimStep(q) \/ PollAnswer(q) \/ PollRequeue(q)
             PROVE  TypeOK'
  BY DEF Claims
<1> USE DEF TypeOK
<1>0. Idle \in PollState
  BY DEF Idle, PollState
<1>r. poll[q] \in PollState
  OBVIOUS
<1>t. ASSUME NEW agents \in SUBSET Agent, Try(q, agents) PROVE poll' \in [Poll -> PollState]
  <2> DEFINE p == IF agents = {} THEN Idle
                  ELSE [poll[q] EXCEPT !.pc = "try", !.agents = agents, !.agent = NoAgent]
  <2>1. p \in PollState
    BY <1>0, <1>r DEF PollState
  <2>2. poll' = [poll EXCEPT ![q] = p]
    BY <1>t DEF Try
  <2> QED BY <2>1, <2>2
<1>1. CASE \E rs \in Machine : PollStart(q, rs)
  <2>1. PICK rs \in Machine : PollStart(q, rs)
    BY <1>1
  <2>2. rs \in SUBSET Runtime
    BY ColumnAssumption
  <2> QED BY <2>1, <2>2 DEF PollStart, Idle, PollState
<1>2. CASE PollPromote(q)
  <2>1. \A t \in Task : Moved(row[t], "queued") \in Row
    BY RowOperators DEF Status, Active
  <2>2. MoveAll(Due(poll[q].runtimes), "queued") \in [Task -> Row]
    BY <2>1 DEF MoveAll
  <2>3. row' \in [Task -> Row]
    BY <1>2, <2>2 DEF PollPromote, Commits, Refused
  <2>4. poll' \in [Poll -> PollState]
    BY <1>2, <1>0, <1>r DEF PollPromote, PollState
  <2> QED BY <1>2, <2>3, <2>4 DEF PollPromote
<1>3. CASE PollReclaim(q)
  <2>1. \A t \in Task : Dispatched(row[t], q) \in Row
    BY RowOperators
  <2>2. row' \in [Task -> Row]
    BY <1>3, <2>1 DEF PollReclaim, Reclaimable, In
  <2>3. poll' \in [Poll -> PollState]
    BY <1>3, <1>r DEF PollReclaim, PollState, Reclaimable, In
  <2> QED BY <1>3, <2>2, <2>3 DEF PollReclaim
<1>4. CASE PollList(q)
  <2>1. {AgentOf[t] : t \in {u \in In({"queued"}) : RuntimeOf[u] \in poll[q].runtimes}}
          \in SUBSET Agent
    BY ColumnAssumption DEF In
  <2> QED BY <1>4, <1>t, <2>1 DEF PollList
<1>5. ASSUME NEW a \in Agent, ClaimCount(q, a) PROVE TypeOK'
  <2>1. poll[q].agents \ {a} \in SUBSET Agent
    BY <1>r DEF PollState
  <2>2. poll' \in [Poll -> PollState]
    <3>1. CASE Cardinality(Running(a)) < MaxConcurrent[a]
      BY <1>5, <3>1, <1>r, <2>1 DEF ClaimCount, PollState
    <3>2. CASE ~ (Cardinality(Running(a)) < MaxConcurrent[a])
      BY <1>5, <3>2, <1>t, <2>1 DEF ClaimCount
    <3> QED BY <3>1, <3>2
  <2> QED BY <1>5, <2>2 DEF ClaimCount
<1>6. CASE ClaimPick(q)
  <2>0. poll[q].agents \in SUBSET Agent
    BY <1>r DEF PollState
  <2>1. \A t \in Task : Dispatched(row[t], q) \in Row /\ Dispatched(row[t], NoPoll) \in Row
    BY RowOperators
  <2>2. row' \in [Task -> Row]
    BY <1>6, <2>1 DEF ClaimPick, Claimable, In
  <2>3. poll' \in [Poll -> PollState]
    <3>1. CASE Try(q, poll[q].agents)
      BY <3>1, <1>t, <2>0
    <3>2. CASE \E t \in Task : poll' = [poll EXCEPT ![q].pc = "claimed", ![q].task = t,
                                                    ![q].agents = {}, ![q].agent = NoAgent]
      <4>1. PICK t \in Task :
              poll' = [poll EXCEPT ![q] = [poll[q] EXCEPT !.pc = "claimed", !.task = t,
                                                          !.agents = {}, !.agent = NoAgent]]
        BY <3>2
      <4>2. [poll[q] EXCEPT !.pc = "claimed", !.task = t,
                            !.agents = {}, !.agent = NoAgent] \in PollState
        BY <1>r DEF PollState
      <4> QED BY <4>1, <4>2
    <3> QED BY <1>6, <3>1, <3>2 DEF ClaimPick, Claimable, In
  <2> QED BY <1>6, <2>2, <2>3 DEF ClaimPick
<1>7. CASE PollAnswer(q)
  <2>1. \A t \in Task : [row[t] EXCEPT !.claim = NoPoll] \in Row
    BY DEF Row
  <2>2. row' \in [Task -> Row]
    <3>1. \/ row' = row
          \/ row' = [row EXCEPT ![poll[q].task] = [row[poll[q].task] EXCEPT !.claim = NoPoll]]
      BY <1>7 DEF PollAnswer, Release
    <3> QED BY <2>1, <3>1
  <2> QED BY <1>7, <1>0, <2>2 DEF PollAnswer
<1>8. CASE PollRequeue(q)
  <2>1. \A t \in Task : Moved(row[t], "queued") \in Row
    BY RowOperators DEF Status, Active
  <2>2. row' \in [Task -> Row]
    BY <1>8, <2>1 DEF PollRequeue
  <2> QED BY <1>8, <2>2, <1>0 DEF PollRequeue
<1> QED
  BY <1>1, <1>2, <1>3, <1>4, <1>5, <1>6, <1>7, <1>8 DEF ClaimStep

\* One row is written in the table.
LEMMA RowWritten ==
    ASSUME TypeOK, NEW t \in Task, NEW r \in Row
    PROVE  [row EXCEPT ![t] = r] \in [Task -> Row]
BY DEF TypeOK

\* An enqueue keeps the types.
LEMMA EnqueuesType == TypeOK /\ Enqueues => TypeOK'
<1> SUFFICES ASSUME TypeOK, Enqueues PROVE TypeOK'
  OBVIOUS
<1>0. {"queued", "deferred"} \subseteq Status
  BY DEF Status, Active
<1>1. ASSUME NEW t \in Task, Enqueue(t) \/ EnqueueRouted(t) \/ EnqueueChatDeferred(t)
      PROVE  TypeOK'
  <2>1. \A s \in {"queued", "deferred"} : [row EXCEPT ![t] = Inserted(s)] \in [Task -> Row]
    BY <1>0, RowOperators, RowWritten
  <2>2. row' \in [Task -> Row]
    BY <1>1, <2>1 DEF Enqueue, EnqueueRouted, EnqueueChatDeferred, Commits
  <2>3. owed' \subseteq Owed
    BY <1>1 DEF TypeOK, Enqueue, EnqueueRouted, EnqueueChatDeferred, Owed, Step
  <2> QED BY <1>1, <2>2, <2>3 DEF TypeOK, Enqueue, EnqueueRouted, EnqueueChatDeferred
<1>2. ASSUME NEW l \in Chat, ChatMediaReady(l) PROVE TypeOK'
  <2>1. \A t \in Task : Moved(row[t], "queued") \in Row
    BY <1>0, RowOperators DEF TypeOK
  <2> QED BY <1>2, <2>1 DEF ChatMediaReady, MoveAll, TypeOK
<1> QED BY <1>1, <1>2 DEF Enqueues

\* A daemon's callback keeps the types.
LEMMA CallbacksType == TypeOK /\ Callbacks => TypeOK'
<1> SUFFICES ASSUME TypeOK, NEW t \in Task,
                    \/ ExtendLease(t) \/ WaitLocalDirectory(t) \/ StartTask(t)
                    \/ CompleteTask(t) \/ AgentComment(t)
                    \/ \E why \in ReportedReason : FailTask(t, why) \/ FailTaskRefused(t, why)
             PROVE  TypeOK'
  BY DEF Callbacks
<1>0. row[t] \in Row
  BY DEF TypeOK
<1>s. {"waiting_local_directory", "running", "completed"} \subseteq Status
  BY DEF Status, Active, InFlight, Terminal
<1>m. \A s \in {"waiting_local_directory", "running", "completed"} :
         [row EXCEPT ![t] = Moved(row[t], s)] \in [Task -> Row]
  BY <1>0, <1>s, RowOperators, RowWritten
<1>c. owed \cup Comments(t) \subseteq Owed
  BY DEF Comments, Owed, Step, TypeOK
<1>1. CASE ExtendLease(t)
  <2>1. [row[t] EXCEPT !.age = 0] \in Row
    BY <1>0 DEF Row
  <2>2. row' = [row EXCEPT ![t] = [row[t] EXCEPT !.age = 0]]
    BY <1>1 DEF ExtendLease
  <2>3. row' \in [Task -> Row]
    BY <2>1, <2>2, RowWritten
  <2> QED BY <1>1, <2>3 DEF ExtendLease, TypeOK
<1>2. CASE WaitLocalDirectory(t)
  BY <1>2, <1>m DEF WaitLocalDirectory, TypeOK
<1>3. CASE StartTask(t)
  <2>1. owed' \subseteq Owed
    BY <1>3 DEF StartTask, Owed, Step, TypeOK
  <2> QED BY <1>3, <1>m, <2>1 DEF StartTask, TypeOK
<1>4. CASE CompleteTask(t)
  <2>1. owed' \subseteq Owed
    BY <1>4, <1>c DEF CompleteTask, TypeOK
  <2> QED BY <1>4, <1>m, <2>1 DEF CompleteTask, TypeOK
<1>5. CASE AgentComment(t)
  BY <1>5, <1>c DEF AgentComment, TypeOK
<1>6. ASSUME NEW why \in ReportedReason, FailTask(t, why) \/ FailTaskRefused(t, why)
      PROVE  TypeOK'
  <2>0. why \in Reason
    BY ReasonAssumption
  <2>1. Failed(row[t], why) \in Row /\ RetryOf(t, why) \in Row
    BY <1>0, <2>0, RowOperators, RetryOfType
  <2>2. \A c \in Task :
           [row EXCEPT ![t] = Failed(row[t], why), ![c] = RetryOf(t, why)] \in [Task -> Row]
    BY <2>1 DEF TypeOK
  <2>3. row' \in [Task -> Row]
    BY <1>6, <2>1, <2>2 DEF FailTask, FailTaskRefused, Commits, Refused, Spare, TypeOK
  <2>4. owed' \subseteq Owed
    BY <1>6, <1>c DEF FailTask, FailTaskRefused, TypeOK
  <2> QED BY <1>6, <2>3, <2>4 DEF FailTask, FailTaskRefused, TypeOK
<1> QED BY <1>1, <1>2, <1>3, <1>4, <1>5, <1>6

\* What a handler does after its commit keeps the types.
LEMMA FollowUpsType == TypeOK /\ FollowUps => TypeOK'
<1> SUFFICES ASSUME TypeOK, NEW t \in Task, FollowUp(t) PROVE TypeOK'
  BY DEF FollowUps
<1>0. \A c \in Task : Moved(row[c], "cancelled") \in Row
  BY RowOperators DEF TypeOK, Status, Terminal
<1>1. ASSUME NEW f \in Task, FallbackInsert(f, t) PROVE TypeOK'
  <2>1. Inserted("deferred") \in Row
    BY RowOperators DEF Status, Active
  <2>2. [Inserted("deferred") EXCEPT !.escalates = t] \in Row
    BY <2>1 DEF Row
  <2> QED BY <1>1, <2>2, RowWritten DEF FallbackInsert, Commits, TypeOK
<1>2. CASE CancelEscalationsForTask(t)
  BY <1>0, <1>2 DEF CancelEscalationsForTask, MoveAll, TypeOK
<1>3. CASE CancelEscalationsForIssueAgent(t)
  BY <1>0, <1>3 DEF CancelEscalationsForIssueAgent, MoveAll, TypeOK
<1>4. CASE MaybeRetry(t)
  <2>1. row[t].reason \in Reason
    BY DEF TypeOK, Row
  <2>2. \A c \in Task : [row EXCEPT ![c] = RetryOf(t, row[t].reason)] \in [Task -> Row]
    BY <2>1, RetryOfType, RowWritten
  <2> QED BY <1>4, <2>2 DEF MaybeRetry, Commits, Refused, Spare, TypeOK
<1>5. CASE RerunInsert(t)
  <2>1. Inserted("queued") \in Row
    BY RowOperators DEF Status, Active
  <2> QED BY <1>5, <2>1, RowWritten DEF RerunInsert, Commits, Refused, Spare, TypeOK
<1> QED BY <1>1, <1>2, <1>3, <1>4, <1>5 DEF FollowUp

\* A cancellation keeps the types.
LEMMA CancelsType == TypeOK /\ Cancels => TypeOK'
<1> SUFFICES ASSUME TypeOK, Cancels PROVE TypeOK'
  OBVIOUS
<1>0. \A c \in Task : Moved(row[c], "cancelled") \in Row
  BY RowOperators DEF TypeOK, Status, Terminal
<1>1. ASSUME NEW t \in Task, CancelTask(t) PROVE TypeOK'
  BY <1>0, <1>1 DEF CancelTask, MoveAll, TypeOK
<1>2. ASSUME NEW t \in Task, Rerun(t) PROVE TypeOK'
  <2>1. owed' \subseteq Owed
    BY <1>2 DEF Rerun, Owed, Step, TypeOK
  <2> QED BY <1>0, <1>2, <2>1 DEF Rerun, MoveAll, TypeOK
<1>3. ASSUME NEW l \in Issue \cup Chat, CancelLane(l) PROVE TypeOK'
  BY <1>0, <1>3 DEF CancelLane, MoveAll, TypeOK
<1>4. ASSUME NEW a \in Agent, CancelAgent(a) PROVE TypeOK'
  BY <1>0, <1>4 DEF CancelAgent, MoveAll, TypeOK
<1> QED BY <1>1, <1>2, <1>3, <1>4 DEF Cancels

\* A sweep fails some rows and owes each of them a retry.
LEMMA SweepType ==
    ASSUME TypeOK, NEW rows \in SUBSET Task, NEW why \in Reason, Sweep(rows, why)
    PROVE  row' \in [Task -> Row] /\ owed' \subseteq Owed
<1>1. \A t \in Task : Failed(row[t], why) \in Row
  BY RowOperators DEF TypeOK
<1>2. [op : {"retry"}, task : rows] \subseteq Owed
  BY DEF Owed, Step
<1> QED BY <1>1, <1>2 DEF Sweep, FailAll, TypeOK

\* A sweep keeps the types.
LEMMA SweepsType == TypeOK /\ Sweeps => TypeOK'
<1> SUFFICES ASSUME TypeOK, Sweeps PROVE TypeOK'
  OBVIOUS
<1>0. {"timeout", "queued_expired", "runtime_offline"} \subseteq Reason
  BY DEF Reason, Retryable
<1>1. CASE FailStaleTasks
  BY <1>0, <1>1, SweepType DEF FailStaleTasks, In, TypeOK
<1>2. CASE ExpireStaleQueuedTasks
  BY <1>0, <1>2, SweepType DEF ExpireStaleQueuedTasks, In, TypeOK
<1>3. CASE FailTasksForOfflineRuntimes
  <2>1. \A t \in Task : Failed(row[t], "runtime_offline") \in Row
    BY <1>0, RowOperators DEF TypeOK
  <2>2. \A rows \in SUBSET Task : [op : {"retry"}, task : rows] \subseteq Owed
    BY DEF Owed, Step
  <2>3. row' \in [Task -> Row]
    BY <1>3, <2>1 DEF FailTasksForOfflineRuntimes, FailAll, TypeOK
  <2>4. owed' \subseteq Owed
    BY <1>3, <2>2 DEF FailTasksForOfflineRuntimes, In, TypeOK
  <2> QED BY <1>3, <2>3, <2>4 DEF FailTasksForOfflineRuntimes, TypeOK
<1>4. ASSUME NEW rs \in SUBSET Runtime, MarkOffline(rs) PROVE TypeOK'
  BY <1>4 DEF MarkOffline, TypeOK, Owed, Step
<1> QED BY <1>1, <1>2, <1>3, <1>4 DEF Sweeps

\* Restarts, silence, time and crashes keep the types.
LEMMA EnvironmentType == TypeOK /\ Environment => TypeOK'
<1> SUFFICES ASSUME TypeOK, Environment PROVE TypeOK'
  OBVIOUS
<1>1. ASSUME NEW r \in Runtime, RecoverOrphanedTasks(r) PROVE TypeOK'
  <2>1. "runtime_recovery" \in Reason
    BY DEF Reason, Retryable
  <2> QED BY <1>1, <2>1, SweepType DEF RecoverOrphanedTasks, In, TypeOK
<1>2. ASSUME NEW r \in Runtime, Silence(r) \/ Heartbeat(r) \/ Deregister(r) PROVE TypeOK'
  BY <1>2 DEF Silence, Heartbeat, Deregister, TypeOK
<1>3. ASSUME NEW t \in Task, Elapse(t) PROVE TypeOK'
  <2>0. row[t] \in Row
    BY DEF TypeOK
  <2>1. row[t].age \in 0..2 /\ row[t].age < 2
    BY <1>3, <2>0 DEF Elapse, Row
  <2>2. PICK n \in 0..2 : row' = [row EXCEPT ![t] = [row[t] EXCEPT !.age = n]]
    <3> DEFINE n == IF row[t].status = "dispatched" THEN row[t].age + 1 ELSE 2
    <3>1. n \in 0..2
      BY <2>1
    <3>2. row' = [row EXCEPT ![t] = [row[t] EXCEPT !.age = n]]
      BY <1>3 DEF Elapse
    <3> QED BY <3>1, <3>2
  <2>3. [row[t] EXCEPT !.age = n] \in Row
    BY <2>0 DEF Row
  <2> QED BY <1>3, <2>2, <2>3, RowWritten DEF Elapse, TypeOK
<1>4. CASE ServerCrash
  BY <1>4 DEF ServerCrash, Idle, PollState, TypeOK
<1> QED BY <1>1, <1>2, <1>3, <1>4 DEF Environment

\* Every step keeps the types.
LEMMA TypeStep == TypeOK /\ [Next]_vars => TypeOK'
<1>1. TypeOK /\ UNCHANGED vars => TypeOK'
  BY DEF vars, TypeOK
<1> QED
  BY <1>1, EnqueuesType, ClaimsType, CallbacksType, FollowUpsType, CancelsType,
     SweepsType, EnvironmentType DEF Next

\* Every row, runtime, claim request and follow-up keeps its type, whatever the
\* handlers, sweepers and crashes do.
THEOREM TypeCorrect == Spec => []TypeOK
BY InitType, TypeStep, PTL DEF Spec

-----------------------------------------------------------------------------
(* What one step may do to the rows.                                        *)

Keeps(r, n) == n.attempt = r.attempt /\ n.budget = r.budget /\ n.parent = r.parent

\* What each statement leaves of the row it writes.
LEMMA Fields ==
    /\ \A r \in Row : \A s :
          /\ Moved(r, s).status = s /\ Moved(r, s).claim = NoPoll
          /\ Keeps(r, Moved(r, s))
    /\ \A r \in Row : \A q :
          /\ Dispatched(r, q).status = "dispatched" /\ Dispatched(r, q).claim = q
          /\ Keeps(r, Dispatched(r, q))
    /\ \A r \in Row : \A why :
          /\ Failed(r, why).status = "failed" /\ Failed(r, why).reason = why
          /\ Failed(r, why).claim = NoPoll
          /\ Keeps(r, Failed(r, why))
    /\ \A s : /\ Inserted(s).status = s /\ Inserted(s).claim = NoPoll
              /\ Inserted(s).parent = NoTask
BY DEF Row, Keeps, Moved, Dispatched, Failed, Inserted, Absent

\* Only a row that is dispatched names the request that claimed it.
ClaimHeld == \A t \in Task : row[t].claim # NoPoll => row[t].status = "dispatched"

Typed == TypeOK /\ ClaimHeld

\* A terminal row is not written, an attempt keeps its place in its chain, a
\* claim that was answered is not taken back and one that was not stays tied
\* to the dispatch.
Survives(t) ==
    /\ row[t].status \in Terminal => row'[t] = row[t]
    /\ row[t].status # "absent" => row'[t].status # "absent" /\ Keeps(row[t], row'[t])
    /\ row[t].status = "dispatched" /\ row[t].claim = NoPoll => row'[t].status # "queued"
    /\ row'[t].claim # NoPoll =>
          \/ row'[t].status = "dispatched"
          \/ row'[t].status = row[t].status /\ row'[t].claim = row[t].claim

NoneEnters == \A t \in Task : row'[t].status \in InFlight => row[t].status \in InFlight

NoneBorn == \A t \in Task : row'[t].parent \in {row[t].parent, NoTask}

Survival == \A t \in Task : Survives(t)
Quiet == Survival /\ NoneEnters /\ NoneBorn

\* How the named sets of statuses relate.
LEMMA StatusSets ==
    /\ InFlight = {"dispatched", "waiting_local_directory", "running"}
    /\ Pending = {"queued", "dispatched"}
    /\ Active = {"dispatched", "waiting_local_directory", "running", "queued", "deferred"}
    /\ Terminal = {"completed", "failed", "cancelled"}
BY DEF InFlight, Pending, Active, Terminal

\* A step that leaves the table alone is quiet.
LEMMA UntouchedQuiet == Typed /\ row' = row => Quiet
BY StatusSets DEF Quiet, Survival, Survives, NoneEnters, NoneBorn, Keeps

\* An enqueue is quiet: it ends no row and starts none.
LEMMA EnqueuesQuiet == Typed /\ Enqueues => Quiet
<1> SUFFICES ASSUME Typed, Enqueues PROVE Quiet
  OBVIOUS
<1> USE Fields, StatusSets DEF Quiet, Survival, Survives, NoneEnters, NoneBorn, Typed, TypeOK
<1>1. ASSUME NEW t \in Task, Enqueue(t) \/ EnqueueRouted(t) \/ EnqueueChatDeferred(t)
      PROVE  Quiet
  <2>1. PICK s \in {"queued", "deferred"} : row' = [row EXCEPT ![t] = Inserted(s)]
    BY <1>1 DEF Enqueue, EnqueueRouted, EnqueueChatDeferred, Commits
  <2>2. row[t].status = "absent"
    BY <1>1 DEF Enqueue, EnqueueRouted, EnqueueChatDeferred
  <2> QED BY <2>1, <2>2 DEF Keeps
<1>2. ASSUME NEW l \in Chat, ChatMediaReady(l) PROVE Quiet
  <2>1. \A t \in Task :
           \/ row'[t] = row[t]
           \/ row[t].status = "deferred" /\ row'[t] = Moved(row[t], "queued")
    BY <1>2 DEF ChatMediaReady, MoveAll, In
  <2> QED BY <2>1 DEF Keeps
<1> QED BY <1>1, <1>2 DEF Enqueues

\* A claim request writes no row but for the one it claims.
LEMMA ClaimsQuiet ==
    ASSUME Typed, NEW q \in Poll,
           \/ \E rs \in Machine : PollStart(q, rs)
           \/ PollPromote(q) \/ PollReclaim(q) \/ PollList(q)
           \/ \E a \in Agent : ClaimCount(q, a)
           \/ PollAnswer(q) \/ PollRequeue(q)
    PROVE  Quiet
<1> USE Fields, StatusSets DEF Typed, TypeOK
<1>d. SUFFICES ASSUME row' # row PROVE Quiet
  BY UntouchedQuiet
<1> USE DEF Quiet, Survival, Survives, NoneEnters, NoneBorn
<1>1. CASE PollPromote(q)
  <2>1. \A t \in Task :
           \/ row'[t] = row[t]
           \/ row[t].status = "deferred" /\ row'[t] = Moved(row[t], "queued")
    BY <1>1 DEF PollPromote, Commits, Refused, MoveAll, Due, In
  <2> QED BY <2>1 DEF Keeps
<1>2. CASE PollReclaim(q)
  <2>1. PICK t \in Task : row[t].status = "dispatched"
                           /\ row' = [row EXCEPT ![t] = Dispatched(row[t], q)]
    BY <1>2, <1>d DEF PollReclaim, Reclaimable, In
  <2> QED BY <2>1 DEF Keeps
<1>3. CASE PollAnswer(q)
  <2> DEFINE t == poll[q].task
  <2>1. row[t].claim = q /\ row' = [row EXCEPT ![t] = [row[t] EXCEPT !.claim = NoPoll]]
    BY <1>3, <1>d DEF PollAnswer, Release
  <2>2. \A u \in Task : row'[u] = row[u] \/ row'[u] = [row[u] EXCEPT !.claim = NoPoll]
    BY <2>1
  <2>3. \A r \in Row : LET n == [r EXCEPT !.claim = NoPoll]
                       IN  n.status = r.status /\ n.claim = NoPoll /\ Keeps(r, n)
    BY DEF Row, Keeps
  <2>4. ASSUME NEW u \in Task, row'[u] # row[u] PROVE row[u].status = "dispatched"
    <3>1. u = t
      BY <2>1, <2>4
    <3>2. row[u].claim # NoPoll
      BY <2>1, <3>1, ColumnAssumption
    <3> QED BY <3>2 DEF ClaimHeld
  <2>5. ASSUME NEW u \in Task
        PROVE  /\ row'[u] = row[u] \/ row[u].status = "dispatched"
               /\ row'[u].status = row[u].status
               /\ row'[u].claim \in {row[u].claim, NoPoll}
               /\ Keeps(row[u], row'[u])
    <3>1. CASE row'[u] = row[u]
      BY <3>1 DEF Keeps
    <3>2. CASE row'[u] # row[u]
      <4>1. row'[u] = [row[u] EXCEPT !.claim = NoPoll] /\ row[u] \in Row
        BY <3>2, <2>2
      <4>2. row'[u].status = row[u].status /\ row'[u].claim = NoPoll /\ Keeps(row[u], row'[u])
        BY <4>1, <2>3
      <4> QED BY <3>2, <4>2, <2>4
    <3> QED BY <3>1, <3>2
  <2> HIDE Fields
  <2>6. Survival
    BY <2>5
  <2>7. NoneEnters
    BY <2>5
  <2>8. NoneBorn
    BY <2>5 DEF Keeps
  <2> QED BY <2>6, <2>7, <2>8
<1>4. CASE PollRequeue(q)
  <2> DEFINE t == poll[q].task
  <2>1. /\ row[t].status = "dispatched" /\ row[t].claim = q
        /\ row' = [row EXCEPT ![t] = Moved(row[t], "queued")]
    BY <1>4, <1>d DEF PollRequeue
  <2>2. q # NoPoll
    BY ColumnAssumption
  <2>3. \A u \in Task :
           \/ row'[u] = row[u]
           \/ /\ row[u].status = "dispatched" /\ row[u].claim = q
              /\ row'[u] = Moved(row[u], "queued")
    BY <2>1
  <2> QED BY <2>2, <2>3 DEF Keeps
<1> QED
  BY <1>1, <1>2, <1>3, <1>4, <1>d DEF PollStart, PollList, ClaimCount

\* Cancelling or failing rows that are not terminal.
LEMMA EndingQuiet ==
    ASSUME Typed,
           \A t \in Task :
              \/ row'[t] = row[t]
              \/ /\ row[t].status \in Active
                 /\ \/ row'[t] = Moved(row[t], "cancelled")
                    \/ \E why : row'[t] = Failed(row[t], why)
    PROVE  Quiet
BY Fields, StatusSets DEF Typed, TypeOK, Quiet, Survival, Survives, NoneEnters, NoneBorn, Keeps

\* The two bulk statements.
LEMMA BulkQuiet ==
    ASSUME Typed, NEW rows, \A t \in rows : t \in Task => row[t].status \in Active,
           \/ row' = MoveAll(rows, "cancelled")
           \/ \E why : row' = FailAll(rows, why)
    PROVE  Quiet
<1>1. CASE row' = MoveAll(rows, "cancelled")
  <2>1. \A t \in Task : row'[t] = IF t \in rows THEN Moved(row[t], "cancelled") ELSE row[t]
    BY <1>1 DEF MoveAll
  <2> QED BY <2>1, EndingQuiet
<1>2. ASSUME NEW why, row' = FailAll(rows, why) PROVE Quiet
  <2>1. \A t \in Task : row'[t] = IF t \in rows THEN Failed(row[t], why) ELSE row[t]
    BY <1>2 DEF FailAll
  <2> QED BY <2>1, EndingQuiet
<1> QED BY <1>1, <1>2

\* Callbacks other than the failure that is retried.
LEMMA CallbacksQuiet ==
    ASSUME Typed, NEW t \in Task,
           \/ ExtendLease(t) \/ WaitLocalDirectory(t) \/ StartTask(t)
           \/ CompleteTask(t) \/ AgentComment(t)
           \/ \E why \in ReportedReason :
                 \/ FailTask(t, why) /\ row' = [row EXCEPT ![t] = Failed(row[t], why)]
                 \/ FailTaskRefused(t, why)
    PROVE  Quiet
<1>r. row[t] \in Row
  BY DEF Typed, TypeOK
<1>1. CASE ExtendLease(t)
  <2>1. row' = [row EXCEPT ![t] = [row[t] EXCEPT !.age = 0]]
    BY <1>1 DEF ExtendLease
  <2>2. LET n == [row[t] EXCEPT !.age = 0]
        IN  n.status = row[t].status /\ n.claim = row[t].claim /\ Keeps(row[t], n)
    BY <1>r DEF Row, Keeps
  <2>3. row[t].status \in {"dispatched", "waiting_local_directory"}
    BY <1>1 DEF ExtendLease
  <2> QED BY <2>1, <2>2, <2>3, StatusSets
          DEF Typed, TypeOK, Quiet, Survival, Survives, NoneEnters, NoneBorn, Keeps
<1>2. CASE WaitLocalDirectory(t) \/ StartTask(t) \/ CompleteTask(t)
  <2>1. PICK s \in InFlight \cup {"completed"} : row' = [row EXCEPT ![t] = Moved(row[t], s)]
    BY <1>2, StatusSets DEF WaitLocalDirectory, StartTask, CompleteTask
  <2>2. row[t].status \in InFlight
    BY <1>2, StatusSets DEF WaitLocalDirectory, StartTask, CompleteTask
  <2> QED BY <1>r, <2>1, <2>2, Fields, StatusSets
          DEF Typed, TypeOK, Quiet, Survival, Survives, NoneEnters, NoneBorn, Keeps
<1>3. CASE AgentComment(t)
  BY <1>3, UntouchedQuiet DEF AgentComment
<1>4. ASSUME NEW why \in ReportedReason, FailTask(t, why),
             row' = [row EXCEPT ![t] = Failed(row[t], why)]
      PROVE  Quiet
  <2>1. row[t].status \in Active
    BY <1>4, StatusSets DEF FailTask
  <2> QED BY <1>4, <2>1, EndingQuiet DEF Typed, TypeOK
<1>5. ASSUME NEW why \in ReportedReason, FailTaskRefused(t, why) PROVE Quiet
  BY <1>5, UntouchedQuiet DEF FailTaskRefused, Refused
<1> QED BY <1>1, <1>2, <1>3, <1>4, <1>5

\* Follow-ups other than the retry.
LEMMA FollowUpsQuiet ==
    ASSUME Typed, NEW t \in Task,
           \/ \E f \in Task : FallbackInsert(f, t)
           \/ CancelEscalationsForTask(t) \/ CancelEscalationsForIssueAgent(t)
           \/ RerunInsert(t)
    PROVE  Quiet
<1>1. ASSUME NEW f \in Task, FallbackInsert(f, t) PROVE Quiet
  <2> DEFINE n == [Inserted("deferred") EXCEPT !.escalates = t]
  <2>1. row' = [row EXCEPT ![f] = n] /\ row[f].status = "absent"
    BY <1>1 DEF FallbackInsert, Commits
  <2>2. n.status = "deferred" /\ n.claim = NoPoll /\ n.parent = NoTask
    BY DEF Inserted, Absent
  <2> QED BY <2>1, <2>2, StatusSets
          DEF Typed, TypeOK, Quiet, Survival, Survives, NoneEnters, NoneBorn, Keeps
<1>2. CASE CancelEscalationsForTask(t) \/ CancelEscalationsForIssueAgent(t)
  <2>1. \A f \in Quenchable : row[f].status \in Active
    BY StatusSets DEF Quenchable, In
  <2>2. PICK rows \in SUBSET Quenchable : row' = MoveAll(rows, "cancelled")
    <3>1. CASE CancelEscalationsForTask(t)
      BY <3>1 DEF CancelEscalationsForTask
    <3>2. CASE CancelEscalationsForIssueAgent(t)
      BY <3>2 DEF CancelEscalationsForIssueAgent
    <3> QED BY <1>2, <3>1, <3>2
  <2> QED BY <2>1, <2>2, BulkQuiet
<1>3. CASE RerunInsert(t)
  <2>1. CASE UNCHANGED row
    BY <2>1, UntouchedQuiet
  <2>2. CASE ~ UNCHANGED row
    <3>1. PICK c \in Task : row[c].status = "absent"
                            /\ row' = [row EXCEPT ![c] = Inserted("queued")]
      BY <1>3, <2>2 DEF RerunInsert, Commits, Refused, Spare
    <3> QED BY <3>1, Fields, StatusSets
            DEF Typed, TypeOK, Quiet, Survival, Survives, NoneEnters, NoneBorn, Keeps
  <2> QED BY <2>1, <2>2
<1> QED BY <1>1, <1>2, <1>3

\* A cancellation is quiet.
LEMMA CancelsQuiet == Typed /\ Cancels => Quiet
<1> SUFFICES ASSUME Typed, Cancels PROVE Quiet
  OBVIOUS
<1>0. \A t \in In(Active) : row[t].status \in Active
  BY DEF In
<1>2. ASSUME NEW t \in Task, CancelTask(t) PROVE Quiet
  <2>1. row' = MoveAll({t}, "cancelled") /\ row[t].status \in Active
    BY <1>2 DEF CancelTask
  <2>2. \A u \in {t} : row[u].status \in Active
    BY <2>1
  <2> QED BY <2>1, <2>2, BulkQuiet
<1>3. CASE (\E t \in Task : Rerun(t)) \/ (\E l \in Issue \cup Chat : CancelLane(l))
           \/ (\E a \in Agent : CancelAgent(a))
  <2>1. PICK rows \in SUBSET In(Active) : row' = MoveAll(rows, "cancelled")
    BY <1>3 DEF Rerun, CancelLane, CancelAgent
  <2> QED BY <1>0, <2>1, BulkQuiet
<1> QED BY <1>2, <1>3 DEF Cancels

\* A sweep is quiet.
LEMMA SweepsQuiet == Typed /\ Sweeps => Quiet
<1> SUFFICES ASSUME Typed, Sweeps PROVE Quiet
  OBVIOUS
<1>1. CASE \E rs \in SUBSET Runtime : MarkOffline(rs)
  BY <1>1, UntouchedQuiet DEF MarkOffline
<1>2. CASE FailStaleTasks \/ ExpireStaleQueuedTasks \/ FailTasksForOfflineRuntimes
  <2>0. \A t \in In(Active) : row[t].status \in Active
    BY DEF In
  <2>1. PICK rows \in SUBSET In(Active), why \in Reason : row' = FailAll(rows, why)
    <3>1. {"timeout", "queued_expired", "runtime_offline"} \subseteq Reason
      BY DEF Reason, Retryable
    <3>2. CASE FailStaleTasks
      BY <3>1, <3>2, StatusSets DEF FailStaleTasks, Sweep, In
    <3>3. CASE ExpireStaleQueuedTasks
      BY <3>1, <3>3, StatusSets DEF ExpireStaleQueuedTasks, Sweep, In
    <3>4. CASE FailTasksForOfflineRuntimes
      BY <3>1, <3>4, StatusSets DEF FailTasksForOfflineRuntimes, In
    <3> QED BY <1>2, <3>2, <3>3, <3>4
  <2> QED BY <2>0, <2>1, BulkQuiet
<1> QED BY <1>1, <1>2 DEF Sweeps

\* Restarts, silence, time and crashes are quiet.
LEMMA EnvironmentQuiet == Typed /\ Environment => Quiet
<1> SUFFICES ASSUME Typed, Environment PROVE Quiet
  OBVIOUS
<1>1. ASSUME NEW r \in Runtime, RecoverOrphanedTasks(r) PROVE Quiet
  <2> DEFINE rows == {t \in In(InFlight) : RuntimeOf[t] = r}
  <2>1. \A t \in rows : row[t].status \in Active
    BY StatusSets DEF In
  <2>2. row' = FailAll(rows, "runtime_recovery")
    BY <1>1 DEF RecoverOrphanedTasks, Sweep
  <2> QED BY <2>1, <2>2, BulkQuiet
<1>2. ASSUME NEW t \in Task, Elapse(t) PROVE Quiet
  <2>1. PICK n : row' = [row EXCEPT ![t] = [row[t] EXCEPT !.age = n]]
    BY <1>2 DEF Elapse
  <2>2. \A r \in Row : LET m == [r EXCEPT !.age = n]
                       IN  m.status = r.status /\ m.claim = r.claim /\ Keeps(r, m)
    BY DEF Row, Keeps
  <2>3. row[t].status \in Active
    BY <1>2 DEF Elapse
  <2> QED BY <2>1, <2>2, <2>3, StatusSets
          DEF Typed, TypeOK, Quiet, Survival, Survives, NoneEnters, NoneBorn, Keeps
<1>3. ASSUME ServerCrash \/ \E r \in Runtime : Silence(r) \/ Heartbeat(r) \/ Deregister(r)
      PROVE  Quiet
  BY <1>3, UntouchedQuiet DEF ServerCrash, Silence, Heartbeat, Deregister
<1> QED BY <1>1, <1>2, <1>3 DEF Environment

\* A quiet step, a claim, or a failure that is retried.
Retrying ==
    \E t \in Task :
        \/ MaybeRetry(t)
        \/ \E why \in ReportedReason :
              FailTask(t, why) /\ row' # [row EXCEPT ![t] = Failed(row[t], why)]

\* A step is quiet, or one of the few that are looked at on their own.
LEMMA StepCases ==
    Typed /\ [Next]_vars => Quiet \/ Retrying \/ \E q \in Poll : ClaimPick(q)
<1> SUFFICES ASSUME Typed, [Next]_vars, ~ Retrying, ~ \E q \in Poll : ClaimPick(q)
             PROVE  Quiet
  OBVIOUS
<1>1. CASE UNCHANGED vars
  BY <1>1, UntouchedQuiet DEF vars
<1>2. CASE Enqueues \/ Cancels \/ Sweeps \/ Environment
  BY <1>2, EnqueuesQuiet, CancelsQuiet, SweepsQuiet, EnvironmentQuiet
<1>3. CASE Claims
  <2>1. PICK q \in Poll : \/ \E rs \in Machine : PollStart(q, rs)
                          \/ ClaimStep(q) \/ PollAnswer(q) \/ PollRequeue(q)
    BY <1>3 DEF Claims
  <2>2. ~ ClaimPick(q)
    OBVIOUS
  <2> QED BY <2>1, <2>2, ClaimsQuiet DEF ClaimStep
<1>4. CASE Callbacks
  BY <1>4, CallbacksQuiet DEF Callbacks, Retrying
<1>5. CASE FollowUps
  BY <1>5, FollowUpsQuiet DEF FollowUps, FollowUp, Retrying
<1> QED BY <1>1, <1>2, <1>3, <1>4, <1>5 DEF Next

\* The pick writes at most one row, a claimable one.
LEMMA ClaimPickRow ==
    ASSUME Typed, NEW q \in Poll, ClaimPick(q)
    PROVE  \/ row' = row
           \/ \E t \in Claimable(poll[q].agent), p \in Poll \cup {NoPoll} :
                 row' = [row EXCEPT ![t] = Dispatched(row[t], p)]
BY DEF ClaimPick

\* The rows a retry writes: the child, and the parent if it had not failed yet.
Retried(t, c, why) ==
    /\ RetryEligible(why, t) /\ c \in Spare(t) /\ c # t
    /\ row'[c] = RetryOf(t, why)
    /\ row'[t].status = "failed" /\ row'[t].reason = why /\ Keeps(row[t], row'[t])
    /\ row'[t] = row[t] \/ row'[t].claim = NoPoll
    /\ \A u \in Task \ {t, c} : row'[u] = row[u]

\* A retry is owed only to a row that a sweep or a restart failed and that has none.
RetryOwed ==
    \A t \in Task :
        [op |-> "retry", task |-> t] \in owed =>
            /\ row[t].status = "failed" /\ row[t].reason \notin DaemonReason
            /\ \A c \in Task : row[c].parent # t

\* The rows a retrying step writes.
LEMMA RetryingRows ==
    ASSUME Typed, RetryOwed, Retrying
    PROVE  /\ owed' \subseteq owed
           /\ \/ row' = row
              \/ \E t, c \in Task, why \in Reason :
                 /\ Retried(t, c, why)
                 /\ \/ row[t].status \in InFlight
                    \/ /\ row'[t] = row[t]
                       /\ [op |-> "retry", task |-> t] \in owed
                       /\ [op |-> "retry", task |-> t] \notin owed'
<1>1. ASSUME NEW t \in Task, MaybeRetry(t), row' # row
      PROVE  \E c \in Task, why \in Reason :
                /\ Retried(t, c, why) /\ row'[t] = row[t]
                /\ [op |-> "retry", task |-> t] \in owed
                /\ [op |-> "retry", task |-> t] \notin owed'
  <2>1. [op |-> "retry", task |-> t] \in owed /\ [op |-> "retry", task |-> t] \notin owed'
    BY <1>1 DEF MaybeRetry
  <2>2. row[t].status = "failed"
    BY <2>1 DEF RetryOwed
  <2>3. PICK c \in Spare(t) : /\ row' = [row EXCEPT ![c] = RetryOf(t, row[t].reason)]
                              /\ RetryEligible(row[t].reason, t)
    BY <1>1 DEF MaybeRetry, Commits, Refused
  <2>4. c \in Task /\ row[c].status = "absent" /\ c # t
    BY <2>2 DEF Spare
  <2>5. row[t].reason \in Reason
    BY DEF Typed, TypeOK, Row
  <2> QED BY <2>1, <2>2, <2>3, <2>4, <2>5 DEF Retried, Keeps, Typed, TypeOK
<1>2. ASSUME NEW t \in Task, NEW why \in ReportedReason, FailTask(t, why),
             row' # [row EXCEPT ![t] = Failed(row[t], why)]
      PROVE  \E c \in Task : Retried(t, c, why) /\ row[t].status \in InFlight
  <2>1. PICK c \in Spare(t) :
           /\ row' = [row EXCEPT ![t] = Failed(row[t], why), ![c] = RetryOf(t, why)]
           /\ RetryEligible(why, t)
    BY <1>2 DEF FailTask, Commits
  <2>2. row[t].status \in InFlight
    BY <1>2 DEF FailTask
  <2>3. c \in Task /\ c # t
    BY <2>2, StatusSets DEF Spare
  <2>4. row'[c] = RetryOf(t, why) /\ row'[t] = Failed(row[t], why)
        /\ \A u \in Task \ {t, c} : row'[u] = row[u]
    BY <2>1, <2>3 DEF Typed, TypeOK
  <2> QED BY <2>1, <2>2, <2>3, <2>4, Fields DEF Retried, Typed, TypeOK
<1>3. owed' \subseteq owed
  BY DEF Retrying, MaybeRetry, FailTask
<1> QED
  BY <1>1, <1>2, <1>3, ReasonAssumption DEF Retrying

\* What a retry writes is the row of a new attempt.
LEMMA RetryFields ==
    \A t \in Task, why \in Reason :
        LET r == RetryOf(t, why)
        IN  /\ r.status \in {"queued", "deferred"} /\ r.parent = t /\ r.claim = NoPoll
            /\ r.attempt = row[t].attempt + 1 /\ r.budget = Ceiling(why, row[t])
BY DEF RetryOf, RetryStatus, Absent

\* No step changes a terminal row or the attempt a row stands for.
LEMMA StepSurvival == Typed /\ RetryOwed /\ [Next]_vars => Survival
<1> SUFFICES ASSUME Typed, RetryOwed, [Next]_vars PROVE Survival
  OBVIOUS
<1>1. CASE Quiet
  BY <1>1 DEF Quiet
<1>2. CASE row' = row
  BY <1>2, UntouchedQuiet DEF Quiet
<1>3. ASSUME NEW q \in Poll, ClaimPick(q) PROVE Survival
  <2>1. CASE row' # row
    <3>1. PICK t \in Claimable(poll[q].agent), p \in Poll \cup {NoPoll} :
             row' = [row EXCEPT ![t] = Dispatched(row[t], p)]
      BY <1>3, <2>1, ClaimPickRow
    <3>2. t \in Task /\ row[t].status = "queued"
      BY DEF Claimable, In
    <3> QED BY <3>1, <3>2, Fields, StatusSets DEF Survival, Survives, Typed, TypeOK, Keeps
  <2> QED BY <1>2, <2>1
<1>4. CASE Retrying /\ row' # row
  <2>1. PICK t \in Task, c \in Task, why \in Reason :
           /\ Retried(t, c, why)
           /\ row[t].status \in InFlight \/ row'[t] = row[t]
    BY <1>4, RetryingRows
  <2>2. row[c].status = "absent"
    BY <2>1 DEF Retried, Spare
  <2>3. \A u \in Task \ {t, c} : Survives(u)
    BY <2>1, StatusSets DEF Retried, Survives, Keeps
  <2>4. Survives(c)
    BY <2>1, <2>2, StatusSets, RetryFields DEF Retried, Survives
  <2>5. Survives(t)
    <3>1. CASE row'[t] = row[t]
      BY <3>1, StatusSets DEF Survives, Keeps
    <3>2. CASE row'[t] # row[t]
      BY <3>2, <2>1, StatusSets DEF Retried, Survives
    <3> QED BY <3>1, <3>2
  <2> QED BY <2>3, <2>4, <2>5 DEF Survival
<1> QED BY <1>1, <1>2, <1>3, <1>4, StepCases

-----------------------------------------------------------------------------
(* The retry chain.                                                         *)

\* An id no row has yet has no parent either.
Unborn == \A t \in Task : row[t].status = "absent" => row[t].parent = NoTask

RetryInv == Typed /\ Unborn /\ RetryOwed /\ RetryLineage

\* The initial state has no row, so nothing is retried or owed.
LEMMA RetryInit == Init => RetryInv
<1> SUFFICES ASSUME Init PROVE RetryInv
  OBVIOUS
<1>1. TypeOK
  BY InitType
<1>2. \A t \in Task : row[t] = Absent
  BY DEF Init
<1>3. owed = {}
  BY DEF Init
<1> QED
  BY <1>1, <1>2, <1>3 DEF RetryInv, Typed, ClaimHeld, Unborn, RetryOwed, RetryLineage, Absent

\* Every step keeps the types and the claims requests hold.
LEMMA TypedStep == Typed /\ RetryOwed /\ [Next]_vars => Typed'
<1> SUFFICES ASSUME Typed, RetryOwed, [Next]_vars PROVE Typed'
  OBVIOUS
<1>1. TypeOK'
  BY TypeStep DEF Typed
<1>2. Survival
  BY StepSurvival
<1>3. ClaimHeld'
  BY <1>2 DEF Survival, Survives, ClaimHeld, Typed
<1> QED BY <1>1, <1>3 DEF Typed

\* Retries are owed by the statements that failed the rows, and by them only.
LEMMA OwedBy ==
    ASSUME Typed, [Next]_vars, NEW t \in Task,
           [op |-> "retry", task |-> t] \in owed', [op |-> "retry", task |-> t] \notin owed
    PROVE  /\ row[t].status \in Active
           /\ row'[t].status = "failed" /\ row'[t].reason \notin DaemonReason
<1> DEFINE o == [op |-> "retry", task |-> t]
<1>1. CASE Enqueues
  <2>1. \A u \in Task : o # [op |-> "fallback", task |-> u]
    OBVIOUS
  <2>2. owed' = owed \/ \E u \in Task : owed' = owed \cup {[op |-> "fallback", task |-> u]}
    BY <1>1 DEF Enqueues, Enqueue, EnqueueRouted, EnqueueChatDeferred, ChatMediaReady
  <2> QED BY <2>1, <2>2
<1>2. CASE Claims
  BY <1>2, ZenonT(30) DEF Claims, PollStart, ClaimStep, PollPromote, PollReclaim, PollList, ClaimCount,
              ClaimPick, PollAnswer, PollRequeue
<1>3. CASE Callbacks
  BY <1>3 DEF Callbacks, ExtendLease, WaitLocalDirectory, StartTask, CompleteTask, AgentComment,
              FailTask, FailTaskRefused, Comments
<1>4. CASE FollowUps
  BY <1>4 DEF FollowUps, FollowUp, FallbackInsert, CancelEscalationsForTask,
              CancelEscalationsForIssueAgent, MaybeRetry, RerunInsert
<1>5. CASE Cancels
  <2>1. \A u \in Task : o # [op |-> "rerun", task |-> u]
    OBVIOUS
  <2>2. owed' = owed \/ \E u \in Task : owed' = owed \cup {[op |-> "rerun", task |-> u]}
    BY <1>5 DEF Cancels, CancelTask, Rerun, CancelLane, CancelAgent
  <2> QED BY <2>1, <2>2
<1>6. CASE FailStaleTasks \/ ExpireStaleQueuedTasks \/ FailTasksForOfflineRuntimes
           \/ \E r \in Runtime : RecoverOrphanedTasks(r)
  <2>1. PICK rows \in SUBSET In(Active), why \in Reason \ DaemonReason :
           row' = FailAll(rows, why) /\ t \in rows
    <3>1. {"timeout", "queued_expired", "runtime_offline", "runtime_recovery"}
             \subseteq Reason \ DaemonReason
      BY DEF Reason, Retryable, DaemonReason
    <3>2. CASE FailStaleTasks
      BY <3>1, <3>2, StatusSets DEF FailStaleTasks, Sweep, In
    <3>3. CASE ExpireStaleQueuedTasks
      BY <3>1, <3>3, StatusSets DEF ExpireStaleQueuedTasks, Sweep, In
    <3>4. CASE FailTasksForOfflineRuntimes
      BY <3>1, <3>4, StatusSets DEF FailTasksForOfflineRuntimes, In
    <3>5. CASE \E r \in Runtime : RecoverOrphanedTasks(r)
      <4>1. PICK r \in Runtime : RecoverOrphanedTasks(r)
        BY <3>5
      <4> DEFINE rows == {u \in In(InFlight) : RuntimeOf[u] = r}
      <4>2. row' = FailAll(rows, "runtime_recovery") /\ t \in rows
        BY <4>1 DEF RecoverOrphanedTasks, Sweep
      <4>3. rows \in SUBSET In(Active)
        BY StatusSets DEF In
      <4> QED BY <3>1, <4>2, <4>3
    <3> QED BY <1>6, <3>2, <3>3, <3>4, <3>5
  <2>2. row[t].status \in Active
    BY <2>1 DEF In
  <2>3. row'[t] = Failed(row[t], why)
    BY <2>1 DEF FailAll
  <2> QED BY <2>2, <2>3, Fields DEF Typed, TypeOK
<1>7. CASE \E rs \in SUBSET Runtime : MarkOffline(rs)
  BY <1>7 DEF MarkOffline
<1>8. CASE \/ \E r \in Runtime : Silence(r) \/ Heartbeat(r) \/ Deregister(r)
           \/ \E u \in Task : Elapse(u)
           \/ ServerCrash
  BY <1>8 DEF Silence, Heartbeat, Deregister, Elapse, ServerCrash
<1> QED
  BY <1>1, <1>2, <1>3, <1>4, <1>5, <1>6, <1>7, <1>8 DEF Next, Sweeps, Environment, vars

\* A step either leaves every parent in place or makes one retry.
LEMMA ParentsStep ==
    ASSUME RetryInv, [Next]_vars
    PROVE  \/ /\ \A c \in Task : row'[c].parent \in {row[c].parent, NoTask}
              /\ \A c \in Task : row'[c].status = "absent" => row[c].status = "absent"
           \/ /\ owed' \subseteq owed
              /\ \E t, c \in Task, why \in Reason :
                 /\ Retried(t, c, why)
                 /\ \/ row[t].status \in InFlight
                    \/ /\ row'[t] = row[t]
                       /\ [op |-> "retry", task |-> t] \in owed
                       /\ [op |-> "retry", task |-> t] \notin owed'
<1> USE DEF RetryInv
<1>0. \A c \in Task : row'[c].status = "absent" => row[c].status = "absent"
  BY StepSurvival DEF Survival, Survives
<1>1. CASE Quiet
  BY <1>0, <1>1 DEF Quiet, NoneBorn
<1>2. CASE row' = row
  BY <1>2
<1>3. ASSUME NEW q \in Poll, ClaimPick(q), row' # row
      PROVE  \A c \in Task : row'[c].parent = row[c].parent
  <2>1. PICK t \in Claimable(poll[q].agent), p \in Poll \cup {NoPoll} :
           row' = [row EXCEPT ![t] = Dispatched(row[t], p)]
    BY <1>3, ClaimPickRow
  <2> QED BY <2>1, Fields DEF Keeps, Typed, TypeOK
<1>4. CASE Retrying /\ row' # row
  BY <1>4, RetryingRows
<1> QED BY <1>0, <1>1, <1>2, <1>3, <1>4, StepCases

\* Every step keeps the invariant of the retries.
LEMMA RetryStep == RetryInv /\ [Next]_vars => RetryInv'
<1> SUFFICES ASSUME RetryInv, [Next]_vars PROVE RetryInv'
  OBVIOUS
<1> USE DEF RetryInv
<1>1. Typed'
  BY TypedStep
<1>2. Survival
  BY StepSurvival
<1>p. \A c \in Task : row[c].parent \in Task \cup {NoTask}
  BY DEF Typed, TypeOK, Row
<1>n. NoTask \notin Task
  BY ColumnAssumption
<1>o. \A t \in Task : [op |-> "retry", task |-> t] \in owed' =>
         /\ row'[t].status = "failed" /\ row'[t].reason \notin DaemonReason
         /\ \A c \in Task : row[c].parent # t \/ row[t].status = "failed"
         /\ [op |-> "retry", task |-> t] \in owed \/ row[t].status # "failed"
  <2>1. ASSUME NEW t \in Task, [op |-> "retry", task |-> t] \in owed',
               [op |-> "retry", task |-> t] \in owed
        PROVE  /\ row'[t].status = "failed" /\ row'[t].reason \notin DaemonReason
               /\ row[t].status = "failed"
    BY <2>1, <1>2, StatusSets DEF RetryOwed, Survival, Survives
  <2>2. ASSUME NEW t \in Task, [op |-> "retry", task |-> t] \in owed',
               [op |-> "retry", task |-> t] \notin owed
        PROVE  /\ row'[t].status = "failed" /\ row'[t].reason \notin DaemonReason
               /\ row[t].status # "failed"
               /\ \A c \in Task : row[c].parent # t
    BY <2>2, OwedBy, StatusSets, <1>n DEF RetryLineage
  <2> QED BY <2>1, <2>2
<1>3. CASE /\ \A c \in Task : row'[c].parent \in {row[c].parent, NoTask}
           /\ \A c \in Task : row'[c].status = "absent" => row[c].status = "absent"
  <2>1. Unborn'
    BY <1>3 DEF Unborn
  <2>2. RetryOwed'
    <3>1. ASSUME NEW t \in Task, [op |-> "retry", task |-> t] \in owed', NEW c \in Task
          PROVE  row'[c].parent # t
      BY <3>1, <1>3, <1>n, <1>o DEF RetryOwed, RetryLineage
    <3> QED BY <3>1, <1>o DEF RetryOwed
  <2>3. RetryLineage'
    <3>1. ASSUME NEW c \in Task, row'[c].parent # NoTask
          PROVE  /\ row[c].parent = row'[c].parent /\ Keeps(row[c], row'[c])
                 /\ row'[row[c].parent] = row[row[c].parent]
      <4>1. row[c].parent = row'[c].parent
        BY <1>3, <3>1
      <4>2. row[c].status # "absent"
        BY <3>1, <4>1 DEF Unborn
      <4>3. row[row[c].parent].status = "failed" /\ row[c].parent \in Task
        BY <3>1, <4>1, <1>p DEF RetryLineage
      <4> QED BY <4>1, <4>2, <4>3, <1>2, StatusSets DEF Survival, Survives
    <3> QED BY <3>1 DEF RetryLineage, Keeps
  <2> QED BY <1>1, <2>1, <2>2, <2>3
<1>4. CASE /\ owed' \subseteq owed
           /\ \E t, c \in Task, why \in Reason :
                 /\ Retried(t, c, why)
                 /\ \/ row[t].status \in InFlight
                    \/ /\ row'[t] = row[t]
                       /\ [op |-> "retry", task |-> t] \in owed
                       /\ [op |-> "retry", task |-> t] \notin owed'
  <2>1. PICK t \in Task, c \in Task, why \in Reason :
                 /\ Retried(t, c, why)
                 /\ \/ row[t].status \in InFlight
                    \/ /\ row'[t] = row[t]
                       /\ [op |-> "retry", task |-> t] \in owed
                       /\ [op |-> "retry", task |-> t] \notin owed'
    BY <1>4
  <2>2. \A d \in Task : row[d].parent # t
    BY <2>1, StatusSets, <1>n DEF RetryOwed, RetryLineage
  <2>3. /\ row'[c].status # "absent" /\ row'[c].parent = t
        /\ row'[c].attempt = row[t].attempt + 1 /\ row'[c].budget = Ceiling(why, row[t])
    BY <2>1, RetryFields DEF Retried
  <2>4. \A d \in Task \ {c} : Keeps(row[d], row'[d])
    BY <2>1 DEF Retried, Keeps
  <2>5. Unborn'
    BY <2>1, <2>3 DEF Unborn, Retried
  <2>6. RetryOwed'
    <3>1. ASSUME NEW u \in Task, [op |-> "retry", task |-> u] \in owed', NEW d \in Task
          PROVE  row'[d].parent # u
      <4>1. [op |-> "retry", task |-> u] \in owed
        BY <1>4, <3>1
      <4>2. row[u].status = "failed" /\ row[d].parent # u
        BY <4>1 DEF RetryOwed
      <4>3. u # t
        BY <2>1, <3>1, <4>2, StatusSets
      <4> QED BY <2>3, <2>4, <4>2, <4>3 DEF Keeps
    <3> QED BY <3>1, <1>o DEF RetryOwed
  <2>7. RetryLineage'
    <3>1. /\ why \in Retryable /\ row'[c].attempt <= row'[c].budget
          /\ row'[t].status = "failed" /\ row'[t].reason = why
          /\ row'[c].attempt = row'[t].attempt + 1
      <4>1. row[t].attempt \in Nat /\ row[t].budget \in Nat
        BY DEF Typed, TypeOK, Row
      <4>2. Ceiling(why, row[t]) \in Nat
        BY <4>1 DEF Ceiling, ProviderNetworkMaxAttempts
      <4>3. row[t].attempt < Ceiling(why, row[t]) /\ why \in Retryable
        BY <2>1 DEF Retried, RetryEligible
      <4> QED BY <2>1, <2>3, <4>1, <4>2, <4>3 DEF Retried, Keeps
    <3>2. ASSUME NEW d \in Task \ {c}, row'[d].parent # NoTask
          PROVE  /\ row[d].parent = row'[d].parent /\ Keeps(row[d], row'[d])
                 /\ row'[row[d].parent] = row[row[d].parent] /\ row[d].parent # t
      <4>1. row[d].parent = row'[d].parent /\ Keeps(row[d], row'[d])
        BY <2>4 DEF Keeps
      <4>2. row[row[d].parent].status = "failed" /\ row[d].parent \in Task
        BY <3>2, <4>1, <1>p DEF RetryLineage
      <4> QED BY <2>2, <4>1, <4>2, <1>2, StatusSets DEF Survival, Survives
    <3> QED BY <2>3, <3>1, <3>2 DEF RetryLineage, Keeps
  <2> QED BY <1>1, <2>5, <2>6, <2>7
<1> QED BY <1>3, <1>4, ParentsStep

\* The retries of a row are a chain: a row is retried once at most, only after
\* a failure that warrants it, and within the budget it was given.
THEOREM RetryLineageHolds == Spec => []RetryLineage
<1>1. RetryInv => RetryLineage
  BY DEF RetryInv
<1> QED BY <1>1, RetryInit, RetryStep, PTL DEF Spec

\* Completed, failed and cancelled rows are not written again.
THEOREM TerminalRowsAreFinal == Spec => TerminalIsFinal
<1>1. RetryInv /\ [Next]_vars => [\A t \in Task : row[t].status \in Terminal => row'[t] = row[t]]_vars
  BY StepSurvival DEF RetryInv, Survival, Survives
<1> QED BY <1>1, RetryInit, RetryStep, PTL DEF Spec, TerminalIsFinal

\* A claim whose answer is out is never taken back to the queue.
THEOREM AnsweredClaimsStand == Spec => AnsweredClaimStands
<1>1. RetryInv /\ [Next]_vars =>
         [\A t \in Task : row[t].status = "dispatched" /\ row[t].claim = NoPoll
                             => row'[t].status # "queued"]_vars
  BY StepSurvival DEF RetryInv, Survival, Survives
<1> QED BY <1>1, RetryInit, RetryStep, PTL DEF Spec, AnsweredClaimStands

\* The retry of a failure only a daemon reports is made with the failure.
LEMMA RetryJoinsStep ==
    ASSUME RetryInv, [Next]_vars, NEW d \in Task,
           row[d].parent = NoTask, row'[d].parent # NoTask,
           row'[row'[d].parent].reason \in DaemonReason
    PROVE  row[row'[d].parent].status \in InFlight
<1>1. PICK t \in Task, c \in Task, why \in Reason :
           /\ Retried(t, c, why)
           /\ \/ row[t].status \in InFlight
              \/ row'[t] = row[t] /\ [op |-> "retry", task |-> t] \in owed
  BY ParentsStep
<1>2. d = c
  BY <1>1 DEF Retried, Keeps
<1>3. row'[d].parent = t
  BY <1>1, <1>2, RetryFields DEF Retried
<1> QED BY <1>1, <1>3 DEF RetryInv, RetryOwed

\* What an owed follow-up retries no daemon has reported: the retry of such a
\* failure is made in the transaction that records it or not at all.
THEOREM RetriesJoinTheirFailures == Spec => RetryJoinsFailure
<1>1. RetryInv /\ [Next]_vars =>
         [\A c \in Task :
             LET p == row'[c].parent
             IN  row[c].parent = NoTask /\ p # NoTask /\ row'[p].reason \in DaemonReason
                     => row[p].status \in InFlight]_vars
  BY RetryJoinsStep
<1> QED BY <1>1, RetryInit, RetryStep, PTL DEF Spec, RetryJoinsFailure

-----------------------------------------------------------------------------
(* Rows in flight.                                                          *)

\* Only a claim puts a row in flight.
LEMMA EntersStep ==
    RetryInv /\ [Next]_vars => NoneEnters \/ \E q \in Poll : ClaimPick(q) /\ row' # row
<1> SUFFICES ASSUME RetryInv, [Next]_vars,
                    ~ \E q \in Poll : ClaimPick(q) /\ row' # row
             PROVE  NoneEnters
  OBVIOUS
<1>1. CASE Quiet
  BY <1>1 DEF Quiet
<1>2. CASE row' = row
  BY <1>2 DEF NoneEnters
<1>3. CASE Retrying /\ row' # row
  <2>1. PICK t \in Task, c \in Task, why \in Reason : Retried(t, c, why)
    BY <1>3, RetryingRows DEF RetryInv
  <2>2. row'[c].status \notin InFlight /\ row'[t].status \notin InFlight
    BY <2>1, RetryFields, StatusSets DEF Retried
  <2> QED BY <2>1, <2>2 DEF Retried, NoneEnters
<1> QED BY <1>1, <1>2, <1>3, StepCases DEF RetryInv

\* Every step keeps Serialized: only ClaimPick lets a row in.
LEMMA SerializedStep == RetryInv /\ Serialized /\ [Next]_vars => Serialized'
<1> SUFFICES ASSUME RetryInv, Serialized, [Next]_vars PROVE Serialized'
  OBVIOUS
<1>1. CASE NoneEnters
  BY <1>1 DEF NoneEnters, Serialized, In, SameLane
<1>2. ASSUME NEW q \in Poll, ClaimPick(q), row' # row PROVE Serialized'
  <2>1. PICK t \in Claimable(poll[q].agent), p \in Poll \cup {NoPoll} :
           row' = [row EXCEPT ![t] = Dispatched(row[t], p)]
    BY <1>2, ClaimPickRow DEF RetryInv
  <2>2. \A s \in In(InFlight) : ~ SameLane(s, t)
    BY DEF Claimable
  <2>3. \A s \in Task \ {t} : row'[s] = row[s]
    BY <2>1 DEF RetryInv, Typed, TypeOK
  <2>4. \A s, u \in Task : SameLane(s, u) = SameLane(u, s)
    BY DEF SameLane
  <2> QED BY <2>2, <2>3, <2>4 DEF Serialized, In, SameLane
<1> QED BY <1>1, <1>2, EntersStep

\* One row of a lane in flight per agent: no interleaving of claims, callbacks,
\* retries and sweepers ever starts a second run beside the first.
THEOREM SerializedHolds == Spec => []Serialized
<1>1. Init => Serialized
  BY StatusSets DEF Init, Serialized, In, Absent
<1> QED BY <1>1, SerializedStep, RetryInit, RetryStep, PTL DEF Spec

\* What the lock on the agent's row gives a claim between its count and its
\* pick: no other claim counts for the agent and a slot stays free.
Reserved ==
    \A q \in Poll : poll[q].pc = "counted" =>
        /\ poll[q].agent \in Agent
        /\ Cardinality(Running(poll[q].agent)) < MaxConcurrent[poll[q].agent]
        /\ \A o \in Poll : poll[o].pc = "counted" /\ poll[o].agent = poll[q].agent => o = q

CapacityInv == RetryInv /\ CapacityRespected /\ Reserved

\* The rows of an agent in flight can be counted.
LEMMA RunningFinite ==
    ASSUME NEW a \in Agent
    PROVE  IsFiniteSet(Running(a)) /\ Cardinality(Running(a)) \in Nat
<1>1. Running(a) \subseteq Task
  BY DEF Running, In
<1> QED BY <1>1, LimitAssumption, FS_Subset, FS_CardinalityType

\* A step without a claim frees slots or leaves them.
LEMMA RunningShrinks ==
    ASSUME NoneEnters, NEW a \in Agent
    PROVE  Cardinality(Running(a)') <= Cardinality(Running(a))
<1>1. Running(a)' \subseteq Running(a)
  BY DEF NoneEnters, Running, In
<1> QED BY <1>1, RunningFinite, FS_Subset

\* A claim takes one slot, of its own agent.
LEMMA RunningGrows ==
    ASSUME Typed, NEW t \in Task, NEW p \in Poll \cup {NoPoll},
           row[t].status = "queued",
           row' = [row EXCEPT ![t] = Dispatched(row[t], p)]
    PROVE  \A a \in Agent :
              Cardinality(Running(a)') =
                 IF AgentOf[t] = a THEN Cardinality(Running(a)) + 1
                                   ELSE Cardinality(Running(a))
<1>1. row'[t].status = "dispatched" /\ \A u \in Task \ {t} : row'[u] = row[u]
  BY Fields DEF Typed, TypeOK
<1>2. ASSUME NEW a \in Agent, AgentOf[t] = a
      PROVE  Cardinality(Running(a)') = Cardinality(Running(a)) + 1
  <2>1. Running(a)' = Running(a) \cup {t} /\ t \notin Running(a)
    BY <1>1, <1>2, StatusSets DEF Running, In
  <2> QED BY <2>1, RunningFinite, FS_AddElement
<1>3. ASSUME NEW a \in Agent, AgentOf[t] # a PROVE Running(a)' = Running(a)
  BY <1>1, <1>3 DEF Running, In
<1> QED BY <1>2, <1>3

\* A claim request leaves "counted" with its pick, and no step of another
\* request moves it.
LEMMA PickLeaves ==
    ASSUME TypeOK, NEW q \in Poll, ClaimPick(q)
    PROVE  poll'[q].pc # "counted" /\ \A o \in Poll \ {q} : poll'[o] = poll[o]
<1>1. poll[q] \in PollState
  BY DEF TypeOK
<1>2. CASE Try(q, poll[q].agents)
  BY <1>1, <1>2 DEF Try, Idle, PollState, TypeOK
<1>3. CASE \E t \in Task : poll' = [poll EXCEPT ![q].pc = "claimed", ![q].task = t,
                                               ![q].agents = {}, ![q].agent = NoAgent]
  BY <1>1, <1>3 DEF PollState, TypeOK
<1> QED BY <1>2, <1>3 DEF ClaimPick, Claimable, In

\* How the count of an agent's rows in flight moves in a step.
LEMMA CountMoves ==
    ASSUME TypeOK, NEW q \in Poll, NEW a \in Agent, ClaimCount(q, a)
    PROVE  /\ poll[q].pc = "try" /\ row' = row /\ ~ Locked(a)
           /\ poll'[q].pc = "counted" =>
                 poll'[q].agent = a /\ Cardinality(Running(a)) < MaxConcurrent[a]
           /\ \A o \in Poll \ {q} : poll'[o] = poll[o]
<1>1. poll[q] \in PollState
  BY DEF TypeOK
<1>2. poll[q].pc = "try" /\ row' = row /\ ~ Locked(a)
  BY DEF ClaimCount
<1>3. CASE Cardinality(Running(a)) < MaxConcurrent[a]
  BY <1>1, <1>2, <1>3 DEF ClaimCount, PollState, TypeOK
<1>4. CASE ~ (Cardinality(Running(a)) < MaxConcurrent[a])
  <2>1. Try(q, poll[q].agents \ {a})
    BY <1>4 DEF ClaimCount
  <2> QED BY <1>1, <1>2, <2>1 DEF Try, Idle, PollState, TypeOK
<1> QED BY <1>3, <1>4

\* A claim that has counted either had, or has just found a free slot.
LEMMA CountedStep ==
    ASSUME TypeOK, [Next]_vars, NEW q \in Poll, poll'[q].pc = "counted"
    PROVE  \/ poll[q].pc = "counted" /\ poll'[q].agent = poll[q].agent
           \/ \E a \in Agent : ClaimCount(q, a)
<1>1. CASE poll' = poll
  BY <1>1
<1>2. CASE ServerCrash
  BY <1>2 DEF ServerCrash, Idle
<1>3. CASE Claims
  <2>1. PICK o \in Poll : \/ \E rs \in Machine : PollStart(o, rs)
                          \/ ClaimStep(o) \/ PollAnswer(o) \/ PollRequeue(o)
    BY <1>3 DEF Claims
  <2>r. poll[o] \in PollState
    BY DEF TypeOK
  <2>2. ASSUME NEW v, poll' = [poll EXCEPT ![o] = v], v.pc # "counted"
        PROVE  poll[q].pc = "counted" /\ poll'[q].agent = poll[q].agent
    BY <2>2 DEF TypeOK
  <2>i. Idle.pc = "idle"
    BY DEF Idle
  <2>6. CASE \E rs \in Machine : PollStart(o, rs)
    <3>1. PICK rs \in Machine : poll' = [poll EXCEPT ![o] = [Idle EXCEPT !.pc = "promote", !.runtimes = rs]]
      BY <2>6 DEF PollStart
    <3>2. [Idle EXCEPT !.pc = "promote", !.runtimes = rs].pc = "promote"
      BY DEF Idle
    <3> QED BY <2>2, <3>1, <3>2
  <2>7. CASE PollPromote(o)
    <3>1. \/ poll' = [poll EXCEPT ![o] = [poll[o] EXCEPT !.pc = "reclaim"]]
          \/ poll' = [poll EXCEPT ![o] = Idle]
      BY <2>7 DEF PollPromote
    <3>2. [poll[o] EXCEPT !.pc = "reclaim"].pc = "reclaim"
      BY <2>r DEF PollState
    <3> QED BY <2>2, <2>i, <3>1, <3>2
  <2>8. CASE PollReclaim(o)
    <3>1. \/ poll' = [poll EXCEPT ![o] = [poll[o] EXCEPT !.pc = "list"]]
          \/ \E t \in Task :
                poll' = [poll EXCEPT ![o] = [poll[o] EXCEPT !.pc = "claimed", !.task = t]]
      BY <2>8 DEF PollReclaim, Reclaimable, In
    <3>2. [poll[o] EXCEPT !.pc = "list"].pc = "list"
      BY <2>r DEF PollState
    <3>3. \A t : [poll[o] EXCEPT !.pc = "claimed", !.task = t].pc = "claimed"
      BY <2>r DEF PollState
    <3>4. CASE poll' = [poll EXCEPT ![o] = [poll[o] EXCEPT !.pc = "list"]]
      BY <2>2, <3>2, <3>4
    <3>5. CASE \E t \in Task :
                  poll' = [poll EXCEPT ![o] = [poll[o] EXCEPT !.pc = "claimed", !.task = t]]
      <4>1. PICK t \in Task :
               poll' = [poll EXCEPT ![o] = [poll[o] EXCEPT !.pc = "claimed", !.task = t]]
        BY <3>5
      <4>2. [poll[o] EXCEPT !.pc = "claimed", !.task = t].pc = "claimed"
        BY <3>3
      <4> QED BY <2>2, <4>1, <4>2
    <3> QED BY <3>1, <3>4, <3>5
  <2>9. CASE PollAnswer(o) \/ PollRequeue(o)
    BY <2>2, <2>9, <2>i DEF PollAnswer, PollRequeue
  <2>3. CASE PollList(o)
    BY <2>3, <2>r DEF PollList, Try, Idle, PollState, TypeOK
  <2>4. ASSUME NEW a \in Agent, ClaimCount(o, a)
        PROVE  (poll[q].pc = "counted" /\ poll'[q].agent = poll[q].agent) \/ ClaimCount(q, a)
    BY <2>4, CountMoves
  <2>5. CASE ClaimPick(o)
    BY <2>5, PickLeaves
  <2> QED BY <2>1, <2>3, <2>4, <2>5, <2>6, <2>7, <2>8, <2>9 DEF ClaimStep
<1>4. CASE Enqueues \/ Callbacks
  BY <1>1, <1>4
     DEF Enqueues, Enqueue, EnqueueRouted, EnqueueChatDeferred, ChatMediaReady, Callbacks,
         ExtendLease, WaitLocalDirectory, StartTask, CompleteTask, AgentComment, FailTask,
         FailTaskRefused
<1>5. CASE FollowUps \/ Cancels
  BY <1>1, <1>5
     DEF FollowUps, FollowUp, FallbackInsert, CancelEscalationsForTask,
         CancelEscalationsForIssueAgent, MaybeRetry, RerunInsert, Cancels, CancelTask, Rerun,
         CancelLane, CancelAgent
<1>6. CASE Sweeps \/ (Environment /\ ~ ServerCrash)
  BY <1>1, <1>6
     DEF Sweeps, FailStaleTasks, ExpireStaleQueuedTasks, FailTasksForOfflineRuntimes,
         MarkOffline, Environment, RecoverOrphanedTasks, Silence, Heartbeat, Deregister, Elapse
<1> QED BY <1>1, <1>2, <1>3, <1>4, <1>5, <1>6 DEF Next, vars

\* Every step keeps the capacity and the slot a locked agent has left.
LEMMA CapacityStep == CapacityInv /\ [Next]_vars => CapacityInv'
<1> SUFFICES ASSUME CapacityInv, [Next]_vars PROVE CapacityInv'
  OBVIOUS
<1> USE DEF CapacityInv
<1>0. RetryInv'
  BY RetryStep
<1>t. TypeOK /\ Typed
  BY DEF RetryInv, Typed
<1>n. \A a \in Agent : MaxConcurrent[a] \in Nat /\ Cardinality(Running(a)) \in Nat
                      /\ Cardinality(Running(a)') \in Nat
  <2>1. ASSUME NEW a \in Agent PROVE Cardinality(Running(a)') \in Nat
    <3>1. Running(a)' \subseteq Task
      BY DEF Running, In
    <3> QED BY <3>1, LimitAssumption, FS_Subset, FS_CardinalityType
  <2> QED BY <2>1, LimitAssumption, RunningFinite
<1>u. \A q, o \in Poll :
         /\ poll'[q].pc = "counted" /\ poll'[o].pc = "counted"
         /\ poll'[q].agent = poll'[o].agent
         => o = q
  <2>1. ASSUME NEW q \in Poll, NEW o \in Poll, o # q,
               poll'[q].pc = "counted", poll'[o].pc = "counted",
               poll'[q].agent = poll'[o].agent, NEW a \in Agent, ClaimCount(q, a)
        PROVE  FALSE
    <3>1. poll'[q].agent = a /\ poll'[o] = poll[o] /\ ~ Locked(a)
      BY <1>t, <2>1, CountMoves
    <3> QED BY <2>1, <3>1 DEF Locked
  <2>2. ASSUME NEW q \in Poll, NEW o \in Poll, o # q,
               poll'[q].pc = "counted", poll'[o].pc = "counted",
               poll'[q].agent = poll'[o].agent
        PROVE  FALSE
    <3>1. CASE \E a \in Agent : ClaimCount(q, a)
      BY <2>1, <2>2, <3>1
    <3>2. CASE \E a \in Agent : ClaimCount(o, a)
      BY <2>1, <2>2, <3>2
    <3>3. CASE ~ (\E a \in Agent : ClaimCount(q, a)) /\ ~ (\E a \in Agent : ClaimCount(o, a))
      BY <1>t, <2>2, <3>3, CountedStep DEF Reserved
    <3> QED BY <3>1, <3>2, <3>3
  <2> QED BY <2>2
<1>r. ASSUME \A q \in Poll : poll'[q].pc = "counted" =>
                \E a \in Agent : /\ poll'[q].agent = a
                               /\ Cardinality(Running(a)') < MaxConcurrent[a]
      PROVE  Reserved'
  <2>1. ASSUME NEW q \in Poll, poll'[q].pc = "counted"
        PROVE  /\ poll'[q].agent \in Agent
               /\ Cardinality({t \in Task : row'[t].status \in InFlight
                                         /\ AgentOf[t] = poll'[q].agent})
                     < MaxConcurrent[poll'[q].agent]
    <3>1. PICK a \in Agent : poll'[q].agent = a /\ Cardinality(Running(a)') < MaxConcurrent[a]
      BY <1>r, <2>1
    <3>2. Running(a)' = {t \in Task : row'[t].status \in InFlight /\ AgentOf[t] = a}
      BY DEF Running, In
    <3> QED BY <3>1, <3>2
  <2>2. \A a : {t \in Task : row'[t].status \in InFlight /\ AgentOf[t] = a}
               = {t \in {u \in Task : row'[u].status \in InFlight} : AgentOf[t] = a}
    OBVIOUS
  <2> QED BY <1>u, <2>1, <2>2 DEF Reserved, Running, In
<1>1. CASE NoneEnters
  <2>1. CapacityRespected'
    BY <1>1, <1>n, RunningShrinks DEF CapacityRespected
  <2>2. ASSUME NEW q \in Poll, poll'[q].pc = "counted"
        PROVE  \E a \in Agent : poll'[q].agent = a /\ Cardinality(Running(a)') < MaxConcurrent[a]
    <3>1. PICK a \in Agent : poll'[q].agent = a /\ Cardinality(Running(a)) < MaxConcurrent[a]
      BY <1>t, <2>2, CountedStep, CountMoves DEF Reserved
    <3>2. Cardinality(Running(a)') <= Cardinality(Running(a))
      BY <1>1, RunningShrinks
    <3> QED BY <1>n, <3>1, <3>2
  <2> QED BY <1>r, <1>0, <1>u, <2>1, <2>2
<1>2. ASSUME NEW q \in Poll, ClaimPick(q), row' # row PROVE CapacityInv'
  <2> DEFINE a == poll[q].agent
  <2>0. /\ poll[q].pc = "counted" /\ a \in Agent
        /\ Cardinality(Running(a)) < MaxConcurrent[a]
    BY <1>2 DEF ClaimPick, Reserved
  <2>1. PICK t \in Claimable(a), p \in Poll \cup {NoPoll} :
           row' = [row EXCEPT ![t] = Dispatched(row[t], p)]
    BY <1>t, <1>2, ClaimPickRow
  <2>2. t \in Task /\ row[t].status = "queued" /\ AgentOf[t] = a
    BY DEF Claimable, In
  <2>3. \A b \in Agent : Cardinality(Running(b)') =
           IF a = b THEN Cardinality(Running(b)) + 1 ELSE Cardinality(Running(b))
    BY <1>t, <2>1, <2>2, RunningGrows
  <2>4. CapacityRespected'
    BY <1>n, <2>0, <2>3 DEF CapacityRespected
  <2>5. ASSUME NEW o \in Poll, poll'[o].pc = "counted"
        PROVE  \E b \in Agent : poll'[o].agent = b /\ Cardinality(Running(b)') < MaxConcurrent[b]
    <3>1. o # q
      BY <1>t, <1>2, <2>5, PickLeaves
    <3>2. poll[o].pc = "counted" /\ poll'[o].agent = poll[o].agent
      BY <1>t, <1>2, <2>5, CountedStep, CountMoves
    <3>3. poll[o].agent # a
      BY <2>0, <3>1, <3>2 DEF Reserved
    <3>4. PICK b \in Agent : poll[o].agent = b /\ Cardinality(Running(b)) < MaxConcurrent[b]
      BY <3>2 DEF Reserved
    <3> QED BY <2>3, <3>2, <3>3, <3>4
  <2> QED BY <1>r, <1>0, <1>u, <2>4, <2>5
<1> QED BY <1>1, <1>2, EntersStep

\* max_concurrent_tasks is never exceeded, however many servers claim for the
\* agent: the row lock makes the count hold until the pick.
THEOREM CapacityHolds == Spec => []CapacityRespected
<1>1. Init => CapacityInv
  <2> SUFFICES ASSUME Init PROVE CapacityInv
    OBVIOUS
  <2>1. Reserved
    BY DEF Init, Reserved
  <2>2. ASSUME NEW a \in Agent PROVE Cardinality(Running(a)) <= MaxConcurrent[a]
    <3>1. Running(a) = {}
      BY StatusSets DEF Init, Running, In, Absent
    <3> QED BY <3>1, FS_EmptySet, LimitAssumption
  <2> QED BY <2>1, <2>2, RetryInit DEF CapacityInv, CapacityRespected
<1>2. CapacityInv => CapacityRespected
  BY DEF CapacityInv
<1> QED BY <1>1, <1>2, CapacityStep, PTL DEF Spec
=============================================================================
