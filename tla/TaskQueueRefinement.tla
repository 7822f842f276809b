------------------------- MODULE TaskQueueRefinement -------------------------
(****************************************************************************)
(* TaskQueue implements WorkQueue: every step of the servers, daemons and   *)
(* sweepers is one step of the promise or none.                             *)
(****************************************************************************)
EXTENDS TaskQueueProofs

\* The phases of the statuses.
LEMMA Phases ==
    /\ PhaseOf["absent"] = "none"
    /\ PhaseOf["queued"] = "waiting" /\ PhaseOf["deferred"] = "waiting"
    /\ PhaseOf["dispatched"] = "claimed"
    /\ PhaseOf["waiting_local_directory"] = "begun" /\ PhaseOf["running"] = "begun"
    /\ PhaseOf["completed"] = "completed"
    /\ PhaseOf["failed"] = "failed" /\ PhaseOf["cancelled"] = "cancelled"
BY DEF PhaseOf, Status, Active, InFlight, Terminal

\* A row is open, in hand or unknown to the promise as it is to the table.
LEMMA PhaseSets ==
    ASSUME NEW s \in Status
    PROVE  /\ PhaseOf[s] \in Promise!Phase
           /\ s \in Active <=> PhaseOf[s] \in Promise!Open
           /\ s \in InFlight <=> PhaseOf[s] \in {"claimed", "begun"}
           /\ s = "absent" <=> PhaseOf[s] = "none"
           /\ s = "failed" <=> PhaseOf[s] = "failed"
BY Phases, StatusSets DEF Status, Promise!Phase, Promise!Open

\* The step changes neither a phase nor an origin.
SameWork ==
    \A t \in Task : /\ PhaseOf[row'[t].status] = PhaseOf[row[t].status]
                    /\ row'[t].parent = row[t].parent

\* Such a step is a stutter of the promise.
LEMMA Stutters == SameWork => UNCHANGED Promise!vars
BY DEF SameWork, Promise!vars

\* One row changes its phase.
LEMMA OneGoes ==
    ASSUME Typed, NEW t \in Task, NEW r \in Row,
           row' = [row EXCEPT ![t] = r], r.parent = row[t].parent,
           NEW from, NEW to, PhaseOf[row[t].status] = from, PhaseOf[r.status] = to
    PROVE  Promise!Goes(t, from, to)
<1>1. \A u \in Task : row'[u] = IF u = t THEN r ELSE row[u]
  BY DEF Typed, TypeOK
<1>2. [u \in Task |-> PhaseOf[row'[u].status]]
        = [[u \in Task |-> PhaseOf[row[u].status]] EXCEPT ![t] = to]
  <2> DEFINE Before(u) == PhaseOf[row[u].status]
             After(u) == PhaseOf[row'[u].status]
  <2>1. \A u \in Task : After(u) = IF u = t THEN to ELSE Before(u)
    BY <1>1
  <2> HIDE DEF Before, After
  <2>2. [u \in Task |-> After(u)] = [[u \in Task |-> Before(u)] EXCEPT ![t] = to]
    BY <2>1
  <2> QED BY <2>2 DEF Before, After
<1>3. [u \in Task |-> row'[u].parent] = [u \in Task |-> row[u].parent]
  BY <1>1
<1> QED BY <1>2, <1>3 DEF Promise!Goes

\* Several open rows are given up together.
LEMMA SomeGiveUp ==
    ASSUME Typed, Typed', NEW outcome \in {"failed", "cancelled"},
           \A t \in Task :
              \/ row'[t] = row[t]
              \/ /\ row[t].status \in Active
                 /\ row'[t].status = outcome /\ row'[t].parent = row[t].parent
    PROVE  Promise!GiveUp(outcome)
<1>1. \A t \in Task : row[t].status \in Status /\ row'[t].status \in Status
  BY DEF Typed, TypeOK, Row
<1>2. \A t \in Task : PhaseOf[row'[t].status] \in Promise!Phase
  BY <1>1, PhaseSets
<1>3. \A t \in Task : PhaseOf[row'[t].status] # PhaseOf[row[t].status] =>
         PhaseOf[row[t].status] \in Promise!Open /\ PhaseOf[row'[t].status] = outcome
  BY <1>1, PhaseSets, Phases
<1>4. \A t \in Task : row'[t].parent = row[t].parent
  OBVIOUS
<1> QED BY <1>2, <1>3, <1>4 DEF Promise!GiveUp

\* A step of the promise, or none.
Simulated == Promise!Next \/ UNCHANGED Promise!vars

\* A step that leaves the table alone is none.
LEMMA UntouchedSimulated == row' = row => Simulated
BY Stutters DEF SameWork, Simulated

\* An insert asks for work.
LEMMA InsertSimulated ==
    ASSUME RetryInv, NEW t \in Task, row[t].status = "absent", NEW r \in Row,
           r.status \in {"queued", "deferred"}, r.parent = NoTask,
           row' = [row EXCEPT ![t] = r]
    PROVE  Simulated
<1>1. row[t].parent = NoTask
  BY DEF RetryInv, Unborn
<1>2. PhaseOf[row[t].status] = "none" /\ PhaseOf[r.status] = "waiting"
  BY Phases
<1>3. Promise!Goes(t, "none", "waiting")
  BY <1>1, <1>2, OneGoes DEF RetryInv
<1> QED BY <1>3 DEF Simulated, Promise!Next, Promise!Ask

\* What is inserted is a row without a parent.
LEMMA InsertedRow ==
    \A s \in {"queued", "deferred"} :
        Inserted(s) \in Row /\ Inserted(s).status = s /\ Inserted(s).parent = NoTask
BY RowOperators, Fields DEF Status, Active

\* Enqueues ask for work; media that is ready changes nothing.
LEMMA EnqueuesSimulated == RetryInv /\ Enqueues => Simulated
<1> SUFFICES ASSUME RetryInv, Enqueues PROVE Simulated
  OBVIOUS
<1>1. ASSUME NEW t \in Task, Enqueue(t) \/ EnqueueRouted(t) \/ EnqueueChatDeferred(t)
      PROVE  Simulated
  <2>1. PICK s \in {"queued", "deferred"} : row' = [row EXCEPT ![t] = Inserted(s)]
    BY <1>1 DEF Enqueue, EnqueueRouted, EnqueueChatDeferred, Commits
  <2>2. row[t].status = "absent"
    BY <1>1 DEF Enqueue, EnqueueRouted, EnqueueChatDeferred
  <2> QED BY <2>1, <2>2, InsertedRow, InsertSimulated
<1>2. ASSUME NEW l \in Chat, ChatMediaReady(l) PROVE Simulated
  <2>1. \A t \in Task :
           \/ row'[t] = row[t]
           \/ row[t].status = "deferred" /\ row'[t] = Moved(row[t], "queued")
    BY <1>2 DEF ChatMediaReady, MoveAll, In
  <2>2. SameWork
    BY <2>1, Fields, Phases DEF SameWork, Keeps, RetryInv, Typed, TypeOK
  <2> QED BY <2>2, Stutters DEF Simulated
<1> QED BY <1>1, <1>2 DEF Enqueues

\* A pick claims work none of whose rivals is in hand.
LEMMA PickSimulated ==
    ASSUME RetryInv, NEW q \in Poll, ClaimPick(q)
    PROVE  Simulated
<1>1. CASE row' = row
  BY <1>1, UntouchedSimulated
<1>2. CASE row' # row
  <2>1. PICK t \in Claimable(poll[q].agent), p \in Poll \cup {NoPoll} :
           row' = [row EXCEPT ![t] = Dispatched(row[t], p)]
    BY <1>2, ClaimPickRow DEF RetryInv
  <2>2. /\ t \in Task /\ row[t].status = "queued"
        /\ \A s \in Task : row[s].status \in InFlight => ~ SameLane(s, t)
    BY DEF Claimable, In
  <2>3. row[t] \in Row
    BY <2>2 DEF RetryInv, Typed, TypeOK
  <2>4. /\ Dispatched(row[t], p) \in Row
        /\ Dispatched(row[t], p).status = "dispatched"
        /\ Dispatched(row[t], p).parent = row[t].parent
    BY <2>3, RowOperators, Fields DEF Keeps
  <2>5. Promise!Goes(t, "waiting", "claimed")
    BY <2>1, <2>2, <2>4, Phases, OneGoes DEF RetryInv
  <2>6. ASSUME NEW v \in Task, v # t, Promise!Rivals(v, t) PROVE ~ Promise!InHand(v)
    <3>1. SameLane(v, t)
      BY <2>2, <2>6 DEF Promise!Rivals, Rivals, SameLane
    <3>2. row[v].status \notin InFlight /\ row[v].status \in Status
      BY <2>2, <3>1 DEF RetryInv, Typed, TypeOK, Row
    <3> QED BY <3>2, PhaseSets DEF Promise!InHand
  <2> QED BY <2>2, <2>5, <2>6 DEF Simulated, Promise!Next, Promise!Claim
<1> QED BY <1>1, <1>2

\* One row is written in its phase.
LEMMA WrittenSimulated ==
    ASSUME Typed, NEW t \in Task, NEW r,
           row' = [row EXCEPT ![t] = r], r.parent = row[t].parent,
           PhaseOf[r.status] = PhaseOf[row[t].status]
    PROVE  Simulated
<1>1. SameWork
  BY DEF SameWork, Typed, TypeOK
<1> QED BY <1>1, Stutters DEF Simulated

\* What only clocks and claims change of a row.
LEMMA SameFields ==
    \A r \in Row : \A x :
        /\ LET n == [r EXCEPT !.claim = x] IN n.status = r.status /\ n.parent = r.parent
        /\ LET n == [r EXCEPT !.age = x] IN n.status = r.status /\ n.parent = r.parent
BY DEF Row

\* A claim request claims, gives back what it claimed, or does nothing that the
\* promise sees.
LEMMA ClaimsSimulated == RetryInv /\ Claims => Simulated
<1> SUFFICES ASSUME RetryInv, NEW q \in Poll,
                    \/ \E rs \in Machine : PollStart(q, rs)
                    \/ ClaimStep(q) \/ PollAnswer(q) \/ PollRequeue(q)
             PROVE  Simulated
  BY DEF Claims
<1>t. Typed /\ \A t \in Task : row[t] \in Row
  BY DEF RetryInv, Typed, TypeOK
<1> SUFFICES ASSUME row' # row PROVE Simulated
  BY UntouchedSimulated
<1>1. CASE PollPromote(q)
  <2>1. \A t \in Task :
           \/ row'[t] = row[t]
           \/ row[t].status = "deferred" /\ row'[t] = Moved(row[t], "queued")
    BY <1>1 DEF PollPromote, Commits, Refused, MoveAll, Due, In
  <2>2. SameWork
    BY <1>t, <2>1, Fields, Phases DEF SameWork, Keeps
  <2> QED BY <2>2, Stutters DEF Simulated
<1>2. CASE PollReclaim(q)
  <2>1. PICK t \in Task : row[t].status = "dispatched"
                          /\ row' = [row EXCEPT ![t] = Dispatched(row[t], q)]
    BY <1>2 DEF PollReclaim, Reclaimable, In
  <2>2. Dispatched(row[t], q).parent = row[t].parent
        /\ Dispatched(row[t], q).status = "dispatched"
    BY <1>t, Fields DEF Keeps
  <2> QED BY <1>t, <2>1, <2>2, WrittenSimulated
<1>3. CASE PollAnswer(q)
  <2> DEFINE t == poll[q].task
  <2>1. row' = [row EXCEPT ![t] = [row[t] EXCEPT !.claim = NoPoll]]
    BY <1>3 DEF PollAnswer, Release
  <2>2. t \in Task
    BY <2>1 DEF RetryInv, Typed, TypeOK
  <2> QED BY <1>t, <2>1, <2>2, SameFields, WrittenSimulated
<1>4. CASE PollRequeue(q)
  <2> DEFINE t == poll[q].task
  <2>1. row[t].status = "dispatched" /\ row' = [row EXCEPT ![t] = Moved(row[t], "queued")]
    BY <1>4 DEF PollRequeue
  <2>2. t \in Task
    BY <2>1 DEF RetryInv, Typed, TypeOK
  <2>3. /\ Moved(row[t], "queued") \in Row
        /\ Moved(row[t], "queued").status = "queued"
        /\ Moved(row[t], "queued").parent = row[t].parent
    BY <1>t, <2>2, RowOperators, Fields, StatusSets DEF Keeps, Status
  <2>4. Promise!Goes(t, "claimed", "waiting")
    BY <1>t, <2>1, <2>2, <2>3, Phases, OneGoes
  <2> QED BY <2>2, <2>4 DEF Simulated, Promise!Next, Promise!GiveBack
<1>5. CASE ClaimPick(q)
  BY <1>5, PickSimulated
<1> QED
  BY <1>1, <1>2, <1>3, <1>4, <1>5 DEF ClaimStep, PollStart, PollList, ClaimCount

\* A retry tries failed work again for the first time.
LEMMA RetryingSimulated == RetryInv /\ Retrying => Simulated
<1> SUFFICES ASSUME RetryInv, Retrying, row' # row PROVE Simulated
  BY UntouchedSimulated
<1>1. PICK t \in Task, c \in Task, why \in Reason :
         /\ Retried(t, c, why)
         /\ \/ row[t].status \in InFlight
            \/ row'[t] = row[t] /\ [op |-> "retry", task |-> t] \in owed
  BY RetryingRows DEF RetryInv
<1>2. /\ row[c].status = "absent" /\ c # t
      /\ row'[c].status \in {"queued", "deferred"} /\ row'[c].parent = t
      /\ row'[t].status = "failed" /\ row'[t].parent = row[t].parent
      /\ \A u \in Task \ {t, c} : row'[u] = row[u]
  BY <1>1, RetryFields DEF Retried, Spare, Keeps
<1>3. row[t].status \in InFlight \/ row[t].status = "failed"
  BY <1>1, <1>2
<1>4. \A v \in Task : row[v].parent # t
  <2>1. CASE row[t].status \in InFlight
    <3>1. row[t].status # "failed" /\ t # NoTask
      BY <2>1, StatusSets, ColumnAssumption
    <3> QED BY <3>1 DEF RetryInv, RetryLineage
  <2>2. CASE [op |-> "retry", task |-> t] \in owed
    BY <2>2 DEF RetryInv, RetryOwed
  <2> QED BY <1>1, <2>1, <2>2
<1>5. PhaseOf[row[t].status] \in {"claimed", "begun", "failed"} /\ PhaseOf[row[c].status] = "none"
  BY <1>2, <1>3, Phases, StatusSets
<1> DEFINE Before(u) == PhaseOf[row[u].status]
           After(u) == PhaseOf[row'[u].status]
<1>6. \A u \in Task : After(u) = IF u = c THEN "waiting" ELSE IF u = t THEN "failed" ELSE Before(u)
  BY <1>2, Phases
<1>7. [u \in Task |-> After(u)]
        = [[u \in Task |-> Before(u)] EXCEPT ![t] = "failed", ![c] = "waiting"]
  <2> HIDE DEF Before, After
  <2> QED BY <1>2, <1>6
<1>8. [u \in Task |-> row'[u].parent] = [[u \in Task |-> row[u].parent] EXCEPT ![c] = t]
  BY <1>2
<1>9. Promise!TryAgain(t, c)
  BY <1>4, <1>5, <1>7, <1>8 DEF Promise!TryAgain, Promise!InHand
<1> QED BY <1>9 DEF Simulated, Promise!Next

\* Rows cancelled or failed by one statement.
LEMMA BulkSimulated ==
    ASSUME Typed, Typed', NEW rows, \A t \in rows : t \in Task => row[t].status \in Active,
           \/ row' = MoveAll(rows, "cancelled")
           \/ \E why : row' = FailAll(rows, why)
    PROVE  Simulated
<1>r. \A t \in Task : row[t] \in Row
  BY DEF Typed, TypeOK
<1>1. CASE row' = MoveAll(rows, "cancelled")
  <2>1. \A t \in Task : row'[t] = IF t \in rows THEN Moved(row[t], "cancelled") ELSE row[t]
    BY <1>1 DEF MoveAll
  <2>2. Promise!GiveUp("cancelled")
    BY <1>r, <2>1, Fields, SomeGiveUp DEF Keeps
  <2> QED BY <2>2 DEF Simulated, Promise!Next
<1>2. ASSUME NEW why, row' = FailAll(rows, why) PROVE Simulated
  <2>1. \A t \in Task : row'[t] = IF t \in rows THEN Failed(row[t], why) ELSE row[t]
    BY <1>2 DEF FailAll
  <2>2. Promise!GiveUp("failed")
    BY <1>r, <2>1, Fields, SomeGiveUp DEF Keeps
  <2> QED BY <2>2 DEF Simulated, Promise!Next
<1> QED BY <1>1, <1>2

\* Callbacks begin, complete or give up work, or renew a lease.
LEMMA CallbacksSimulated == RetryInv /\ Typed' /\ Callbacks => Simulated
<1> SUFFICES ASSUME RetryInv, Typed', NEW t \in Task,
                    \/ ExtendLease(t) \/ WaitLocalDirectory(t) \/ StartTask(t)
                    \/ CompleteTask(t) \/ AgentComment(t)
                    \/ \E why \in ReportedReason : FailTask(t, why) \/ FailTaskRefused(t, why)
             PROVE  Simulated
  BY DEF Callbacks
<1>t. Typed /\ row[t] \in Row
  BY DEF RetryInv, Typed, TypeOK
<1>m. \A s \in {"waiting_local_directory", "running", "completed"} :
         /\ Moved(row[t], s) \in Row
         /\ Moved(row[t], s).status = s /\ Moved(row[t], s).parent = row[t].parent
  BY <1>t, RowOperators, Fields, StatusSets DEF Keeps, Status
<1>1. CASE ExtendLease(t)
  <2>1. row' = [row EXCEPT ![t] = [row[t] EXCEPT !.age = 0]]
    BY <1>1 DEF ExtendLease
  <2> QED BY <1>t, <2>1, SameFields, WrittenSimulated
<1>2. CASE WaitLocalDirectory(t) \/ StartTask(t)
  <2>1. PICK s \in {"waiting_local_directory", "running"} : row' = [row EXCEPT ![t] = Moved(row[t], s)]
    BY <1>2 DEF WaitLocalDirectory, StartTask
  <2>2. CASE row[t].status = "dispatched"
    <3>1. Promise!Goes(t, "claimed", "begun")
      BY <1>t, <1>m, <2>1, <2>2, Phases, OneGoes
    <3> QED BY <3>1 DEF Simulated, Promise!Next, Promise!Begin
  <2>3. CASE row[t].status = "waiting_local_directory"
    <3> DEFINE r == Moved(row[t], s)
    <3>1. r.parent = row[t].parent /\ PhaseOf[r.status] = PhaseOf[row[t].status]
      BY <1>m, <2>3, Phases
    <3>2. row' = [row EXCEPT ![t] = r]
      BY <2>1
    <3> HIDE DEF r
    <3> QED BY <1>t, <3>1, <3>2, WrittenSimulated
  <2> QED BY <1>2, <2>2, <2>3 DEF WaitLocalDirectory, StartTask
<1>3. CASE CompleteTask(t)
  <2>1. row[t].status = "running" /\ row' = [row EXCEPT ![t] = Moved(row[t], "completed")]
    BY <1>3 DEF CompleteTask
  <2>2. Promise!Goes(t, "begun", "completed")
    BY <1>t, <1>m, <2>1, Phases, OneGoes
  <2> QED BY <2>2 DEF Simulated, Promise!Next, Promise!Complete
<1>4. CASE AgentComment(t)
  BY <1>4, UntouchedSimulated DEF AgentComment
<1>5. ASSUME NEW why \in ReportedReason, FailTask(t, why) PROVE Simulated
  <2>1. CASE row' # [row EXCEPT ![t] = Failed(row[t], why)]
    BY <1>5, <2>1, RetryingSimulated DEF Retrying
  <2>2. CASE row' = [row EXCEPT ![t] = Failed(row[t], why)]
    <3>1. row[t].status \in Active
      BY <1>5, StatusSets DEF FailTask
    <3>2. row' = FailAll({t}, why)
      BY <1>t, <2>2 DEF FailAll, Typed, TypeOK
    <3>3. \A u \in {t} : u \in Task => row[u].status \in Active
      BY <3>1
    <3>4. \/ row' = MoveAll({t}, "cancelled")
          \/ \E reason : row' = FailAll({t}, reason)
      BY <3>2
    <3> QED BY <1>t, <3>3, <3>4, BulkSimulated
  <2> QED BY <2>1, <2>2
<1>6. ASSUME NEW why \in ReportedReason, FailTaskRefused(t, why) PROVE Simulated
  BY <1>6, UntouchedSimulated DEF FailTaskRefused, Refused
<1> QED BY <1>1, <1>2, <1>3, <1>4, <1>5, <1>6

\* Follow-ups ask for work, give some up or try some again.
LEMMA FollowUpsSimulated == RetryInv /\ Typed' /\ FollowUps => Simulated
<1> SUFFICES ASSUME RetryInv, Typed', NEW t \in Task, FollowUp(t), row' # row PROVE Simulated
  BY UntouchedSimulated DEF FollowUps
<1>1. ASSUME NEW f \in Task, FallbackInsert(f, t) PROVE Simulated
  <2> DEFINE n == [Inserted("deferred") EXCEPT !.escalates = t]
  <2>1. row' = [row EXCEPT ![f] = n] /\ row[f].status = "absent"
    BY <1>1 DEF FallbackInsert, Commits
  <2>2. n \in Row /\ n.status = "deferred" /\ n.parent = NoTask
    BY InsertedRow DEF Row
  <2> QED BY <2>1, <2>2, InsertSimulated
<1>2. CASE CancelEscalationsForTask(t) \/ CancelEscalationsForIssueAgent(t)
  <2>1. \A f \in Quenchable : row[f].status \in Active
    BY StatusSets DEF Quenchable, In
  <2>2. PICK rows \in SUBSET Quenchable : row' = MoveAll(rows, "cancelled")
    <3>1. CASE CancelEscalationsForTask(t)
      BY <3>1 DEF CancelEscalationsForTask
    <3>2. CASE CancelEscalationsForIssueAgent(t)
      BY <3>2 DEF CancelEscalationsForIssueAgent
    <3> QED BY <1>2, <3>1, <3>2
  <2> QED BY <2>1, <2>2, BulkSimulated DEF RetryInv
<1>3. CASE RerunInsert(t)
  <2>1. PICK c \in Task : row[c].status = "absent"
                          /\ row' = [row EXCEPT ![c] = Inserted("queued")]
    BY <1>3 DEF RerunInsert, Commits, Refused, Spare
  <2> QED BY <2>1, InsertedRow, InsertSimulated
<1>4. CASE MaybeRetry(t)
  BY <1>4, RetryingSimulated DEF Retrying
<1> QED BY <1>1, <1>2, <1>3, <1>4 DEF FollowUp

\* Cancellations, sweeps and restarts give work up; time and health are not
\* part of the promise.
LEMMA RestSimulated ==
    RetryInv /\ Typed' /\ (Cancels \/ Sweeps \/ Environment) => Simulated
<1> SUFFICES ASSUME RetryInv, Typed', Cancels \/ Sweeps \/ Environment, row' # row
             PROVE  Simulated
  BY UntouchedSimulated
<1>t. Typed /\ \A t \in Task : row[t] \in Row
  BY DEF RetryInv, Typed, TypeOK
<1>0. \A t \in In(Active) : row[t].status \in Active
  BY DEF In
<1>1. CASE \E t \in Task : Elapse(t)
  <2>1. PICK t \in Task : Elapse(t)
    BY <1>1
  <2>2. PICK n : row' = [row EXCEPT ![t] = [row[t] EXCEPT !.age = n]]
    BY <2>1 DEF Elapse
  <2> QED BY <1>t, <2>2, SameFields, WrittenSimulated
<1>2. CASE Cancels
  <2>1. PICK rows \in SUBSET In(Active) : row' = MoveAll(rows, "cancelled")
    <3>1. ASSUME NEW t \in Task, CancelTask(t)
          PROVE  {t} \in SUBSET In(Active) /\ row' = MoveAll({t}, "cancelled")
      BY <3>1 DEF CancelTask, In
    <3>2. CASE (\E t \in Task : Rerun(t)) \/ (\E l \in Issue \cup Chat : CancelLane(l))
               \/ (\E a \in Agent : CancelAgent(a))
      BY <3>2 DEF Rerun, CancelLane, CancelAgent
    <3> QED BY <1>2, <3>1, <3>2 DEF Cancels
  <2> QED BY <1>t, <1>0, <2>1, BulkSimulated
<1>3. CASE Sweeps \/ \E r \in Runtime : RecoverOrphanedTasks(r)
  <2>1. PICK rows \in SUBSET In(Active) : \E why : row' = FailAll(rows, why)
    <3>1. CASE FailStaleTasks
      BY <3>1, StatusSets DEF FailStaleTasks, Sweep, In
    <3>2. CASE ExpireStaleQueuedTasks
      BY <3>2, StatusSets DEF ExpireStaleQueuedTasks, Sweep, In
    <3>3. CASE FailTasksForOfflineRuntimes
      BY <3>3, StatusSets DEF FailTasksForOfflineRuntimes, In
    <3>4. CASE \E r \in Runtime : RecoverOrphanedTasks(r)
      BY <3>4, StatusSets DEF RecoverOrphanedTasks, Sweep, In
    <3> QED BY <1>3, <3>1, <3>2, <3>3, <3>4 DEF Sweeps, MarkOffline
  <2> QED BY <1>t, <1>0, <2>1, BulkSimulated
<1> QED
  BY <1>1, <1>2, <1>3 DEF Environment, Silence, Heartbeat, Deregister, ServerCrash

\* A queue in which nothing was asked for keeps the promise so far.
LEMMA InitSimulated == Init => Promise!Init
BY Phases DEF Init, Promise!Init, Absent

\* Every step is a step of the promise or none.
LEMMA StepSimulated == RetryInv /\ [Next]_vars => [Promise!Next]_(Promise!vars)
<1> SUFFICES ASSUME RetryInv, [Next]_vars PROVE Simulated
  BY DEF Simulated
<1>1. Typed'
  BY TypedStep DEF RetryInv
<1>2. CASE UNCHANGED vars
  BY <1>2, UntouchedSimulated DEF vars
<1> QED
  BY <1>1, <1>2, EnqueuesSimulated, ClaimsSimulated, CallbacksSimulated, FollowUpsSimulated,
     RestSimulated DEF Next

\* The queue is what it promises, whatever the number of rows, agents, servers
\* and daemons: several servers polling, answers lost and claims taken back,
\* sweeps, restarts and crashes are invisible to those who asked for work.
THEOREM Refinement == Spec => ImplementsWorkQueue
BY InitSimulated, StepSimulated, RetryInit, RetryStep, PTL DEF Spec, ImplementsWorkQueue, Promise!Spec

\* What is proved of the promise.
Promised == INSTANCE WorkQueueProofs WITH
    Work <- Task, Rival <- Rivals, NoWork <- NoTask,
    phase <- [t \in Task |-> PhaseOf[row[t].status]],
    origin <- [t \in Task |-> row[t].parent]

\* So the table keeps it: an outcome, and which failed row a row retries, are
\* never changed, no row of the table is forgotten, rivals are never in hand
\* together and a failed row is tried again once.
COROLLARY TableKeepsPromise ==
    Spec => /\ [](Promised!RivalsApart /\ Promised!TriedAgainOnce)
            /\ Promised!ClosedForGood
<1>1. Promise!Init => Promised!Init
  BY DEF Promise!Init, Promised!Init
<1>2. Promise!Next => Promised!Next
  BY DEF Promise!Next, Promised!Next, Promise!Ask, Promised!Ask, Promise!Claim,
         Promised!Claim, Promise!GiveBack, Promised!GiveBack, Promise!Begin,
         Promised!Begin, Promise!Complete, Promised!Complete, Promise!GiveUp,
         Promised!GiveUp, Promise!TryAgain, Promised!TryAgain, Promise!Goes,
         Promised!Goes, Promise!InHand, Promised!InHand, Promise!Rivals,
         Promised!Rivals, Promise!Phase, Promised!Phase, Promise!Open, Promised!Open
<1>3. [Promise!Next]_(Promise!vars) => [Promised!Next]_(Promised!vars)
  BY <1>2 DEF Promise!vars, Promised!vars
<1> QED
  BY <1>1, <1>3, Refinement, Promised!PromiseIsSafe, Promised!PromiseIsFinal, PTL
     DEF ImplementsWorkQueue, Promise!Spec, Promised!Spec
=============================================================================
