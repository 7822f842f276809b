---------------------------- MODULE DaemonProofs ----------------------------
(****************************************************************************)
(* Proofs about Daemon, for any number of slots, tasks, directories and     *)
(* updaters.  First what each action does to the goroutine it is about;     *)
(* then the inductive invariant part by part: types, the accounts of slots  *)
(* and counters, the locks and their holders, the updates, the rows.        *)
(****************************************************************************)
EXTENDS Daemon, FiniteSetTheorems, TLAPS

-----------------------------------------------------------------------------
(* What an action leaves of the goroutines.                                 *)

\* Only the goroutine of s has moved; it has the same task; what it has seen.
Only(s) == run' \in [Slot -> Run] /\ \A r \in Slot : r # s => run'[r] = run[r]
Keeps(s) == Only(s) /\ run'[s].task = run[s].task
After(s, pc, lock) == Keeps(s) /\ run'[s].pc = pc /\ run'[s].lock = lock
Seen(s, b) == run'[s].seen = b

\* One goroutine is set.
LEMMA SetRun ==
    ASSUME run \in [Slot -> Run], NEW s \in Slot, NEW r \in Run, Set(s, r)
    PROVE  Only(s) /\ run'[s] = r
BY DEF Set, Only

\* What a record of a goroutine is made of.
LEMMA RunFields ==
    ASSUME NEW r \in Run
    PROVE  /\ r.task \in Task \cup {NoTask} /\ r.pc \in RunPc
           /\ r.lock \in {"none", "blocked", "granted", "held"}
           /\ r.seen \in BOOLEAN /\ r.result \in {"none", "completed", "failed", "error"}
BY DEF Run

\* Goto and the like.
LEMMA TakeRun ==
    ASSUME run \in [Slot -> Run], NEW s \in Slot, NEW pc \in RunPc,
           NEW lock \in {"none", "blocked", "granted", "held"}, Take(s, pc, lock)
    PROVE  After(s, pc, lock) /\ Seen(s, run[s].seen)
<1> DEFINE r == [run[s] EXCEPT !.pc = pc, !.lock = lock]
<1>1. r \in Run
  BY DEF Run
<1>2. /\ r.task = run[s].task /\ r.pc = pc /\ r.lock = lock /\ r.seen = run[s].seen
  BY DEF Run
<1>3. Only(s) /\ run'[s] = r
  BY <1>1, SetRun DEF Take
<1> QED
  BY <1>2, <1>3 DEF After, Keeps, Seen

\* The same, with the lock it has.
LEMMA GotoRun ==
    ASSUME run \in [Slot -> Run], NEW s \in Slot, NEW pc \in RunPc, Goto(s, pc)
    PROVE  After(s, pc, run[s].lock) /\ Seen(s, run[s].seen)
<1>1. run[s].lock \in {"none", "blocked", "granted", "held"}
  BY RunFields
<1> QED
  BY <1>1, TakeRun DEF Goto

\* It goes on with nothing seen.
LEMMA ForwardRun ==
    ASSUME run \in [Slot -> Run], NEW s \in Slot, NEW pc \in RunPc,
           NEW lock \in {"none", "blocked", "granted", "held"}, Forward(s, pc, lock)
    PROVE  After(s, pc, lock) /\ Seen(s, FALSE)
<1> DEFINE r == [run[s] EXCEPT !.pc = pc, !.lock = lock, !.seen = FALSE, !.result = "none"]
<1>1. r \in Run
  BY DEF Run
<1>2. /\ r.task = run[s].task /\ r.pc = pc /\ r.lock = lock /\ r.seen = FALSE
  BY DEF Run
<1>3. Only(s) /\ run'[s] = r
  BY <1>1, SetRun DEF Forward
<1> QED
  BY <1>2, <1>3 DEF After, Keeps, Seen

\* The agent has ended, or was not started.
LEMMA SettleRun ==
    ASSUME run \in [Slot -> Run], NEW s \in Slot,
           NEW result \in {"completed", "failed", "error"}, Settle(s, result)
    PROVE  After(s, "settle", run[s].lock) /\ Seen(s, run[s].seen)
<1> DEFINE r == [run[s] EXCEPT !.pc = "settle", !.result = result]
<1>1. r \in Run
  BY DEF Run, RunPc
<1>2. /\ r.task = run[s].task /\ r.pc = "settle" /\ r.lock = run[s].lock
      /\ r.seen = run[s].seen
  BY DEF Run
<1>3. Only(s) /\ run'[s] = r
  BY <1>1, SetRun DEF Settle
<1> QED
  BY <1>2, <1>3 DEF After, Keeps, Seen

\* A new goroutine, and none.
LEMMA NewRun ==
    ASSUME NEW t \in Task
    PROVE  /\ NoRun \in Run
           /\ [NoRun EXCEPT !.task = t, !.pc = "acquire"] \in Run
           /\ [NoRun EXCEPT !.task = t, !.pc = "acquire"].task = t
           /\ [NoRun EXCEPT !.task = t, !.pc = "acquire"].pc = "acquire"
           /\ [NoRun EXCEPT !.task = t, !.pc = "acquire"].lock = "none"
           /\ [NoRun EXCEPT !.task = t, !.pc = "acquire"].seen = FALSE
BY DEF NoRun, Run, RunPc

\* Where each action takes the goroutine it is about.
LEMMA RunMoves ==
    ASSUME TypeOK, NEW s \in Slot
    PROVE  /\ MarkWaiting(s) => After(s, "wait", "blocked") /\ Seen(s, run[s].seen)
           /\ LockGranted(s) => After(s, "wait", "granted") /\ Seen(s, run[s].seen)
           /\ WaitEnds(s) => After(s, "name", "held") /\ Seen(s, FALSE)
           /\ WaitAborted(s) =>
                 /\ After(s, IF run[s].seen THEN "free" ELSE "fail", "none")
                 /\ Seen(s, FALSE)
           /\ NameHolder(s) => After(s, "prepare", run[s].lock) /\ Seen(s, run[s].seen)
           /\ Watch(s) => After(s, run[s].pc, run[s].lock) /\ Seen(s, TRUE)
           /\ AgentEnds(s) => After(s, "settle", run[s].lock) /\ Seen(s, run[s].seen)
           /\ FailTask(s) => After(s, Returning(s), run[s].lock) /\ Seen(s, run[s].seen)
           /\ FreeSlot(s) => Only(s) /\ run'[s] = NoRun
<1> USE DEF TypeOK
<1>1. /\ {"wait", "name", "prepare", "settle", "fail", "free", "clear", "complete", "agent"} \subseteq RunPc
      /\ run \in [Slot -> Run] /\ NoRun \in Run
      /\ Returning(s) \in RunPc
  BY DEF RunPc, NoRun, Run, Returning
<1>2. MarkWaiting(s) => After(s, "wait", "blocked") /\ Seen(s, run[s].seen)
  BY <1>1, TakeRun DEF MarkWaiting
<1>3. LockGranted(s) => After(s, "wait", "granted") /\ Seen(s, run[s].seen)
  BY <1>1, TakeRun DEF LockGranted
<1>4. WaitEnds(s) => After(s, "name", "held") /\ Seen(s, FALSE)
  BY <1>1, ForwardRun DEF WaitEnds
<1>5. WaitAborted(s) => /\ After(s, IF run[s].seen THEN "free" ELSE "fail", "none")
                        /\ Seen(s, FALSE)
  BY <1>1, ForwardRun DEF WaitAborted
<1>6. NameHolder(s) => After(s, "prepare", run[s].lock) /\ Seen(s, run[s].seen)
  BY <1>1, GotoRun DEF NameHolder
<1>7. ASSUME Watch(s) PROVE After(s, run[s].pc, run[s].lock) /\ Seen(s, TRUE)
  <2> DEFINE r == [run[s] EXCEPT !.seen = TRUE]
  <2>1. r \in Run /\ r.task = run[s].task /\ r.pc = run[s].pc /\ r.lock = run[s].lock /\ r.seen = TRUE
    BY <1>1 DEF Run
  <2>2. Only(s) /\ run'[s] = r
    BY <1>1, <1>7, <2>1, SetRun DEF Watch
  <2> QED
    BY <2>1, <2>2 DEF After, Keeps, Seen
<1>8. AgentEnds(s) => After(s, "settle", run[s].lock) /\ Seen(s, run[s].seen)
  BY <1>1, SettleRun DEF AgentEnds
<1>9. FailTask(s) => After(s, Returning(s), run[s].lock) /\ Seen(s, run[s].seen)
  BY <1>1, GotoRun DEF FailTask
<1>10. FreeSlot(s) => Only(s) /\ run'[s] = NoRun
  BY <1>1, SetRun DEF FreeSlot
<1> QED
  BY <1>2, <1>3, <1>4, <1>5, <1>6, <1>7, <1>8, <1>9, <1>10

\* Those that branch.
LEMMA RunBranches ==
    ASSUME TypeOK, NEW s \in Slot
    PROVE  /\ Acquire(s) =>
                 /\ Seen(s, run[s].seen)
                 /\ \/ After(s, "prepare", run[s].lock) /\ UNCHANGED mutex
                    \/ After(s, "fail", run[s].lock) /\ UNCHANGED mutex
                    \/ After(s, "mark", run[s].lock) /\ Path(s) # NoDir /\ UNCHANGED mutex
                    \/ /\ After(s, "name", "held") /\ Path(s) # NoDir /\ ~ mutex[Path(s)]
                       /\ mutex' = [mutex EXCEPT ![Path(s)] = TRUE]
           /\ Release(s) =>
                 /\ Seen(s, run[s].seen)
                 /\ \/ /\ At(s, "clear") /\ After(s, "unlock", run[s].lock)
                       /\ holder' = [holder EXCEPT ![Path(s)] = NoTask] /\ UNCHANGED mutex
                    \/ /\ At(s, "unlock") /\ After(s, "free", "none")
                       /\ mutex' = [mutex EXCEPT ![Path(s)] = FALSE] /\ UNCHANGED holder
           /\ StartTask(s) =>
                 /\ Seen(s, run[s].seen)
                 /\ \/ After(s, "settle", run[s].lock)
                    \/ /\ After(s, "agent", run[s].lock)
                       /\ row[run[s].task] \in Startable
                       /\ row' = [row EXCEPT ![run[s].task] = "running"]
           /\ Settled(s) =>
                 /\ Seen(s, FALSE)
                 /\ \/ /\ After(s, Returning(s), run[s].lock)
                       /\ run[s].seen \/ row[run[s].task] = "closed"
                    \/ After(s, "complete", run[s].lock)
                    \/ After(s, "fail", run[s].lock)
           /\ CompleteTask(s) =>
                 /\ Seen(s, run[s].seen)
                 /\ \/ After(s, Returning(s), run[s].lock)
                       /\ (Close(run[s].task) \/ (Leave(run[s].task) /\ UNCHANGED row))
                    \/ After(s, "fail", run[s].lock) /\ UNCHANGED server
<1> USE DEF TypeOK
<1>1. /\ {"mark", "wait", "name", "prepare", "settle", "fail", "free", "clear", "unlock", "complete", "agent"} \subseteq RunPc
      /\ run \in [Slot -> Run]
      /\ Returning(s) \in RunPc
      /\ run[s].lock \in {"none", "blocked", "granted", "held"}
  BY DEF RunPc, Run, Returning
<1>2. ASSUME Acquire(s)
      PROVE  /\ Seen(s, run[s].seen)
             /\ \/ After(s, "prepare", run[s].lock) /\ UNCHANGED mutex
                \/ After(s, "fail", run[s].lock) /\ UNCHANGED mutex
                \/ After(s, "mark", run[s].lock) /\ Path(s) # NoDir /\ UNCHANGED mutex
                \/ /\ After(s, "name", "held") /\ Path(s) # NoDir /\ ~ mutex[Path(s)]
                   /\ mutex' = [mutex EXCEPT ![Path(s)] = TRUE]
  BY <1>1, <1>2, GotoRun, TakeRun DEF Acquire
<1>3. ASSUME Release(s)
      PROVE  /\ Seen(s, run[s].seen)
             /\ \/ /\ At(s, "clear") /\ After(s, "unlock", run[s].lock)
                   /\ holder' = [holder EXCEPT ![Path(s)] = NoTask] /\ UNCHANGED mutex
                \/ /\ At(s, "unlock") /\ After(s, "free", "none")
                   /\ mutex' = [mutex EXCEPT ![Path(s)] = FALSE] /\ UNCHANGED holder
  BY <1>1, <1>3, GotoRun, TakeRun DEF Release
<1>4. ASSUME StartTask(s)
      PROVE  /\ Seen(s, run[s].seen)
             /\ \/ After(s, "settle", run[s].lock)
                \/ /\ After(s, "agent", run[s].lock)
                   /\ row[run[s].task] \in Startable
                   /\ row' = [row EXCEPT ![run[s].task] = "running"]
  BY <1>1, <1>4, GotoRun, SettleRun DEF StartTask
<1>5. ASSUME Settled(s)
      PROVE  /\ Seen(s, FALSE)
             /\ \/ /\ After(s, Returning(s), run[s].lock)
                   /\ run[s].seen \/ row[run[s].task] = "closed"
                \/ After(s, "complete", run[s].lock)
                \/ After(s, "fail", run[s].lock)
  <2>1. CASE Forward(s, Returning(s), run[s].lock) /\ (run[s].seen \/ row[run[s].task] = "closed")
    BY <1>1, <2>1, ForwardRun
  <2>2. CASE Forward(s, "complete", run[s].lock)
    BY <1>1, <2>2, ForwardRun
  <2>3. CASE Forward(s, "fail", run[s].lock)
    BY <1>1, <2>3, ForwardRun
  <2> QED
    BY <1>5, <2>1, <2>2, <2>3 DEF Settled
<1>6. ASSUME CompleteTask(s)
      PROVE  /\ Seen(s, run[s].seen)
             /\ \/ After(s, Returning(s), run[s].lock)
                   /\ (Close(run[s].task) \/ (Leave(run[s].task) /\ UNCHANGED row))
                \/ After(s, "fail", run[s].lock) /\ UNCHANGED server
  BY <1>1, <1>6, GotoRun DEF CompleteTask
<1> QED
  BY <1>2, <1>3, <1>4, <1>5, <1>6

-----------------------------------------------------------------------------
(* Types.                                                                   *)

\* Everything but the goroutines.
OtherTypes ==
    /\ row \in [Task -> Status]
    /\ lost \in SUBSET Task
    /\ phase \in {"serving", "stopping", "exited"}
    /\ poller \in Poller
    /\ sem \in SUBSET Slot
    /\ mutex \in [Dir -> BOOLEAN]
    /\ phantoms \in [Dir -> [blocked : Nat, granted : Nat]]
    /\ holder \in [Dir -> Task \cup {NoTask}]
    /\ claimsInFlight \in Nat /\ pauseClaims \in BOOLEAN
    /\ activeTasks \in Nat /\ laggards \in Nat
    /\ updating \in BOOLEAN
    /\ upd \in [Updater -> UpdPc]

\* A slot in use has a task.
Tasked == \A s \in Slot : IF run[s].pc = "none" THEN run[s].task = NoTask
                                               ELSE run[s].task \in Task

\* The counters do not go below zero because of what they count.
Counts ==
    /\ activeTasks = Cardinality(Busy) + laggards
    /\ claimsInFlight = IF poller.pc \in {"claim", "answer", "dispatch"} THEN 1 ELSE 0

\* The initial state is well typed.
LEMMA TypeInit == Init => TypeOK
<1>1. NoRun \in Run
  BY DEF NoRun, Run, RunPc
<1>2. Init => /\ run \in [Slot -> Run] /\ poller \in Poller
              /\ phantoms \in [Dir -> [blocked : Nat, granted : Nat]]
  BY <1>1 DEF Init, Fresh, Poller, IdlePoller
<1>3. Init => /\ mutex \in [Dir -> BOOLEAN] /\ holder \in [Dir -> Task \cup {NoTask}]
              /\ upd \in [Updater -> UpdPc] /\ row \in [Task -> Status]
  BY DEF Init, Fresh, UpdPc, Status
<1>4. Init => /\ lost \in SUBSET Task /\ phase \in {"serving", "stopping", "exited"}
              /\ sem \in SUBSET Slot
  BY DEF Init, Fresh
<1>5. Init => claimsInFlight \in Nat /\ activeTasks \in Nat /\ laggards \in Nat
  BY DEF Init
<1>6. Init => pauseClaims \in BOOLEAN /\ updating \in BOOLEAN
  BY Zenon DEF Init
<1> QED
  BY <1>2, <1>3, <1>4, <1>5, <1>6 DEF TypeOK

RunTyped == run \in [Slot -> Run]

\* Every step leaves well-typed goroutines.
LEMMA RunType == TypeOK /\ [Next]_vars => RunTyped'
<1> SUFFICES ASSUME TypeOK, [Next]_vars PROVE RunTyped'
  OBVIOUS
<1>1. CASE TakeSlots
  BY <1>1 DEF TakeSlots, TypeOK, slots, RunTyped
<1>2. CASE TryEnterClaim
  BY <1>2 DEF TryEnterClaim, TypeOK, slots, RunTyped
<1>3. CASE ServeClaim
  BY <1>3 DEF ServeClaim, TypeOK, slots, RunTyped
<1>4. CASE ClaimReturns
  BY <1>4 DEF ClaimReturns, TypeOK, slots, RunTyped
<1>5. ASSUME NEW t \in Task, NEW s \in Slot, Dispatch(t, s) PROVE RunTyped'
  BY <1>5, NewRun, SetRun DEF Dispatch, TypeOK, Only, RunTyped
<1>6. CASE ExitClaim
  BY <1>6 DEF ExitClaim, TypeOK, slots, RunTyped
<1>7. CASE PollerStops
  BY <1>7 DEF PollerStops, TypeOK, slots, RunTyped
<1>8. ASSUME NEW s \in Slot, Acquire(s) PROVE RunTyped'
  BY <1>8, RunBranches DEF After, Keeps, Only, RunTyped
<1>9. ASSUME NEW s \in Slot, MarkWaiting(s) PROVE RunTyped'
  BY <1>9, RunMoves DEF After, Keeps, Only, RunTyped
<1>10. ASSUME NEW s \in Slot, LockGranted(s) PROVE RunTyped'
  BY <1>10, RunMoves DEF After, Keeps, Only, RunTyped
<1>11. ASSUME NEW s \in Slot, WaitEnds(s) PROVE RunTyped'
  BY <1>11, RunMoves DEF After, Keeps, Only, RunTyped
<1>12. ASSUME NEW s \in Slot, WaitAborted(s) PROVE RunTyped'
  BY <1>12, RunMoves DEF After, Keeps, Only, RunTyped
<1>13. ASSUME NEW d \in Dir, PhantomLocks(d) PROVE RunTyped'
  BY <1>13 DEF PhantomLocks, TypeOK, slots, RunTyped
<1>14. ASSUME NEW d \in Dir, PhantomUnlocks(d) PROVE RunTyped'
  BY <1>14 DEF PhantomUnlocks, TypeOK, slots, RunTyped
<1>15. ASSUME NEW s \in Slot, NameHolder(s) PROVE RunTyped'
  BY <1>15, RunMoves DEF After, Keeps, Only, RunTyped
<1>16. ASSUME NEW s \in Slot, Release(s) PROVE RunTyped'
  BY <1>16, RunBranches DEF After, Keeps, Only, RunTyped
<1>17. ASSUME NEW s \in Slot, Watch(s) PROVE RunTyped'
  BY <1>17, RunMoves DEF After, Keeps, Only, RunTyped
<1>18. ASSUME NEW s \in Slot, StartTask(s) PROVE RunTyped'
  BY <1>18, RunBranches DEF After, Keeps, Only, RunTyped
<1>19. ASSUME NEW s \in Slot, AgentEnds(s) PROVE RunTyped'
  BY <1>19, RunMoves DEF After, Keeps, Only, RunTyped
<1>20. ASSUME NEW s \in Slot, Settled(s) PROVE RunTyped'
  BY <1>20, RunBranches DEF After, Keeps, Only, RunTyped
<1>21. ASSUME NEW s \in Slot, CompleteTask(s) PROVE RunTyped'
  BY <1>21, RunBranches DEF After, Keeps, Only, RunTyped
<1>22. ASSUME NEW s \in Slot, FailTask(s) PROVE RunTyped'
  BY <1>22, RunMoves DEF After, Keeps, Only, RunTyped
<1>23. ASSUME NEW s \in Slot, FreeSlot(s) PROVE RunTyped'
  BY <1>23, RunMoves DEF After, Keeps, Only, RunTyped
<1>24. CASE NotActive
  BY <1>24 DEF NotActive, TypeOK, slots, RunTyped
<1>25. CASE FindRelease
  BY <1>25 DEF FindRelease, TypeOK, slots, RunTyped
<1>26. ASSUME NEW u \in Updater, TakeFlag(u) PROVE RunTyped'
  BY <1>26 DEF TakeFlag, TypeOK, slots, RunTyped
<1>27. ASSUME NEW u \in Updater, PauseClaims(u) PROVE RunTyped'
  BY <1>27 DEF PauseClaims, TypeOK, slots, RunTyped
<1>28. ASSUME NEW u \in Updater, DrainClaims(u) PROVE RunTyped'
  BY <1>28 DEF DrainClaims, TypeOK, slots, RunTyped
<1>29. CASE TrySetClaimBarrier
  BY <1>29 DEF TrySetClaimBarrier, TypeOK, slots, RunTyped
<1>30. ASSUME NEW u \in Updater, UpgradeFails(u) PROVE RunTyped'
  BY <1>30 DEF UpgradeFails, TypeOK, slots, RunTyped
<1>31. ASSUME NEW u \in Updater, UpgradeRestarts(u) PROVE RunTyped'
  BY <1>31 DEF UpgradeRestarts, TypeOK, slots, RunTyped
<1>32. ASSUME NEW u \in Updater, RestartFails(u) PROVE RunTyped'
  BY <1>32 DEF RestartFails, TypeOK, slots, RunTyped
<1>33. ASSUME NEW u \in Updater, DropFlag(u) PROVE RunTyped'
  BY <1>33 DEF DropFlag, TypeOK, slots, RunTyped
<1>34. CASE Sigterm
  BY <1>34 DEF Sigterm, TypeOK, slots, RunTyped
<1>35. CASE Gone
  BY <1>35 DEF Gone, Fresh, NoRun, Run, RunPc, RunTyped
<1>36. CASE Restart
  BY <1>36 DEF Restart, TypeOK, slots, RunTyped
<1>37. ASSUME NEW t \in Task, Enqueue(t) PROVE RunTyped'
  BY <1>37 DEF Enqueue, TypeOK, slots, RunTyped
<1>38. ASSUME NEW t \in Task, ServerCloses(t) PROVE RunTyped'
  BY <1>38 DEF ServerCloses, TypeOK, slots, RunTyped
<1>39. CASE UNCHANGED vars
  BY <1>39 DEF vars, slots, TypeOK, RunTyped
<1> QED
  BY <1>1, <1>2, <1>3, <1>4, <1>5, <1>6, <1>7, <1>8, <1>9, <1>10, <1>11, <1>12, <1>13, <1>14, <1>15, <1>16, <1>17, <1>18, <1>19, <1>20, <1>21, <1>22, <1>23, <1>24, <1>25, <1>26, <1>27, <1>28, <1>29, <1>30, <1>31, <1>32, <1>33, <1>34, <1>35, <1>36, <1>37, <1>38, <1>39 DEF Next, PollerNext, LockNext, RunNext, UpdateNext, Environment, Drained, Killed

\* Every step leaves the rest well typed: the two counters that go down count something.
LEMMA OtherType == TypeOK /\ Tasked /\ Counts /\ [Next]_vars => OtherTypes'
<1> SUFFICES ASSUME TypeOK, Tasked, Counts, [Next]_vars PROVE OtherTypes'
  OBVIOUS
<1>a. /\ Cardinality(Busy) \in Nat
      /\ poller.tasks \subseteq Task /\ poller.slots \subseteq Slot
  BY DaemonAssumption, FS_Subset, FS_CardinalityType DEF Busy, TypeOK, Poller
<1> USE DEF TypeOK, OtherTypes, Poller, IdlePoller, UpdPc, Status, InFlight, At, Path, Step, Close, Leave, Fresh, server, slots, locks, gate, updates
<1>1. CASE TakeSlots
  BY <1>1 DEF TakeSlots
<1>2. CASE TryEnterClaim
  BY <1>2 DEF TryEnterClaim
<1>3. CASE ServeClaim
  <2>1. PICK T \in SUBSET {t \in Task : row[t] \in {"queued", "dispatched"}} :
           /\ row' = [t \in Task |-> IF t \in T THEN "dispatched" ELSE row[t]]
           /\ lost' = lost \ T
           /\ poller' = [poller EXCEPT !.pc = "answer", !.tasks = T]
    BY <1>3 DEF ServeClaim
  <2>2. T \subseteq Task
    BY <2>1
  <2>3. poller' \in Poller
    BY <1>a, <2>1, <2>2
  <2>4. row' \in [Task -> Status] /\ lost' \in SUBSET Task
    BY <2>1, <2>2
  <2> QED
    BY <1>3, <2>3, <2>4 DEF ServeClaim
<1>4. CASE ClaimReturns
  BY <1>4 DEF ClaimReturns
<1>5. ASSUME NEW t \in Task, NEW s \in Slot, Dispatch(t, s) PROVE OtherTypes'
  <2>1. poller' \in Poller
    BY <1>5, <1>a DEF Dispatch
  <2> QED
    BY <1>5, <2>1 DEF Dispatch
<1>6. CASE ExitClaim
  BY <1>6, <1>a DEF ExitClaim, Counts
<1>7. CASE PollerStops
  BY <1>7 DEF PollerStops
<1>8. ASSUME NEW s \in Slot, Acquire(s) PROVE OtherTypes'
  BY <1>8 DEF Acquire
<1>9. ASSUME NEW s \in Slot, MarkWaiting(s) PROVE OtherTypes'
  BY <1>9 DEF MarkWaiting
<1>10. ASSUME NEW s \in Slot, LockGranted(s) PROVE OtherTypes'
  BY <1>10 DEF LockGranted
<1>11. ASSUME NEW s \in Slot, WaitEnds(s) PROVE OtherTypes'
  BY <1>11 DEF WaitEnds
<1>12. ASSUME NEW s \in Slot, WaitAborted(s) PROVE OtherTypes'
  <2>1. phantoms' \in [Dir -> [blocked : Nat, granted : Nat]]
    <3>1. phantoms \in [Dir -> [blocked : Nat, granted : Nat]]
      OBVIOUS
    <3>2. \/ phantoms' = [phantoms EXCEPT ![Path(s)].granted = @ + 1]
          \/ phantoms' = [phantoms EXCEPT ![Path(s)].blocked = @ + 1]
      BY <1>12 DEF WaitAborted, Orphan
    <3>3. CASE Path(s) \in Dir
      <4>1. phantoms[Path(s)] \in [blocked : Nat, granted : Nat]
        BY <3>1, <3>3
      <4>2. /\ [phantoms[Path(s)] EXCEPT !.granted = @ + 1] \in [blocked : Nat, granted : Nat]
            /\ [phantoms[Path(s)] EXCEPT !.blocked = @ + 1] \in [blocked : Nat, granted : Nat]
        BY <4>1
      <4> QED
        BY <3>1, <3>2, <4>2
    <3>4. CASE Path(s) \notin Dir
      BY <3>1, <3>2, <3>4
    <3> QED
      BY <3>3, <3>4
  <2> QED
    BY <1>12, <2>1 DEF WaitAborted
<1>13. ASSUME NEW d \in Dir, PhantomLocks(d) PROVE OtherTypes'
  BY <1>13 DEF PhantomLocks
<1>14. ASSUME NEW d \in Dir, PhantomUnlocks(d) PROVE OtherTypes'
  BY <1>14 DEF PhantomUnlocks
<1>15. ASSUME NEW s \in Slot, NameHolder(s) PROVE OtherTypes'
  BY <1>15, RunFields DEF NameHolder
<1>16. ASSUME NEW s \in Slot, Release(s) PROVE OtherTypes'
  BY <1>16 DEF Release
<1>17. ASSUME NEW s \in Slot, Watch(s) PROVE OtherTypes'
  BY <1>17 DEF Watch
<1>18. ASSUME NEW s \in Slot, StartTask(s) PROVE OtherTypes'
  BY <1>18 DEF StartTask
<1>19. ASSUME NEW s \in Slot, AgentEnds(s) PROVE OtherTypes'
  BY <1>19 DEF AgentEnds
<1>20. ASSUME NEW s \in Slot, Settled(s) PROVE OtherTypes'
  BY <1>20 DEF Settled
<1>21. ASSUME NEW s \in Slot, CompleteTask(s) PROVE OtherTypes'
  <2>1. run[s].task \in Task
    BY <1>21 DEF Tasked, CompleteTask
  <2> QED
    BY <1>21, <2>1 DEF CompleteTask
<1>22. ASSUME NEW s \in Slot, FailTask(s) PROVE OtherTypes'
  <2>1. run[s].task \in Task
    BY <1>22 DEF Tasked, FailTask
  <2> QED
    BY <1>22, <2>1 DEF FailTask
<1>23. ASSUME NEW s \in Slot, FreeSlot(s) PROVE OtherTypes'
  BY <1>23 DEF FreeSlot
<1>24. CASE NotActive
  BY <1>24, <1>a DEF NotActive, Counts
<1>25. CASE FindRelease
  BY <1>25 DEF FindRelease
<1>26. ASSUME NEW u \in Updater, TakeFlag(u) PROVE OtherTypes'
  BY <1>26 DEF TakeFlag
<1>27. ASSUME NEW u \in Updater, PauseClaims(u) PROVE OtherTypes'
  BY <1>27 DEF PauseClaims
<1>28. ASSUME NEW u \in Updater, DrainClaims(u) PROVE OtherTypes'
  BY <1>28 DEF DrainClaims
<1>29. CASE TrySetClaimBarrier
  BY <1>29 DEF TrySetClaimBarrier
<1>30. ASSUME NEW u \in Updater, UpgradeFails(u) PROVE OtherTypes'
  BY <1>30 DEF UpgradeFails
<1>31. ASSUME NEW u \in Updater, UpgradeRestarts(u) PROVE OtherTypes'
  BY <1>31 DEF UpgradeRestarts
<1>32. ASSUME NEW u \in Updater, RestartFails(u) PROVE OtherTypes'
  BY <1>32 DEF RestartFails
<1>33. ASSUME NEW u \in Updater, DropFlag(u) PROVE OtherTypes'
  BY <1>33 DEF DropFlag
<1>34. CASE Sigterm
  BY <1>34 DEF Sigterm
<1>35. CASE Gone
  BY <1>35 DEF Gone
<1>36. CASE Restart
  BY <1>36 DEF Restart
<1>37. ASSUME NEW t \in Task, Enqueue(t) PROVE OtherTypes'
  BY <1>37 DEF Enqueue
<1>38. ASSUME NEW t \in Task, ServerCloses(t) PROVE OtherTypes'
  BY <1>38 DEF ServerCloses
<1>39. CASE UNCHANGED vars
  BY <1>39 DEF vars
<1> QED
  BY <1>1, <1>2, <1>3, <1>4, <1>5, <1>6, <1>7, <1>8, <1>9, <1>10, <1>11, <1>12, <1>13, <1>14, <1>15, <1>16, <1>17, <1>18, <1>19, <1>20, <1>21, <1>22, <1>23, <1>24, <1>25, <1>26, <1>27, <1>28, <1>29, <1>30, <1>31, <1>32, <1>33, <1>34, <1>35, <1>36, <1>37, <1>38, <1>39 DEF Next, PollerNext, LockNext, RunNext, UpdateNext, Environment, Drained, Killed

-----------------------------------------------------------------------------
(* Slots, goroutines and what counts them.                                  *)

\* Between two rounds the poller has no slot, and tasks only from an answer on.
PollerHolds ==
    /\ poller.pc \in {"idle", "done"} => poller.slots = {}
    /\ poller.tasks # {} => poller.pc \in {"answer", "dispatch"}


\* The goroutine goes on; nobody else in this part moves.
Stays(s) == Keeps(s) /\ run[s].pc # "none" /\ run'[s].pc # "none"
Fixed == UNCHANGED <<poller, sem, laggards, activeTasks, claimsInFlight>>

Accounting == Tasked /\ Counts /\ PollerHolds /\ SlotsConserved

\* A new goroutine has nothing yet, and one that ends leaves nothing.
LEMMA Dispatched ==
    ASSUME TypeOK, NEW t \in Task, NEW s \in Slot, Dispatch(t, s)
    PROVE  /\ Only(s) /\ run'[s].task = t /\ run'[s].pc = "acquire"
           /\ run'[s].lock = "none" /\ run'[s].seen = FALSE
<1> DEFINE r == [NoRun EXCEPT !.task = t, !.pc = "acquire"]
<1>1. /\ r \in Run /\ r.task = t /\ r.pc = "acquire" /\ r.lock = "none" /\ r.seen = FALSE
  BY NewRun
<1>2. Set(s, r) /\ run \in [Slot -> Run]
  BY DEF Dispatch, TypeOK
<1>3. Only(s) /\ run'[s] = r
  BY <1>1, <1>2, SetRun
<1> QED
  BY <1>1, <1>3

\* The last step of a goroutine.
LEMMA Freed ==
    ASSUME TypeOK, NEW s \in Slot, FreeSlot(s)
    PROVE  /\ Only(s) /\ run'[s].task = NoTask /\ run'[s].pc = "none"
           /\ run'[s].lock = "none" /\ run'[s].seen = FALSE
<1>1. Only(s) /\ run'[s] = NoRun
  BY RunMoves
<1> QED
  BY <1>1 DEF NoRun

\* The actions of a goroutine between its first and its last keep it, and leave the slots alone.
LEMMA RunStays ==
    ASSUME TypeOK, NEW s \in Slot,
           \/ Acquire(s) \/ MarkWaiting(s) \/ LockGranted(s) \/ WaitEnds(s) \/ WaitAborted(s)
           \/ NameHolder(s) \/ Release(s) \/ Watch(s) \/ StartTask(s) \/ AgentEnds(s)
           \/ Settled(s) \/ CompleteTask(s) \/ FailTask(s)
    PROVE  Stays(s) /\ Fixed
<1>0. Returning(s) # "none"
  BY DEF Returning
<1>1. CASE Acquire(s)
  <2>1. Stays(s)
    BY <1>0, <1>1, RunBranches DEF After, Stays, Acquire, At
  <2>2. Fixed
    BY <1>1 DEF Fixed, Acquire, gate
  <2> QED
    BY <2>1, <2>2
<1>2. CASE MarkWaiting(s)
  <2>1. Stays(s)
    BY <1>0, <1>2, RunMoves DEF After, Stays, MarkWaiting, At
  <2>2. Fixed
    BY <1>2 DEF Fixed, MarkWaiting, gate
  <2> QED
    BY <2>1, <2>2
<1>3. CASE LockGranted(s)
  <2>1. Stays(s)
    BY <1>0, <1>3, RunMoves DEF After, Stays, LockGranted, At
  <2>2. Fixed
    BY <1>3 DEF Fixed, LockGranted, gate
  <2> QED
    BY <2>1, <2>2
<1>4. CASE WaitEnds(s)
  <2>1. Stays(s)
    BY <1>0, <1>4, RunMoves DEF After, Stays, WaitEnds, At
  <2>2. Fixed
    BY <1>4 DEF Fixed, WaitEnds, gate
  <2> QED
    BY <2>1, <2>2
<1>5. CASE WaitAborted(s)
  <2>1. Stays(s)
    BY <1>0, <1>5, RunMoves DEF After, Stays, WaitAborted, At
  <2>2. Fixed
    BY <1>5 DEF Fixed, WaitAborted, gate
  <2> QED
    BY <2>1, <2>2
<1>6. CASE NameHolder(s)
  <2>1. Stays(s)
    BY <1>0, <1>6, RunMoves DEF After, Stays, NameHolder, At
  <2>2. Fixed
    BY <1>6 DEF Fixed, NameHolder, gate
  <2> QED
    BY <2>1, <2>2
<1>7. CASE Release(s)
  <2>1. Stays(s)
    BY <1>0, <1>7, RunBranches DEF After, Stays, Release, At
  <2>2. Fixed
    BY <1>7 DEF Fixed, Release, gate
  <2> QED
    BY <2>1, <2>2
<1>8. CASE Watch(s)
  <2>1. Stays(s)
    BY <1>0, <1>8, RunMoves DEF After, Stays, Watch, At
  <2>2. Fixed
    BY <1>8 DEF Fixed, Watch, gate
  <2> QED
    BY <2>1, <2>2
<1>9. CASE StartTask(s)
  <2>1. Stays(s)
    BY <1>0, <1>9, RunBranches DEF After, Stays, StartTask, At
  <2>2. Fixed
    BY <1>9 DEF Fixed, StartTask, gate
  <2> QED
    BY <2>1, <2>2
<1>10. CASE AgentEnds(s)
  <2>1. Stays(s)
    BY <1>0, <1>10, RunMoves DEF After, Stays, AgentEnds, At
  <2>2. Fixed
    BY <1>10 DEF Fixed, AgentEnds, gate
  <2> QED
    BY <2>1, <2>2
<1>11. CASE Settled(s)
  <2>1. Stays(s)
    BY <1>0, <1>11, RunBranches DEF After, Stays, Settled, At
  <2>2. Fixed
    BY <1>11 DEF Fixed, Settled, gate
  <2> QED
    BY <2>1, <2>2
<1>12. CASE CompleteTask(s)
  <2>1. Stays(s)
    BY <1>0, <1>12, RunBranches DEF After, Stays, CompleteTask, At
  <2>2. Fixed
    BY <1>12 DEF Fixed, CompleteTask, gate
  <2> QED
    BY <2>1, <2>2
<1>13. CASE FailTask(s)
  <2>1. Stays(s)
    BY <1>0, <1>13, RunMoves DEF After, Stays, FailTask, At
  <2>2. Fixed
    BY <1>13 DEF Fixed, FailTask, gate
  <2> QED
    BY <2>1, <2>2
<1> QED
  BY <1>1, <1>2, <1>3, <1>4, <1>5, <1>6, <1>7, <1>8, <1>9, <1>10, <1>11, <1>12, <1>13

\* Such an action changes nothing in the accounts,
LEMMA StaysAccounted ==
    ASSUME TypeOK, Accounting, NEW s \in Slot, Stays(s), Fixed
    PROVE  Accounting'
<1>1. Busy' = Busy
  BY DEF Stays, Keeps, Only, Busy
<1>2. Tasked'
  BY DEF Stays, Keeps, Only, Accounting, Tasked
<1>3. Counts' /\ PollerHolds' /\ SlotsConserved'
  BY <1>1 DEF Fixed, Accounting, Counts, PollerHolds, SlotsConserved
<1> QED
  BY <1>2, <1>3 DEF Accounting

\* nor does one about something else.
LEMMA OtherAccounted ==
    ASSUME Accounting, UNCHANGED run, Fixed
    PROVE  Accounting'
<1>1. Busy' = Busy
  BY DEF Busy
<1>2. Tasked'
  BY DEF Accounting, Tasked
<1>3. Counts' /\ PollerHolds' /\ SlotsConserved'
  BY <1>1 DEF Fixed, Accounting, Counts, PollerHolds, SlotsConserved
<1> QED
  BY <1>2, <1>3 DEF Accounting

\* A fresh process has its accounts in order.
LEMMA AccountingInit == Init => Accounting
<1> SUFFICES ASSUME Init PROVE Accounting
  OBVIOUS
<1>1. /\ run = [s \in Slot |-> NoRun] /\ sem = Slot /\ poller = IdlePoller
      /\ activeTasks = 0 /\ laggards = 0 /\ claimsInFlight = 0
  BY DEF Init, Fresh
<1>2. Busy = {} /\ Tasked
  BY <1>1 DEF Busy, Tasked, NoRun
<1> QED
  BY <1>1, <1>2, FS_EmptySet DEF Accounting, Counts, PollerHolds, SlotsConserved, IdlePoller

\* Every step keeps them: slots and goroutines change together.
LEMMA AccountingStep ==
    ASSUME TypeOK, Accounting, [Next]_vars
    PROVE  Accounting'
<1>a. /\ IsFiniteSet(Busy) /\ Cardinality(Busy) \in Nat
      /\ poller.tasks \subseteq Task /\ poller.slots \subseteq Slot /\ sem \subseteq Slot
  BY DaemonAssumption, FS_Subset, FS_CardinalityType DEF Busy, TypeOK, Poller
<1>1. CASE TakeSlots
  <2>1. Busy' = Busy /\ Tasked'
    BY <1>1 DEF TakeSlots, Busy, Tasked, Accounting, slots
  <2>2. Counts'
    BY <1>1, <1>a, <2>1 DEF TakeSlots, Counts, Accounting, TypeOK, Poller, IdlePoller, gate
  <2>3. PollerHolds'
    BY <1>1 DEF TakeSlots, PollerHolds, Accounting, TypeOK, Poller, IdlePoller
  <2>4. SlotsConserved'
    BY <1>1, <2>1 DEF TakeSlots, SlotsConserved, PollerHolds, Accounting, TypeOK, Poller, IdlePoller
  <2> QED
    BY <2>1, <2>2, <2>3, <2>4 DEF Accounting
<1>2. CASE TryEnterClaim
  <2>1. Busy' = Busy /\ Tasked'
    BY <1>2 DEF TryEnterClaim, Busy, Tasked, Accounting, slots
  <2>2. Counts'
    BY <1>2, <1>a, <2>1 DEF TryEnterClaim, Counts, Accounting, TypeOK, Poller, IdlePoller, gate
  <2>3. PollerHolds'
    BY <1>2 DEF TryEnterClaim, PollerHolds, Accounting, TypeOK, Poller, IdlePoller
  <2>4. SlotsConserved'
    BY <1>2, <2>1 DEF TryEnterClaim, SlotsConserved, PollerHolds, Accounting, TypeOK, Poller, IdlePoller
  <2> QED
    BY <2>1, <2>2, <2>3, <2>4 DEF Accounting
<1>3. CASE ServeClaim
  <2>1. Busy' = Busy /\ Tasked'
    BY <1>3 DEF ServeClaim, Busy, Tasked, Accounting, slots
  <2>2. Counts'
    BY <1>3, <1>a, <2>1 DEF ServeClaim, Counts, Accounting, TypeOK, Poller, IdlePoller, gate
  <2>3. PollerHolds'
    BY <1>3 DEF ServeClaim, PollerHolds, Accounting, TypeOK, Poller, IdlePoller
  <2>4. SlotsConserved'
    BY <1>3, <2>1 DEF ServeClaim, SlotsConserved, PollerHolds, Accounting, TypeOK, Poller, IdlePoller
  <2> QED
    BY <2>1, <2>2, <2>3, <2>4 DEF Accounting
<1>4. CASE ClaimReturns
  <2>1. Busy' = Busy /\ Tasked'
    BY <1>4 DEF ClaimReturns, Busy, Tasked, Accounting, slots
  <2>2. Counts'
    BY <1>4, <1>a, <2>1 DEF ClaimReturns, Counts, Accounting, TypeOK, Poller, IdlePoller, gate
  <2>3. PollerHolds'
    BY <1>4 DEF ClaimReturns, PollerHolds, Accounting, TypeOK, Poller, IdlePoller
  <2>4. SlotsConserved'
    BY <1>4, <2>1 DEF ClaimReturns, SlotsConserved, PollerHolds, Accounting, TypeOK, Poller, IdlePoller
  <2> QED
    BY <2>1, <2>2, <2>3, <2>4 DEF Accounting
<1>5. ASSUME NEW t \in Task, NEW s \in Slot, Dispatch(t, s) PROVE Accounting'
  <2>1. /\ Only(s) /\ run'[s].task = t /\ run'[s].pc = "acquire"
    BY <1>5, Dispatched
  <2>2. s \notin Busy /\ Busy' = Busy \cup {s} /\ Tasked'
    BY <1>5, <1>a, <2>1 DEF Dispatch, Only, Busy, Tasked, Accounting, SlotsConserved
  <2>3. Cardinality(Busy') = Cardinality(Busy) + 1
    BY <1>a, <2>2, FS_AddElement
  <2>4. poller'.pc = "dispatch" /\ poller'.slots = poller.slots \ {s} /\ poller'.tasks = poller.tasks \ {t}
    BY <1>5 DEF Dispatch, TypeOK, Poller
  <2>5. Counts' /\ PollerHolds'
    BY <1>5, <1>a, <2>3, <2>4 DEF Dispatch, Counts, PollerHolds, Accounting, TypeOK
  <2>6. SlotsConserved'
    BY <1>5, <1>a, <2>2, <2>4 DEF Dispatch, SlotsConserved, Accounting
  <2> QED
    BY <2>2, <2>5, <2>6 DEF Accounting
<1>6. CASE ExitClaim
  <2>1. Busy' = Busy /\ Tasked'
    BY <1>6 DEF ExitClaim, Busy, Tasked, Accounting, slots
  <2>2. Counts'
    BY <1>6, <1>a, <2>1 DEF ExitClaim, Counts, Accounting, TypeOK, Poller, IdlePoller, gate
  <2>3. PollerHolds'
    BY <1>6 DEF ExitClaim, PollerHolds, Accounting, TypeOK, Poller, IdlePoller
  <2>4. SlotsConserved'
    BY <1>6, <2>1 DEF ExitClaim, SlotsConserved, PollerHolds, Accounting, TypeOK, Poller, IdlePoller
  <2> QED
    BY <2>1, <2>2, <2>3, <2>4 DEF Accounting
<1>7. CASE PollerStops
  <2>1. Busy' = Busy /\ Tasked'
    BY <1>7 DEF PollerStops, Busy, Tasked, Accounting, slots
  <2>2. Counts'
    BY <1>7, <1>a, <2>1 DEF PollerStops, Counts, Accounting, TypeOK, Poller, IdlePoller, gate
  <2>3. PollerHolds'
    BY <1>7 DEF PollerStops, PollerHolds, Accounting, TypeOK, Poller, IdlePoller
  <2>4. SlotsConserved'
    BY <1>7, <2>1 DEF PollerStops, SlotsConserved, PollerHolds, Accounting, TypeOK, Poller, IdlePoller
  <2> QED
    BY <2>1, <2>2, <2>3, <2>4 DEF Accounting
<1>8. ASSUME NEW s \in Slot, Acquire(s) PROVE Accounting'
  BY <1>8, RunStays, StaysAccounted
<1>9. ASSUME NEW s \in Slot, MarkWaiting(s) PROVE Accounting'
  BY <1>9, RunStays, StaysAccounted
<1>10. ASSUME NEW s \in Slot, LockGranted(s) PROVE Accounting'
  BY <1>10, RunStays, StaysAccounted
<1>11. ASSUME NEW s \in Slot, WaitEnds(s) PROVE Accounting'
  BY <1>11, RunStays, StaysAccounted
<1>12. ASSUME NEW s \in Slot, WaitAborted(s) PROVE Accounting'
  BY <1>12, RunStays, StaysAccounted
<1>13. ASSUME NEW d \in Dir, PhantomLocks(d) PROVE Accounting'
  BY <1>13, OtherAccounted DEF PhantomLocks, Fixed, slots, gate
<1>14. ASSUME NEW d \in Dir, PhantomUnlocks(d) PROVE Accounting'
  BY <1>14, OtherAccounted DEF PhantomUnlocks, Fixed, slots, gate
<1>15. ASSUME NEW s \in Slot, NameHolder(s) PROVE Accounting'
  BY <1>15, RunStays, StaysAccounted
<1>16. ASSUME NEW s \in Slot, Release(s) PROVE Accounting'
  BY <1>16, RunStays, StaysAccounted
<1>17. ASSUME NEW s \in Slot, Watch(s) PROVE Accounting'
  BY <1>17, RunStays, StaysAccounted
<1>18. ASSUME NEW s \in Slot, StartTask(s) PROVE Accounting'
  BY <1>18, RunStays, StaysAccounted
<1>19. ASSUME NEW s \in Slot, AgentEnds(s) PROVE Accounting'
  BY <1>19, RunStays, StaysAccounted
<1>20. ASSUME NEW s \in Slot, Settled(s) PROVE Accounting'
  BY <1>20, RunStays, StaysAccounted
<1>21. ASSUME NEW s \in Slot, CompleteTask(s) PROVE Accounting'
  BY <1>21, RunStays, StaysAccounted
<1>22. ASSUME NEW s \in Slot, FailTask(s) PROVE Accounting'
  BY <1>22, RunStays, StaysAccounted
<1>23. ASSUME NEW s \in Slot, FreeSlot(s) PROVE Accounting'
  <2>1. Only(s) /\ run'[s].task = NoTask /\ run'[s].pc = "none"
    BY <1>23, Freed
  <2>2. s \in Busy /\ Busy' = Busy \ {s} /\ Tasked'
    BY <1>23, <2>1 DEF FreeSlot, At, Only, Busy, Tasked, Accounting
  <2>3. Cardinality(Busy') = Cardinality(Busy) - 1
    BY <1>a, <2>2, FS_RemoveElement
  <2>4. Counts' /\ PollerHolds'
    BY <1>23, <1>a, <2>3 DEF FreeSlot, gate, Counts, PollerHolds, Accounting, TypeOK
  <2>5. SlotsConserved'
    BY <1>23, <1>a, <2>2 DEF FreeSlot, SlotsConserved, Accounting
  <2> QED
    BY <2>2, <2>4, <2>5 DEF Accounting
<1>24. CASE NotActive
  <2>1. Busy' = Busy /\ Tasked'
    BY <1>24 DEF NotActive, Busy, Tasked, Accounting
  <2> QED
    BY <1>24, <1>a, <2>1 DEF NotActive, Counts, PollerHolds, SlotsConserved, Accounting, TypeOK
<1>25. CASE FindRelease
  BY <1>25, OtherAccounted DEF FindRelease, Fixed, slots, gate
<1>26. ASSUME NEW u \in Updater, TakeFlag(u) PROVE Accounting'
  BY <1>26, OtherAccounted DEF TakeFlag, Fixed, slots, gate
<1>27. ASSUME NEW u \in Updater, PauseClaims(u) PROVE Accounting'
  BY <1>27, OtherAccounted DEF PauseClaims, Fixed, slots, gate
<1>28. ASSUME NEW u \in Updater, DrainClaims(u) PROVE Accounting'
  BY <1>28, OtherAccounted DEF DrainClaims, Fixed, slots, gate
<1>29. CASE TrySetClaimBarrier
  BY <1>29, OtherAccounted DEF TrySetClaimBarrier, Fixed, slots, gate
<1>30. ASSUME NEW u \in Updater, UpgradeFails(u) PROVE Accounting'
  BY <1>30, OtherAccounted DEF UpgradeFails, Fixed, slots, gate
<1>31. ASSUME NEW u \in Updater, UpgradeRestarts(u) PROVE Accounting'
  BY <1>31, OtherAccounted DEF UpgradeRestarts, Fixed, slots, gate
<1>32. ASSUME NEW u \in Updater, RestartFails(u) PROVE Accounting'
  BY <1>32, OtherAccounted DEF RestartFails, Fixed, slots, gate
<1>33. ASSUME NEW u \in Updater, DropFlag(u) PROVE Accounting'
  BY <1>33, OtherAccounted DEF DropFlag, Fixed, slots, gate
<1>34. CASE Sigterm
  BY <1>34, OtherAccounted DEF Sigterm, Fixed, slots, gate
<1>35. CASE Gone
  <2>1. /\ run' = [r \in Slot |-> NoRun] /\ sem' = Slot /\ poller' = IdlePoller
        /\ activeTasks' = 0 /\ laggards' = 0 /\ claimsInFlight' = 0
    BY <1>35 DEF Gone, Fresh
  <2>2. Busy' = {} /\ Tasked'
    BY <2>1 DEF Busy, Tasked, NoRun
  <2> QED
    BY <2>1, <2>2, FS_EmptySet DEF Accounting, Counts, PollerHolds, SlotsConserved, IdlePoller
<1>36. CASE Restart
  BY <1>36, OtherAccounted DEF Restart, Fixed, slots, gate
<1>37. ASSUME NEW t \in Task, Enqueue(t) PROVE Accounting'
  BY <1>37, OtherAccounted DEF Enqueue, Fixed, slots, gate
<1>38. ASSUME NEW t \in Task, ServerCloses(t) PROVE Accounting'
  BY <1>38, OtherAccounted DEF ServerCloses, Fixed, slots, gate
<1>39. CASE UNCHANGED vars
  BY <1>39, OtherAccounted DEF vars, Fixed, slots, gate
<1> QED
  BY <1>1, <1>2, <1>3, <1>4, <1>5, <1>6, <1>7, <1>8, <1>9, <1>10, <1>11, <1>12, <1>13, <1>14, <1>15, <1>16, <1>17, <1>18, <1>19, <1>20, <1>21, <1>22, <1>23, <1>24, <1>25, <1>26, <1>27, <1>28, <1>29, <1>30, <1>31, <1>32, <1>33, <1>34, <1>35, <1>36, <1>37, <1>38, <1>39 DEF Next, PollerNext, LockNext, RunNext, UpdateNext, Environment, Drained, Killed

-----------------------------------------------------------------------------
(* The locks of directories.                                                *)

\* How far a goroutine is tells what it has of the lock.
LockPlace(s) ==
    /\ At(s, "wait") <=> run[s].lock \in {"blocked", "granted"}
    /\ run[s].lock = "held" => run[s].pc \in {"name", "prepare", "agent", "settle", "complete",
                                              "fail", "clear", "unlock"}
    /\ run[s].pc \in {"name", "clear", "unlock"} => run[s].lock = "held"
    /\ run[s].lock # "none" \/ At(s, "mark") => Path(s) \in Dir
    /\ At(s, "none") => run[s].lock = "none"

OwnsDir(s, d) == Owns(s) /\ Path(s) = d

\* A locked directory has one owner.
LockOwned(d) ==
    /\ \A s, r \in Slot : OwnsDir(s, d) /\ OwnsDir(r, d) => s = r
    /\ phantoms[d].granted \in {0, 1}
    /\ phantoms[d].granted = 1 => \A s \in Slot : ~ OwnsDir(s, d)
    /\ mutex[d] <=> phantoms[d].granted = 1 \/ \E s \in Slot : OwnsDir(s, d)


Places == \A s \in Slot : LockPlace(s)
Locks == \A d \in Dir : LockOwned(d)

\* One goroutine moves: its own place is enough.
LEMMA OnePlace ==
    ASSUME Places, NEW s \in Slot, Only(s), LockPlace(s)'
    PROVE  Places'
BY DEF Places, LockPlace, Only, At, Path

\* None does.
LEMMA SamePlaces ==
    ASSUME Places, UNCHANGED run
    PROVE  Places'
BY DEF Places, LockPlace, At, Path

\* Nobody is anywhere near a lock.
LEMMA PlacesInit == Init => Places
BY DEF Init, Fresh, NoRun, Places, LockPlace, At

\* A task in hand that names a directory names one of them.
LEMMA PathIsDir ==
    ASSUME Tasked, NEW s \in Slot, run[s].pc # "none", Path(s) # NoDir
    PROVE  Path(s) \in Dir
BY DaemonAssumption DEF Tasked, Path

\* How far a goroutine is goes with what it has of the lock, after every step.
LEMMA PlacesStep ==
    ASSUME TypeOK, Accounting, Places, [Next]_vars
    PROVE  Places'
<1>1. CASE TakeSlots
  BY <1>1, SamePlaces DEF TakeSlots, slots
<1>2. CASE TryEnterClaim
  BY <1>2, SamePlaces DEF TryEnterClaim, slots
<1>3. CASE ServeClaim
  BY <1>3, SamePlaces DEF ServeClaim, slots
<1>4. CASE ClaimReturns
  BY <1>4, SamePlaces DEF ClaimReturns, slots
<1>5. ASSUME NEW t \in Task, NEW s \in Slot, Dispatch(t, s) PROVE Places'
  <2>1. Only(s) /\ LockPlace(s)'
    BY <1>5, Dispatched DEF LockPlace, At
  <2> QED
    BY <2>1, OnePlace
<1>6. CASE ExitClaim
  BY <1>6, SamePlaces DEF ExitClaim, slots
<1>7. CASE PollerStops
  BY <1>7, SamePlaces DEF PollerStops, slots
<1>8. ASSUME NEW s \in Slot, Acquire(s) PROVE Places'
  <2>1. LockPlace(s)
    BY DEF Places
  <2>2. LockPlace(s)'
    BY <1>8, <2>1, RunBranches, PathIsDir DEF Acquire, Accounting, After, Keeps, LockPlace, At, Path, Returning
  <2>3. Only(s)
    BY <1>8, RunStays DEF Stays, Keeps
  <2> QED
    BY <2>2, <2>3, OnePlace
<1>9. ASSUME NEW s \in Slot, MarkWaiting(s) PROVE Places'
  <2>1. LockPlace(s)
    BY DEF Places
  <2>2. LockPlace(s)'
    BY <1>9, <2>1, RunMoves DEF MarkWaiting, After, Keeps, LockPlace, At, Path, Returning
  <2>3. Only(s)
    BY <1>9, RunStays DEF Stays, Keeps
  <2> QED
    BY <2>2, <2>3, OnePlace
<1>10. ASSUME NEW s \in Slot, LockGranted(s) PROVE Places'
  <2>1. LockPlace(s)
    BY DEF Places
  <2>2. LockPlace(s)'
    BY <1>10, <2>1, RunMoves DEF LockGranted, After, Keeps, LockPlace, At, Path, Returning
  <2>3. Only(s)
    BY <1>10, RunStays DEF Stays, Keeps
  <2> QED
    BY <2>2, <2>3, OnePlace
<1>11. ASSUME NEW s \in Slot, WaitEnds(s) PROVE Places'
  <2>1. LockPlace(s)
    BY DEF Places
  <2>2. LockPlace(s)'
    BY <1>11, <2>1, RunMoves DEF WaitEnds, After, Keeps, LockPlace, At, Path, Returning
  <2>3. Only(s)
    BY <1>11, RunStays DEF Stays, Keeps
  <2> QED
    BY <2>2, <2>3, OnePlace
<1>12. ASSUME NEW s \in Slot, WaitAborted(s) PROVE Places'
  <2>1. LockPlace(s)
    BY DEF Places
  <2>2. LockPlace(s)'
    BY <1>12, <2>1, RunMoves DEF WaitAborted, After, Keeps, LockPlace, At, Path, Returning
  <2>3. Only(s)
    BY <1>12, RunStays DEF Stays, Keeps
  <2> QED
    BY <2>2, <2>3, OnePlace
<1>13. ASSUME NEW d \in Dir, PhantomLocks(d) PROVE Places'
  BY <1>13, SamePlaces DEF PhantomLocks, slots
<1>14. ASSUME NEW d \in Dir, PhantomUnlocks(d) PROVE Places'
  BY <1>14, SamePlaces DEF PhantomUnlocks, slots
<1>15. ASSUME NEW s \in Slot, NameHolder(s) PROVE Places'
  <2>1. LockPlace(s)
    BY DEF Places
  <2>2. LockPlace(s)'
    BY <1>15, <2>1, RunMoves DEF NameHolder, After, Keeps, LockPlace, At, Path, Returning
  <2>3. Only(s)
    BY <1>15, RunStays DEF Stays, Keeps
  <2> QED
    BY <2>2, <2>3, OnePlace
<1>16. ASSUME NEW s \in Slot, Release(s) PROVE Places'
  <2>1. LockPlace(s)
    BY DEF Places
  <2>2. LockPlace(s)'
    BY <1>16, <2>1, RunBranches DEF Release, After, Keeps, LockPlace, At, Path, Returning
  <2>3. Only(s)
    BY <1>16, RunStays DEF Stays, Keeps
  <2> QED
    BY <2>2, <2>3, OnePlace
<1>17. ASSUME NEW s \in Slot, Watch(s) PROVE Places'
  <2>1. LockPlace(s)
    BY DEF Places
  <2>2. LockPlace(s)'
    BY <1>17, <2>1, RunMoves DEF Watch, After, Keeps, LockPlace, At, Path, Returning
  <2>3. Only(s)
    BY <1>17, RunStays DEF Stays, Keeps
  <2> QED
    BY <2>2, <2>3, OnePlace
<1>18. ASSUME NEW s \in Slot, StartTask(s) PROVE Places'
  <2>1. LockPlace(s)
    BY DEF Places
  <2>2. LockPlace(s)'
    BY <1>18, <2>1, RunBranches DEF StartTask, After, Keeps, LockPlace, At, Path, Returning
  <2>3. Only(s)
    BY <1>18, RunStays DEF Stays, Keeps
  <2> QED
    BY <2>2, <2>3, OnePlace
<1>19. ASSUME NEW s \in Slot, AgentEnds(s) PROVE Places'
  <2>1. LockPlace(s)
    BY DEF Places
  <2>2. LockPlace(s)'
    BY <1>19, <2>1, RunMoves DEF AgentEnds, After, Keeps, LockPlace, At, Path, Returning
  <2>3. Only(s)
    BY <1>19, RunStays DEF Stays, Keeps
  <2> QED
    BY <2>2, <2>3, OnePlace
<1>20. ASSUME NEW s \in Slot, Settled(s) PROVE Places'
  <2>1. LockPlace(s)
    BY DEF Places
  <2>2. LockPlace(s)'
    BY <1>20, <2>1, RunBranches DEF Settled, After, Keeps, LockPlace, At, Path, Returning
  <2>3. Only(s)
    BY <1>20, RunStays DEF Stays, Keeps
  <2> QED
    BY <2>2, <2>3, OnePlace
<1>21. ASSUME NEW s \in Slot, CompleteTask(s) PROVE Places'
  <2>1. LockPlace(s)
    BY DEF Places
  <2>2. LockPlace(s)'
    BY <1>21, <2>1, RunBranches DEF CompleteTask, After, Keeps, LockPlace, At, Path, Returning
  <2>3. Only(s)
    BY <1>21, RunStays DEF Stays, Keeps
  <2> QED
    BY <2>2, <2>3, OnePlace
<1>22. ASSUME NEW s \in Slot, FailTask(s) PROVE Places'
  <2>1. LockPlace(s)
    BY DEF Places
  <2>2. LockPlace(s)'
    BY <1>22, <2>1, RunMoves DEF FailTask, After, Keeps, LockPlace, At, Path, Returning
  <2>3. Only(s)
    BY <1>22, RunStays DEF Stays, Keeps
  <2> QED
    BY <2>2, <2>3, OnePlace
<1>23. ASSUME NEW s \in Slot, FreeSlot(s) PROVE Places'
  <2>1. Only(s) /\ LockPlace(s)'
    BY <1>23, Freed DEF LockPlace, At
  <2> QED
    BY <2>1, OnePlace
<1>24. CASE NotActive
  BY <1>24, SamePlaces DEF NotActive, slots
<1>25. CASE FindRelease
  BY <1>25, SamePlaces DEF FindRelease, slots
<1>26. ASSUME NEW u \in Updater, TakeFlag(u) PROVE Places'
  BY <1>26, SamePlaces DEF TakeFlag, slots
<1>27. ASSUME NEW u \in Updater, PauseClaims(u) PROVE Places'
  BY <1>27, SamePlaces DEF PauseClaims, slots
<1>28. ASSUME NEW u \in Updater, DrainClaims(u) PROVE Places'
  BY <1>28, SamePlaces DEF DrainClaims, slots
<1>29. CASE TrySetClaimBarrier
  BY <1>29, SamePlaces DEF TrySetClaimBarrier, slots
<1>30. ASSUME NEW u \in Updater, UpgradeFails(u) PROVE Places'
  BY <1>30, SamePlaces DEF UpgradeFails, slots
<1>31. ASSUME NEW u \in Updater, UpgradeRestarts(u) PROVE Places'
  BY <1>31, SamePlaces DEF UpgradeRestarts, slots
<1>32. ASSUME NEW u \in Updater, RestartFails(u) PROVE Places'
  BY <1>32, SamePlaces DEF RestartFails, slots
<1>33. ASSUME NEW u \in Updater, DropFlag(u) PROVE Places'
  BY <1>33, SamePlaces DEF DropFlag, slots
<1>34. CASE Sigterm
  BY <1>34, SamePlaces DEF Sigterm, slots
<1>35. CASE Gone
  BY <1>35 DEF Gone, Fresh, NoRun, Places, LockPlace, At
<1>36. CASE Restart
  BY <1>36, SamePlaces DEF Restart, slots
<1>37. ASSUME NEW t \in Task, Enqueue(t) PROVE Places'
  BY <1>37, SamePlaces DEF Enqueue, slots
<1>38. ASSUME NEW t \in Task, ServerCloses(t) PROVE Places'
  BY <1>38, SamePlaces DEF ServerCloses, slots
<1>39. CASE UNCHANGED vars
  BY <1>39, SamePlaces DEF vars, slots
<1> QED
  BY <1>1, <1>2, <1>3, <1>4, <1>5, <1>6, <1>7, <1>8, <1>9, <1>10, <1>11, <1>12, <1>13, <1>14, <1>15, <1>16, <1>17, <1>18, <1>19, <1>20, <1>21, <1>22, <1>23, <1>24, <1>25, <1>26, <1>27, <1>28, <1>29, <1>30, <1>31, <1>32, <1>33, <1>34, <1>35, <1>36, <1>37, <1>38, <1>39 DEF Next, PollerNext, LockNext, RunNext, UpdateNext, Environment, Drained, Killed

\* Nobody takes or gives up a lock.
SameOwners ==
    /\ \A r \in Slot, d \in Dir : OwnsDir(r, d)' <=> OwnsDir(r, d)
    /\ \A d \in Dir : phantoms'[d].granted = phantoms[d].granted
    /\ mutex' = mutex

\* Then every directory is owned as before.
LEMMA OwnersKept ==
    ASSUME Locks, SameOwners
    PROVE  Locks'
<1> SUFFICES ASSUME NEW d \in Dir PROVE LockOwned(d)'
  BY DEF Locks
<1> QED
  BY DEF Locks, LockOwned, SameOwners

\* An unlocked directory has no owner.
LEMMA OwnersFree ==
    ASSUME NEW d \in Dir, LockOwned(d), ~ mutex[d]
    PROVE  phantoms[d].granted = 0 /\ \A s \in Slot : ~ OwnsDir(s, d)
BY DEF LockOwned

\* One lock changes hands: what is said of the others stays.
LEMMA OneLock ==
    ASSUME Locks, NEW d \in Dir, LockOwned(d)',
           \A c \in Dir \ {d} :
              /\ mutex'[c] = mutex[c] /\ phantoms'[c].granted = phantoms[c].granted
              /\ \A r \in Slot : OwnsDir(r, c)' <=> OwnsDir(r, c)
    PROVE  Locks'
<1> SUFFICES ASSUME NEW c \in Dir, c # d PROVE LockOwned(c)'
  BY DEF Locks
<1> QED
  BY DEF Locks, LockOwned

\* No directory is locked.
LEMMA LocksInit == Init => Locks
<1> SUFFICES ASSUME Init, NEW d \in Dir PROVE LockOwned(d)
  BY DEF Locks
<1>1. /\ \A s \in Slot : ~ OwnsDir(s, d)
      /\ phantoms[d].granted = 0 /\ mutex[d] = FALSE
  BY DEF Init, Fresh, OwnsDir, Owns, NoRun
<1> QED
  BY <1>1 DEF LockOwned

\* The goroutine is as much of an owner as before.
LEMMA SteadyOwner ==
    ASSUME Locks, NEW s \in Slot, Only(s),
           \/ ~ Owns(s) /\ ~ Owns(s)'
           \/ Owns(s) /\ Owns(s)' /\ Path(s)' = Path(s),
           UNCHANGED <<mutex, phantoms>>
    PROVE  Locks'
<1>1. SameOwners
  BY DEF SameOwners, OwnsDir, Owns, Path, Only
<1> QED
  BY <1>1, OwnersKept

\* A goroutine that locks an unlocked directory is its only owner.
LEMMA OwnerComes ==
    ASSUME TypeOK, Locks, NEW s \in Slot, Keeps(s), NEW d \in Dir, Path(s) = d, ~ Owns(s), Owns(s)',
           ~ mutex[d], mutex' = [mutex EXCEPT ![d] = TRUE], UNCHANGED phantoms
    PROVE  Locks'
<1>1. phantoms[d].granted = 0 /\ \A r \in Slot : ~ OwnsDir(r, d)
  BY OwnersFree DEF Locks
<1>2. OwnsDir(s, d)' /\ \A r \in Slot : OwnsDir(r, d)' => r = s
  BY <1>1 DEF OwnsDir, Owns, Path, Keeps, Only
<1>3. mutex'[d] /\ phantoms'[d].granted = 0
  BY <1>1 DEF TypeOK
<1>4. LockOwned(d)'
  BY <1>2, <1>3 DEF LockOwned
<1>5. \A c \in Dir \ {d} :
         /\ mutex'[c] = mutex[c] /\ phantoms'[c].granted = phantoms[c].granted
         /\ \A r \in Slot : OwnsDir(r, c)' <=> OwnsDir(r, c)
  BY DEF TypeOK, OwnsDir, Owns, Path, Keeps, Only
<1> QED
  BY <1>4, <1>5, OneLock

\* The owner unlocks, or leaves the lock to the goroutine of its wait.
LEMMA OwnerGoes ==
    ASSUME TypeOK, Locks, NEW s \in Slot, Keeps(s), NEW d \in Dir, Path(s) = d, Owns(s), ~ Owns(s)',
           \/ /\ mutex' = [mutex EXCEPT ![d] = FALSE] /\ UNCHANGED phantoms
           \/ /\ phantoms' = [phantoms EXCEPT ![d].granted = @ + 1] /\ UNCHANGED mutex
    PROVE  Locks'
<1>1. /\ phantoms[d].granted = 0 /\ mutex[d]
      /\ \A r \in Slot : OwnsDir(r, d) => r = s
  BY DEF Locks, LockOwned, OwnsDir
<1>2. \A r \in Slot : ~ OwnsDir(r, d)'
  BY <1>1 DEF OwnsDir, Owns, Path, Keeps, Only
<1>3. \/ ~ mutex'[d] /\ phantoms'[d].granted = 0
      \/ mutex'[d] /\ phantoms'[d].granted = 1
  BY <1>1 DEF TypeOK
<1>4. LockOwned(d)'
  BY <1>2, <1>3 DEF LockOwned
<1>5. \A c \in Dir \ {d} :
         /\ mutex'[c] = mutex[c] /\ phantoms'[c].granted = phantoms[c].granted
         /\ \A r \in Slot : OwnsDir(r, c)' <=> OwnsDir(r, c)
  BY DEF TypeOK, OwnsDir, Owns, Path, Keeps, Only
<1> QED
  BY <1>4, <1>5, OneLock

\* Locks are not touched.
LEMMA SameLocks ==
    ASSUME Locks, UNCHANGED <<run, mutex, phantoms>>
    PROVE  Locks'
<1>1. SameOwners
  BY DEF SameOwners, OwnsDir, Owns, Path
<1> QED
  BY <1>1, OwnersKept

\* Every step leaves each directory with at most one owner, and locked if it has one.
LEMMA LocksStep ==
    ASSUME TypeOK, Accounting, Places, Locks, [Next]_vars
    PROVE  Locks'
<1>1. CASE TakeSlots
  BY <1>1, SameLocks DEF TakeSlots, slots, locks
<1>2. CASE TryEnterClaim
  BY <1>2, SameLocks DEF TryEnterClaim, slots, locks
<1>3. CASE ServeClaim
  BY <1>3, SameLocks DEF ServeClaim, slots, locks
<1>4. CASE ClaimReturns
  BY <1>4, SameLocks DEF ClaimReturns, slots, locks
<1>5. ASSUME NEW t \in Task, NEW s \in Slot, Dispatch(t, s) PROVE Locks'
  <2>1. run[s].pc = "none"
    BY <1>5 DEF Dispatch, Accounting, SlotsConserved, Busy
  <2>2. ~ Owns(s) /\ ~ Owns(s)' /\ Only(s)
    BY <1>5, <2>1, Dispatched DEF Places, LockPlace, At, Owns
  <2> QED
    BY <1>5, <2>2, SteadyOwner DEF Dispatch, locks
<1>6. CASE ExitClaim
  BY <1>6, SameLocks DEF ExitClaim, slots, locks
<1>7. CASE PollerStops
  BY <1>7, SameLocks DEF PollerStops, slots, locks
<1>8. ASSUME NEW s \in Slot, Acquire(s) PROVE Locks'
  <2>1. ~ Owns(s) /\ Keeps(s) /\ UNCHANGED phantoms
    BY <1>8, RunStays DEF Places, LockPlace, At, Owns, Acquire, Stays
  <2>2. CASE mutex' = mutex /\ ~ Owns(s)'
    BY <2>1, <2>2, SteadyOwner DEF Keeps
  <2>3. CASE /\ After(s, "name", "held") /\ Path(s) # NoDir /\ ~ mutex[Path(s)]
             /\ mutex' = [mutex EXCEPT ![Path(s)] = TRUE]
    <3>1. Owns(s)'
      BY <2>3 DEF After, Owns
    <3>2. Path(s) \in Dir
      BY <1>8, <2>3, PathIsDir DEF Accounting, Acquire, At
    <3> QED
      BY <2>1, <2>3, <3>1, <3>2, OwnerComes
  <2> QED
    BY <1>8, <2>1, <2>2, <2>3, RunBranches DEF After, Keeps, Owns
<1>9. ASSUME NEW s \in Slot, MarkWaiting(s) PROVE Locks'
  <2>1. Only(s) /\ UNCHANGED <<mutex, phantoms>>
    BY <1>9, RunStays DEF Stays, Keeps, MarkWaiting, locks
  <2>2. \/ ~ Owns(s) /\ ~ Owns(s)'
        \/ Owns(s) /\ Owns(s)' /\ Path(s)' = Path(s)
    BY <1>9, RunMoves DEF MarkWaiting, After, Keeps, Places, LockPlace, At, Owns, Path
  <2> QED
    BY <2>1, <2>2, SteadyOwner
<1>10. ASSUME NEW s \in Slot, LockGranted(s) PROVE Locks'
  <2>1. /\ Keeps(s) /\ Owns(s)' /\ ~ Owns(s) /\ Path(s) \in Dir /\ ~ mutex[Path(s)]
        /\ mutex' = [mutex EXCEPT ![Path(s)] = TRUE] /\ UNCHANGED phantoms
    BY <1>10, RunMoves DEF LockGranted, After, Places, LockPlace, Owns
  <2> QED
    BY <2>1, OwnerComes
<1>11. ASSUME NEW s \in Slot, WaitEnds(s) PROVE Locks'
  <2>1. Only(s) /\ UNCHANGED <<mutex, phantoms>>
    BY <1>11, RunStays DEF Stays, Keeps, WaitEnds, locks
  <2>2. \/ ~ Owns(s) /\ ~ Owns(s)'
        \/ Owns(s) /\ Owns(s)' /\ Path(s)' = Path(s)
    BY <1>11, RunMoves DEF WaitEnds, After, Keeps, Places, LockPlace, At, Owns, Path
  <2> QED
    BY <2>1, <2>2, SteadyOwner
<1>12. ASSUME NEW s \in Slot, WaitAborted(s) PROVE Locks'
  <2>1. Keeps(s) /\ ~ Owns(s)' /\ Path(s) \in Dir /\ UNCHANGED mutex
    BY <1>12, RunMoves DEF WaitAborted, After, Places, LockPlace, Owns, At
  <2>2. CASE Owns(s)
    <3>1. phantoms' = [phantoms EXCEPT ![Path(s)].granted = @ + 1]
      BY <1>12, <2>2 DEF WaitAborted, Orphan, Places, LockPlace, At, Owns
    <3> QED
      BY <2>1, <2>2, <3>1, OwnerGoes
  <2>3. CASE ~ Owns(s)
    <3>1. phantoms' = [phantoms EXCEPT ![Path(s)].blocked = @ + 1]
      BY <1>12, <2>3 DEF WaitAborted, Orphan, Owns
    <3>2. \A d \in Dir : phantoms'[d].granted = phantoms[d].granted
      BY <2>1, <3>1 DEF TypeOK
    <3>3. SameOwners
      BY <2>1, <2>3, <3>2 DEF SameOwners, OwnsDir, Owns, Path, Keeps, Only
    <3> QED
      BY <3>3, OwnersKept
  <2> QED
    BY <2>2, <2>3
<1>13. ASSUME NEW d \in Dir, PhantomLocks(d) PROVE Locks'
  <2>1. phantoms[d].granted = 0 /\ \A s \in Slot : ~ OwnsDir(s, d)
    BY <1>13, OwnersFree DEF PhantomLocks, Locks
  <2>2. /\ mutex'[d] /\ phantoms'[d].granted = 1
        /\ \A c \in Dir \ {d} : mutex'[c] = mutex[c] /\ phantoms'[c].granted = phantoms[c].granted
    BY <1>13, <2>1 DEF PhantomLocks, TypeOK
  <2>3. \A r \in Slot, c \in Dir : OwnsDir(r, c)' <=> OwnsDir(r, c)
    BY <1>13 DEF PhantomLocks, slots, OwnsDir, Owns, Path
  <2>4. LockOwned(d)'
    BY <2>1, <2>2, <2>3 DEF LockOwned
  <2> QED
    BY <2>2, <2>3, <2>4, OneLock
<1>14. ASSUME NEW d \in Dir, PhantomUnlocks(d) PROVE Locks'
  <2>1. phantoms[d].granted = 1 /\ \A s \in Slot : ~ OwnsDir(s, d)
    BY <1>14 DEF PhantomUnlocks, Locks, LockOwned
  <2>2. /\ ~ mutex'[d] /\ phantoms'[d].granted = 0
        /\ \A c \in Dir \ {d} : mutex'[c] = mutex[c] /\ phantoms'[c].granted = phantoms[c].granted
    BY <1>14, <2>1 DEF PhantomUnlocks, TypeOK
  <2>3. \A r \in Slot, c \in Dir : OwnsDir(r, c)' <=> OwnsDir(r, c)
    BY <1>14 DEF PhantomUnlocks, slots, OwnsDir, Owns, Path
  <2>4. LockOwned(d)'
    BY <2>1, <2>2, <2>3 DEF LockOwned
  <2> QED
    BY <2>2, <2>3, <2>4, OneLock
<1>15. ASSUME NEW s \in Slot, NameHolder(s) PROVE Locks'
  <2>1. Only(s) /\ UNCHANGED <<mutex, phantoms>>
    BY <1>15, RunStays DEF Stays, Keeps, NameHolder, locks
  <2>2. \/ ~ Owns(s) /\ ~ Owns(s)'
        \/ Owns(s) /\ Owns(s)' /\ Path(s)' = Path(s)
    BY <1>15, RunMoves DEF NameHolder, After, Keeps, Places, LockPlace, At, Owns, Path
  <2> QED
    BY <2>1, <2>2, SteadyOwner
<1>16. ASSUME NEW s \in Slot, Release(s) PROVE Locks'
  <2>1. Keeps(s) /\ UNCHANGED phantoms /\ Owns(s) /\ Path(s) \in Dir /\ Path(s)' = Path(s)
    BY <1>16, RunStays DEF Release, Stays, Keeps, Places, LockPlace, Owns, At, Path
  <2>2. CASE After(s, "unlock", run[s].lock) /\ UNCHANGED mutex
    BY <2>1, <2>2, SteadyOwner DEF After, Keeps, Owns
  <2>3. CASE After(s, "free", "none") /\ mutex' = [mutex EXCEPT ![Path(s)] = FALSE]
    <3>1. ~ Owns(s)'
      BY <2>3 DEF After, Owns
    <3> QED
      BY <2>1, <2>3, <3>1, OwnerGoes
  <2> QED
    BY <1>16, <2>2, <2>3, RunBranches
<1>17. ASSUME NEW s \in Slot, Watch(s) PROVE Locks'
  <2>1. Only(s) /\ UNCHANGED <<mutex, phantoms>>
    BY <1>17, RunStays DEF Stays, Keeps, Watch, locks
  <2>2. \/ ~ Owns(s) /\ ~ Owns(s)'
        \/ Owns(s) /\ Owns(s)' /\ Path(s)' = Path(s)
    BY <1>17, RunMoves DEF Watch, After, Keeps, Places, LockPlace, At, Owns, Path
  <2> QED
    BY <2>1, <2>2, SteadyOwner
<1>18. ASSUME NEW s \in Slot, StartTask(s) PROVE Locks'
  <2>1. Only(s) /\ UNCHANGED <<mutex, phantoms>>
    BY <1>18, RunStays DEF Stays, Keeps, StartTask, locks
  <2>2. \/ ~ Owns(s) /\ ~ Owns(s)'
        \/ Owns(s) /\ Owns(s)' /\ Path(s)' = Path(s)
    BY <1>18, RunBranches DEF StartTask, After, Keeps, Places, LockPlace, At, Owns, Path
  <2> QED
    BY <2>1, <2>2, SteadyOwner
<1>19. ASSUME NEW s \in Slot, AgentEnds(s) PROVE Locks'
  <2>1. Only(s) /\ UNCHANGED <<mutex, phantoms>>
    BY <1>19, RunStays DEF Stays, Keeps, AgentEnds, locks
  <2>2. \/ ~ Owns(s) /\ ~ Owns(s)'
        \/ Owns(s) /\ Owns(s)' /\ Path(s)' = Path(s)
    BY <1>19, RunMoves DEF AgentEnds, After, Keeps, Places, LockPlace, At, Owns, Path
  <2> QED
    BY <2>1, <2>2, SteadyOwner
<1>20. ASSUME NEW s \in Slot, Settled(s) PROVE Locks'
  <2>1. Only(s) /\ UNCHANGED <<mutex, phantoms>>
    BY <1>20, RunStays DEF Stays, Keeps, Settled, locks
  <2>2. \/ ~ Owns(s) /\ ~ Owns(s)'
        \/ Owns(s) /\ Owns(s)' /\ Path(s)' = Path(s)
    BY <1>20, RunBranches DEF Settled, After, Keeps, Places, LockPlace, At, Owns, Path
  <2> QED
    BY <2>1, <2>2, SteadyOwner
<1>21. ASSUME NEW s \in Slot, CompleteTask(s) PROVE Locks'
  <2>1. Only(s) /\ UNCHANGED <<mutex, phantoms>>
    BY <1>21, RunStays DEF Stays, Keeps, CompleteTask, locks
  <2>2. \/ ~ Owns(s) /\ ~ Owns(s)'
        \/ Owns(s) /\ Owns(s)' /\ Path(s)' = Path(s)
    BY <1>21, RunBranches DEF CompleteTask, After, Keeps, Places, LockPlace, At, Owns, Path
  <2> QED
    BY <2>1, <2>2, SteadyOwner
<1>22. ASSUME NEW s \in Slot, FailTask(s) PROVE Locks'
  <2>1. Only(s) /\ UNCHANGED <<mutex, phantoms>>
    BY <1>22, RunStays DEF Stays, Keeps, FailTask, locks
  <2>2. \/ ~ Owns(s) /\ ~ Owns(s)'
        \/ Owns(s) /\ Owns(s)' /\ Path(s)' = Path(s)
    BY <1>22, RunMoves DEF FailTask, After, Keeps, Places, LockPlace, At, Owns, Path
  <2> QED
    BY <2>1, <2>2, SteadyOwner
<1>23. ASSUME NEW s \in Slot, FreeSlot(s) PROVE Locks'
  <2>1. ~ Owns(s) /\ ~ Owns(s)' /\ Only(s)
    BY <1>23, Freed DEF FreeSlot, Places, LockPlace, At, Owns
  <2> QED
    BY <1>23, <2>1, SteadyOwner DEF FreeSlot, locks
<1>24. CASE NotActive
  BY <1>24, SameLocks DEF NotActive, slots, locks
<1>25. CASE FindRelease
  BY <1>25, SameLocks DEF FindRelease, slots, locks
<1>26. ASSUME NEW u \in Updater, TakeFlag(u) PROVE Locks'
  BY <1>26, SameLocks DEF TakeFlag, slots, locks
<1>27. ASSUME NEW u \in Updater, PauseClaims(u) PROVE Locks'
  BY <1>27, SameLocks DEF PauseClaims, slots, locks
<1>28. ASSUME NEW u \in Updater, DrainClaims(u) PROVE Locks'
  BY <1>28, SameLocks DEF DrainClaims, slots, locks
<1>29. CASE TrySetClaimBarrier
  BY <1>29, SameLocks DEF TrySetClaimBarrier, slots, locks
<1>30. ASSUME NEW u \in Updater, UpgradeFails(u) PROVE Locks'
  BY <1>30, SameLocks DEF UpgradeFails, slots, locks
<1>31. ASSUME NEW u \in Updater, UpgradeRestarts(u) PROVE Locks'
  BY <1>31, SameLocks DEF UpgradeRestarts, slots, locks
<1>32. ASSUME NEW u \in Updater, RestartFails(u) PROVE Locks'
  BY <1>32, SameLocks DEF RestartFails, slots, locks
<1>33. ASSUME NEW u \in Updater, DropFlag(u) PROVE Locks'
  BY <1>33, SameLocks DEF DropFlag, slots, locks
<1>34. CASE Sigterm
  BY <1>34, SameLocks DEF Sigterm, slots, locks
<1>35. CASE Gone
  <2> SUFFICES ASSUME NEW d \in Dir PROVE LockOwned(d)'
    BY DEF Locks
  <2>1. /\ \A s \in Slot : ~ OwnsDir(s, d)'
        /\ phantoms'[d].granted = 0 /\ mutex'[d] = FALSE
    BY <1>35 DEF Gone, Fresh, OwnsDir, Owns, NoRun
  <2> QED
    BY <2>1 DEF LockOwned
<1>36. CASE Restart
  BY <1>36, SameLocks DEF Restart, slots, locks
<1>37. ASSUME NEW t \in Task, Enqueue(t) PROVE Locks'
  BY <1>37, SameLocks DEF Enqueue, slots, locks
<1>38. ASSUME NEW t \in Task, ServerCloses(t) PROVE Locks'
  BY <1>38, SameLocks DEF ServerCloses, slots, locks
<1>39. CASE UNCHANGED vars
  BY <1>39, SameLocks DEF vars, slots, locks
<1> QED
  BY <1>1, <1>2, <1>3, <1>4, <1>5, <1>6, <1>7, <1>8, <1>9, <1>10, <1>11, <1>12, <1>13, <1>14, <1>15, <1>16, <1>17, <1>18, <1>19, <1>20, <1>21, <1>22, <1>23, <1>24, <1>25, <1>26, <1>27, <1>28, <1>29, <1>30, <1>31, <1>32, <1>33, <1>34, <1>35, <1>36, <1>37, <1>38, <1>39 DEF Next, PollerNext, LockNext, RunNext, UpdateNext, Environment, Drained, Killed

\* Counted, that is OneRunPerDirectory.
LEMMA LocksMean == ASSUME TypeOK, Locks PROVE OneRunPerDirectory
<1> SUFFICES ASSUME NEW d \in Dir
             PROVE  Cardinality(Owners(d)) + phantoms[d].granted = IF mutex[d] THEN 1 ELSE 0
  BY DEF OneRunPerDirectory
<1>1. Owners(d) = {s \in Slot : OwnsDir(s, d)}
  BY DEF Owners, OwnsDir
<1>2. LockOwned(d) /\ mutex[d] \in BOOLEAN
  BY DEF Locks, TypeOK
<1>3. CASE phantoms[d].granted = 1
  <2>1. Owners(d) = {} /\ mutex[d]
    BY <1>1, <1>2, <1>3 DEF LockOwned
  <2> QED
    BY <1>3, <2>1, FS_EmptySet
<1>4. CASE phantoms[d].granted = 0 /\ Owners(d) = {}
  <2>1. ~ mutex[d]
    BY <1>1, <1>2, <1>4 DEF LockOwned
  <2> QED
    BY <1>4, <2>1, FS_EmptySet
<1>5. CASE phantoms[d].granted = 0 /\ Owners(d) # {}
  <2>1. PICK s \in Slot : OwnsDir(s, d)
    BY <1>1, <1>5
  <2>2. Owners(d) = {s} /\ mutex[d]
    BY <1>1, <1>2, <2>1 DEF LockOwned
  <2>3. Cardinality({s}) = 1
    BY FS_Singleton, Zenon
  <2> QED
    BY <1>5, <2>2, <2>3
<1> QED
  BY <1>2, <1>3, <1>4, <1>5 DEF LockOwned

-----------------------------------------------------------------------------
(* The name of the holder.                                                  *)

\* Its holder is set and not yet cleared.
Shown(s) == run[s].lock = "held" /\ run[s].pc \notin {"name", "unlock"}

HolderInv ==
    /\ \A s \in Slot : Shown(s) => holder[Path(s)] = run[s].task
    /\ \A d \in Dir : holder[d] # NoTask =>
          \E s \in Slot : Shown(s) /\ Path(s) = d /\ run[s].task = holder[d]


\* Nobody is shown.
LEMMA HolderInit == Init => HolderInv
BY DEF Init, Fresh, NoRun, HolderInv, Shown

\* Nobody comes to be shown or ceases to.
LEMMA SameShown ==
    ASSUME HolderInv, UNCHANGED holder, NEW s \in Slot, Only(s),
           \/ ~ Shown(s) /\ ~ Shown(s)'
           \/ Shown(s) /\ Shown(s)' /\ run'[s].task = run[s].task
    PROVE  HolderInv'
<1>1. \A r \in Slot : /\ Shown(r)' <=> Shown(r)
                      /\ Shown(r) => Path(r)' = Path(r) /\ run'[r].task = run[r].task
  BY DEF Only, Shown, Path
<1> QED
  BY <1>1 DEF HolderInv

\* Neither goroutines nor names move.
LEMMA SameHolder ==
    ASSUME HolderInv, UNCHANGED <<run, holder>>
    PROVE  HolderInv'
BY DEF HolderInv, Shown, Path

\* The owner of a directory is the only one that can be shown for it.
LEMMA ShownOnce ==
    ASSUME Locks, NEW s \in Slot, NEW r \in Slot, run[s].lock = "held", Shown(r),
           Path(s) \in Dir, Path(r) = Path(s)
    PROVE  r = s
<1>1. OwnsDir(s, Path(s)) /\ OwnsDir(r, Path(s))
  BY DEF OwnsDir, Owns, Shown
<1> QED
  BY <1>1 DEF Locks, LockOwned

\* Every step keeps the names true: set by the owner, cleared before the unlock.
LEMMA HolderStep ==
    ASSUME TypeOK, Accounting, Places, Locks, HolderInv, [Next]_vars
    PROVE  HolderInv'
<1>1. CASE TakeSlots
  BY <1>1, SameHolder DEF TakeSlots, slots, locks
<1>2. CASE TryEnterClaim
  BY <1>2, SameHolder DEF TryEnterClaim, slots, locks
<1>3. CASE ServeClaim
  BY <1>3, SameHolder DEF ServeClaim, slots, locks
<1>4. CASE ClaimReturns
  BY <1>4, SameHolder DEF ClaimReturns, slots, locks
<1>5. ASSUME NEW t \in Task, NEW s \in Slot, Dispatch(t, s) PROVE HolderInv'
  <2>1. run[s].pc = "none"
    BY <1>5 DEF Dispatch, Accounting, SlotsConserved, Busy
  <2>2. ~ Shown(s) /\ ~ Shown(s)' /\ Only(s)
    BY <1>5, <2>1, Dispatched DEF Places, LockPlace, At, Shown
  <2> QED
    BY <1>5, <2>2, SameShown DEF Dispatch, locks
<1>6. CASE ExitClaim
  BY <1>6, SameHolder DEF ExitClaim, slots, locks
<1>7. CASE PollerStops
  BY <1>7, SameHolder DEF PollerStops, slots, locks
<1>8. ASSUME NEW s \in Slot, Acquire(s) PROVE HolderInv'
  <2>1. Only(s) /\ UNCHANGED holder
    BY <1>8, RunStays DEF Stays, Keeps, Acquire, locks
  <2>2. \/ ~ Shown(s) /\ ~ Shown(s)'
        \/ Shown(s) /\ Shown(s)' /\ run'[s].task = run[s].task
    BY <1>8, RunBranches DEF Acquire, After, Keeps, Places, LockPlace, At, Shown, Returning
  <2> QED
    BY <2>1, <2>2, SameShown
<1>9. ASSUME NEW s \in Slot, MarkWaiting(s) PROVE HolderInv'
  <2>1. Only(s) /\ UNCHANGED holder
    BY <1>9, RunStays DEF Stays, Keeps, MarkWaiting, locks
  <2>2. \/ ~ Shown(s) /\ ~ Shown(s)'
        \/ Shown(s) /\ Shown(s)' /\ run'[s].task = run[s].task
    BY <1>9, RunMoves DEF MarkWaiting, After, Keeps, Places, LockPlace, At, Shown, Returning
  <2> QED
    BY <2>1, <2>2, SameShown
<1>10. ASSUME NEW s \in Slot, LockGranted(s) PROVE HolderInv'
  <2>1. Only(s) /\ UNCHANGED holder
    BY <1>10, RunStays DEF Stays, Keeps, LockGranted, locks
  <2>2. \/ ~ Shown(s) /\ ~ Shown(s)'
        \/ Shown(s) /\ Shown(s)' /\ run'[s].task = run[s].task
    BY <1>10, RunMoves DEF LockGranted, After, Keeps, Places, LockPlace, At, Shown, Returning
  <2> QED
    BY <2>1, <2>2, SameShown
<1>11. ASSUME NEW s \in Slot, WaitEnds(s) PROVE HolderInv'
  <2>1. Only(s) /\ UNCHANGED holder
    BY <1>11, RunStays DEF Stays, Keeps, WaitEnds, locks
  <2>2. \/ ~ Shown(s) /\ ~ Shown(s)'
        \/ Shown(s) /\ Shown(s)' /\ run'[s].task = run[s].task
    BY <1>11, RunMoves DEF WaitEnds, After, Keeps, Places, LockPlace, At, Shown, Returning
  <2> QED
    BY <2>1, <2>2, SameShown
<1>12. ASSUME NEW s \in Slot, WaitAborted(s) PROVE HolderInv'
  <2>1. Only(s) /\ UNCHANGED holder
    BY <1>12, RunStays DEF Stays, Keeps, WaitAborted, locks
  <2>2. \/ ~ Shown(s) /\ ~ Shown(s)'
        \/ Shown(s) /\ Shown(s)' /\ run'[s].task = run[s].task
    BY <1>12, RunMoves DEF WaitAborted, After, Keeps, Places, LockPlace, At, Shown, Returning
  <2> QED
    BY <2>1, <2>2, SameShown
<1>13. ASSUME NEW d \in Dir, PhantomLocks(d) PROVE HolderInv'
  BY <1>13, SameHolder DEF PhantomLocks, slots, locks
<1>14. ASSUME NEW d \in Dir, PhantomUnlocks(d) PROVE HolderInv'
  BY <1>14, SameHolder DEF PhantomUnlocks, slots, locks
<1>15. ASSUME NEW s \in Slot, NameHolder(s) PROVE HolderInv'
  <2>1. /\ Keeps(s) /\ run[s].lock = "held" /\ Path(s) \in Dir /\ ~ Shown(s) /\ Shown(s)'
    BY <1>15, RunMoves DEF NameHolder, After, Places, LockPlace, At, Shown
  <2>2. holder' = [holder EXCEPT ![Path(s)] = run[s].task]
    BY <1>15 DEF NameHolder
  <2>3. \A r \in Slot : Path(r)' = Path(r) /\ run'[r].task = run[r].task
    BY <2>1 DEF Keeps, Only, Path
  <2>4. \A r \in Slot : r # s => (Shown(r)' <=> Shown(r)) /\ (Shown(r) => Path(r) # Path(s))
    BY <2>1, ShownOnce DEF Keeps, Only, Shown
  <2>5. \A r \in Slot : Shown(r)' => holder'[Path(r)] = run[r].task
    BY <2>1, <2>2, <2>4 DEF HolderInv, TypeOK
  <2>6. ASSUME NEW d \in Dir, holder'[d] # NoTask
        PROVE  \E r \in Slot : Shown(r)' /\ Path(r) = d /\ run[r].task = holder'[d]
    <3>1. CASE d = Path(s)
      BY <2>1, <2>2, <3>1 DEF TypeOK
    <3>2. CASE d # Path(s)
      BY <2>2, <2>4, <2>6, <3>2 DEF HolderInv, TypeOK
    <3> QED
      BY <3>1, <3>2
  <2> QED
    BY <2>3, <2>5, <2>6 DEF HolderInv
<1>16. ASSUME NEW s \in Slot, Release(s) PROVE HolderInv'
  <2>1. CASE UNCHANGED holder /\ At(s, "unlock") /\ After(s, "free", "none")
    BY <2>1, SameShown DEF After, Keeps, At, Shown
  <2>2. CASE /\ At(s, "clear") /\ After(s, "unlock", run[s].lock)
             /\ holder' = [holder EXCEPT ![Path(s)] = NoTask]
    <3>1. Keeps(s) /\ run[s].lock = "held" /\ Path(s) \in Dir /\ ~ Shown(s)'
      BY <2>2 DEF After, Places, LockPlace, At, Shown
    <3>2. \A r \in Slot : Path(r)' = Path(r) /\ run'[r].task = run[r].task
      BY <3>1 DEF Keeps, Only, Path
    <3>3. \A r \in Slot : r # s => (Shown(r)' <=> Shown(r)) /\ (Shown(r) => Path(r) # Path(s))
      BY <3>1, ShownOnce DEF Keeps, Only, Shown
    <3>4. \A r \in Slot : Shown(r)' => holder'[Path(r)] = run[r].task
      BY <2>2, <3>1, <3>3 DEF HolderInv, TypeOK
    <3>5. ASSUME NEW d \in Dir, holder'[d] # NoTask
          PROVE  \E r \in Slot : Shown(r)' /\ Path(r) = d /\ run[r].task = holder'[d]
      BY <2>2, <3>1, <3>3, <3>5 DEF HolderInv, TypeOK
    <3> QED
      BY <3>2, <3>4, <3>5 DEF HolderInv
  <2> QED
    BY <1>16, <2>1, <2>2, RunBranches
<1>17. ASSUME NEW s \in Slot, Watch(s) PROVE HolderInv'
  <2>1. Only(s) /\ UNCHANGED holder
    BY <1>17, RunStays DEF Stays, Keeps, Watch, locks
  <2>2. \/ ~ Shown(s) /\ ~ Shown(s)'
        \/ Shown(s) /\ Shown(s)' /\ run'[s].task = run[s].task
    BY <1>17, RunMoves DEF Watch, After, Keeps, Places, LockPlace, At, Shown, Returning
  <2> QED
    BY <2>1, <2>2, SameShown
<1>18. ASSUME NEW s \in Slot, StartTask(s) PROVE HolderInv'
  <2>1. Only(s) /\ UNCHANGED holder
    BY <1>18, RunStays DEF Stays, Keeps, StartTask, locks
  <2>2. \/ ~ Shown(s) /\ ~ Shown(s)'
        \/ Shown(s) /\ Shown(s)' /\ run'[s].task = run[s].task
    BY <1>18, RunBranches DEF StartTask, After, Keeps, Places, LockPlace, At, Shown, Returning
  <2> QED
    BY <2>1, <2>2, SameShown
<1>19. ASSUME NEW s \in Slot, AgentEnds(s) PROVE HolderInv'
  <2>1. Only(s) /\ UNCHANGED holder
    BY <1>19, RunStays DEF Stays, Keeps, AgentEnds, locks
  <2>2. \/ ~ Shown(s) /\ ~ Shown(s)'
        \/ Shown(s) /\ Shown(s)' /\ run'[s].task = run[s].task
    BY <1>19, RunMoves DEF AgentEnds, After, Keeps, Places, LockPlace, At, Shown, Returning
  <2> QED
    BY <2>1, <2>2, SameShown
<1>20. ASSUME NEW s \in Slot, Settled(s) PROVE HolderInv'
  <2>1. Only(s) /\ UNCHANGED holder
    BY <1>20, RunStays DEF Stays, Keeps, Settled, locks
  <2>2. \/ ~ Shown(s) /\ ~ Shown(s)'
        \/ Shown(s) /\ Shown(s)' /\ run'[s].task = run[s].task
    BY <1>20, RunBranches DEF Settled, After, Keeps, Places, LockPlace, At, Shown, Returning
  <2> QED
    BY <2>1, <2>2, SameShown
<1>21. ASSUME NEW s \in Slot, CompleteTask(s) PROVE HolderInv'
  <2>1. Only(s) /\ UNCHANGED holder
    BY <1>21, RunStays DEF Stays, Keeps, CompleteTask, locks
  <2>2. \/ ~ Shown(s) /\ ~ Shown(s)'
        \/ Shown(s) /\ Shown(s)' /\ run'[s].task = run[s].task
    BY <1>21, RunBranches DEF CompleteTask, After, Keeps, Places, LockPlace, At, Shown, Returning
  <2> QED
    BY <2>1, <2>2, SameShown
<1>22. ASSUME NEW s \in Slot, FailTask(s) PROVE HolderInv'
  <2>1. Only(s) /\ UNCHANGED holder
    BY <1>22, RunStays DEF Stays, Keeps, FailTask, locks
  <2>2. \/ ~ Shown(s) /\ ~ Shown(s)'
        \/ Shown(s) /\ Shown(s)' /\ run'[s].task = run[s].task
    BY <1>22, RunMoves DEF FailTask, After, Keeps, Places, LockPlace, At, Shown, Returning
  <2> QED
    BY <2>1, <2>2, SameShown
<1>23. ASSUME NEW s \in Slot, FreeSlot(s) PROVE HolderInv'
  <2>1. ~ Shown(s) /\ ~ Shown(s)' /\ Only(s)
    BY <1>23, Freed DEF FreeSlot, Places, LockPlace, At, Shown
  <2> QED
    BY <1>23, <2>1, SameShown DEF FreeSlot, locks
<1>24. CASE NotActive
  BY <1>24, SameHolder DEF NotActive, slots, locks
<1>25. CASE FindRelease
  BY <1>25, SameHolder DEF FindRelease, slots, locks
<1>26. ASSUME NEW u \in Updater, TakeFlag(u) PROVE HolderInv'
  BY <1>26, SameHolder DEF TakeFlag, slots, locks
<1>27. ASSUME NEW u \in Updater, PauseClaims(u) PROVE HolderInv'
  BY <1>27, SameHolder DEF PauseClaims, slots, locks
<1>28. ASSUME NEW u \in Updater, DrainClaims(u) PROVE HolderInv'
  BY <1>28, SameHolder DEF DrainClaims, slots, locks
<1>29. CASE TrySetClaimBarrier
  BY <1>29, SameHolder DEF TrySetClaimBarrier, slots, locks
<1>30. ASSUME NEW u \in Updater, UpgradeFails(u) PROVE HolderInv'
  BY <1>30, SameHolder DEF UpgradeFails, slots, locks
<1>31. ASSUME NEW u \in Updater, UpgradeRestarts(u) PROVE HolderInv'
  BY <1>31, SameHolder DEF UpgradeRestarts, slots, locks
<1>32. ASSUME NEW u \in Updater, RestartFails(u) PROVE HolderInv'
  BY <1>32, SameHolder DEF RestartFails, slots, locks
<1>33. ASSUME NEW u \in Updater, DropFlag(u) PROVE HolderInv'
  BY <1>33, SameHolder DEF DropFlag, slots, locks
<1>34. CASE Sigterm
  BY <1>34, SameHolder DEF Sigterm, slots, locks
<1>35. CASE Gone
  BY <1>35 DEF Gone, Fresh, NoRun, HolderInv, Shown
<1>36. CASE Restart
  BY <1>36, SameHolder DEF Restart, slots, locks
<1>37. ASSUME NEW t \in Task, Enqueue(t) PROVE HolderInv'
  BY <1>37, SameHolder DEF Enqueue, slots, locks
<1>38. ASSUME NEW t \in Task, ServerCloses(t) PROVE HolderInv'
  BY <1>38, SameHolder DEF ServerCloses, slots, locks
<1>39. CASE UNCHANGED vars
  BY <1>39, SameHolder DEF vars, slots, locks
<1> QED
  BY <1>1, <1>2, <1>3, <1>4, <1>5, <1>6, <1>7, <1>8, <1>9, <1>10, <1>11, <1>12, <1>13, <1>14, <1>15, <1>16, <1>17, <1>18, <1>19, <1>20, <1>21, <1>22, <1>23, <1>24, <1>25, <1>26, <1>27, <1>28, <1>29, <1>30, <1>31, <1>32, <1>33, <1>34, <1>35, <1>36, <1>37, <1>38, <1>39 DEF Next, PollerNext, LockNext, RunNext, UpdateNext, Environment, Drained, Killed

\* What a reader of Holder sees.
LEMMA HolderMeans == ASSUME HolderInv PROVE HolderIsShown
BY DEF HolderInv, HolderIsShown, Shown

-----------------------------------------------------------------------------
(* Updates.                                                                 *)

Active(u) == upd[u] \notin {"idle", "fetched"}
Holding(u) == upd[u] \in {"drain", "upgrade", "restarting"}
Replacing(u) == upd[u] \in {"upgrade", "restarting"}

\* The flag has one owner.
FlagOwned ==
    /\ \A u \in Updater : Active(u) => updating
    /\ \A u, v \in Updater : Active(u) /\ Active(v) => u = v

\* Who replaces the binary holds the claims back, and nothing is under way.
Quiet == activeTasks = 0 /\ claimsInFlight = 0
GateHeld ==
    /\ \A u \in Updater : Holding(u) => pauseClaims
    /\ \A u \in Updater : Replacing(u) => Quiet

\* The claims are held back by an updater at work, or by an automatic update that
\* could not restart the process, which also keeps every other update from starting.
FlagsInUse ==
    /\ pauseClaims => \/ \E u \in Updater : Holding(u)
                      \/ updating /\ \A u \in Updater : ~ Active(u)
    /\ updating => pauseClaims \/ \E u \in Updater : Active(u)

UpdateInv == FlagOwned /\ GateHeld /\ FlagsInUse

\* No update is under way.
LEMMA UpdateInit == Init => UpdateInv
<1> SUFFICES ASSUME Init PROVE UpdateInv
  OBVIOUS
<1>1. (\A u \in Updater : upd[u] = "idle") /\ ~ pauseClaims /\ ~ updating
  BY DEF Init, Fresh
<1> QED
  BY <1>1 DEF UpdateInv, FlagOwned, GateHeld, FlagsInUse, Active, Holding, Replacing

\* Updaters and gate are left alone, and a quiet process stays quiet while it is replaced.
LEMMA SameUpdates ==
    ASSUME UpdateInv, UNCHANGED <<pauseClaims, updates>>,
           (\E u \in Updater : Replacing(u)) /\ Quiet => Quiet'
    PROVE  UpdateInv'
BY DEF UpdateInv, FlagOwned, GateHeld, FlagsInUse, Active, Holding, Replacing, updates

\* One updater moves.
LEMMA OneUpdater ==
    ASSUME upd \in [Updater -> UpdPc], NEW u \in Updater, NEW pc \in UpdPc, Step(u, pc)
    PROVE  upd'[u] = pc /\ \A v \in Updater : v # u => upd'[v] = upd[v]
BY DEF Step

\* The owner of the flag goes on, with the claims held back or not.
LEMMA OwnerMoves ==
    ASSUME TypeOK, UpdateInv, NEW u \in Updater, Active(u), Active(u)', Quiet => Quiet',
           \A v \in Updater : v # u => upd'[v] = upd[v],
           UNCHANGED updating, pauseClaims' <=> Holding(u)',
           Replacing(u)' => Quiet
    PROVE  UpdateInv'
<1>1. updating /\ updating' /\ \A v \in Updater : v # u => ~ Active(v) /\ ~ Active(v)'
  BY DEF UpdateInv, FlagOwned, Active
<1>2. FlagOwned'
  BY <1>1 DEF FlagOwned
<1>3. \A v \in Updater : v # u => ~ Holding(v)' /\ ~ Replacing(v)'
  BY <1>1 DEF Active, Holding, Replacing
<1>4. GateHeld'
  BY <1>3 DEF GateHeld
<1>5. FlagsInUse'
  BY DEF FlagsInUse, Active, Holding
<1> QED
  BY <1>2, <1>4, <1>5 DEF UpdateInv

\* The claims are not held back while the owner of the flag does not.
LEMMA NotHeld ==
    ASSUME UpdateInv, NEW u \in Updater, Active(u), ~ Holding(u)
    PROVE  ~ pauseClaims
BY DEF UpdateInv, FlagOwned, FlagsInUse, Active, Holding

\* Every step keeps flag and gate with one owner: what would end the quiet needs a claim, and
\* claims are held back.
LEMMA UpdateStep ==
    ASSUME TypeOK, Accounting, UpdateInv, [Next]_vars
    PROVE  UpdateInv'
<1>a. Cardinality(Busy) \in Nat
  BY DaemonAssumption, FS_Subset, FS_CardinalityType DEF Busy
<1>c. AutoLoop \in Updater
  BY DaemonAssumption
<1>b. \A pc \in {"idle", "fetched", "begin", "drain", "upgrade", "restarting", "leave"} : pc \in UpdPc
  BY DEF UpdPc
<1>1. CASE TakeSlots
  BY <1>1, SameUpdates DEF TakeSlots, Quiet, gate, updates
<1>2. CASE TryEnterClaim
  <2>1. CASE pauseClaims
    BY <1>2, <2>1, SameUpdates DEF TryEnterClaim, Quiet
  <2>2. CASE ~ pauseClaims
    BY <1>2, <2>2, SameUpdates DEF TryEnterClaim, UpdateInv, GateHeld, Holding, Replacing
  <2> QED
    BY <2>1, <2>2
<1>3. CASE ServeClaim
  BY <1>3, SameUpdates DEF ServeClaim, Quiet, gate, updates
<1>4. CASE ClaimReturns
  BY <1>4, SameUpdates DEF ClaimReturns, Quiet, gate, updates
<1>5. ASSUME NEW t \in Task, NEW s \in Slot, Dispatch(t, s) PROVE UpdateInv'
  <2>1. ~ Quiet
    BY <1>5 DEF Dispatch, Quiet, Accounting, Counts
  <2> QED
    BY <1>5, <2>1, SameUpdates DEF Dispatch
<1>6. CASE ExitClaim
  <2>1. ~ Quiet
    BY <1>6 DEF ExitClaim, Quiet, Accounting, Counts
  <2> QED
    BY <1>6, <2>1, SameUpdates DEF ExitClaim
<1>7. CASE PollerStops
  BY <1>7, SameUpdates DEF PollerStops, Quiet, gate, updates
<1>8. ASSUME NEW s \in Slot, Acquire(s) PROVE UpdateInv'
  BY <1>8, SameUpdates DEF Acquire, Quiet, gate, updates
<1>9. ASSUME NEW s \in Slot, MarkWaiting(s) PROVE UpdateInv'
  BY <1>9, SameUpdates DEF MarkWaiting, Quiet, gate, updates
<1>10. ASSUME NEW s \in Slot, LockGranted(s) PROVE UpdateInv'
  BY <1>10, SameUpdates DEF LockGranted, Quiet, gate, updates
<1>11. ASSUME NEW s \in Slot, WaitEnds(s) PROVE UpdateInv'
  BY <1>11, SameUpdates DEF WaitEnds, Quiet, gate, updates
<1>12. ASSUME NEW s \in Slot, WaitAborted(s) PROVE UpdateInv'
  BY <1>12, SameUpdates DEF WaitAborted, Quiet, gate, updates
<1>13. ASSUME NEW d \in Dir, PhantomLocks(d) PROVE UpdateInv'
  BY <1>13, SameUpdates DEF PhantomLocks, Quiet, gate, updates
<1>14. ASSUME NEW d \in Dir, PhantomUnlocks(d) PROVE UpdateInv'
  BY <1>14, SameUpdates DEF PhantomUnlocks, Quiet, gate, updates
<1>15. ASSUME NEW s \in Slot, NameHolder(s) PROVE UpdateInv'
  BY <1>15, SameUpdates DEF NameHolder, Quiet, gate, updates
<1>16. ASSUME NEW s \in Slot, Release(s) PROVE UpdateInv'
  BY <1>16, SameUpdates DEF Release, Quiet, gate, updates
<1>17. ASSUME NEW s \in Slot, Watch(s) PROVE UpdateInv'
  BY <1>17, SameUpdates DEF Watch, Quiet, gate, updates
<1>18. ASSUME NEW s \in Slot, StartTask(s) PROVE UpdateInv'
  BY <1>18, SameUpdates DEF StartTask, Quiet, gate, updates
<1>19. ASSUME NEW s \in Slot, AgentEnds(s) PROVE UpdateInv'
  BY <1>19, SameUpdates DEF AgentEnds, Quiet, gate, updates
<1>20. ASSUME NEW s \in Slot, Settled(s) PROVE UpdateInv'
  BY <1>20, SameUpdates DEF Settled, Quiet, gate, updates
<1>21. ASSUME NEW s \in Slot, CompleteTask(s) PROVE UpdateInv'
  BY <1>21, SameUpdates DEF CompleteTask, Quiet, gate, updates
<1>22. ASSUME NEW s \in Slot, FailTask(s) PROVE UpdateInv'
  BY <1>22, SameUpdates DEF FailTask, Quiet, gate, updates
<1>23. ASSUME NEW s \in Slot, FreeSlot(s) PROVE UpdateInv'
  BY <1>23, SameUpdates DEF FreeSlot, Quiet, gate, updates
<1>24. CASE NotActive
  <2>1. ~ Quiet
    BY <1>24, <1>a DEF NotActive, Quiet, Accounting, Counts, TypeOK
  <2> QED
    BY <1>24, <2>1, SameUpdates DEF NotActive
<1>25. CASE FindRelease
  <2>1. upd'[AutoLoop] = "fetched" /\ (\A v \in Updater : v # AutoLoop => upd'[v] = upd[v]) /\ upd[AutoLoop] = "idle"
    BY <1>25, <1>b, <1>c, OneUpdater DEF FindRelease, TypeOK
  <2>2. \A v \in Updater : /\ Active(v)' <=> Active(v)
                           /\ Holding(v)' <=> Holding(v)
                           /\ Replacing(v)' <=> Replacing(v)
                           /\ upd'[v] \in {"idle", "fetched"} <=> upd[v] \in {"idle", "fetched"}
    BY <2>1 DEF Active, Holding, Replacing
  <2>3. UNCHANGED <<updating, gate>>
    BY <1>25 DEF FindRelease
  <2> QED
    BY <2>2, <2>3 DEF UpdateInv, FlagOwned, GateHeld, FlagsInUse, Active, Holding, Quiet, gate
<1>26. ASSUME NEW u \in Updater, TakeFlag(u) PROVE UpdateInv'
  <2>1. UNCHANGED gate /\ updating' = TRUE /\ ~ Active(u)
    BY <1>26 DEF TakeFlag, Active
  <2>2. CASE updating
    <3>1. upd'[u] = "idle" /\ \A v \in Updater : v # u => upd'[v] = upd[v]
      BY <1>26, <1>b, <2>2, OneUpdater DEF TakeFlag, TypeOK
    <3>2. \A v \in Updater : /\ Active(v)' <=> Active(v)
                             /\ Holding(v)' <=> Holding(v)
                             /\ Replacing(v)' <=> Replacing(v)
                             /\ upd'[v] \in {"idle", "fetched"} <=> upd[v] \in {"idle", "fetched"}
      BY <2>1, <3>1 DEF Active, Holding, Replacing
    <3>3. FlagOwned' /\ GateHeld'
      BY <2>1, <2>2, <3>2 DEF UpdateInv, FlagOwned, GateHeld, Quiet, gate
    <3>4. FlagsInUse'
      BY <2>1, <2>2, <3>2 DEF UpdateInv, FlagsInUse, Holding, gate
    <3> QED
      BY <3>3, <3>4 DEF UpdateInv
  <2>3. CASE ~ updating
    <3>1. upd'[u] = "begin" /\ \A v \in Updater : v # u => upd'[v] = upd[v]
      BY <1>26, <1>b, <2>3, OneUpdater DEF TakeFlag, TypeOK
    <3>2. \A v \in Updater : ~ Active(v) /\ (Active(v)' <=> v = u)
      BY <2>3, <3>1 DEF UpdateInv, FlagOwned, Active
    <3>3. ~ pauseClaims /\ \A v \in Updater : ~ Holding(v)' /\ ~ Replacing(v)'
      BY <2>3, <3>1, <3>2 DEF UpdateInv, FlagsInUse, Active, Holding, Replacing
    <3>4. FlagOwned' /\ GateHeld'
      BY <2>1, <3>2, <3>3 DEF FlagOwned, GateHeld
    <3>5. FlagsInUse'
      BY <2>1, <3>1, <3>2, <3>3 DEF FlagsInUse, gate
    <3> QED
      BY <3>4, <3>5 DEF UpdateInv
  <2> QED
    BY <2>2, <2>3
<1>27. ASSUME NEW u \in Updater, PauseClaims(u) PROVE UpdateInv'
  <2>1. Active(u) /\ u \in Updater /\ UNCHANGED <<updating, claimsInFlight, activeTasks>>
    BY <1>27, <1>c DEF PauseClaims, Active, gate
  <2>2. CASE Step(u, "leave") /\ UNCHANGED pauseClaims
    <3>1. upd'[u] = "leave" /\ \A v \in Updater : v # u => upd'[v] = upd[v]
      BY <1>b, <2>1, <2>2, OneUpdater DEF TypeOK
    <3>2. Active(u)' /\ (pauseClaims' <=> Holding(u)') /\ (Replacing(u)' => Quiet)
      BY <1>27, <2>1, <2>2, <3>1, NotHeld DEF PauseClaims, Active, Holding, Replacing, Quiet
    <3> QED
      BY <2>1, <3>1, <3>2, OwnerMoves DEF Quiet
  <2>3. CASE Step(u, "drain") /\ pauseClaims' = TRUE
    <3>1. upd'[u] = "drain" /\ \A v \in Updater : v # u => upd'[v] = upd[v]
      BY <1>b, <2>1, <2>3, OneUpdater DEF TypeOK
    <3>2. Active(u)' /\ (pauseClaims' <=> Holding(u)') /\ (Replacing(u)' => Quiet)
      BY <1>27, <2>1, <2>3, <3>1, NotHeld DEF PauseClaims, Active, Holding, Replacing, Quiet
    <3> QED
      BY <2>1, <3>1, <3>2, OwnerMoves DEF Quiet
  <2> QED
    BY <1>27, <2>2, <2>3 DEF PauseClaims, gate
<1>28. ASSUME NEW u \in Updater, DrainClaims(u) PROVE UpdateInv'
  <2>1. Active(u) /\ u \in Updater /\ UNCHANGED <<updating, claimsInFlight, activeTasks>>
    BY <1>28, <1>c DEF DrainClaims, Active, gate
  <2>2. CASE Step(u, "upgrade") /\ UNCHANGED pauseClaims /\ Quiet
    <3>1. upd'[u] = "upgrade" /\ \A v \in Updater : v # u => upd'[v] = upd[v]
      BY <1>b, <2>1, <2>2, OneUpdater DEF TypeOK
    <3>2. Active(u)' /\ (pauseClaims' <=> Holding(u)') /\ (Replacing(u)' => Quiet)
      BY <1>28, <2>1, <2>2, <3>1, NotHeld DEF DrainClaims, Active, Holding, Replacing, Quiet, UpdateInv, GateHeld
    <3> QED
      BY <2>1, <3>1, <3>2, OwnerMoves DEF Quiet
  <2>3. CASE Step(u, "leave") /\ pauseClaims' = FALSE
    <3>1. upd'[u] = "leave" /\ \A v \in Updater : v # u => upd'[v] = upd[v]
      BY <1>b, <2>1, <2>3, OneUpdater DEF TypeOK
    <3>2. Active(u)' /\ (pauseClaims' <=> Holding(u)') /\ (Replacing(u)' => Quiet)
      BY <1>28, <2>1, <2>3, <3>1, NotHeld DEF DrainClaims, Active, Holding, Replacing, Quiet
    <3> QED
      BY <2>1, <3>1, <3>2, OwnerMoves DEF Quiet
  <2> QED
    BY <1>28, <2>2, <2>3 DEF DrainClaims, gate, Quiet
<1>29. CASE TrySetClaimBarrier
  <2>1. Active(AutoLoop) /\ AutoLoop \in Updater /\ UNCHANGED <<updating, claimsInFlight, activeTasks>>
    BY <1>29, <1>c DEF TrySetClaimBarrier, Active, gate
  <2>2. CASE Step(AutoLoop, "leave") /\ UNCHANGED pauseClaims
    <3>1. upd'[AutoLoop] = "leave" /\ \A v \in Updater : v # AutoLoop => upd'[v] = upd[v]
      BY <1>b, <2>1, <2>2, OneUpdater DEF TypeOK
    <3>2. Active(AutoLoop)' /\ (pauseClaims' <=> Holding(AutoLoop)') /\ (Replacing(AutoLoop)' => Quiet)
      BY <1>29, <2>1, <2>2, <3>1, NotHeld DEF TrySetClaimBarrier, Active, Holding, Replacing, Quiet
    <3> QED
      BY <2>1, <3>1, <3>2, OwnerMoves DEF Quiet
  <2>3. CASE Step(AutoLoop, "upgrade") /\ pauseClaims' = TRUE /\ Quiet
    <3>1. upd'[AutoLoop] = "upgrade" /\ \A v \in Updater : v # AutoLoop => upd'[v] = upd[v]
      BY <1>b, <2>1, <2>3, OneUpdater DEF TypeOK
    <3>2. Active(AutoLoop)' /\ (pauseClaims' <=> Holding(AutoLoop)') /\ (Replacing(AutoLoop)' => Quiet)
      BY <1>29, <2>1, <2>3, <3>1, NotHeld DEF TrySetClaimBarrier, Active, Holding, Replacing, Quiet
    <3> QED
      BY <2>1, <3>1, <3>2, OwnerMoves DEF Quiet
  <2>4. claimsInFlight > 0 \/ activeTasks > 0 \/ Quiet
    BY DEF Quiet, TypeOK
  <2>5. CASE claimsInFlight > 0 \/ activeTasks > 0
    BY <1>29, <2>2, <2>5 DEF TrySetClaimBarrier
  <2>6. CASE ~ (claimsInFlight > 0 \/ activeTasks > 0)
    BY <1>29, <2>3, <2>4, <2>6 DEF TrySetClaimBarrier
  <2> QED
    BY <2>5, <2>6
<1>30. ASSUME NEW u \in Updater, UpgradeFails(u) PROVE UpdateInv'
  <2>1. Active(u) /\ u \in Updater /\ UNCHANGED <<updating, claimsInFlight, activeTasks>>
    BY <1>30, <1>c DEF UpgradeFails, Active, gate
  <2>2. CASE Step(u, "leave") /\ pauseClaims' = FALSE
    <3>1. upd'[u] = "leave" /\ \A v \in Updater : v # u => upd'[v] = upd[v]
      BY <1>b, <2>1, <2>2, OneUpdater DEF TypeOK
    <3>2. Active(u)' /\ (pauseClaims' <=> Holding(u)') /\ (Replacing(u)' => Quiet)
      BY <1>30, <2>1, <2>2, <3>1, NotHeld DEF UpgradeFails, Active, Holding, Replacing, Quiet
    <3> QED
      BY <2>1, <3>1, <3>2, OwnerMoves DEF Quiet
  <2> QED
    BY <1>30, <2>2 DEF UpgradeFails, gate
<1>31. ASSUME NEW u \in Updater, UpgradeRestarts(u) PROVE UpdateInv'
  <2>1. Active(u) /\ u \in Updater /\ UNCHANGED <<updating, claimsInFlight, activeTasks>>
    BY <1>31, <1>c DEF UpgradeRestarts, Active, gate
  <2>2. CASE Step(u, "restarting") /\ UNCHANGED pauseClaims
    <3>1. upd'[u] = "restarting" /\ \A v \in Updater : v # u => upd'[v] = upd[v]
      BY <1>b, <2>1, <2>2, OneUpdater DEF TypeOK
    <3>2. Active(u)' /\ (pauseClaims' <=> Holding(u)') /\ (Replacing(u)' => Quiet)
      BY <1>31, <2>1, <2>2, <3>1, NotHeld DEF UpgradeRestarts, Active, Holding, Replacing, Quiet, UpdateInv, GateHeld
    <3> QED
      BY <2>1, <3>1, <3>2, OwnerMoves DEF Quiet
  <2> QED
    BY <1>31, <2>2 DEF UpgradeRestarts, gate
<1>32. ASSUME NEW u \in Updater, RestartFails(u) PROVE UpdateInv'
  <2>1. CASE u # AutoLoop
    <3>1. Active(u) /\ UNCHANGED <<updating, claimsInFlight, activeTasks>> /\ pauseClaims' = FALSE
      BY <1>32, <2>1 DEF RestartFails, Active
    <3>2. upd'[u] = "leave" /\ \A v \in Updater : v # u => upd'[v] = upd[v]
      BY <1>32, <1>b, <2>1, OneUpdater DEF RestartFails, TypeOK
    <3>3. Active(u)' /\ ~ Holding(u)' /\ ~ Replacing(u)'
      BY <3>2 DEF Active, Holding, Replacing
    <3> QED
      BY <3>1, <3>2, <3>3, OwnerMoves DEF Quiet
  <2>2. CASE u = AutoLoop
    <3>1. Active(u) /\ pauseClaims /\ UNCHANGED <<updating, gate>>
      BY <1>32, <2>2 DEF RestartFails, Active, Holding, UpdateInv, GateHeld, gate
    <3>2. upd'[u] = "idle" /\ \A v \in Updater : v # u => upd'[v] = upd[v]
      BY <1>32, <1>b, <2>2, OneUpdater DEF RestartFails, TypeOK
    <3>3. updating' /\ pauseClaims'
      BY <3>1 DEF UpdateInv, FlagOwned, gate
    <3>4. \A v \in Updater : ~ Active(v)' /\ upd'[v] \in {"idle", "fetched"}
      BY <3>1, <3>2 DEF UpdateInv, FlagOwned, Active
    <3>5. FlagOwned' /\ GateHeld'
      BY <3>3, <3>4 DEF FlagOwned, GateHeld, Active, Holding, Replacing
    <3>6. FlagsInUse'
      BY <3>3, <3>4 DEF FlagsInUse
    <3> QED
      BY <3>5, <3>6 DEF UpdateInv
  <2> QED
    BY <2>1, <2>2
<1>33. ASSUME NEW u \in Updater, DropFlag(u) PROVE UpdateInv'
  <2>1. Active(u) /\ ~ Holding(u) /\ UNCHANGED gate /\ updating' = FALSE
    BY <1>33 DEF DropFlag, Active, Holding
  <2>2. upd'[u] = "idle" /\ \A v \in Updater : v # u => upd'[v] = upd[v]
    BY <1>33, <1>b, OneUpdater DEF DropFlag, TypeOK
  <2>3. ~ pauseClaims'
    BY <2>1, NotHeld DEF gate
  <2>4. \A v \in Updater : ~ Active(v)'
    BY <2>1, <2>2 DEF UpdateInv, FlagOwned, Active
  <2>5. FlagOwned' /\ GateHeld'
    BY <2>4 DEF FlagOwned, GateHeld, Active, Holding, Replacing
  <2>6. FlagsInUse'
    BY <2>1, <2>3 DEF FlagsInUse
  <2> QED
    BY <2>5, <2>6 DEF UpdateInv
<1>34. CASE Sigterm
  BY <1>34, SameUpdates DEF Sigterm, Quiet, gate, updates
<1>35. CASE Gone
  <2>1. (\A u \in Updater : upd'[u] = "idle") /\ pauseClaims' = FALSE /\ updating' = FALSE
    BY <1>35 DEF Gone, Fresh
  <2> QED
    BY <2>1 DEF UpdateInv, FlagOwned, GateHeld, FlagsInUse, Active, Holding, Replacing
<1>36. CASE Restart
  BY <1>36, SameUpdates DEF Restart, Quiet, gate, updates
<1>37. ASSUME NEW t \in Task, Enqueue(t) PROVE UpdateInv'
  BY <1>37, SameUpdates DEF Enqueue, Quiet, gate, updates
<1>38. ASSUME NEW t \in Task, ServerCloses(t) PROVE UpdateInv'
  BY <1>38, SameUpdates DEF ServerCloses, Quiet, gate, updates
<1>39. CASE UNCHANGED vars
  BY <1>39, SameUpdates DEF vars, Quiet, gate, updates
<1> QED
  BY <1>1, <1>2, <1>3, <1>4, <1>5, <1>6, <1>7, <1>8, <1>9, <1>10, <1>11, <1>12, <1>13, <1>14, <1>15, <1>16, <1>17, <1>18, <1>19, <1>20, <1>21, <1>22, <1>23, <1>24, <1>25, <1>26, <1>27, <1>28, <1>29, <1>30, <1>31, <1>32, <1>33, <1>34, <1>35, <1>36, <1>37, <1>38, <1>39 DEF Next, PollerNext, LockNext, RunNext, UpdateNext, Environment, Drained, Killed

\* A quiet process has nothing in hand.
LEMMA UpdateMeans == ASSUME TypeOK, Accounting, UpdateInv PROVE UpdateRunsAlone
<1> SUFFICES ASSUME NEW u \in Updater, Replacing(u)
             PROVE  /\ Busy = {} /\ poller.tasks = {} /\ claimsInFlight = 0
                    /\ \A v \in Updater : Holding(v) => v = u
  BY DEF UpdateRunsAlone, Replacing, Holding
<1>1. activeTasks = 0 /\ claimsInFlight = 0
  BY DEF UpdateInv, GateHeld, Quiet
<1>2. IsFiniteSet(Busy) /\ Cardinality(Busy) \in Nat
  BY DaemonAssumption, FS_Subset, FS_CardinalityType DEF Busy
<1>3. Cardinality(Busy) = 0
  BY <1>1, <1>2 DEF Accounting, Counts, TypeOK
<1>4. Busy = {}
  BY <1>2, <1>3, FS_EmptySet
<1>5. poller.tasks = {}
  BY <1>1 DEF Accounting, Counts, PollerHolds
<1>6. \A v \in Updater : Holding(v) => v = u
  BY DEF UpdateInv, FlagOwned, Active, Holding, Replacing
<1> QED
  BY <1>1, <1>4, <1>5, <1>6

-----------------------------------------------------------------------------
(* Rows.                                                                    *)

\* An agent runs on a row that was started; what a goroutine has seen is true.
RowPlace(s) ==
    /\ At(s, "agent") => row[run[s].task] \in {"running", "closed"}
    /\ run[s].seen => /\ run[s].pc \in {"wait", "prepare", "agent", "settle"}
                      /\ row[run[s].task] = "closed"
RowPlaces == \A s \in Slot : RowPlace(s)
RowInv == RowPlaces /\ OneAgentPerTask /\ NothingAbandoned

\* It will not report any more.
Reported == {"clear", "unlock", "free"}
Covers(s, t) == run[s].task = t /\ run[s].pc \notin Reported
Covered(t) == t \in lost \/ t \in poller.tasks \/ \E s \in Slot : Covers(s, t)

\* NothingAbandoned, row by row,
LEMMA CoveredMeans == NothingAbandoned <=> \A t \in Task : row[t] \in InFlight => Covered(t)
BY DEF NothingAbandoned, Covered, Covers, Reported

\* and after a step.
LEMMA CoveredNext ==
    ASSUME \A t \in Task : row'[t] \in InFlight => Covered(t)'
    PROVE  NothingAbandoned'
BY DEF NothingAbandoned, Covered, Covers, Reported

\* No row is enqueued, and none that was started is on offer again.
Onward ==
    \A t \in Task : /\ row[t] = "closed" => row'[t] = "closed"
                    /\ row[t] \in {"running", "closed"} => row'[t] \in {"running", "closed"}

\* The goroutines stay, and rows go on.
LEMMA RowPlacesKept ==
    ASSUME Accounting, RowPlaces, Onward, UNCHANGED run
    PROVE  RowPlaces'
<1> SUFFICES ASSUME NEW s \in Slot PROVE RowPlace(s)'
  BY DEF RowPlaces
<1>1. run[s].pc # "none" => run[s].task \in Task
  BY DEF Accounting, Tasked
<1> QED
  BY <1>1 DEF RowPlaces, RowPlace, Onward, At

\* One goroutine moves, and rows go on.
LEMMA OneRowPlace ==
    ASSUME Accounting, RowPlaces, Onward, NEW s \in Slot, Only(s), RowPlace(s)'
    PROVE  RowPlaces'
<1> SUFFICES ASSUME NEW r \in Slot, r # s PROVE RowPlace(r)'
  BY DEF RowPlaces
<1>1. run[r].pc # "none" => run[r].task \in Task
  BY DEF Accounting, Tasked
<1> QED
  BY <1>1 DEF RowPlaces, RowPlace, Onward, At, Only

\* No agent is started.
LEMMA SameAgents ==
    ASSUME OneAgentPerTask, NEW s \in Slot, Only(s),
           At(s, "agent")' => At(s, "agent") /\ run'[s].task = run[s].task
    PROVE  OneAgentPerTask'
BY DEF OneAgentPerTask, Only, At

\* The goroutine of s goes on, reports, or a call of it is lost.
LEMMA RowCovered ==
    ASSUME NothingAbandoned, NEW s \in Slot, NEW t \in Task, Keeps(s), run[s].task = t,
           UNCHANGED poller,
           \A u \in Task : row'[u] \in InFlight => row[u] \in InFlight,
           \A u \in Task : u \in lost /\ u # t => u \in lost',
           row'[t] \in InFlight => \/ t \in lost'
                                   \/ run'[s].pc \notin Reported
                                   \/ run[s].pc \in Reported /\ lost' = lost
    PROVE  NothingAbandoned'
<1> SUFFICES ASSUME NEW u \in Task, row'[u] \in InFlight PROVE Covered(u)'
  BY CoveredNext
<1>1. Covered(u)
  BY CoveredMeans
<1>2. \A r \in Slot : r # s /\ Covers(r, u) => Covers(r, u)'
  BY DEF Covers, Keeps, Only
<1>3. CASE u # t
  <2>1. ~ Covers(s, u)
    BY <1>3 DEF Covers
  <2> QED
    BY <1>1, <1>2, <1>3, <2>1 DEF Covered
<1>4. CASE u = t /\ t \in lost'
  BY <1>4 DEF Covered
<1>5. CASE u = t /\ run'[s].pc \notin Reported
  <2>1. Covers(s, u)'
    BY <1>5 DEF Covers, Keeps
  <2> QED
    BY <2>1 DEF Covered
<1>6. CASE u = t /\ run[s].pc \in Reported /\ lost' = lost
  <2>1. ~ Covers(s, u)
    BY <1>6 DEF Covers
  <2> QED
    BY <1>1, <1>2, <1>6, <2>1 DEF Covered
<1> QED
  BY <1>3, <1>4, <1>5, <1>6

\* Nothing here loses anything.
LEMMA SameCovered ==
    ASSUME NothingAbandoned, UNCHANGED run,
           poller.tasks \subseteq poller'.tasks \cup lost', lost \subseteq lost' \cup poller'.tasks,
           \A t \in Task : row'[t] \in InFlight => row[t] \in InFlight \/ t \in poller'.tasks
    PROVE  NothingAbandoned'
<1> SUFFICES ASSUME NEW t \in Task, row'[t] \in InFlight PROVE Covered(t)'
  BY CoveredNext
<1>1. \A r \in Slot : Covers(r, t)' <=> Covers(r, t)
  BY DEF Covers
<1>2. CASE t \in poller'.tasks
  BY <1>2 DEF Covered
<1>3. CASE row[t] \in InFlight
  <2>1. Covered(t)
    BY <1>3, CoveredMeans
  <2> QED
    BY <1>1, <2>1 DEF Covered
<1> QED
  BY <1>2, <1>3

\* Rows and goroutines are left alone.
LEMMA SameRows ==
    ASSUME Accounting, RowInv, UNCHANGED <<row, lost, run>>, UNCHANGED poller \/ poller'.tasks = poller.tasks
    PROVE  RowInv'
<1>1. RowPlaces'
  BY RowPlacesKept DEF RowInv, Onward
<1>2. OneAgentPerTask'
  BY DEF RowInv, OneAgentPerTask, At
<1>3. NothingAbandoned'
  BY SameCovered DEF RowInv
<1> QED
  BY <1>1, <1>2, <1>3 DEF RowInv

\* No row is in flight.
LEMMA RowInit == Init => RowInv
<1> SUFFICES ASSUME Init PROVE RowInv
  OBVIOUS
<1>1. /\ run = [s \in Slot |-> NoRun] /\ \A t \in Task : row[t] = "closed"
  BY DEF Init, Fresh
<1>2. \A s \in Slot : run[s].pc = "none" /\ run[s].seen = FALSE
  BY <1>1 DEF NoRun
<1> QED
  BY <1>1, <1>2 DEF RowInv, RowPlaces, RowPlace, OneAgentPerTask, NothingAbandoned, InFlight, At

\* Every step keeps them: who stops reporting has closed the row, seen it closed, or lost a call.
LEMMA RowStep ==
    ASSUME TypeOK, Accounting, RowInv, [Next]_vars
    PROVE  RowInv'
<1>a. RowPlaces /\ OneAgentPerTask /\ NothingAbandoned
  BY DEF RowInv
<1>b. \A s \in Slot : run[s].pc # "none" => run[s].task \in Task
  BY DEF Accounting, Tasked
<1>c. \A t \in Task : row[t] \in Status
  BY DEF TypeOK
<1>d. poller.tasks \subseteq Task /\ poller.slots \subseteq Slot
  BY DEF TypeOK, Poller
<1>e. \A s \in Slot : Returning(s) \in Reported
  BY DEF Returning, Reported
<1>1. CASE TakeSlots
  BY <1>1, SameRows DEF TakeSlots, slots, server, TypeOK, Poller, IdlePoller, Accounting, PollerHolds
<1>2. CASE TryEnterClaim
  <2>1. /\ UNCHANGED <<run, row, lost>> /\ poller.tasks = {}
    BY <1>2 DEF TryEnterClaim, server, Accounting, PollerHolds
  <2>2. poller'.tasks = {}
    BY <1>2, <2>1 DEF TryEnterClaim, TypeOK, Poller, IdlePoller
  <2> QED
    BY <2>1, <2>2, SameRows
<1>3. CASE ServeClaim
  <2>1. PICK T \in SUBSET {t \in Task : row[t] \in {"queued", "dispatched"}} :
           /\ row' = [t \in Task |-> IF t \in T THEN "dispatched" ELSE row[t]]
           /\ lost' = lost \ T
           /\ poller' = [poller EXCEPT !.pc = "answer", !.tasks = T]
    BY <1>3 DEF ServeClaim
  <2>2. poller'.tasks = T /\ poller.tasks = {} /\ UNCHANGED run /\ Onward
    BY <1>3, <2>1 DEF ServeClaim, TypeOK, Poller, Accounting, PollerHolds, Onward
  <2>3. RowPlaces' /\ OneAgentPerTask'
    BY <1>a, <2>2, RowPlacesKept DEF OneAgentPerTask, At
  <2>4. NothingAbandoned'
    BY <1>a, <2>1, <2>2, SameCovered
  <2> QED
    BY <2>3, <2>4 DEF RowInv
<1>4. CASE ClaimReturns
  <2>1. UNCHANGED <<run, row>> /\ Onward
    BY <1>4 DEF ClaimReturns, Onward
  <2>2. RowPlaces' /\ OneAgentPerTask'
    BY <1>a, <2>1, RowPlacesKept DEF OneAgentPerTask, At
  <2>3. CASE lost' = lost /\ poller'.tasks = poller.tasks
    BY <1>a, <2>1, <2>2, <2>3, SameCovered DEF RowInv
  <2>4. CASE lost' = lost \cup {t \in poller.tasks : row[t] \in InFlight}
    <3> SUFFICES ASSUME NEW t \in Task, row'[t] \in InFlight PROVE Covered(t)'
      BY <2>2, CoveredNext DEF RowInv
    <3>1. Covered(t)
      BY <1>a, <2>1, CoveredMeans
    <3> QED
      BY <2>1, <2>4, <3>1 DEF Covered, Covers
  <2> QED
    BY <1>4, <2>3, <2>4 DEF ClaimReturns, TypeOK, Poller
<1>5. ASSUME NEW t \in Task, NEW s \in Slot, Dispatch(t, s) PROVE RowInv'
  <2>1. /\ Only(s) /\ run'[s].task = t /\ run'[s].pc = "acquire" /\ run'[s].seen = FALSE
        /\ UNCHANGED <<row, lost>> /\ Onward /\ run[s].pc = "none" /\ run[s].task = NoTask
    <3>1. Only(s) /\ run'[s].task = t /\ run'[s].pc = "acquire" /\ run'[s].seen = FALSE
      BY <1>5, Dispatched
    <3>2. UNCHANGED <<row, lost>> /\ s \in poller.slots
      BY <1>5 DEF Dispatch, server
    <3>3. Onward
      BY <3>2 DEF Onward
    <3>4. s \notin Busy
      BY <3>2 DEF Accounting, SlotsConserved
    <3>5. run[s].pc = "none"
      BY <3>4 DEF Busy
    <3>6. run[s].task = NoTask
      BY <3>5 DEF Accounting, Tasked
    <3> QED
      BY <3>1, <3>2, <3>3, <3>5, <3>6
  <2>2. RowPlace(s)' /\ ~ At(s, "agent")'
    BY <2>1 DEF RowPlace, At
  <2>3. RowPlaces' /\ OneAgentPerTask'
    BY <1>a, <2>1, <2>2, OneRowPlace, SameAgents
  <2>4. poller'.tasks = poller.tasks \ {t}
    BY <1>5 DEF Dispatch, TypeOK, Poller
  <2>5. ASSUME NEW u \in Task, row'[u] \in InFlight PROVE Covered(u)'
    <3>1. Covered(u)
      BY <1>a, <2>1, <2>5, CoveredMeans
    <3>2. Covers(s, t)' /\ ~ Covers(s, u)
      BY <2>1, DaemonAssumption DEF Covers, Reported
    <3>3. \A r \in Slot : r # s /\ Covers(r, u) => Covers(r, u)'
      BY <2>1 DEF Covers, Only
    <3> QED
      BY <2>1, <2>4, <3>1, <3>2, <3>3 DEF Covered
  <2> QED
    BY <2>3, <2>5, CoveredNext DEF RowInv
<1>6. CASE ExitClaim
  BY <1>6, SameRows DEF ExitClaim, slots, server, TypeOK, Poller, IdlePoller, Accounting, PollerHolds
<1>7. CASE PollerStops
  BY <1>7, SameRows DEF PollerStops, slots, server, TypeOK, Poller, IdlePoller, Accounting, PollerHolds
<1>8. ASSUME NEW s \in Slot, Acquire(s) PROVE RowInv'
  <2>1. Keeps(s) /\ Only(s) /\ UNCHANGED poller /\ run[s].pc # "none" /\ run[s].task \in Task
    BY <1>8, <1>b, RunStays DEF Stays, Keeps, Fixed
  <2>2. UNCHANGED <<row, lost>> /\ Onward
    BY <1>8 DEF Acquire, server, Onward
  <2>3. RowPlace(s)'
    BY <1>8, <1>a, <2>1, <2>2, RunBranches DEF Acquire, After, Seen, Keeps, RowPlaces, RowPlace, At, Reported
  <2>4. RowPlaces'
    BY <1>a, <2>1, <2>2, <2>3, OneRowPlace
  <2>5. OneAgentPerTask'
    <3>1. At(s, "agent")' => At(s, "agent") /\ run'[s].task = run[s].task
      BY <1>8, <2>1, RunBranches DEF Acquire, After, Keeps, At, Reported
    <3> QED
      BY <1>a, <2>1, <3>1, SameAgents
  <2>6. run'[s].pc \notin Reported \/ run[s].pc \in Reported
    BY <1>8, RunBranches DEF Acquire, After, Reported, At
  <2>7. NothingAbandoned'
    BY <1>a, <2>1, <2>2, <2>6, RowCovered
  <2> QED
    BY <2>4, <2>5, <2>7 DEF RowInv
<1>9. ASSUME NEW s \in Slot, MarkWaiting(s) PROVE RowInv'
  <2>1. Keeps(s) /\ Only(s) /\ UNCHANGED poller /\ run[s].pc # "none" /\ run[s].task \in Task
    BY <1>9, <1>b, RunStays DEF Stays, Keeps, Fixed
  <2>2. /\ lost' = lost /\ Onward
        /\ \A t \in Task : row'[t] \in InFlight => row[t] \in InFlight
    BY <1>9, <2>1, <1>c DEF MarkWaiting, TypeOK, Onward, InFlight
  <2>3. RowPlace(s)'
    BY <1>9, <1>a, <2>1, <2>2, RunMoves DEF MarkWaiting, After, Seen, Keeps, RowPlaces, RowPlace, At, Reported, TypeOK
  <2>4. RowPlaces'
    BY <1>a, <2>1, <2>2, <2>3, OneRowPlace
  <2>5. OneAgentPerTask'
    <3>1. At(s, "agent")' => At(s, "agent") /\ run'[s].task = run[s].task
      BY <1>9, <2>1, RunMoves DEF MarkWaiting, After, Keeps, At, Reported
    <3> QED
      BY <1>a, <2>1, <3>1, SameAgents
  <2>6. run'[s].pc \notin Reported \/ run[s].pc \in Reported
    BY <1>9, RunMoves DEF MarkWaiting, After, Reported, At
  <2>7. NothingAbandoned'
    BY <1>a, <2>1, <2>2, <2>6, RowCovered
  <2> QED
    BY <2>4, <2>5, <2>7 DEF RowInv
<1>10. ASSUME NEW s \in Slot, LockGranted(s) PROVE RowInv'
  <2>1. Keeps(s) /\ Only(s) /\ UNCHANGED poller /\ run[s].pc # "none" /\ run[s].task \in Task
    BY <1>10, <1>b, RunStays DEF Stays, Keeps, Fixed
  <2>2. UNCHANGED <<row, lost>> /\ Onward
    BY <1>10 DEF LockGranted, server, Onward
  <2>3. RowPlace(s)'
    BY <1>10, <1>a, <2>1, <2>2, RunMoves DEF LockGranted, After, Seen, Keeps, RowPlaces, RowPlace, At, Reported
  <2>4. RowPlaces'
    BY <1>a, <2>1, <2>2, <2>3, OneRowPlace
  <2>5. OneAgentPerTask'
    <3>1. At(s, "agent")' => At(s, "agent") /\ run'[s].task = run[s].task
      BY <1>10, <2>1, RunMoves DEF LockGranted, After, Keeps, At, Reported
    <3> QED
      BY <1>a, <2>1, <3>1, SameAgents
  <2>6. run'[s].pc \notin Reported \/ run[s].pc \in Reported
    BY <1>10, RunMoves DEF LockGranted, After, Reported, At
  <2>7. NothingAbandoned'
    BY <1>a, <2>1, <2>2, <2>6, RowCovered
  <2> QED
    BY <2>4, <2>5, <2>7 DEF RowInv
<1>11. ASSUME NEW s \in Slot, WaitEnds(s) PROVE RowInv'
  <2>1. Keeps(s) /\ Only(s) /\ UNCHANGED poller /\ run[s].pc # "none" /\ run[s].task \in Task
    BY <1>11, <1>b, RunStays DEF Stays, Keeps, Fixed
  <2>2. UNCHANGED <<row, lost>> /\ Onward
    BY <1>11 DEF WaitEnds, server, Onward
  <2>3. RowPlace(s)'
    BY <1>11, <1>a, <2>1, <2>2, RunMoves DEF WaitEnds, After, Seen, Keeps, RowPlaces, RowPlace, At, Reported
  <2>4. RowPlaces'
    BY <1>a, <2>1, <2>2, <2>3, OneRowPlace
  <2>5. OneAgentPerTask'
    <3>1. At(s, "agent")' => At(s, "agent") /\ run'[s].task = run[s].task
      BY <1>11, <2>1, RunMoves DEF WaitEnds, After, Keeps, At, Reported
    <3> QED
      BY <1>a, <2>1, <3>1, SameAgents
  <2>6. run'[s].pc \notin Reported \/ run[s].pc \in Reported
    BY <1>11, RunMoves DEF WaitEnds, After, Reported, At
  <2>7. NothingAbandoned'
    BY <1>a, <2>1, <2>2, <2>6, RowCovered
  <2> QED
    BY <2>4, <2>5, <2>7 DEF RowInv
<1>12. ASSUME NEW s \in Slot, WaitAborted(s) PROVE RowInv'
  <2>1. Keeps(s) /\ Only(s) /\ UNCHANGED poller /\ run[s].pc # "none" /\ run[s].task \in Task
    BY <1>12, <1>b, RunStays DEF Stays, Keeps, Fixed
  <2>2. UNCHANGED <<row, lost>> /\ Onward
    BY <1>12 DEF WaitAborted, server, Onward
  <2>3. RowPlace(s)'
    BY <1>12, <1>a, <2>1, <2>2, RunMoves DEF WaitAborted, After, Seen, Keeps, RowPlaces, RowPlace, At, Reported
  <2>4. RowPlaces'
    BY <1>a, <2>1, <2>2, <2>3, OneRowPlace
  <2>5. OneAgentPerTask'
    <3>1. At(s, "agent")' => At(s, "agent") /\ run'[s].task = run[s].task
      BY <1>12, <2>1, RunMoves DEF WaitAborted, After, Keeps, At, Reported
    <3> QED
      BY <1>a, <2>1, <3>1, SameAgents
  <2>6. row'[run[s].task] \in InFlight => run'[s].pc \notin Reported
    BY <1>12, <1>a, <2>1, <2>2, RunMoves DEF WaitAborted, After, RowPlaces, RowPlace, Reported, InFlight
  <2>7. NothingAbandoned'
    BY <1>a, <2>1, <2>2, <2>6, RowCovered
  <2> QED
    BY <2>4, <2>5, <2>7 DEF RowInv
<1>13. ASSUME NEW d \in Dir, PhantomLocks(d) PROVE RowInv'
  BY <1>13, SameRows DEF PhantomLocks, slots, server
<1>14. ASSUME NEW d \in Dir, PhantomUnlocks(d) PROVE RowInv'
  BY <1>14, SameRows DEF PhantomUnlocks, slots, server
<1>15. ASSUME NEW s \in Slot, NameHolder(s) PROVE RowInv'
  <2>1. Keeps(s) /\ Only(s) /\ UNCHANGED poller /\ run[s].pc # "none" /\ run[s].task \in Task
    BY <1>15, <1>b, RunStays DEF Stays, Keeps, Fixed
  <2>2. UNCHANGED <<row, lost>> /\ Onward
    BY <1>15 DEF NameHolder, server, Onward
  <2>3. RowPlace(s)'
    BY <1>15, <1>a, <2>1, <2>2, RunMoves DEF NameHolder, After, Seen, Keeps, RowPlaces, RowPlace, At, Reported
  <2>4. RowPlaces'
    BY <1>a, <2>1, <2>2, <2>3, OneRowPlace
  <2>5. OneAgentPerTask'
    <3>1. At(s, "agent")' => At(s, "agent") /\ run'[s].task = run[s].task
      BY <1>15, <2>1, RunMoves DEF NameHolder, After, Keeps, At, Reported
    <3> QED
      BY <1>a, <2>1, <3>1, SameAgents
  <2>6. run'[s].pc \notin Reported \/ run[s].pc \in Reported
    BY <1>15, RunMoves DEF NameHolder, After, Reported, At
  <2>7. NothingAbandoned'
    BY <1>a, <2>1, <2>2, <2>6, RowCovered
  <2> QED
    BY <2>4, <2>5, <2>7 DEF RowInv
<1>16. ASSUME NEW s \in Slot, Release(s) PROVE RowInv'
  <2>1. Keeps(s) /\ Only(s) /\ UNCHANGED poller /\ run[s].pc # "none" /\ run[s].task \in Task
    BY <1>16, <1>b, RunStays DEF Stays, Keeps, Fixed
  <2>2. UNCHANGED <<row, lost>> /\ Onward
    BY <1>16 DEF Release, server, Onward
  <2>3. RowPlace(s)'
    BY <1>16, <1>a, <2>1, <2>2, RunBranches DEF Release, After, Seen, Keeps, RowPlaces, RowPlace, At, Reported
  <2>4. RowPlaces'
    BY <1>a, <2>1, <2>2, <2>3, OneRowPlace
  <2>5. OneAgentPerTask'
    <3>1. At(s, "agent")' => At(s, "agent") /\ run'[s].task = run[s].task
      BY <1>16, <2>1, RunBranches DEF Release, After, Keeps, At, Reported
    <3> QED
      BY <1>a, <2>1, <3>1, SameAgents
  <2>6. run'[s].pc \notin Reported \/ run[s].pc \in Reported
    BY <1>16, RunBranches DEF Release, After, Reported, At
  <2>7. NothingAbandoned'
    BY <1>a, <2>1, <2>2, <2>6, RowCovered
  <2> QED
    BY <2>4, <2>5, <2>7 DEF RowInv
<1>17. ASSUME NEW s \in Slot, Watch(s) PROVE RowInv'
  <2>1. Keeps(s) /\ Only(s) /\ UNCHANGED poller /\ run[s].pc # "none" /\ run[s].task \in Task
    BY <1>17, <1>b, RunStays DEF Stays, Keeps, Fixed
  <2>2. UNCHANGED <<row, lost>> /\ Onward
    BY <1>17 DEF Watch, server, Onward
  <2>3. RowPlace(s)'
    BY <1>17, <1>a, <2>1, <2>2, RunMoves DEF Watch, After, Seen, Keeps, RowPlaces, RowPlace, At, Reported
  <2>4. RowPlaces'
    BY <1>a, <2>1, <2>2, <2>3, OneRowPlace
  <2>5. OneAgentPerTask'
    <3>1. At(s, "agent")' => At(s, "agent") /\ run'[s].task = run[s].task
      BY <1>17, <2>1, RunMoves DEF Watch, After, Keeps, At, Reported
    <3> QED
      BY <1>a, <2>1, <3>1, SameAgents
  <2>6. run'[s].pc \notin Reported \/ run[s].pc \in Reported
    BY <1>17, RunMoves DEF Watch, After, Reported, At
  <2>7. NothingAbandoned'
    BY <1>a, <2>1, <2>2, <2>6, RowCovered
  <2> QED
    BY <2>4, <2>5, <2>7 DEF RowInv
<1>18. ASSUME NEW s \in Slot, StartTask(s) PROVE RowInv'
  <2>1. Keeps(s) /\ Only(s) /\ UNCHANGED poller /\ run[s].pc # "none" /\ run[s].task \in Task
    BY <1>18, <1>b, RunStays DEF Stays, Keeps, Fixed
  <2>2. /\ lost' = lost /\ Onward
        /\ \A t \in Task : row'[t] \in InFlight => row[t] \in InFlight
    BY <1>18, <2>1, <1>c DEF StartTask, TypeOK, Onward, InFlight, Startable
  <2>3. RowPlace(s)'
    <3>1. CASE After(s, "settle", run[s].lock)
      <4>1. Seen(s, run[s].seen)
        BY <1>18, RunBranches
      <4>2. run[s].seen => row'[run[s].task] = "closed"
        BY <1>a, <2>1, <2>2 DEF RowPlaces, RowPlace, Onward
      <4> QED
        BY <3>1, <4>1, <4>2 DEF After, Seen, Keeps, RowPlace, At
    <3>2. CASE After(s, "agent", run[s].lock) /\ row[run[s].task] \in Startable
               /\ row' = [row EXCEPT ![run[s].task] = "running"]
      BY <1>18, <1>a, <2>1, <3>2, RunBranches DEF After, Seen, Keeps, RowPlaces, RowPlace, At, Startable, TypeOK
    <3> QED
      BY <1>18, <3>1, <3>2, RunBranches
  <2>4. RowPlaces'
    BY <1>a, <2>1, <2>2, <2>3, OneRowPlace
  <2>5. OneAgentPerTask'
    <3>1. CASE After(s, "settle", run[s].lock)
      BY <1>a, <2>1, <3>1, SameAgents DEF After, At
    <3>2. CASE After(s, "agent", run[s].lock) /\ row[run[s].task] \in Startable
      <4>1. \A r \in Slot : At(r, "agent") => run[r].task # run[s].task
        BY <1>a, <3>2 DEF RowPlaces, RowPlace, Startable
      <4> QED
        BY <1>a, <3>2, <4>1 DEF After, Keeps, Only, OneAgentPerTask, At
    <3> QED
      BY <1>18, <3>1, <3>2, RunBranches
  <2>6. run'[s].pc \notin Reported \/ run[s].pc \in Reported
    BY <1>18, RunBranches DEF StartTask, After, Reported, At
  <2>7. NothingAbandoned'
    BY <1>a, <2>1, <2>2, <2>6, RowCovered
  <2> QED
    BY <2>4, <2>5, <2>7 DEF RowInv
<1>19. ASSUME NEW s \in Slot, AgentEnds(s) PROVE RowInv'
  <2>1. Keeps(s) /\ Only(s) /\ UNCHANGED poller /\ run[s].pc # "none" /\ run[s].task \in Task
    BY <1>19, <1>b, RunStays DEF Stays, Keeps, Fixed
  <2>2. UNCHANGED <<row, lost>> /\ Onward
    BY <1>19 DEF AgentEnds, server, Onward
  <2>3. RowPlace(s)'
    BY <1>19, <1>a, <2>1, <2>2, RunMoves DEF AgentEnds, After, Seen, Keeps, RowPlaces, RowPlace, At, Reported
  <2>4. RowPlaces'
    BY <1>a, <2>1, <2>2, <2>3, OneRowPlace
  <2>5. OneAgentPerTask'
    <3>1. At(s, "agent")' => At(s, "agent") /\ run'[s].task = run[s].task
      BY <1>19, <2>1, RunMoves DEF AgentEnds, After, Keeps, At, Reported
    <3> QED
      BY <1>a, <2>1, <3>1, SameAgents
  <2>6. run'[s].pc \notin Reported \/ run[s].pc \in Reported
    BY <1>19, RunMoves DEF AgentEnds, After, Reported, At
  <2>7. NothingAbandoned'
    BY <1>a, <2>1, <2>2, <2>6, RowCovered
  <2> QED
    BY <2>4, <2>5, <2>7 DEF RowInv
<1>20. ASSUME NEW s \in Slot, Settled(s) PROVE RowInv'
  <2>1. Keeps(s) /\ Only(s) /\ UNCHANGED poller /\ run[s].pc # "none" /\ run[s].task \in Task
    BY <1>20, <1>b, RunStays DEF Stays, Keeps, Fixed
  <2>2. UNCHANGED <<row, lost>> /\ Onward
    BY <1>20 DEF Settled, server, Onward
  <2>3. RowPlace(s)'
    BY <1>20, <1>a, <2>1, <2>2, RunBranches, <1>e DEF Settled, After, Seen, Keeps, RowPlaces, RowPlace, At, Reported
  <2>4. RowPlaces'
    BY <1>a, <2>1, <2>2, <2>3, OneRowPlace
  <2>5. OneAgentPerTask'
    <3>1. At(s, "agent")' => At(s, "agent") /\ run'[s].task = run[s].task
      BY <1>20, <2>1, RunBranches, <1>e DEF Settled, After, Keeps, At, Reported
    <3> QED
      BY <1>a, <2>1, <3>1, SameAgents
  <2>6. row'[run[s].task] \in InFlight => run'[s].pc \notin Reported
    BY <1>20, <1>a, <2>1, <2>2, RunBranches DEF Settled, After, RowPlaces, RowPlace, Reported, InFlight
  <2>7. NothingAbandoned'
    BY <1>a, <2>1, <2>2, <2>6, RowCovered
  <2> QED
    BY <2>4, <2>5, <2>7 DEF RowInv
<1>21. ASSUME NEW s \in Slot, CompleteTask(s) PROVE RowInv'
  <2>1. Keeps(s) /\ Only(s) /\ UNCHANGED poller /\ run[s].pc # "none" /\ run[s].task \in Task
    BY <1>21, <1>b, RunStays DEF Stays, Keeps, Fixed
  <2>2. /\ Onward /\ \A t \in Task : row'[t] \in InFlight => row[t] \in InFlight
        /\ \A t \in Task : t \in lost /\ t # run[s].task => t \in lost'
        /\ row'[run[s].task] \in InFlight => run[s].task \in lost' \/ run'[s].pc \notin Reported
    <3>1. CASE Close(run[s].task)
      BY <2>1, <3>1 DEF Close, TypeOK, Onward, InFlight
    <3>2. CASE Leave(run[s].task) /\ UNCHANGED row
      BY <2>1, <3>2 DEF Leave, Onward
    <3>3. CASE UNCHANGED server /\ After(s, "fail", run[s].lock)
      BY <3>3 DEF server, Onward, After, Reported
    <3> QED
      BY <1>21, <3>1, <3>2, <3>3, RunBranches
  <2>3. RowPlace(s)'
    BY <1>21, <1>a, <2>1, <2>2, RunBranches, <1>e DEF CompleteTask, After, Seen, Keeps, RowPlaces, RowPlace, At, Reported
  <2>4. RowPlaces'
    BY <1>a, <2>1, <2>2, <2>3, OneRowPlace
  <2>5. OneAgentPerTask'
    <3>1. At(s, "agent")' => At(s, "agent") /\ run'[s].task = run[s].task
      BY <1>21, <2>1, RunBranches, <1>e DEF CompleteTask, After, Keeps, At, Reported
    <3> QED
      BY <1>a, <2>1, <3>1, SameAgents
  <2>6. NothingAbandoned'
    BY <1>a, <2>1, <2>2, RowCovered
  <2> QED
    BY <2>4, <2>5, <2>6 DEF RowInv
<1>22. ASSUME NEW s \in Slot, FailTask(s) PROVE RowInv'
  <2>1. Keeps(s) /\ Only(s) /\ UNCHANGED poller /\ run[s].pc # "none" /\ run[s].task \in Task
    BY <1>22, <1>b, RunStays DEF Stays, Keeps, Fixed
  <2>2. /\ Onward /\ \A t \in Task : row'[t] \in InFlight => row[t] \in InFlight
        /\ \A t \in Task : t \in lost /\ t # run[s].task => t \in lost'
        /\ row'[run[s].task] \in InFlight => run[s].task \in lost' \/ run'[s].pc \notin Reported
    <3>1. CASE Close(run[s].task)
      BY <2>1, <3>1 DEF Close, TypeOK, Onward, InFlight
    <3>2. CASE Leave(run[s].task) /\ UNCHANGED row
      BY <2>1, <3>2 DEF Leave, Onward
    <3> QED
      BY <1>22, <3>1, <3>2 DEF FailTask
  <2>3. RowPlace(s)'
    BY <1>22, <1>a, <2>1, <2>2, RunMoves, <1>e DEF FailTask, After, Seen, Keeps, RowPlaces, RowPlace, At, Reported
  <2>4. RowPlaces'
    BY <1>a, <2>1, <2>2, <2>3, OneRowPlace
  <2>5. OneAgentPerTask'
    <3>1. At(s, "agent")' => At(s, "agent") /\ run'[s].task = run[s].task
      BY <1>22, <2>1, RunMoves, <1>e DEF FailTask, After, Keeps, At, Reported
    <3> QED
      BY <1>a, <2>1, <3>1, SameAgents
  <2>6. NothingAbandoned'
    BY <1>a, <2>1, <2>2, RowCovered
  <2> QED
    BY <2>4, <2>5, <2>6 DEF RowInv
<1>23. ASSUME NEW s \in Slot, FreeSlot(s) PROVE RowInv'
  <2>1. /\ Only(s) /\ run'[s].pc = "none" /\ run'[s].seen = FALSE /\ run[s].pc = "free"
        /\ UNCHANGED <<row, lost, poller>> /\ Onward
    BY <1>23, Freed DEF FreeSlot, server, Onward, At
  <2>2. RowPlace(s)' /\ ~ At(s, "agent")'
    BY <2>1 DEF RowPlace, At
  <2>3. RowPlaces' /\ OneAgentPerTask'
    BY <1>a, <2>1, <2>2, OneRowPlace, SameAgents
  <2>4. ASSUME NEW u \in Task, row'[u] \in InFlight PROVE Covered(u)'
    <3>1. Covered(u) /\ ~ Covers(s, u)
      BY <1>a, <2>1, <2>4, CoveredMeans DEF Covers, Reported
    <3>2. \A r \in Slot : r # s /\ Covers(r, u) => Covers(r, u)'
      BY <2>1 DEF Covers, Only
    <3> QED
      BY <2>1, <3>1, <3>2 DEF Covered
  <2> QED
    BY <2>3, <2>4, CoveredNext DEF RowInv
<1>24. CASE NotActive
  BY <1>24, SameRows DEF NotActive, slots, server
<1>25. CASE FindRelease
  BY <1>25, SameRows DEF FindRelease, slots, server
<1>26. ASSUME NEW u \in Updater, TakeFlag(u) PROVE RowInv'
  BY <1>26, SameRows DEF TakeFlag, slots, server
<1>27. ASSUME NEW u \in Updater, PauseClaims(u) PROVE RowInv'
  BY <1>27, SameRows DEF PauseClaims, slots, server
<1>28. ASSUME NEW u \in Updater, DrainClaims(u) PROVE RowInv'
  BY <1>28, SameRows DEF DrainClaims, slots, server
<1>29. CASE TrySetClaimBarrier
  BY <1>29, SameRows DEF TrySetClaimBarrier, slots, server
<1>30. ASSUME NEW u \in Updater, UpgradeFails(u) PROVE RowInv'
  BY <1>30, SameRows DEF UpgradeFails, slots, server
<1>31. ASSUME NEW u \in Updater, UpgradeRestarts(u) PROVE RowInv'
  BY <1>31, SameRows DEF UpgradeRestarts, slots, server
<1>32. ASSUME NEW u \in Updater, RestartFails(u) PROVE RowInv'
  BY <1>32, SameRows DEF RestartFails, slots, server
<1>33. ASSUME NEW u \in Updater, DropFlag(u) PROVE RowInv'
  BY <1>33, SameRows DEF DropFlag, slots, server
<1>34. CASE Sigterm
  BY <1>34, SameRows DEF Sigterm, slots, server
<1>35. CASE Gone
  <2>1. /\ run' = [r \in Slot |-> NoRun] /\ row' = row
        /\ lost' = {t \in Task : row[t] \in InFlight}
    BY <1>35 DEF Gone, Fresh
  <2>2. \A r \in Slot : run'[r].pc = "none" /\ run'[r].seen = FALSE
    BY <2>1 DEF NoRun
  <2>3. RowPlaces' /\ OneAgentPerTask'
    BY <2>2 DEF RowPlaces, RowPlace, OneAgentPerTask, At
  <2>4. NothingAbandoned'
    BY <2>1 DEF NothingAbandoned
  <2> QED
    BY <2>3, <2>4 DEF RowInv
<1>36. CASE Restart
  <2>1. UNCHANGED <<run, poller>>
    BY <1>36 DEF Restart, slots
  <2>2. CASE UNCHANGED server
    BY <2>1, <2>2, SameRows DEF server
  <2>3. CASE row' = [t \in Task |-> IF row[t] \in InFlight THEN "closed" ELSE row[t]]
    <3>1. Onward /\ \A t \in Task : row'[t] \notin InFlight
      BY <2>3 DEF Onward, InFlight
    <3>2. RowPlaces' /\ OneAgentPerTask'
      BY <1>a, <2>1, <3>1, RowPlacesKept DEF OneAgentPerTask, At
    <3>3. NothingAbandoned'
      BY <3>1 DEF NothingAbandoned
    <3> QED
      BY <3>2, <3>3 DEF RowInv
  <2> QED
    BY <1>36, <2>2, <2>3 DEF Restart
<1>37. ASSUME NEW t \in Task, Enqueue(t) PROVE RowInv'
  <2>1. /\ UNCHANGED <<run, poller, lost>> /\ row' = [row EXCEPT ![t] = "queued"]
        /\ \A s \in Slot : run[s].task # t
    BY <1>37 DEF Enqueue, slots, Held
  <2>2. RowPlaces'
    <3> SUFFICES ASSUME NEW s \in Slot PROVE RowPlace(s)'
      BY DEF RowPlaces
    <3>1. run[s].pc = "none" => ~ run[s].seen /\ ~ At(s, "agent")
      BY <1>a DEF RowPlaces, RowPlace, At
    <3> QED
      BY <1>a, <1>b, <2>1, <3>1 DEF RowPlaces, RowPlace, At, TypeOK
  <2>3. OneAgentPerTask'
    BY <1>a, <2>1 DEF OneAgentPerTask, At
  <2>4. \A u \in Task : row'[u] \in InFlight => row[u] \in InFlight
    BY <2>1 DEF TypeOK, InFlight
  <2>5. NothingAbandoned'
    BY <1>a, <2>1, <2>4, SameCovered
  <2> QED
    BY <2>2, <2>3, <2>5 DEF RowInv
<1>38. ASSUME NEW t \in Task, ServerCloses(t) PROVE RowInv'
  <2>1. /\ UNCHANGED <<run, poller>> /\ row' = [row EXCEPT ![t] = "closed"] /\ lost' = lost \ {t}
    BY <1>38 DEF ServerCloses, Close, slots
  <2>2. Onward /\ \A u \in Task : row'[u] \in InFlight => row[u] \in InFlight /\ u # t
    BY <2>1 DEF TypeOK, Onward, InFlight
  <2>3. RowPlaces' /\ OneAgentPerTask'
    BY <1>a, <2>1, <2>2, RowPlacesKept DEF OneAgentPerTask, At
  <2>4. ASSUME NEW u \in Task, row'[u] \in InFlight PROVE Covered(u)'
    <3>1. Covered(u) /\ u # t
      BY <1>a, <2>2, <2>4, CoveredMeans
    <3> QED
      BY <2>1, <3>1 DEF Covered, Covers
  <2> QED
    BY <2>3, <2>4, CoveredNext DEF RowInv
<1>39. CASE UNCHANGED vars
  BY <1>39, SameRows DEF vars, slots, server
<1> QED
  BY <1>1, <1>2, <1>3, <1>4, <1>5, <1>6, <1>7, <1>8, <1>9, <1>10, <1>11, <1>12, <1>13, <1>14, <1>15, <1>16, <1>17, <1>18, <1>19, <1>20, <1>21, <1>22, <1>23, <1>24, <1>25, <1>26, <1>27, <1>28, <1>29, <1>30, <1>31, <1>32, <1>33, <1>34, <1>35, <1>36, <1>37, <1>38, <1>39 DEF Next, PollerNext, LockNext, RunNext, UpdateNext, Environment, Drained, Killed

-----------------------------------------------------------------------------
(* The inductive invariant and what follows from it.                        *)

IInv ==
    /\ TypeOK /\ Accounting /\ Places /\ Locks
    /\ HolderInv /\ UpdateInv /\ RowInv

\* It holds at first,
LEMMA InvInit == Init => IInv
BY TypeInit, AccountingInit, PlacesInit, LocksInit, HolderInit, UpdateInit, RowInit DEF IInv

\* every step keeps it: the parts in the order in which they rest on one another,
LEMMA InvStep == IInv /\ [Next]_vars => IInv'
<1> SUFFICES ASSUME IInv, [Next]_vars PROVE IInv'
  OBVIOUS
<1>1. TypeOK /\ Accounting /\ Places /\ Locks /\ HolderInv /\ UpdateInv /\ RowInv
  BY DEF IInv
<1>2. Tasked /\ Counts
  BY <1>1 DEF Accounting
<1>3. RunTyped' /\ OtherTypes'
  BY <1>1, <1>2, RunType, OtherType
<1>4. TypeOK'
  BY <1>3 DEF RunTyped, OtherTypes, TypeOK
<1>5. Accounting' /\ Places'
  BY <1>1, AccountingStep, PlacesStep
<1>6. Locks' /\ HolderInv'
  BY <1>1, LocksStep, HolderStep
<1>7. UpdateInv' /\ RowInv'
  BY <1>1, UpdateStep, RowStep
<1> QED
  BY <1>4, <1>5, <1>6, <1>7 DEF IInv

\* and so it always holds.
LEMMA InvHolds == Spec => []IInv
BY InvInit, InvStep, PTL DEF Spec

\* The counters stay natural numbers: no claim is left twice, no goroutine counted
\* down that was not counted up (exitClaim, activeTasks).
THEOREM TypeCorrect == Spec => []TypeOK
<1>1. IInv => TypeOK
  BY DEF IInv
<1> QED
  BY <1>1, InvHolds, PTL

\* For any number of slots, tasks, directories and waits given up: a directory has
\* one owner, and is locked exactly when it has one (LocalPathLocker).
THEOREM DirectoryIsExclusive == Spec => []OneRunPerDirectory
<1>1. IInv => OneRunPerDirectory
  BY LocksMean DEF IInv
<1> QED
  BY <1>1, InvHolds, PTL

\* Holder names the task that has the directory, and nobody when none has.
THEOREM HolderIsTrue == Spec => []HolderIsShown
<1>1. IInv => HolderIsShown
  BY HolderMeans DEF IInv
<1> QED
  BY <1>1, InvHolds, PTL

\* Nothing is claimed, held or run while the binary is replaced, by either path and
\* for any number of updates asked for.
THEOREM UpdateIsAlone == Spec => []UpdateRunsAlone
<1>1. IInv => UpdateRunsAlone
  BY UpdateMeans DEF IInv
<1> QED
  BY <1>1, InvHolds, PTL

\* No slot is lost and none is used twice, whatever fails.
THEOREM SlotsAreConserved == Spec => []SlotsConserved
<1>1. IInv => SlotsConserved
  BY DEF IInv, Accounting
<1> QED
  BY <1>1, InvHolds, PTL

\* A row delivered twice is run by one agent.
THEOREM AgentsAreSingle == Spec => []OneAgentPerTask
<1>1. IInv => OneAgentPerTask
  BY DEF IInv, RowInv
<1> QED
  BY <1>1, InvHolds, PTL

\* A row is left in flight only by a lost call or a dead process.
THEOREM RowsAreReported == Spec => []NothingAbandoned
<1>1. IInv => NothingAbandoned
  BY DEF IInv, RowInv
<1> QED
  BY <1>1, InvHolds, PTL
=============================================================================
