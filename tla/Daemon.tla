-------------------------------- MODULE Daemon --------------------------------
(****************************************************************************)
(* core/internal/daemon: one daemon process, from the claim of a task to    *)
(* its last report.  The batch poller takes slots, claims and hands tasks   *)
(* to goroutines; each waits for the lock of its directory, starts the task *)
(* on the server, runs the agent and reports; updates of the CLI hold the   *)
(* claims back; SIGTERM drains; a killed process leaves its rows behind.    *)
(*                                                                          *)
(* Of the server there is what the daemon sees: the status of each row.     *)
(* TaskQueue has the rest.  A task stands for the successive rows that name *)
(* its directory: it is enqueued anew once nothing here holds it.           *)
(****************************************************************************)
EXTENDS Naturals, FiniteSets

CONSTANTS
    Task, NoTask,
    Slot,           \* MaxConcurrentTasks of them
    Dir, NoDir,
    DirOf,          \* the real path of the local_directory of a task, if any
    Updater,        \* goroutines that may update the CLI
    AutoLoop,       \* the one of autoUpdateLoop; the others are handleUpdate
    MaxPhantoms,    \* bound on the waits given up whose Lock has not returned
    MaxLaggards     \* bound on the goroutines past their slot and still active when
                    \* a claim is served

ASSUME DaemonAssumption ==
    /\ IsFiniteSet(Slot)
    /\ AutoLoop \in Updater
    /\ NoTask \notin Task /\ NoDir \notin Dir
    /\ DirOf \in [Task -> Dir \cup {NoDir}]
    /\ MaxPhantoms \in Nat /\ MaxLaggards \in Nat

VARIABLES
    row,             \* the status of each task on the server
    lost,            \* history: rows a failed call or a dead process left in flight
    phase,           \* serving; stopping: the root context is cancelled; exited
    poller,          \* runBatchPoller
    sem,             \* the free slots
    run,             \* the goroutine of each slot
    mutex,           \* pathLockEntry.mu of each directory
    phantoms,        \* the goroutines of waits given up
    holder,          \* pathLockEntry.holderID
    claimsInFlight, pauseClaims, activeTasks,
    laggards,        \* goroutines that have freed their slot and count as active
    updating, upd    \* the flag, and where each updater is

server == <<row, lost>>
slots == <<poller, sem, run, laggards>>
locks == <<mutex, phantoms, holder>>
gate == <<claimsInFlight, pauseClaims, activeTasks>>
updates == <<updating, upd>>
vars == <<server, phase, slots, locks, gate, updates>>

-----------------------------------------------------------------------------
InFlight == {"dispatched", "waiting", "running"}
Status == InFlight \cup {"queued", "closed"}

\* acquire, mark, wait: in acquireLocalDirectoryLockIfNeeded; name: the lock is
\* taken and holderID not yet set; settle: the runner has returned; complete,
\* fail: about to report; clear, unlock: the releaser; free: the slot.
RunPc == {"none", "acquire", "mark", "wait", "name", "prepare", "agent", "settle",
          "complete", "fail", "clear", "unlock", "free"}

\* lock: blocked and granted are states of the goroutine Acquire waits for.
\* seen: cancelledByPoll is closed.
Run == [task : Task \cup {NoTask}, pc : RunPc,
        lock : {"none", "blocked", "granted", "held"}, seen : BOOLEAN,
        result : {"none", "completed", "failed", "error"}]
NoRun == [task |-> NoTask, pc |-> "none", lock |-> "none", seen |-> FALSE,
          result |-> "none"]

\* slots: taken; claim: the request is on its way; answer: the server has served
\* it; dispatch: handing out what came back.
Poller == [pc : {"idle", "slots", "claim", "answer", "dispatch", "done"},
           slots : SUBSET Slot, tasks : SUBSET Task]
IdlePoller == [pc |-> "idle", slots |-> {}, tasks |-> {}]

\* fetched: an automatic update has found a newer release; begin: it owns the
\* flag; leave: it has still to give it back.
UpdPc == {"idle", "fetched", "begin", "drain", "upgrade", "restarting", "leave"}

TypeOK ==
    /\ row \in [Task -> Status]
    /\ lost \in SUBSET Task
    /\ phase \in {"serving", "stopping", "exited"}
    /\ poller \in Poller
    /\ sem \in SUBSET Slot
    /\ run \in [Slot -> Run]
    /\ mutex \in [Dir -> BOOLEAN]
    /\ phantoms \in [Dir -> [blocked : Nat, granted : Nat]]
    /\ holder \in [Dir -> Task \cup {NoTask}]
    /\ claimsInFlight \in Nat /\ pauseClaims \in BOOLEAN
    /\ activeTasks \in Nat /\ laggards \in Nat
    /\ updating \in BOOLEAN
    /\ upd \in [Updater -> UpdPc]

\* The memory of a process that has just started.
Fresh ==
    [poller |-> IdlePoller, sem |-> Slot, run |-> [s \in Slot |-> NoRun],
     mutex |-> [d \in Dir |-> FALSE],
     phantoms |-> [d \in Dir |-> [blocked |-> 0, granted |-> 0]],
     holder |-> [d \in Dir |-> NoTask],
     upd |-> [u \in Updater |-> "idle"]]

Init ==
    /\ row = [t \in Task |-> "closed"] /\ lost = {}
    /\ phase = "serving"
    /\ poller = Fresh.poller /\ sem = Fresh.sem /\ run = Fresh.run
    /\ mutex = Fresh.mutex /\ phantoms = Fresh.phantoms /\ holder = Fresh.holder
    /\ claimsInFlight = 0 /\ pauseClaims = FALSE
    /\ activeTasks = 0 /\ laggards = 0
    /\ updating = FALSE /\ upd = Fresh.upd

Busy == {s \in Slot : run[s].pc # "none"}
At(s, pc) == run[s].pc = pc
Path(s) == DirOf[run[s].task]
\* The root context is cancelled.
Cancelled == phase = "stopping"

Set(s, r) == run' = [run EXCEPT ![s] = r]
Take(s, pc, lock) == Set(s, [run[s] EXCEPT !.pc = pc, !.lock = lock])
Goto(s, pc) == Take(s, pc, run[s].lock)
\* What the watcher saw and how the agent ended are not asked for again.
Forward(s, pc, lock) ==
    Set(s, [run[s] EXCEPT !.pc = pc, !.lock = lock, !.seen = FALSE, !.result = "none"])
\* handleTask returns: its deferred release, if it has one, comes first.
Returning(s) == IF run[s].lock = "held" THEN "clear" ELSE "free"

Leave(t) ==     \* a call was lost, and t is in flight with nobody to finish it
    lost' = IF row[t] \in InFlight THEN lost \cup {t} ELSE lost
Close(t) ==
    /\ row' = [row EXCEPT ![t] = "closed"]
    /\ lost' = lost \ {t}

-----------------------------------------------------------------------------
(* runBatchPoller.                                                          *)

\* One slot at least, and all the others that are free.
TakeSlots ==
    /\ phase = "serving" /\ poller.pc = "idle" /\ sem # {}
    /\ poller' = [poller EXCEPT !.pc = "slots", !.slots = sem]
    /\ sem' = {}
    /\ UNCHANGED <<server, phase, run, laggards, locks, gate, updates>>

\* Mutated form of TryEnterClaim: the slots are not given back.
TryEnterClaimKeeping ==
    /\ poller.pc = "slots"
    /\ \/ /\ pauseClaims
          /\ poller' = IdlePoller
          /\ UNCHANGED claimsInFlight
       \/ /\ ~ pauseClaims
          /\ claimsInFlight' = claimsInFlight + 1
          /\ poller' = [poller EXCEPT !.pc = "claim"]
    /\ UNCHANGED <<sem, server, phase, run, laggards, locks, pauseClaims, activeTasks, updates>>
TryEnterClaim ==
    /\ poller.pc = "slots"
    /\ \/ /\ pauseClaims
          /\ poller' = IdlePoller
          /\ sem' = sem \cup poller.slots
          /\ UNCHANGED claimsInFlight
       \/ /\ ~ pauseClaims
          /\ claimsInFlight' = claimsInFlight + 1
          /\ poller' = [poller EXCEPT !.pc = "claim"]
          /\ UNCHANGED sem
    /\ UNCHANGED <<server, phase, run, laggards, locks, pauseClaims, activeTasks, updates>>

\* The server serves the claim: queued rows, and dispatched ones whose prepare
\* lease has lapsed, be it that a goroutine here could not renew it.
ServeClaim ==
    /\ poller.pc = "claim" /\ laggards < MaxLaggards
    /\ \E T \in SUBSET {t \in Task : row[t] \in {"queued", "dispatched"}} :
          /\ Cardinality(T) <= Cardinality(poller.slots)
          /\ row' = [t \in Task |-> IF t \in T THEN "dispatched" ELSE row[t]]
          /\ lost' = lost \ T
          /\ poller' = [poller EXCEPT !.pc = "answer", !.tasks = T]
    /\ UNCHANGED <<phase, sem, run, laggards, locks, gate, updates>>

\* Mutated form of ClaimReturns: a claim that fails leaves twice.
ClaimReturnsAndExits ==
    /\ \/ /\ poller.pc = "answer"
          /\ poller' = [poller EXCEPT !.pc = "dispatch"]
          /\ UNCHANGED <<lost, claimsInFlight>>
       \/ /\ poller.pc \in {"claim", "answer"}
          /\ poller' = [poller EXCEPT !.pc = "dispatch", !.tasks = {}]
          /\ lost' = lost \cup {t \in poller.tasks : row[t] \in InFlight}
          /\ claimsInFlight' = claimsInFlight - 1
    /\ UNCHANGED <<row, phase, sem, run, laggards, locks, pauseClaims, activeTasks, updates>>
\* ClaimTasksWSFirst returns: with the tasks, or, the request or the answer
\* having failed, without.
ClaimReturns ==
    /\ \/ /\ poller.pc = "answer"
          /\ poller' = [poller EXCEPT !.pc = "dispatch"]
          /\ UNCHANGED lost
       \/ /\ poller.pc \in {"claim", "answer"}
          /\ poller' = [poller EXCEPT !.pc = "dispatch", !.tasks = {}]
          /\ lost' = lost \cup {t \in poller.tasks : row[t] \in InFlight}
    /\ UNCHANGED <<row, phase, sem, run, laggards, locks, gate, updates>>

Dispatch(t, s) ==
    /\ poller.pc = "dispatch" /\ t \in poller.tasks /\ s \in poller.slots
    /\ activeTasks' = activeTasks + 1
    /\ Set(s, [NoRun EXCEPT !.task = t, !.pc = "acquire"])
    /\ poller' = [poller EXCEPT !.slots = @ \ {s}, !.tasks = @ \ {t}]
    /\ UNCHANGED <<server, phase, sem, laggards, locks, claimsInFlight, pauseClaims, updates>>

\* After the last one, or after a claim that failed; with releaseSlots.
ExitClaim ==
    /\ poller.pc = "dispatch" /\ poller.tasks = {}
    /\ claimsInFlight' = claimsInFlight - 1
    /\ sem' = sem \cup poller.slots
    /\ poller' = IdlePoller
    /\ UNCHANGED <<server, phase, run, laggards, locks, pauseClaims, activeTasks, updates>>

PollerStops ==
    /\ Cancelled /\ poller.pc = "idle"
    /\ poller' = [poller EXCEPT !.pc = "done"]
    /\ UNCHANGED <<server, phase, sem, run, laggards, locks, gate, updates>>

-----------------------------------------------------------------------------
(* acquireLocalDirectoryLockIfNeeded and LocalPathLocker.                   *)

\* No directory; one that fails validation; TryLock.
Acquire(s) ==
    /\ At(s, "acquire")
    /\ \/ /\ Path(s) = NoDir
          /\ Goto(s, "prepare")
          /\ UNCHANGED mutex
       \/ /\ Path(s) # NoDir
          /\ Goto(s, "fail")
          /\ UNCHANGED mutex
       \/ /\ Path(s) # NoDir /\ ~ mutex[Path(s)]
          /\ mutex' = [mutex EXCEPT ![Path(s)] = TRUE]
          /\ Take(s, "name", "held")
       \/ /\ Path(s) # NoDir /\ mutex[Path(s)]
          /\ Goto(s, "mark")
          /\ UNCHANGED mutex
    /\ UNCHANGED <<server, phase, poller, sem, laggards, phantoms, holder, gate, updates>>

\* onWait, which goes on when its call fails; then the goroutine of the wait.
MarkWaiting(s) ==
    /\ At(s, "mark")
    /\ \/ /\ row[run[s].task] = "dispatched"
          /\ row' = [row EXCEPT ![run[s].task] = "waiting"]
       \/ UNCHANGED row
    /\ Take(s, "wait", "blocked")
    /\ UNCHANGED <<lost, phase, poller, sem, laggards, locks, gate, updates>>

\* Lock of that goroutine returns.
LockGranted(s) ==
    /\ At(s, "wait") /\ run[s].lock = "blocked" /\ ~ mutex[Path(s)]
    /\ mutex' = [mutex EXCEPT ![Path(s)] = TRUE]
    /\ Take(s, "wait", "granted")
    /\ UNCHANGED <<server, phase, poller, sem, laggards, phantoms, holder, gate, updates>>

WaitEnds(s) ==
    /\ At(s, "wait") /\ run[s].lock = "granted"
    /\ Forward(s, "name", "held")
    /\ UNCHANGED <<server, phase, poller, sem, laggards, locks, gate, updates>>

\* The goroutine of the wait is left to itself.
Orphan(s) ==
    phantoms' = IF run[s].lock = "granted"
                THEN [phantoms EXCEPT ![Path(s)].granted = @ + 1]
                ELSE [phantoms EXCEPT ![Path(s)].blocked = @ + 1]

\* Mutated form of WaitAborted: a wait cut short is never reported.
WaitAbortedSilently(s) ==
    /\ At(s, "wait") /\ (run[s].seen \/ Cancelled)
    /\ Forward(s, "free", "none")
    /\ Orphan(s)
    /\ UNCHANGED <<server, phase, poller, sem, laggards, mutex, holder, gate, updates>>
\* Given up: silently when the server has closed the row, with a failure when
\* the daemon stops.  The goroutine remains, and may have the lock by now.
WaitAborted(s) ==
    /\ At(s, "wait") /\ (run[s].seen \/ Cancelled)
    /\ Forward(s, IF run[s].seen THEN "free" ELSE "fail", "none")
    /\ Orphan(s)
    /\ UNCHANGED <<server, phase, poller, sem, laggards, mutex, holder, gate, updates>>

PhantomLocks(d) ==
    /\ phantoms[d].blocked > 0 /\ ~ mutex[d]
    /\ mutex' = [mutex EXCEPT ![d] = TRUE]
    /\ phantoms' = [phantoms EXCEPT ![d].blocked = @ - 1, ![d].granted = @ + 1]
    /\ UNCHANGED <<server, phase, slots, holder, gate, updates>>

\* Mutated form of PhantomUnlocks: the goroutine keeps what it got.
PhantomKeeps(d) ==
    /\ phantoms[d].granted > 0
    /\ phantoms' = [phantoms EXCEPT ![d].granted = @ - 1]
    /\ UNCHANGED <<server, phase, slots, mutex, holder, gate, updates>>
PhantomUnlocks(d) ==
    /\ phantoms[d].granted > 0
    /\ phantoms' = [phantoms EXCEPT ![d].granted = @ - 1]
    /\ mutex' = [mutex EXCEPT ![d] = FALSE]
    /\ UNCHANGED <<server, phase, slots, holder, gate, updates>>

NameHolder(s) ==
    /\ At(s, "name")
    /\ holder' = [holder EXCEPT ![Path(s)] = run[s].task]
    /\ Goto(s, "prepare")
    /\ UNCHANGED <<server, phase, poller, sem, laggards, mutex, phantoms, gate, updates>>

\* Mutated form of Release: the lock first, and then the name.
ReleaseUnlocksFirst(s) ==
    /\ \/ /\ At(s, "clear")
          /\ mutex' = [mutex EXCEPT ![Path(s)] = FALSE]
          /\ Take(s, "unlock", "none")
          /\ UNCHANGED holder
       \/ /\ At(s, "unlock")
          /\ holder' = [holder EXCEPT ![Path(s)] = NoTask]
          /\ Goto(s, "free")
          /\ UNCHANGED mutex
    /\ UNCHANGED <<server, phase, poller, sem, laggards, phantoms, gate, updates>>
\* The releaser: the name of the holder, and then the lock.
Release(s) ==
    /\ \/ /\ At(s, "clear")
          /\ holder' = [holder EXCEPT ![Path(s)] = NoTask]
          /\ Goto(s, "unlock")
          /\ UNCHANGED mutex
       \/ /\ At(s, "unlock")
          /\ mutex' = [mutex EXCEPT ![Path(s)] = FALSE]
          /\ Take(s, "free", "none")
          /\ UNCHANGED holder
    /\ UNCHANGED <<server, phase, poller, sem, laggards, phantoms, gate, updates>>

-----------------------------------------------------------------------------
(* handleTask, runTask and the reports.                                     *)

\* watchTaskCancellation: while the goroutine waits, and again while it runs.
Watch(s) ==
    /\ run[s].pc \in {"wait", "prepare", "agent"}
    /\ row[run[s].task] = "closed" /\ ~ run[s].seen
    /\ Set(s, [run[s] EXCEPT !.seen = TRUE])
    /\ UNCHANGED <<server, phase, poller, sem, laggards, locks, gate, updates>>

Settle(s, result) == Set(s, [run[s] EXCEPT !.pc = "settle", !.result = result])
Startable == {"dispatched", "waiting"}

\* Mutated form of StartTask: its error is logged.
StartTaskAnyway(s) ==
    /\ At(s, "prepare")
    /\ \/ /\ row[run[s].task] \in Startable
          /\ row' = [row EXCEPT ![run[s].task] = "running"]
          /\ Goto(s, "agent") \/ Settle(s, "error")
       \/ Goto(s, "agent") /\ UNCHANGED row
    /\ UNCHANGED <<lost, phase, poller, sem, laggards, locks, gate, updates>>
\* The environment is prepared and the row started.  The start may be refused,
\* or commit and its answer be lost; the preparation may fail or be cancelled.
StartTask(s) ==
    /\ At(s, "prepare")
    /\ \/ /\ row[run[s].task] \in Startable
          /\ row' = [row EXCEPT ![run[s].task] = "running"]
          /\ Goto(s, "agent") \/ Settle(s, "error")
       \/ Settle(s, "error") /\ UNCHANGED row
    /\ UNCHANGED <<lost, phase, poller, sem, laggards, locks, gate, updates>>

\* It ends by itself, by its timeout or watchdog, or because it is interrupted.
AgentEnds(s) ==
    /\ At(s, "agent")
    /\ \E result \in {"completed", "failed", "error"} : Settle(s, result)
    /\ UNCHANGED <<server, phase, poller, sem, laggards, locks, gate, updates>>

\* Nothing is reported of a row that was seen closed, then or by the last look
\* before the report, which may fail and is then ignored.
Settled(s) ==
    /\ At(s, "settle")
    /\ \/ /\ \/ run[s].seen
             \/ run[s].result # "error" /\ row[run[s].task] = "closed"
          /\ Forward(s, Returning(s), run[s].lock)
       \/ /\ ~ run[s].seen
          /\ Forward(s, IF run[s].result = "completed" THEN "complete" ELSE "fail", run[s].lock)
    /\ UNCHANGED <<server, phase, poller, sem, laggards, locks, gate, updates>>

\* CompleteTask, retried: done (or closed before); rejected for good, and then
\* reported as a failure; never answered, and the row left as it is.
CompleteTask(s) ==
    /\ At(s, "complete")
    /\ \/ Close(run[s].task) /\ Goto(s, Returning(s))
       \/ Goto(s, "fail") /\ UNCHANGED server
       \/ Leave(run[s].task) /\ Goto(s, Returning(s)) /\ UNCHANGED row
    /\ UNCHANGED <<phase, poller, sem, laggards, locks, gate, updates>>

FailTask(s) ==
    /\ At(s, "fail")
    /\ \/ Close(run[s].task)
       \/ Leave(run[s].task) /\ UNCHANGED row
    /\ Goto(s, Returning(s))
    /\ UNCHANGED <<phase, poller, sem, laggards, locks, gate, updates>>

\* The deferred calls of the goroutine: the slot, and last activeTasks.
FreeSlot(s) ==
    /\ At(s, "free")
    /\ sem' = sem \cup {s}
    /\ Set(s, NoRun)
    /\ laggards' = laggards + 1
    /\ UNCHANGED <<server, phase, poller, locks, gate, updates>>

NotActive ==
    /\ laggards > 0
    /\ laggards' = laggards - 1
    /\ activeTasks' = activeTasks - 1
    /\ UNCHANGED <<server, phase, poller, sem, run, locks, claimsInFlight, pauseClaims, updates>>

-----------------------------------------------------------------------------
(* handleUpdate and tryAutoUpdate.                                          *)

Step(u, pc) == upd' = [upd EXCEPT ![u] = pc]

\* A newer release, and the daemon idle when it was looked up.
FindRelease ==
    /\ phase = "serving" /\ upd[AutoLoop] = "idle"
    /\ ~ updating /\ activeTasks = 0
    /\ Step(AutoLoop, "fetched")
    /\ UNCHANGED <<server, phase, slots, locks, gate, updating>>

\* The CompareAndSwap of both paths; who loses it stops.
TakeFlag(u) ==
    /\ \/ u # AutoLoop /\ upd[u] = "idle" /\ phase = "serving" /\ ~ updating
       \/ u = AutoLoop /\ upd[u] = "fetched"
    /\ updating' = TRUE
    /\ Step(u, IF updating THEN "idle" ELSE "begin")
    /\ UNCHANGED <<server, phase, slots, locks, gate>>

\* tryBeginServerUpdate: new claims are held back, those in flight may end.
PauseClaims(u) ==
    /\ u # AutoLoop /\ upd[u] = "begin"
    /\ IF pauseClaims \/ activeTasks > 0
       THEN Step(u, "leave") /\ UNCHANGED pauseClaims
       ELSE Step(u, "drain") /\ pauseClaims' = TRUE
    /\ UNCHANGED <<server, phase, slots, locks, claimsInFlight, activeTasks, updating>>

\* The claims in flight have ended; what they have brought goes first.
DrainClaims(u) ==
    /\ upd[u] = "drain"
    /\ \/ /\ claimsInFlight = 0 /\ activeTasks = 0
          /\ Step(u, "upgrade") /\ UNCHANGED pauseClaims
       \/ /\ (claimsInFlight = 0 /\ activeTasks > 0) \/ Cancelled
          /\ Step(u, "leave") /\ pauseClaims' = FALSE
    /\ UNCHANGED <<server, phase, slots, locks, claimsInFlight, activeTasks, updating>>

\* Mutated form of TrySetClaimBarrier: claims in flight are not looked at.
TrySetBarrierWhenInactive ==
    /\ upd[AutoLoop] = "begin"
    /\ IF activeTasks > 0
       THEN Step(AutoLoop, "leave") /\ UNCHANGED pauseClaims
       ELSE Step(AutoLoop, "upgrade") /\ pauseClaims' = TRUE
    /\ UNCHANGED <<server, phase, slots, locks, claimsInFlight, activeTasks, updating>>
TrySetClaimBarrier ==
    /\ upd[AutoLoop] = "begin"
    /\ IF claimsInFlight > 0 \/ activeTasks > 0
       THEN Step(AutoLoop, "leave") /\ UNCHANGED pauseClaims
       ELSE Step(AutoLoop, "upgrade") /\ pauseClaims' = TRUE
    /\ UNCHANGED <<server, phase, slots, locks, claimsInFlight, activeTasks, updating>>

UpgradeFails(u) ==
    /\ upd[u] = "upgrade"
    /\ Step(u, "leave")
    /\ pauseClaims' = FALSE
    /\ UNCHANGED <<server, phase, slots, locks, claimsInFlight, activeTasks, updating>>

\* triggerRestart, with the binary replaced.
UpgradeRestarts(u) ==
    /\ upd[u] = "upgrade"
    /\ phase' = "stopping"
    /\ Step(u, "restarting")
    /\ UNCHANGED <<server, slots, locks, gate, updating>>

\* It cannot resolve its executable: handleUpdate finds no RestartBinary and
\* gives everything back, tryAutoUpdate has given up both and returns.
RestartFails(u) ==
    /\ upd[u] = "upgrade"
    /\ IF u = AutoLoop
       THEN Step(u, "idle") /\ UNCHANGED pauseClaims
       ELSE Step(u, "leave") /\ pauseClaims' = FALSE
    /\ UNCHANGED <<server, phase, slots, locks, claimsInFlight, activeTasks, updating>>

DropFlag(u) ==
    /\ upd[u] = "leave"
    /\ updating' = FALSE
    /\ Step(u, "idle")
    /\ UNCHANGED <<server, phase, slots, locks, gate>>

-----------------------------------------------------------------------------
(* The process, the users and the server.                                   *)

Sigterm ==
    /\ phase = "serving"
    /\ phase' = "stopping"
    /\ UNCHANGED <<server, slots, locks, gate, updates>>

Gone ==     \* with all it had in memory
    /\ phase' = "exited"
    /\ lost' = {t \in Task : row[t] \in InFlight}
    /\ poller' = Fresh.poller /\ sem' = Fresh.sem /\ run' = Fresh.run
    /\ mutex' = Fresh.mutex /\ phantoms' = Fresh.phantoms /\ holder' = Fresh.holder
    /\ claimsInFlight' = 0 /\ pauseClaims' = FALSE
    /\ activeTasks' = 0 /\ laggards' = 0
    /\ updating' = FALSE /\ upd' = Fresh.upd
    /\ UNCHANGED row

\* pollLoop: the poller has stopped and the tasks have ended.
Drained ==
    /\ Cancelled /\ poller.pc = "done"
    /\ Busy = {} /\ laggards = 0
    /\ Gone

\* The 30 seconds of the drain are over, or the process is killed.
Killed == phase # "exited" /\ Gone

\* A new process fails the rows of the one before (RecoverOrphans), or does
\* not get through.
Restart ==
    /\ phase = "exited"
    /\ phase' = "serving"
    /\ \/ /\ row' = [t \in Task |-> IF row[t] \in InFlight THEN "closed" ELSE row[t]]
          /\ lost' = {}
       \/ UNCHANGED server
    /\ UNCHANGED <<slots, locks, gate, updates>>

Held(t) == t \in poller.tasks \/ \E s \in Slot : run[s].task = t

Enqueue(t) ==
    /\ row[t] = "closed" /\ ~ Held(t)
    /\ DirOf[t] # NoDir => phantoms[DirOf[t]].blocked < MaxPhantoms
    /\ row' = [row EXCEPT ![t] = "queued"]
    /\ UNCHANGED <<lost, phase, slots, locks, gate, updates>>

\* A cancel or a sweep.
ServerCloses(t) ==
    /\ row[t] # "closed"
    /\ Close(t)
    /\ UNCHANGED <<phase, slots, locks, gate, updates>>

-----------------------------------------------------------------------------
PollerNext ==
    \/ TakeSlots \/ TryEnterClaim \/ ServeClaim \/ ClaimReturns \/ ExitClaim \/ PollerStops
    \/ \E t \in Task, s \in Slot : Dispatch(t, s)

RunNext(s) ==
    \/ Acquire(s) \/ MarkWaiting(s) \/ WaitEnds(s) \/ WaitAborted(s) \/ NameHolder(s)
    \/ StartTask(s) \/ AgentEnds(s) \/ Settled(s) \/ CompleteTask(s) \/ FailTask(s)
    \/ Release(s) \/ FreeSlot(s)

UpdateNext(u) ==
    \/ PauseClaims(u) \/ DrainClaims(u) \/ DropFlag(u)
    \/ UpgradeFails(u) \/ UpgradeRestarts(u) \/ RestartFails(u)

LockNext ==
    \/ \E s \in Slot : LockGranted(s)
    \/ \E d \in Dir : PhantomLocks(d) \/ PhantomUnlocks(d)

Environment ==
    \/ Sigterm \/ Killed \/ Restart
    \/ \E t \in Task : Enqueue(t) \/ ServerCloses(t)

Next ==
    \/ PollerNext \/ LockNext
    \/ \E s \in Slot : RunNext(s) \/ Watch(s)
    \/ NotActive
    \/ FindRelease \/ TrySetClaimBarrier
    \/ \E u \in Updater : TakeFlag(u) \/ UpdateNext(u)
    \/ Drained \/ Environment

Spec == Init /\ [][Next]_vars

-----------------------------------------------------------------------------
(* Properties.                                                              *)

Owns(s) == run[s].lock \in {"granted", "held"}
Owners(d) == {s \in Slot : Owns(s) /\ Path(s) = d}

\* At most one goroutine, of a task or of a wait given up, is past the Lock of a
\* directory; and a locked directory has one that will unlock it
\* (LocalPathLocker).
OneRunPerDirectory ==
    \A d \in Dir :
       Cardinality(Owners(d)) + phantoms[d].granted = IF mutex[d] THEN 1 ELSE 0

\* A directory locked by a task that prepares or runs is shown with that task,
\* and nobody is shown when none holds it (Holder, for the wait reason).
HolderIsShown ==
    \A d \in Dir :
       /\ \A s \in Slot : run[s].lock = "held" /\ Path(s) = d /\ ~ (run[s].pc \in {"name", "unlock"})
             => holder[d] = run[s].task
       /\ holder[d] # NoTask
             => \E s \in Slot : run[s].lock = "held" /\ run[s].task = holder[d] /\ Path(s) = d

\* Nothing is claimed, held or run by this process while it replaces its binary
\* or goes down for the new one, and only one updater does.
UpdateRunsAlone ==
    \A u \in Updater : upd[u] \in {"upgrade", "restarting"} =>
       /\ Busy = {} /\ poller.tasks = {} /\ claimsInFlight = 0
       /\ \A v \in Updater : upd[v] \in {"drain", "upgrade", "restarting"} => v = u

\* Every slot is free, with the poller or with one goroutine.
SlotsConserved ==
    /\ sem \cup poller.slots \cup Busy = Slot
    /\ sem \cap poller.slots = {} /\ (sem \cup poller.slots) \cap Busy = {}

\* Two goroutines may have the same row (its prepare lease had lapsed): only one
\* of them runs the agent.
OneAgentPerTask ==
    \A s, r \in Slot : At(s, "agent") /\ At(r, "agent") /\ run[s].task = run[r].task => s = r

\* A row in flight is with the poller or with a goroutine that will still report
\* on it, unless a call was lost or a process has died.
NothingAbandoned ==
    \A t \in Task : row[t] \in InFlight =>
       \/ t \in lost \/ t \in poller.tasks
       \/ \E s \in Slot : run[s].task = t /\ run[s].pc \notin {"clear", "unlock", "free"}

\* Claims are held back on behalf of an updater that will release them or restart
\* the process: "the caller now holds the barrier and must release it with
\* releaseClaimBarrier on every non-restart exit path" (daemon.go:3359-3362).
BarrierHasOwner ==
    pauseClaims => \E u \in Updater : upd[u] \in {"drain", "upgrade", "restarting"}
=============================================================================
