# Silieco: specifications

Silieco is a platform on which issues, chats and autopilots give work to AI
agents.  A Go server (`src/core`) keeps the work in Postgres, caches in Redis
and may run as several processes; daemons on the users' machines poll it for
tasks, run an agent CLI for each and call back; a desktop app starts and stops
the daemon of its machine.  These modules specify the parts where processes,
goroutines and asynchronous calls race, stop and retry.  They are written from the source; where
the two differ the source is right.

## 1. The system

| Component | State it keeps | Operations | Hard part |
|---|---|---|---|
| **Task queue** (`service/task.go`, `queries/agent.sql`, `handler/daemon.go`, `runtime_sweeper.go`) | `agent_task_queue`: status, attempt, parent, fire_at, dispatched_at, lease | enqueue, claim, reclaim, requeue, lease, wait, start, complete, fail, retry, cancel, rerun, sweep | several servers, lost answers, sweeps against callbacks, a partial unique index |
| **Empty-claim cache** (`empty_claim_cache.go`) | per runtime a verdict and a version in Redis | IsEmpty, CurrentVersion, MarkEmpty, Bump | invalidation race, lost Redis calls, expiry |
| **Runtime liveness** (`heartbeat_scheduler.go`, `runtime_liveness_store.go`, sweeper) | `agent_runtime.status/last_seen_at`, Redis liveness keys, a batch in memory | heartbeat, flush, mark offline, deregister, delete | two stores that disagree |
| **Comment triggers** (`handler/comment.go`) | trigger and coalesced comments of a task, escalations | route, fold into a pending row, reconcile at completion | a comment must be covered by some run |
| **Daemon** (`internal/daemon`) | slots, running tasks, path locks, the claim barrier, the updating flag | poll, dispatch, lock, start, report, update, drain, recover | waits given up, calls whose answer is lost, an update against a claim |
| **Desktop daemon manager** (`apps/desktop/src/main/daemon-manager.ts`, `App.tsx`) | shown state, guard, start attempt, the profile's token and user id | poll, start, stop, restart, sync, clear, re-authenticate, probe | calls that overlap at every await, a guard that refuses, late answers |
| **Scheduler** (`internal/scheduler`) | `sys_cron_executions`: status, attempt, lease | claim, heartbeat, steal, finish, retry, catch up | stale leases, skipped plans |
| **Autopilot** (`service/autopilot.go`) | triggers, `autopilot_run` | dispatch, follow its issue or task | at most one run per plan |
| **Workflow** (`handler/workflow.go`) | instance, stages, decisions | transition, archive, attach | gates decided concurrently |
| **Issues** (`service/issue.go`, `handler/issue*.go`) | status, position, assignee, parent | create, update, move, child done | check-then-act across requests |
| **Chat** (`handler/chat.go`, `task.go`) | messages, draft restores | send, cancel, finalize | judgement deferred to ack or sweep |
| **Realtime** (`internal/realtime`, `daemonws`, `events`) | subscriptions, client buffers, Redis streams | publish, relay, evict | double or lost events |
| **Webhook deliveries** | `webhook_delivery`: status, lease, attempts | claim, dispatch, retry | a delivery that outlives its lease |
| **Runtime requests** (`runtime_update*.go` ...) | requests in memory or Redis | create, pop, report, time out | late reports |
| **Channel engine** (`integrations/channel/engine`) | connection leases, sessions, batches | supervise, route, batch | one connection over all servers |
| integrations, accounts, storage, metrics, CLI, clients, UIs | | | not modelled: calls to other services, checks of one request, rendering |

How they interact.  Comments, issues, chats and autopilots *enqueue* rows.  An
enqueue commits, then *bumps* the empty-claim cache, then wakes the daemon over
its websocket.  A daemon's poll (singular or for all runtimes of its machine)
promotes due deferred rows, reclaims dispatched rows whose answer was lost,
consults the cache, lists candidates and claims them agent by agent.  The daemon
prepares, possibly waits for a local directory, starts, runs, completes or
fails.  The sweepers of every server fail what is overdue and what is on
runtimes that fell silent, and retry it.  Terminal transitions bump the cache
again, release escalations, reconcile comments and reset issues.  The desktop
app mints the daemon's token, writes it into the CLI's profile, starts the
daemon through the CLI and watches its `/health`.

What makes them correct, component by component:

- *Task queue*: one row per lane in flight, capacity respected, one retry per
  failure within the budget, terminal rows final, claims not undone, queued
  rows served, rows of lost daemons released.
- *Cache*: no verdict hides an announced row; a lost announcement delays only.
- *Runtime liveness*: a runtime that beats is not offline for longer than a
  tick; one that does not is offline eventually.
- *Comments*: each comment that asks for a run is covered by a run that starts
  after it, once.
- *Daemon*: slots neither lost nor handed out twice, one run per directory, one
  agent per row, every task it takes reported or known to be lost, nothing
  claimed or run while the binary is replaced, no flag left behind.
- *Desktop daemon manager*: the guard ends with its call, no state shown sticks,
  a daemon never works on the token of another user than the one logged in.
- *Scheduler*: one live holder per plan, only the holder's outcome is written,
  a crashed or failed plan is tried again, the newest occurrence runs, attempts
  bounded.
- *Autopilot, workflow, webhooks*: an effect at most once per trigger,
  transition, delivery; *chat*: the prompt is kept once, as a message or a
  draft; *realtime*: a connected client sees each event at most once.

## 2. The modules

| Module | Of | Contents |
|---|---|---|
| `WorkQueue`, `WorkQueueProofs` | what the task queue promises | the abstract specification; what follows from it |
| `TaskQueue` | task queue, with what it needs of liveness, chat and escalation | state, actions, safety properties, `ImplementsWorkQueue` |
| `TaskQueueProofs`, `TaskQueueRefinement` | | theorems about `TaskQueue`; that it implements `WorkQueue` |
| `MCTaskQueue` | | scenarios, liveness specifications and properties |
| `EmptyClaimCache` | cache and its callers | state, actions, properties, fairness |
| `EmptyClaimCacheProofs` | | theorems about `EmptyClaimCache` |
| `MCEmptyClaimCache` | | instances |
| `Scheduler` | scheduler: one job and scope, several managers | state, actions, properties, fairness |
| `SchedulerProofs` | | theorems about `Scheduler` |
| `MCScheduler` | | instances |
| `Daemon` | one daemon process and its successors | state, actions, properties |
| `DaemonProofs` | | theorems about `Daemon` |
| `MCDaemon` | | instance |
| `DaemonManager` | the desktop app's manager, the renderer's calls, the daemon it sees | state, actions, properties |
| `DaemonManagerProofs`, `DaemonManagerSwitch` | | theorems about `DaemonManager`; those about switches and logouts |
| `MCDaemonManager` | | instances, with the bound on the renderer's calls |

A module and its properties stand together; the theorems about it have a module
of their own, and the instances another.

### TaskQueue

`row` is the table.  A row id carries the columns that never change (agent,
lane, runtime; constants `AgentOf`, `LaneOf`, `RuntimeOf`), so a scenario is a
choice of these functions, and "absent" rows are those an insert may still
create.  A lane is what `ClaimAgentTask` serializes on: issue, else chat
session, else the quick-create shape; `RunOnly` rows share a lane with nobody.
A quick-create row gets its issue only when it completes, so its lane is
constant while it is in flight.

| In the model | In the code |
|---|---|
| `status` | the column, with "absent" for no row |
| `attempt`, `budget`, `parent`, `reason` | attempt, max_attempts, parent_task_id, failure_reason |
| `escalates` | escalation_for_task_id |
| `claim` | dispatched_at as a generation: the request whose claim is not answered yet |
| `age` | 0, 1, 2: which of the row's clocks have run out (fire_at, 2 h, 9000 s; for a dispatched row the 90 s recovery window and then the 300 s timeout, both beyond its lease) |
| `runtime` | online and fresh; "stale": online by an old beat; offline |
| `poll[q]` | a claim request on some server, between its statements |
| `owed` | what a handler does after its commit, in its own statement: fallback insert, escalation cancel, retry of a swept row, insert of a rerun, fail-offline |

One action is one transaction.  A claim request is `PollStart`, `PollPromote`,
`PollReclaim`, `PollList`, then per agent `ClaimCount` (under the `FOR UPDATE`
lock of `GetAgentForClaimUpdate`, `Locked`) and `ClaimPick`, and ends with
`PollAnswer` (answered, or lost) or `PollRequeue`.  The partial unique index is
`Unique`: a statement `Commits`, or is `Refused` and writes nothing.  Callbacks
(`StartTask`, `CompleteTask`, `FailTask`, ...) may come at any time about any
row, from a daemon whose claim was long taken back: only the SQL guards decide.
`ServerCrash` drops `poll` and `owed`: transactions roll back and follow-ups are
lost.

Abstractions.  Priority and age order of candidates: any candidate may be
picked.  `LIMIT` of the expiry: any part of the expired rows.  A poll has one
free slot; a batch of several is several polls, except that in the code a
failure after the first claim returns what was claimed.  The empty-claim cache
is left out here (a poll always looks), `EmptyClaimCache` is its own module.
Sessions, work directories, tokens, usage and events do not influence statuses.
Delivery receipts at claim are part of `PollAnswer`/`PollRequeue`: they succeed
or the claim is taken back.

`WorkQueue` is what all this amounts to for those who ask for work and those who
do it: work is asked for, claimed by one at a time of those that must not run
together, begun, closed, and what failed is tried again once.  `PhaseOf` maps a
status to a phase (queued and deferred are waiting; waiting for a directory and
running are begun), and `ImplementsWorkQueue` is its specification under that
mapping, the retry's parent being its origin.

### EmptyClaimCache

Per runtime `version` (the INCR counter, 0 when the key is gone; in `lasting`
when it has no expiry), `verdict` (the tag the empty key holds) and the `age` of
both.  A `Bump` is two commands: a row is "queued" from its commit, "counted" from
the INCR (`Bump`) and "announced" from the EXPIRE (`BumpExpire`); between them its
handler is in `expiring`.  An INCR that creates the key leaves it without an expiry,
any other leaves the old one, and a counted row is queued again when its key expires
for want of the EXPIRE.  `CurrentVersion` is a GET and then `RenewVersion`, its
EXPIRE.  Each command may fail alone, and a failure reads as the code reads it (miss,
version 0, no verdict stored, no bump, no renewal).  A request's checks, SELECT and
MarkEmpty are steps too.  `Tick` is time: keys expire at their TTL and a request
lasts at most `PollBound`; an EXPIRE that meets no key does nothing.  `unrenewed`
remembers the verdicts and samples of requests whose EXPIRE did nothing; it decides
nothing.

### Scheduler

`exec` is the part of `sys_cron_executions` that belongs to one job and scope,
a row per plan_time; `runner` is what each server's manager is doing; `clock` is
`now()` of the database.  A tick is `TickStart` (the one reading of the clock),
`MarkStale` (or the statement fails), `PlanTick`, and per plan `Claim` and the
handler, which beats (`Heartbeat`) and ends in `Finish` or in an outcome that
cannot be written (`FinishFails`).  `Mode` chooses the planner: the two catch-up
modes, or the hook of autopilot triggers.  A manager acts on the clock of its
tick however late it is: the other jobs and scopes of the tick are time that
passes between its steps, so leases may be born stale.

`attempt` stands for `lease_token` as well, since a claim renews both and no
other statement writes either; an insert and the update after its conflict are
one step, because no row is ever deleted.  Handlers are opaque and end when they
like, in success or failure (timeout and panic are failures).  The codes of
failures are one, apart from `stale_timeout`.  The hook looks back `ReplayWindow`
(24 h) and sees the first `MaxOccurrences` of what it finds (the cap of 1024 in
`NextOccurrencesUTC`), of which it takes the last.  Plans are a
finite grid, the bound of a run; `Anchor` is where a trigger without rows starts.

### Daemon

One process: the batch poller, a goroutine per slot, the goroutines of waits, the
updaters and what SIGTERM, a kill and a restart make of them.  Go's
interleavings are those of the actions: a step goes from one operation on shared
memory, or one call of the server, to the next.

| In the model | In the code |
|---|---|
| `row` | the status of a task's row as the server has it |
| `poller` | `runBatchPoller`: its slots, the claim on its way, the tasks it hands out |
| `sem` | the channel of `newTaskSlotSemaphore` |
| `run[s]` | the goroutine that has slot `s`: `pc` in handleTask and what it calls, `lock` of its directory, `seen` for `cancelledByPoll`, `result` of the runner |
| `mutex`, `holder` | `pathLockEntry.mu` and `holderID` |
| `phantoms` | goroutines of waits given up: blocked in `Lock`, or past it and about to unlock |
| `claimsInFlight`, `pauseClaims`, `activeTasks` | the claim barrier |
| `laggards` | goroutines that have freed their slot and not yet left `activeTasks` |
| `updating`, `upd[u]` | the flag and where `tryAutoUpdate` and each `handleUpdate` are |

A task stands for the successive rows that name its directory, and is enqueued
anew once nothing here holds it.  Every call may fail before or after its effect:
a claim whose answer is lost, a start that commits and is answered too late, a
report that is never answered.  `lost` remembers the rows such a call, or a dead
process, has left in flight; it decides nothing.  One of them is out of the model: a
claim over the websocket whose outcome is uncertain has left the claim gate
(`wsrpc.go:350-363`) and may still commit on the server afterwards, even while the
binary is replaced.  `ServeClaim` serves only while the poller is at its claim, so the
row such a claim leaves dispatched is in the model one whose answer was lost a little
earlier; `UpdateRunsAlone` speaks of what this process holds, not of that row.  A reclaim by the server may come
at any time, since a goroutine may fail to renew its prepare lease, so two
goroutines may hold one row.  The watcher of a wait and that of a run are one
action, `Watch`, as both close the same kind of channel.  `TakeFlag` is the
compare-and-swap of both update paths.  Release is two steps, the name and then
the lock, so a waiter may see the directory between them.

### DaemonManager

JavaScript runs from one await to the next without interruption: that is one
step.  `op` has a place for each call in progress (a tick of the poll, a request
of a view, auto-start, a press of Start, Stop or Restart, sync and clear of the
token, re-authentication), with the function it is in (`stage`), the await it is
at (`pc`) and what follows it (`then`); the number of places bounds how many
overlap.  `attempt` is startingSince, authProbeDone and authExpired; `profile`
the token in the CLI's config.json and the user id in the file beside it;
`daemon` the process behind the port, of which only `/health` is seen, and which
may be busy, of another version, or out of reach of the host's CLI.  Its own steps
(`DaemonReady`, `DaemonExits`, `DaemonWorks`) are those of `Run` in
`core/internal/daemon`, where `/health` answers only after the token is read.  `mishap`
remembers whether a call has failed or the guard has refused one, so that a
property can say what it promises without that; it decides nothing.  Two
simplifications: there is one profile, and its two files are read in one step.

## 3. What is checked

`tlc -workers 2 -config X.cfg M` in this directory; each run ends within three
minutes.

| Run | Bounds | Shows |
|---|---|---|
| `MCTaskQueue_lane` | 3 rows of 1 agent and 1 issue, 2 requests, MaxAttempts 2, one follow-up owed at a time, the whole `Next` | `TypeOK`, `Serialized`, `RetryLineage`, `RetryJoinsFailure`, `AnsweredClaimStands`, `TerminalIsFinal`, `ImplementsWorkQueue` |
| `MCTaskQueue_rivals` | 2 agents of 1 slot, 2 rows on one issue and 1 in a chat, 2 requests; runtimes online, servers that stop | escalation, its cancellation and promotion, count and claim as two statements: `CapacityRespected`, `TerminalIsFinal` |
| `MCTaskQueue_live` | 2 rows, 1 request, 1 slot, any number of follow-ups owed | `QueuedIsServed`, `SilentIsReleased` |
| `MCTaskQueue_wedged` | 3 rows of two agents | finding 1: `QueuedIsServed` fails |
| `MCTaskQueue_stopped` | 1 row | finding 2: `OfflineIsReleased` fails |
| `MCEmptyClaimCache_batch` | 1 row, 2 runtimes in one batch, 1 request of at most 2, TTLs 2 and 4, version at most 2 | `TypeOK`, `AnnouncedRowsAreSeen`, `QueuedRowsAreListed` |
| `MCScheduler_leases` | 2 managers, 2 occurrences, hook that lists 1, leases of 1, backoff 1, 2 attempts, clock up to 4 | `TypeOK`, `LeaseExclusive`, `OutcomeByHolder`, `SuccessIsFinal`, `AbandonedIsClosed`, `NewestIsRetried`, `NewestIsDispatched` |
| `MCScheduler_stranded` | the same, a hook that lists 2 | finding 3: `CrashedIsResumed` fails |
| `MCDaemonManager_switches` | 2 users, 2 overlapping calls, 3 calls of the renderer, a daemon down or out of reach at launch | `TypeOK`, `GuardIsHeld`, `NoStuckStopping`, `PatIsOwn`, `SwitchTakesEffect`, `LogoutLeavesNothing`, `NoFlapping` |
| `MCDaemonManager_logout` | the same, 4 calls of the renderer, nothing running at launch | finding 4: `LogoutStops` fails |
| `MCDaemon_tasks` | 2 slots, 3 tasks of which 2 share a directory, the automatic updater and 1 update of the server, 1 blocked wait given up, 1 laggard | `TypeOK`, `OneRunPerDirectory`, `HolderIsShown`, `UpdateRunsAlone`, `SlotsConserved`, `OneAgentPerTask`, `NothingAbandoned` |
| `MCDaemon_flags` | the same | finding 5: `BarrierHasOwner` fails |

Why the bounds suffice.  Three rows are a run, its retry and a rival; two of
them collide in the index, the third shows what happens next.  Two requests are
what a race needs; the properties relate one row, or two rows, to one request.
`MaxAttempts` 2 with provider_network (ceiling 3) exercises both the budget and
the raised ceiling.  `OneOwed` bounds the follow-ups outstanding; the live run
has no such bound.  `Alike` (symmetry over rows and requests, tasks and slots, or
users and calls) is used where the scenario treats them alike and no liveness is
checked.  In the cache a version of at most 2 lets a key expire and reach its old
value again; TTLs of 2 and 4 with requests of 2 sit exactly on the assumption
`EmptyTTL + PollBound <= VersionTTL` (3 min and a request's seconds against
24 h): with a smaller `VersionTTL` the invariant fails.
In the scheduler two managers contend for an attempt and two attempts have a
holder and a late one; occurrences one unit apart with leases of one unit let the
second overtake the first, and a clock of 4 leaves room for a lease, its expiry
and a retry of the second.  A hook that lists one occurrence meets its cap when both
were missed.  The modes latest_only and every_plan, which no run uses, are in the
theorems, which hold of every planner.  In the daemon two tasks of one directory are a holder
and a waiter, a wait given up is a third party at the lock, the task without a
directory runs beside them; two goroutines for one row need both slots; the two
updaters are the two code paths.  `MaxLaggards` is checked when a claim is served
and `MaxPhantoms` when a task is enqueued, so the steps of those that exist are
never held back.  In the manager three calls of the renderer are a login, a
logout and another login, or a start between two of them, against polls without
a bound; the logout that is refused needs a fourth.

Deadlock is checked in the run of the cache.  In the others the system may really
stop: rows, occurrences or calls are used up, or the process has exited.

**Fairness.**  `DaemonFairness`: a daemon that is online polls, its requests
run on, it starts what it was given and ends what it started (the poll loop and
the watchdogs of `internal/daemon`).  `SweeperFairness`: the 30 s tickers of
`runRuntimeSweeper` go on and clocks run.  No fairness for enqueues, waits,
heartbeats, crashes or failures.  `LiveSpec` has no server crash, no requeue and
no cancellation: an environment that crashed or requeued for ever could starve
anything.  `ServedSpec` leaves the sweeps out, so that a queued row can only be
saved by its daemon; with them the two-hour expiry ends the row.

The scheduler's `Fairness`: managers tick and handlers end (`RunTimeout`), time
passes, and a manager that starts ticks for ever does not crash, nor fail its
sweep, at the same point of all of them (strong fairness of `MarkStale`,
`PlanTick` and `Claim`).  No fairness for heartbeats.  The cache's: a request's
own steps and time go on, and servers do not stop for ever.

`Daemon` and `DaemonManager` are checked for safety only.  What should happen
eventually there is stated as what must not be left behind: a locked directory
has an owner that will unlock it, a slot is free or with someone, a row in flight
has someone who reports, a raised flag or a shown "stopping" has a call at work.

### Findings

1. *The promotion wedges a runtime* (`MCTaskQueue_wedged`).  A deferred row
   takes no place in the unique index, so a queued row of the same issue and
   agent may be inserted beside it.  When it falls due,
   `PromoteDueDeferredTasksForRuntime` violates the index and fails, and every
   claim request of the runtime starts with it: nothing of that runtime is
   claimed until the queued row expires or is cancelled.  In `MCTaskQueue_live`
   no deferred row arises (one agent, no chat, no provider_network), and the
   same property holds.
2. *Offline runtimes keep waiting rows* (`MCTaskQueue_stopped`).
   `FailTasksForOfflineRuntimes` runs only after the same tick has flipped a
   runtime; deregistration, or a stop between the two statements, leaves a
   `waiting_local_directory` row in flight, which has no timeout of its own.
3. *A crashed occurrence is overtaken* (`MCScheduler_stranded`).  The hook of
   autopilot triggers returns a retry only if it is the newest row and already
   FAILED and due.  A cron that fires again within `StaleTimeout` (5 min) has its
   next occurrence inserted first, and the crashed one, promised to be resumed,
   is closed and never tried again.  `NewestIsRetried` holds, so being overtaken
   is the only way to lose a retry.
4. *A logout does not stop the daemon* (`MCDaemonManager_logout`).  The stop of a
   logout goes through `withGuard`, which refuses it while another call, such as a
   start of up to 45 s, holds the guard, and nobody looks at the refusal.  The
   token and the user id are cleared, so the next user's sync sees no change of
   users and auto-start leaves the daemon alone: it goes on with the token of the
   first.  Without a refusal the switch always reaches the daemon
   (`SwitchTakesEffect`), and a logout leaves neither credentials nor a daemon
   (`LogoutLeavesNothing`): the token is cleared before the stop, so a start that
   was in progress finds none when it gets to the CLI.
5. *An update that cannot restart holds the claims for ever* (`MCDaemon_flags`).
   `trySetClaimBarrier` asks its caller to release the barrier "on every non-restart
   exit path".  `tryAutoUpdate` declares barrier and flag released and then calls
   `triggerRestart`, which returns early when it cannot resolve the executable: the
   process goes on, heartbeats, and neither claims nor updates again.  `handleUpdate`
   gives both back in the same case.  In the proofs this is the only case in which
   the flags have no owner (`FlagsInUse` in `DaemonProofs`).

Beside the findings, four things to know that have no run of their own, because the
code's comments allow them or nothing in use meets them:

- *A failure may go without its retry.*  `FailTask` reads the parent before its
  transaction to decide about a retry; when the read fails it logs a warning and
  commits the failure alone.  No sweep makes up for it.  `RetryJoinsFailure` says
  what is left: the retry comes with the failure or never.
- *A lost EXPIRE may hide a row.*  When the EXPIRE of `CurrentVersion` alone fails,
  the version key may expire under a verdict that has the full TTL before it, be
  counted up to the verdict's tag again, and the new row is hidden.  The comment at
  the top of the cache says "never a stalled task"; the one at the call says "Errors
  here are best-effort".  `AnnouncedRowsAreSeen` excepts the verdicts of such
  requests and nothing else, and `QueuedRowsAreListed` bounds the stall: the verdict
  lives three minutes, the safety net the comment on its TTL speaks of.
- *A frequent trigger may fall silent.*  `NextOccurrencesUTC` keeps the oldest 1024
  occurrences and the hook takes the last of those for the newest.  After a gap of
  more than 1024 minutes (17 h: the servers down, the trigger or its autopilot
  paused) the last one listed for a per-minute cron is hours old, too late to be
  dispatched, at this tick and at every later one, since nothing new is stored and
  the window of 24 h moves with the clock.  `NewestIsDispatched` holds up to the
  cap; without its last condition TLC finds the trigger that never fires again.
- *`AllowStaleReentry` = false does not forbid re-entry.*  `JobSpec` says the stale
  row of such a job requires manual repair, but `markStaleAsFailed` leaves
  `next_retry_at` NULL, and the retry branch of `tryClaim` (db_ops.go:130) takes NULL
  as due whatever the option says.  Both jobs of the repository set it to true, so no
  run is spent on it; `Claimable` shows the branch.

## 4. What is proved

`tlapm M.tla`; no step is left out and nothing is assumed but the named
assumptions of the modules (the types of the constants; `Task` or `Slot` finite for
`Cardinality`; `EmptyTTL + PollBound <= VersionTTL`; `NoUser` no user and `NoToken`
no token) and, for two theorems, `LaunchIsClean` below.

`TaskQueueProofs`, for any rows, agents, requests, runtimes, capacities:

- `TypeCorrect`, `RetryLineageHolds`, `RetriesJoinTheirFailures` from `RetryInv`
  == `Typed /\ Unborn /\ RetryOwed /\ RetryLineage`.  `RetryLineage` is not
  inductive alone: it needs that a retry still owed (by a sweep) is of a failed
  row that has no child yet from elsewhere, and whose reason is not one only a daemon
  reports (`RetryOwed`), and that nothing refers to a row not inserted yet (`Unborn`).
- `TerminalRowsAreFinal` and `AnsweredClaimsStand`: one case per action, from
  the guards of the statements.
- `SerializedHolds`: only `ClaimPick` adds to the rows in flight, and
  `Claimable` looks at every status in flight.
- `CapacityHolds` from `CapacityInv` == `RetryInv /\ CapacityRespected /\
  Reserved`: a request between count and pick holds the agent's lock, and while
  it does the rows in flight stay below the capacity.

`TaskQueueRefinement`: `Spec => ImplementsWorkQueue`.  The initial states map to
initial states; every action maps to one step of `WorkQueue` or to none, under
`RetryInv`, which is needed where a retry is inserted (nothing has the failed row
for its origin yet) and where an absent row is (it has no origin).
`WorkQueueProofs` says what the promise is worth, for any work and rivals:
`PromiseIsSafe` (`RivalsApart`, `TriedAgainOnce`) and `PromiseIsFinal`
(`ClosedForGood`).  `TableKeepsPromise` carries both over to `TaskQueue` through the
refinement: `Serialized` a second time, by another way, and beyond the properties of
the runs that no row of the table is forgotten and that which row it retries never
changes.

`EmptyClaimCacheProofs`, for any TTLs under the assumption:

- `TypeCorrect`, and `AnnouncedRowsAreSeenHolds` from `SafeInv` == `TypeOK` and,
  per runtime and request, `VerdictSafe` and `PollSafe`: a verdict, or a sample a
  request still holds, whose EXPIRE was not lost and that is from before a bump
  differs from the version for as long as it can be used (`Stands`), because the
  version was renewed no earlier than the sample was taken and outlives it
  (`Recent`, `Overtaken`).  A counted row is seen as long as its key is there, an
  announced one beyond it.

`SchedulerProofs`, for any managers, plans, planner, timing and attempts:

- `TypeCorrect`, `LeasesAreExclusive` from `IInv` == `TypeOK /\ Untried /\
  RunningHasNoError /\ RunnersLag /\ LeaseExclusive`.  `LeaseExclusive` is not
  inductive alone: a claim must be ahead of every runner there is, hence
  `RunnersLag`; a row not inserted yet is at attempt 0 (`Untried`), so that the
  first claim is within the budget.
- `SuccessIsFinalThm` and `OutcomeByHolderThm` from `RowSteps`, what a step can
  make of a row; the latter needs that a running row shows no old failure
  (`RunningHasNoError`).

`DaemonProofs`, for any tasks, directories, updaters and slots, each from
`IInv` == `TypeOK /\ Accounting /\ Places /\ Locks /\ HolderInv /\ UpdateInv /\
RowInv`:

- `SlotsAreConserved` from `Accounting`: a slot is in one place, and the counters
  count what they claim to (`claimsInFlight` the poller between its enter and its
  exit, `activeTasks` the goroutines and the laggards).
- `DirectoryIsExclusive` and `HolderIsTrue` from `Locks` and `HolderInv`: which
  places of a goroutine come with a lock, and between which of them the name of
  the holder is set.
- `UpdateIsAlone` from `UpdateInv`: the flag is one updater's (`FlagOwned`), the
  barrier, once taken with nothing claimed or active, keeps it so (`GateHeld`), which
  needs that the counters are right, and both are set only for an updater at work or
  after the failed restart of finding 5 (`FlagsInUse`).
- `AgentsAreSingle` and `RowsAreReported` from `RowInv`: the status of a row
  against the places of the goroutines that have it.
- `TypeCorrect`: the counters never go below zero.

`DaemonManagerProofs`, for any users and any number of overlapping calls:
`ManagerTypeCorrect`, `GuardHeldByOne`, `StoppingEnds`, `TokenIsOwn` and
`PromptDoesNotFlap`, from `IInv` == `TypeOK /\ SyncHasUser /\ ThenShape /\
GuardIsHeld /\ GuardShape /\ NoStuckStopping /\ OwnInv`.  Beyond the properties
this says which functions a call may be in when it holds the guard and what may
follow them (`GuardShape`, `ThenShape`), and whose token a sync carries and has
written before the user id that names its owner (`SyncHasUser`, `OwnInv`).

`DaemonManagerSwitch`: `SwitchReachesDaemon` and `LogoutIsThorough`, from `IInv`
and `SwitchInv`, which speaks of states without a mishap and has two halves.
`FilesParts`, on the profile: what `syncToken` found out about a change of users
stays true until it has written the user id (`SyncShape`), token and user id come
and go together (`Paired`), and while the token is someone else's, a call in
progress is going to replace it (`TokenReplaced`).  `DaemonParts`, on the daemon:
while it runs on someone else's token, a call in progress is going to stop it
(`DaemonStopped`).  Neither property is inductive alone, for between two calls of
a switch the daemon works for the wrong user; what has to be shown is that no call
on its way to the stop is lost, turns into another that does not stop, or finds
that nothing has changed.  Both theorems suppose `LaunchIsClean`: `Init` is a new
profile, so no daemon that this app's CLI could have started is on the port when
the app first starts, only nothing or one out of its reach (`DownOrForeign` of the
run).

Only model-checked: `QueuedIsServed`, `SilentIsReleased`, `QueuedRowsAreListed`,
`AbandonedIsClosed`, `NewestIsRetried`, `NewestIsDispatched` (liveness under fairness
is beyond the prover), and the five violations.

## 5. Plan

Done: the queue and its abstract promise with the refinement, the cache, the
scheduler, the daemon with its path locker and updates, the desktop manager.
Left, in this order:

1. `CommentCoverage`: folding, receipts at claim, registration, reconciliation;
   every comment is covered by a run that starts after it.
2. `Daemon` composed with `TaskQueue`, whose rows it now sees by status only:
   the retry schedule of callbacks against the server's sweeps.
3. `AutopilotRuns` composed with `Scheduler`: one run per trigger and plan, the
   handler as the dispatch of an occurrence.  Reading it shows where to look: a
   run_only dispatch that stops between the insert of its task and the link to
   the run is given up by the attempt that resumes it, which enqueues another
   task, and a run that failed after its insert counts as complete for the retry.
4. `RuntimeLiveness`: batched heartbeats, Redis keys, the sweep's two sources.
5. `IssueReset` and the agent's status; `ChatFinalize`; workflow gates; webhook
   deliveries; the realtime relay.

Theorems to come: coverage of comments up to liveness.

## 6. Not modelled

- Of the daemon: registration and workspace sync, heartbeats and token renewal,
  the WebSocket beneath a claim, garbage collection of work directories, the
  repository cache and the launch of the agent CLIs, which are file and process
  I/O.
- Of the manager: several profiles (a change of the API URL), preferences, the
  log tail, the probing of runtimes.
- The caches of the web clients, with optimistic updates that events reconcile: a
  model exact enough needs every query, its fetches in flight and both orders of
  answer and event, and fits no bound at which the cases happen.
- Formats, rendering, access control of single requests, the vendors' APIs,
  metrics, the command line.

Each is a row of `PROJECT.json` with its reason.  `PROJECT.json` also lists the
hazards of the code at their lines, those no property covers with the reason.
