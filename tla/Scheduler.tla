------------------------------ MODULE Scheduler ------------------------------
(****************************************************************************)
(* internal/scheduler: the rows of sys_cron_executions for one job and one  *)
(* scope, and the managers (one per server) that tick, close stale leases,  *)
(* plan, claim, run the handler and record its outcome.                     *)
(*                                                                          *)
(* attempt stands for lease_token as well: a claim renews both and nothing  *)
(* else writes either.  A tick reads the clock of the database once; its    *)
(* other jobs and scopes are time that passes between its steps here.  The  *)
(* handler ends when it likes, RunTimeout included.                         *)
(****************************************************************************)
EXTENDS Naturals, FiniteSets

CONSTANTS
    Runner,             \* managers
    Plan,               \* plan_times: the Cadence grid, or cron occurrences
    Mode,               \* latest_only, every_plan, or hook: autopilotPlansForScope
    ScheduleDelay,
    CatchUpWindow,
    MaxPlansPerTick,
    Lateness,           \* maxAutopilotScheduleLateness
    Anchor,             \* last_fired_at or created_at of the trigger
    ReplayWindow,       \* how far back the hook looks for occurrences
    MaxOccurrences,     \* hardCap of NextOccurrencesUTC
    StaleTimeout,
    AllowStaleReentry,
    MaxAttempts,
    RetryDelay,         \* per attempt that failed
    MaxTime,            \* bound of the clock
    NoTime, NoPlan

ASSUME JobAssumption ==
    /\ Plan \subseteq Nat
    /\ Mode \in {"latest_only", "every_plan", "hook"}
    /\ {ScheduleDelay, Lateness, Anchor, MaxTime} \subseteq Nat
    /\ {CatchUpWindow, MaxPlansPerTick, StaleTimeout, MaxAttempts} \subseteq Nat \ {0}
    /\ {ReplayWindow, MaxOccurrences} \subseteq Nat \ {0}
    /\ AllowStaleReentry \in BOOLEAN
    /\ RetryDelay \in [1..MaxAttempts -> Nat]
    /\ NoTime \notin Nat /\ NoPlan \notin Plan

VARIABLES
    clock,   \* now() of the database
    exec,    \* the row of each plan
    runner   \* what each manager is doing

vars == <<clock, exec, runner>>

Row == [status : {"none", "RUNNING", "SUCCESS", "FAILED"},
        attempt : 0..MaxAttempts, stale_after : Nat,
        next_retry_at : Nat \cup {NoTime},
        error_code : {"none", "handler_error", "stale_timeout"}]

RunnerState == [pc : {"idle", "sweep", "plan", "claim", "run"},
                now : Nat, plans : SUBSET Plan,
                plan : Plan \cup {NoPlan}, attempt : 0..MaxAttempts]

TypeOK ==
    /\ clock \in Nat
    /\ exec \in [Plan -> Row]
    /\ runner \in [Runner -> RunnerState]

Idle == [pc |-> "idle", now |-> 0, plans |-> {}, plan |-> NoPlan, attempt |-> 0]

Init ==
    /\ clock = 0
    /\ exec = [p \in Plan |-> [status |-> "none", attempt |-> 0, stale_after |-> 0,
                               next_retry_at |-> NoTime, error_code |-> "none"]]
    /\ runner = [m \in Runner |-> Idle]

-----------------------------------------------------------------------------
(* Planning.                                                                *)

Latest(plans) == {p \in plans : \A q \in plans : q <= p}
FirstOf(plans, n) == {p \in plans : Cardinality({q \in plans : q < p}) < n}

Stored == {p \in Plan : exec[p].status # "none"}
AfterStored(p) == \A q \in Stored : q < p

RetryDue(p, now) == exec[p].next_retry_at = NoTime \/ exec[p].next_retry_at <= now

\* Mutated form of RetryEligible: with no attempt left too.
RetryEligibleForEver(p, now) == exec[p].status = "FAILED" /\ RetryDue(p, now)
RetryEligible(p, now) ==
    exec[p].status = "FAILED" /\ exec[p].attempt < MaxAttempts /\ RetryDue(p, now)

Eligible(now) == {p \in Plan : p + ScheduleDelay <= now}

LatestOnly(now) == Latest(Eligible(now))

\* From the newest stored plan on: that one too when its retry is due.
EveryPlan(now) ==
    LET start == IF Stored = {} THEN LatestOnly(now)
                 ELSE {p \in Eligible(now) :
                          \/ AfterStored(p)
                          \/ p \in Latest(Stored) /\ RetryEligible(p, now)}
    IN  FirstOf({p \in start : now <= p + CatchUpWindow}, MaxPlansPerTick)

\* Due after the newest stored plan, not longer ago than the hook looks.
Missed(now) ==
    {p \in Plan : /\ p <= now /\ now < p + ReplayWindow
                  /\ IF Stored = {} THEN Anchor < p ELSE AfterStored(p)}

\* NextOccurrencesUTC: the first of them.
Occurrences(now) == FirstOf(Missed(now), MaxOccurrences)

\* Mutated form of Hook: it moves on although a retry is due.
HookMovesOn(now) == {p \in Latest(Occurrences(now)) : now <= p + Lateness}

\* The due retry of the newest stored plan, else the newest listed occurrence
\* after it, unless that is too late.
Hook(now) ==
    IF \E p \in Latest(Stored) : RetryEligible(p, now)
    THEN Latest(Stored)
    ELSE {p \in Latest(Occurrences(now)) : now <= p + Lateness}

PlansForTick(now) ==
    CASE Mode = "latest_only" -> LatestOnly(now)
      [] Mode = "every_plan" -> EveryPlan(now)
      [] Mode = "hook" -> Hook(now)

-----------------------------------------------------------------------------
(* A tick.                                                                  *)

TickStart(m) ==
    /\ runner[m].pc = "idle"
    /\ runner' = [runner EXCEPT ![m] = [Idle EXCEPT !.pc = "sweep", !.now = clock]]
    /\ UNCHANGED <<clock, exec>>

\* Mutated form of Abandoned: whatever its status, a row with an old lease.
AbandonedInAnyStatus(p, now) == exec[p].status # "none" /\ exec[p].stale_after < now
Abandoned(p, now) == exec[p].status = "RUNNING" /\ exec[p].stale_after < now

\* Mutated form of MarkStale: leases that may be stolen are left to be stolen.
MarkStaleUnlessReentrant(m) ==
    /\ runner[m].pc = "sweep"
    /\ exec' = [p \in Plan |->
                  IF Abandoned(p, runner[m].now) /\ ~ AllowStaleReentry
                  THEN [exec[p] EXCEPT !.status = "FAILED", !.error_code = "stale_timeout"]
                  ELSE exec[p]]
    /\ runner' = [runner EXCEPT ![m].pc = "plan"]
    /\ UNCHANGED clock

MarkStale(m) ==
    /\ runner[m].pc = "sweep"
    /\ exec' = [p \in Plan |->
                  IF Abandoned(p, runner[m].now)
                  THEN [exec[p] EXCEPT !.status = "FAILED", !.error_code = "stale_timeout"]
                  ELSE exec[p]]
    /\ runner' = [runner EXCEPT ![m].pc = "plan"]
    /\ UNCHANGED clock

\* The statement fails; the tick goes on.
MarkStaleFails(m) ==
    /\ runner[m].pc = "sweep"
    /\ runner' = [runner EXCEPT ![m].pc = "plan"]
    /\ UNCHANGED <<clock, exec>>

\* The manager goes on with the plans that are left, or its tick is over.
GoOn(m, plans) ==
    runner' = [runner EXCEPT ![m] =
                  IF plans = {} THEN Idle
                  ELSE [Idle EXCEPT !.pc = "claim", !.now = runner[m].now,
                                     !.plans = plans]]

PlanTick(m) ==
    /\ runner[m].pc = "plan"
    /\ GoOn(m, PlansForTick(runner[m].now))
    /\ UNCHANGED <<clock, exec>>

\* Mutated form of Claimable: one attempt too many.
ClaimableOnceMore(p, now) ==
    /\ exec[p].attempt <= MaxAttempts
    /\ \/ exec[p].status = "FAILED" /\ RetryDue(p, now)
       \/ Abandoned(p, now) /\ AllowStaleReentry

\* The row may be claimed again: a due retry, or a stale lease.
Claimable(p, now) ==
    /\ exec[p].attempt < MaxAttempts
    /\ \/ exec[p].status = "FAILED" /\ RetryDue(p, now)
       \/ Abandoned(p, now) /\ AllowStaleReentry

\* Mutated form of Leased: the claim leaves the token as it is.
LeasedOnOldToken(p, now) ==
    [status |-> "RUNNING", attempt |-> IF exec[p].attempt = 0 THEN 1 ELSE exec[p].attempt,
     stale_after |-> now + StaleTimeout,
     next_retry_at |-> NoTime, error_code |-> "none"]

\* The lease counts from the clock the tick read.
Leased(p, now) ==
    [status |-> "RUNNING", attempt |-> exec[p].attempt + 1,
     stale_after |-> now + StaleTimeout,
     next_retry_at |-> NoTime, error_code |-> "none"]

Running(m, p, attempt) ==
    [runner[m] EXCEPT !.pc = "run", !.plans = @ \ {p}, !.plan = p, !.attempt = attempt]

\* The oldest plan of the tick: the insert, else the retry or the steal.
Claim(m) ==
    \E p \in runner[m].plans :
        /\ runner[m].pc = "claim" /\ \A q \in runner[m].plans : p <= q
        /\ IF exec[p].status = "none" \/ Claimable(p, runner[m].now)
           THEN /\ exec' = [exec EXCEPT ![p] = Leased(p, runner[m].now)]
                /\ runner' = [runner EXCEPT
                                 ![m] = Running(m, p, Leased(p, runner[m].now).attempt)]
           ELSE GoOn(m, runner[m].plans \ {p}) /\ UNCHANGED exec
        /\ UNCHANGED clock

\* A statement of the claim fails: the next plan.
ClaimFails(m) ==
    /\ runner[m].pc = "claim"
    /\ \E p \in runner[m].plans :
          (\A q \in runner[m].plans : p <= q) /\ GoOn(m, runner[m].plans \ {p})
    /\ UNCHANGED <<clock, exec>>

\* Mutated form of Holds: without the comparison of lease_token.
HoldsAnyLease(m) == exec[runner[m].plan].status = "RUNNING"

\* lease_token = $token AND status = 'RUNNING'
Holds(m) ==
    /\ exec[runner[m].plan].status = "RUNNING"
    /\ exec[runner[m].plan].attempt = runner[m].attempt

Heartbeat(m) ==
    /\ runner[m].pc = "run" /\ Holds(m)
    /\ exec' = [exec EXCEPT ![runner[m].plan].stale_after = clock + StaleTimeout]
    /\ UNCHANGED <<clock, runner>>

\* finishSuccess or finishFailure; without the lease it writes nothing.
Finish(m, outcome) ==
    LET a == runner[m].attempt
    IN  /\ runner[m].pc = "run"
        /\ exec' = IF ~ Holds(m) THEN exec
                   ELSE [exec EXCEPT ![runner[m].plan] =
                           IF outcome = "SUCCESS"
                           THEN [@ EXCEPT !.status = "SUCCESS"]
                           ELSE [@ EXCEPT !.status = "FAILED", !.error_code = "handler_error",
                                          !.next_retry_at = IF a < MaxAttempts
                                                            THEN clock + RetryDelay[a]
                                                            ELSE NoTime]]
        /\ GoOn(m, runner[m].plans)
        /\ UNCHANGED clock

\* The outcome cannot be written: it is logged.
FinishFails(m) ==
    /\ runner[m].pc = "run"
    /\ GoOn(m, runner[m].plans)
    /\ UNCHANGED <<clock, exec>>

\* The server dies, or the tick ends at plans it cannot compute.
Crash(m) ==
    /\ runner[m].pc # "idle"
    /\ runner' = [runner EXCEPT ![m] = Idle]
    /\ UNCHANGED <<clock, exec>>

Tick ==
    /\ clock < MaxTime
    /\ clock' = clock + 1
    /\ UNCHANGED <<exec, runner>>

-----------------------------------------------------------------------------
Ends(m) == \E outcome \in {"SUCCESS", "FAILED"} : Finish(m, outcome)

Next ==
    \/ \E m \in Runner :
          \/ TickStart(m) \/ MarkStale(m) \/ MarkStaleFails(m)
          \/ PlanTick(m) \/ Claim(m) \/ ClaimFails(m) \/ Heartbeat(m)
          \/ Ends(m) \/ FinishFails(m) \/ Crash(m)
    \/ Tick

Spec == Init /\ [][Next]_vars

\* The managers tick for ever and handlers end; a manager neither crashes nor
\* fails to sweep at the same point of every tick.
Fairness ==
    /\ WF_vars(Tick)
    /\ \A m \in Runner :
          /\ WF_vars(TickStart(m)) /\ WF_vars(Ends(m))
          /\ SF_vars(MarkStale(m)) /\ SF_vars(PlanTick(m)) /\ SF_vars(Claim(m))

FairSpec == Spec /\ Fairness

-----------------------------------------------------------------------------
Runs(m, p) == runner[m].pc = "run" /\ runner[m].plan = p

\* No attempt of a plan is run by two managers: the insert, the retry and the
\* steal of a stale lease are contests with one winner, although each manager
\* decides by a clock it read at the start of its tick.
LeaseExclusive ==
    \A m, n \in Runner :
        /\ runner[m].pc = "run" /\ runner[n].pc = "run" /\ m # n
        /\ runner[m].plan = runner[n].plan
        => runner[m].attempt # runner[n].attempt

\* A runner that lost its lease "cannot rewrite a newer attempt's state": the
\* outcome a row gets is that of the manager whose attempt it is at.
OutcomeByHolder ==
    [][\A p \in Plan :
          /\ exec[p].status = "RUNNING"
          /\ exec'[p].status = "SUCCESS" \/ exec'[p].error_code = "handler_error"
          => \E m \in Runner : /\ Runs(m, p) /\ runner[m].attempt = exec[p].attempt
                               /\ ~ Runs(m, p)']_vars

\* A plan that succeeded is never run again and its row stays as it is, for
\* all stale leases, late failures and sweeps with an old clock.
SuccessIsFinal ==
    [][\A p \in Plan : exec[p].status = "SUCCESS" => exec'[p] = exec[p]]_vars

\* Whatever the job allows, a RUNNING row nobody runs any more is closed or
\* claimed again once its lease is over.
AbandonedIsClosed ==
    \A p \in Plan :
        /\ exec[p].status = "RUNNING" /\ exec[p].stale_after < MaxTime
        /\ ~ \E m \in Runner : Runs(m, p) /\ runner[m].attempt = exec[p].attempt
        ~> \/ exec[p].status # "RUNNING"
           \/ \E m \in Runner : Runs(m, p) /\ runner[m].attempt = exec[p].attempt

\* A failed plan with attempts left is tried again while it is the newest.
NewestIsRetried ==
    \A p \in Plan :
        exec[p].status = "FAILED" /\ exec[p].attempt < MaxAttempts /\ RetryDue(p, MaxTime)
        ~> exec[p].status # "FAILED" \/ \E q \in Stored : q > p

\* An occurrence that is due, the newest and never too late is dispatched whatever
\* becomes of the older ones, unless more were missed than the hook lists.
NewestIsDispatched ==
    \A p \in Plan :
        /\ p \in Latest(Missed(MaxTime)) /\ p + Lateness >= MaxTime
        /\ Cardinality(Missed(MaxTime)) <= MaxOccurrences
        ~> p \in Stored

\* AutopilotScheduleDispatchJob, restart semantics: when a manager "crashed
\* after claiming a plan_time but before writing terminal status", the sweep
\* and attempts < MaxAttempts let the next tick "re-enter dispatch".
CrashedIsResumed ==
    \A p \in Plan :
        exec[p].error_code = "stale_timeout" /\ exec[p].attempt < MaxAttempts
        ~> exec[p].status # "FAILED"
=============================================================================
