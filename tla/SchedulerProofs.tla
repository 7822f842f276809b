-------------------------- MODULE SchedulerProofs --------------------------
(****************************************************************************)
(* For any number of managers and plans, every planner and any timing of    *)
(* the job: no attempt has two runners, a success stays, and an outcome is  *)
(* written by the runner of the attempt it ends.                            *)
(****************************************************************************)
EXTENDS Scheduler, TLAPS

Untried == \A p \in Plan : exec[p].status = "none" => exec[p].attempt = 0

RunningHasNoError ==
    \A p \in Plan : exec[p].status = "RUNNING" => exec[p].error_code = "none"

\* A runner is at an attempt its row has reached.
RunnersLag ==
    \A m \in Runner :
        runner[m].pc = "run" => /\ runner[m].plan \in Plan /\ runner[m].attempt # 0
                                /\ runner[m].attempt <= exec[runner[m].plan].attempt

\* The token is a counter that only grows, so the newest claim is ahead of
\* every older one.
IInv == TypeOK /\ Untried /\ RunningHasNoError /\ RunnersLag /\ LeaseExclusive

-----------------------------------------------------------------------------
\* A manager that is not in a tick has the type of one.
LEMMA IdleType == Idle \in RunnerState
BY JobAssumption DEF Idle, RunnerState

\* Every planner plans among the plans there are.
LEMMA PlansType == ASSUME NEW now \in Nat PROVE PlansForTick(now) \in SUBSET Plan
<1>1. Stored \subseteq Plan /\ Eligible(now) \subseteq Plan /\ Missed(now) \subseteq Plan
  BY DEF Stored, Eligible, Missed
<1>2. \A plans \in SUBSET Plan : Latest(plans) \subseteq Plan
  BY DEF Latest
<1>3. LatestOnly(now) \subseteq Plan /\ Hook(now) \subseteq Plan
  BY <1>1, <1>2 DEF LatestOnly, Hook, Occurrences, FirstOf
<1>4. EveryPlan(now) \subseteq Plan
  BY <1>1, <1>3 DEF EveryPlan, FirstOf
<1> QED BY <1>3, <1>4, JobAssumption DEF PlansForTick

\* The next plan of a tick, or its end, is not a run.
LEMMA GoOnRunner ==
  ASSUME TypeOK, NEW m \in Runner, NEW plans \in SUBSET Plan, GoOn(m, plans)
  PROVE  \E r \in RunnerState : runner' = [runner EXCEPT ![m] = r] /\ r.pc # "run"
<1>1. runner[m] \in RunnerState
  BY DEF TypeOK
<1> DEFINE r == IF plans = {} THEN Idle
                ELSE [Idle EXCEPT !.pc = "claim", !.now = runner[m].now, !.plans = plans]
<1>2. r \in RunnerState /\ r.pc # "run"
  BY <1>1, IdleType DEF Idle, RunnerState
<1>3. runner' = [runner EXCEPT ![m] = r]
  BY DEF GoOn
<1> QED BY <1>2, <1>3

\* A manager that stops or does not run, and rows that are left at their
\* attempt, keep what the leases rest on.
LEMMA NoNewRun ==
  ASSUME IInv, exec' \in [Plan -> Row], clock' \in Nat,
         \A p \in Plan : exec'[p].attempt = exec[p].attempt,
         NEW m \in Runner, NEW r \in RunnerState,
         runner' = [runner EXCEPT ![m] = r], r.pc # "run"
  PROVE  TypeOK' /\ RunnersLag' /\ LeaseExclusive'
<1>1. runner' \in [Runner -> RunnerState] /\ runner'[m] = r
  BY DEF IInv, TypeOK
<1>2. \A n \in Runner : runner'[n].pc = "run" => runner'[n] = runner[n]
  BY DEF IInv, TypeOK
<1>3. TypeOK'
  BY <1>1 DEF TypeOK
<1>4. RunnersLag'
  BY <1>2 DEF IInv, RunnersLag
<1>5. LeaseExclusive'
  BY <1>2 DEF IInv, LeaseExclusive
<1> QED BY <1>3, <1>4, <1>5

\* The initial state.
LEMMA InitInv == Init => IInv
<1> SUFFICES ASSUME Init PROVE IInv
  OBVIOUS
<1>1. [status |-> "none", attempt |-> 0, stale_after |-> 0,
       next_retry_at |-> NoTime, error_code |-> "none"] \in Row
  BY JobAssumption DEF Row
<1>2. TypeOK
  BY <1>1, IdleType DEF Init, TypeOK
<1>3. \A m \in Runner : runner[m].pc = "idle"
  BY DEF Init, Idle
<1> QED BY <1>2, <1>3 DEF Init, IInv, Untried, RunningHasNoError, RunnersLag, LeaseExclusive

\* The row of a new lease is of the next attempt, which the job allows.
LEMMA LeasedRow ==
  ASSUME IInv, NEW p \in Plan, NEW now \in Nat,
         exec[p].status = "none" \/ Claimable(p, now)
  PROVE  /\ Leased(p, now) \in Row /\ Leased(p, now).attempt = exec[p].attempt + 1
         /\ Leased(p, now).status = "RUNNING" /\ Leased(p, now).error_code = "none"
<1>1. exec[p] \in Row /\ exec[p].attempt < MaxAttempts
  BY JobAssumption DEF IInv, TypeOK, Row, Untried, Claimable
<1>2. MaxAttempts \in Nat /\ StaleTimeout \in Nat
  BY JobAssumption
<1>3. exec[p].attempt \in 0..MaxAttempts
  BY <1>1 DEF Row
<1>4. exec[p].attempt + 1 \in 0..MaxAttempts /\ now + StaleTimeout \in Nat
  BY <1>1, <1>2, <1>3
<1> QED BY <1>4 DEF Leased, Row

-----------------------------------------------------------------------------
\* Every step keeps the invariant.
LEMMA NextInv == IInv /\ [Next]_vars => IInv'
<1> SUFFICES ASSUME IInv, [Next]_vars PROVE IInv'
  OBVIOUS
<1> USE DEF IInv
<1>0. /\ clock \in Nat /\ exec \in [Plan -> Row] /\ runner \in [Runner -> RunnerState]
      /\ \A m \in Runner : runner[m].now \in Nat /\ runner[m].plans \in SUBSET Plan
  BY DEF TypeOK, RunnerState
<1>1. ASSUME NEW m \in Runner, TickStart(m) PROVE IInv'
  <2> DEFINE r == [Idle EXCEPT !.pc = "sweep", !.now = clock]
  <2>1. r \in RunnerState /\ r.pc # "run"
    BY <1>0, IdleType DEF Idle, RunnerState
  <2>2. runner' = [runner EXCEPT ![m] = r] /\ exec' = exec /\ clock' = clock
    BY <1>1 DEF TickStart
  <2> HIDE DEF r
  <2>3. TypeOK' /\ RunnersLag' /\ LeaseExclusive'
    BY <2>1, <2>2, <1>0, NoNewRun
  <2> QED BY <2>2, <2>3 DEF Untried, RunningHasNoError
<1>2. ASSUME NEW m \in Runner, MarkStale(m) PROVE IInv'
  <2> DEFINE r == [runner[m] EXCEPT !.pc = "plan"]
  <2>1. r \in RunnerState /\ r.pc # "run"
    BY <1>0 DEF RunnerState
  <2>2. runner' = [runner EXCEPT ![m] = r] /\ clock' = clock
    BY <1>2 DEF MarkStale
  <2>3. \A p \in Plan :
           /\ exec'[p] \in Row /\ exec'[p].attempt = exec[p].attempt
           /\ exec'[p].status \in {exec[p].status, "FAILED"}
           /\ exec'[p].status = "RUNNING" => exec'[p] = exec[p]
    <3> SUFFICES ASSUME NEW p \in Plan
                 PROVE  /\ exec'[p] \in Row /\ exec'[p].attempt = exec[p].attempt
                        /\ exec'[p].status \in {exec[p].status, "FAILED"}
                        /\ exec'[p].status = "RUNNING" => exec'[p] = exec[p]
      OBVIOUS
    <3>1. exec[p] \in Row
      BY <1>0
    <3>2. \/ exec'[p] = exec[p]
          \/ exec'[p] = [exec[p] EXCEPT !.status = "FAILED", !.error_code = "stale_timeout"]
      BY <1>2 DEF MarkStale
    <3> QED BY <3>1, <3>2 DEF Row
  <2>4. exec' \in [Plan -> Row]
    BY <1>2, <2>3 DEF MarkStale
  <2> HIDE DEF r
  <2>5. TypeOK' /\ RunnersLag' /\ LeaseExclusive'
    BY <2>1, <2>2, <2>3, <2>4, <1>0, NoNewRun
  <2> QED BY <2>3, <2>5 DEF Untried, RunningHasNoError
<1>3. ASSUME NEW m \in Runner, MarkStaleFails(m) PROVE IInv'
  <2> DEFINE r == [runner[m] EXCEPT !.pc = "plan"]
  <2>1. r \in RunnerState /\ r.pc # "run"
    BY <1>0 DEF RunnerState
  <2>2. runner' = [runner EXCEPT ![m] = r] /\ exec' = exec /\ clock' = clock
    BY <1>3 DEF MarkStaleFails
  <2> HIDE DEF r
  <2>3. TypeOK' /\ RunnersLag' /\ LeaseExclusive'
    BY <2>1, <2>2, <1>0, NoNewRun
  <2> QED BY <2>2, <2>3 DEF Untried, RunningHasNoError
<1>4. ASSUME NEW m \in Runner, NEW plans \in SUBSET Plan, GoOn(m, plans),
             exec' = exec, clock' = clock
      PROVE  IInv'
  <2>1. PICK r \in RunnerState : runner' = [runner EXCEPT ![m] = r] /\ r.pc # "run"
    BY <1>4, GoOnRunner
  <2>2. TypeOK' /\ RunnersLag' /\ LeaseExclusive'
    BY <2>1, <1>0, <1>4, NoNewRun
  <2> QED BY <1>4, <2>2 DEF Untried, RunningHasNoError
<1>5. ASSUME NEW m \in Runner, PlanTick(m) PROVE IInv'
  BY <1>0, <1>4, <1>5, PlansType DEF PlanTick
<1>6. ASSUME NEW m \in Runner, Claim(m) PROVE IInv'
  <2>1. PICK p \in runner[m].plans :
           IF exec[p].status = "none" \/ Claimable(p, runner[m].now)
           THEN /\ exec' = [exec EXCEPT ![p] = Leased(p, runner[m].now)]
                /\ runner' = [runner EXCEPT
                                 ![m] = Running(m, p, Leased(p, runner[m].now).attempt)]
           ELSE GoOn(m, runner[m].plans \ {p}) /\ UNCHANGED exec
    BY <1>6 DEF Claim
  <2>2. clock' = clock /\ p \in Plan /\ runner[m] \in RunnerState
    BY <1>0, <1>6 DEF Claim
  <2>3. CASE ~ (exec[p].status = "none" \/ Claimable(p, runner[m].now))
    BY <2>1, <2>2, <2>3, <1>0, <1>4
  <2>4. CASE exec[p].status = "none" \/ Claimable(p, runner[m].now)
    <3> DEFINE row == Leased(p, runner[m].now)
               r == Running(m, p, row.attempt)
    <3>1. /\ row \in Row /\ row.attempt = exec[p].attempt + 1
          /\ row.status = "RUNNING" /\ row.error_code = "none"
      BY <2>2, <2>4, <1>0, LeasedRow
    <3>2. exec' = [exec EXCEPT ![p] = row] /\ runner' = [runner EXCEPT ![m] = r]
      BY <2>1, <2>4
    <3> HIDE DEF row
    <3>3. r \in RunnerState /\ r.pc = "run" /\ r.plan = p /\ r.attempt = row.attempt
      BY <3>1, <2>2 DEF Running, RunnerState, Row
    <3> HIDE DEF r
    <3>4. /\ exec' \in [Plan -> Row] /\ exec'[p] = row
          /\ \A q \in Plan : q # p => exec'[q] = exec[q]
          /\ runner' \in [Runner -> RunnerState] /\ runner'[m] = r
          /\ \A n \in Runner : n # m => runner'[n] = runner[n]
      BY <3>1, <3>2, <3>3, <1>0, <2>2
    <3>5. \A q \in Plan : exec[q].attempt \in Nat
      BY <1>0 DEF Row
    <3>6. TypeOK'
      BY <3>4, <2>2, <1>0 DEF TypeOK
    <3>7. Untried' /\ RunningHasNoError'
      BY <3>1, <3>4 DEF Untried, RunningHasNoError
    <3>8. \A n \in Runner : n # m /\ runner'[n].pc = "run" =>
             /\ runner'[n] = runner[n] /\ runner[n].plan \in Plan
             /\ runner[n].attempt \in Nat
             /\ runner[n].attempt <= exec[runner[n].plan].attempt
      BY <3>4, <1>0 DEF RunnersLag, RunnerState
    <3>9. RunnersLag'
      BY <3>1, <3>3, <3>4, <3>5, <3>8, <2>2 DEF RunnersLag
    <3>10. LeaseExclusive'
      BY <3>1, <3>3, <3>4, <3>5, <3>8 DEF LeaseExclusive
    <3> QED BY <3>6, <3>7, <3>9, <3>10
  <2> QED BY <2>3, <2>4
<1>7. ASSUME NEW m \in Runner, ClaimFails(m) PROVE IInv'
  BY <1>0, <1>4, <1>7 DEF ClaimFails
<1>8. ASSUME NEW m \in Runner, Heartbeat(m) PROVE IInv'
  <2>1. runner' = runner /\ clock' = clock /\ runner[m].plan \in Plan
    BY <1>8 DEF Heartbeat, RunnersLag
  <2>2. clock + StaleTimeout \in Nat
    BY <1>0, JobAssumption
  <2>3. /\ exec' \in [Plan -> Row]
        /\ \A p \in Plan : /\ exec'[p].status = exec[p].status
                           /\ exec'[p].attempt = exec[p].attempt
                           /\ exec'[p].error_code = exec[p].error_code
    BY <1>0, <1>8, <2>1, <2>2 DEF Heartbeat, Row
  <2>4. TypeOK'
    BY <1>0, <2>1, <2>3 DEF TypeOK
  <2>5. Untried' /\ RunningHasNoError'
    BY <2>3 DEF Untried, RunningHasNoError
  <2>6. RunnersLag' /\ LeaseExclusive'
    BY <2>1, <2>3 DEF RunnersLag, LeaseExclusive
  <2> QED BY <2>4, <2>5, <2>6
<1>9. ASSUME NEW m \in Runner, NEW outcome \in {"SUCCESS", "FAILED"}, Finish(m, outcome)
      PROVE  IInv'
  <2>1. PICK r \in RunnerState : runner' = [runner EXCEPT ![m] = r] /\ r.pc # "run"
    BY <1>0, <1>9, GoOnRunner DEF Finish
  <2>2. clock' = clock /\ runner[m].plan \in Plan /\ runner[m].attempt \in 0..MaxAttempts
    BY <1>0, <1>9 DEF Finish, RunnersLag, RunnerState
  <2>3. CASE ~ Holds(m)
    BY <1>0, <1>4, <1>9, <2>2, <2>3 DEF Finish
  <2>4. CASE Holds(m)
    <3> DEFINE p == runner[m].plan
               a == runner[m].attempt
               retry == IF a < MaxAttempts THEN clock + RetryDelay[a] ELSE NoTime
               row == IF outcome = "SUCCESS" THEN [exec[p] EXCEPT !.status = "SUCCESS"]
                      ELSE [exec[p] EXCEPT !.status = "FAILED", !.error_code = "handler_error",
                                           !.next_retry_at = retry]
    <3>1. a \in 1..MaxAttempts
      BY <2>2, <1>9 DEF Finish, RunnersLag
    <3>2. retry \in Nat \cup {NoTime}
      BY <3>1, <1>0, JobAssumption
    <3>3. exec' = [exec EXCEPT ![p] = row]
      BY <1>9, <2>4 DEF Finish
    <3> HIDE DEF retry
    <3>4. row \in Row /\ row.attempt = exec[p].attempt /\ row.status \in {"SUCCESS", "FAILED"}
      <4>1. exec[p] \in Row
        BY <2>2, <1>0
      <4>2. CASE outcome = "SUCCESS"
        BY <4>1, <4>2 DEF Row
      <4>3. CASE outcome = "FAILED"
        BY <4>1, <4>3, <3>2 DEF Row
      <4> QED BY <4>2, <4>3
    <3> HIDE DEF row
    <3>5. /\ exec' \in [Plan -> Row]
          /\ \A q \in Plan : /\ exec'[q].attempt = exec[q].attempt
                             /\ exec'[q] = exec[q] \/ exec'[q].status \in {"SUCCESS", "FAILED"}
      BY <3>3, <3>4, <2>2, <1>0
    <3>6. TypeOK' /\ RunnersLag' /\ LeaseExclusive'
      BY <2>1, <2>2, <3>5, <1>0, NoNewRun
    <3> QED BY <3>5, <3>6 DEF Untried, RunningHasNoError
  <2> QED BY <2>3, <2>4
<1>10. ASSUME NEW m \in Runner, FinishFails(m) PROVE IInv'
  BY <1>0, <1>4, <1>10 DEF FinishFails
<1>11. ASSUME NEW m \in Runner, Crash(m) PROVE IInv'
  <2>1. runner' = [runner EXCEPT ![m] = Idle] /\ Idle.pc # "run" /\ exec' = exec /\ clock' = clock
    BY <1>11 DEF Crash, Idle
  <2>2. TypeOK' /\ RunnersLag' /\ LeaseExclusive'
    BY <2>1, <1>0, IdleType, NoNewRun
  <2> QED BY <2>1, <2>2 DEF Untried, RunningHasNoError
<1>12. ASSUME Tick PROVE IInv'
  BY <1>12 DEF Tick, TypeOK, Untried, RunningHasNoError, RunnersLag, LeaseExclusive
<1>13. CASE UNCHANGED vars
  BY <1>13 DEF vars, TypeOK, Untried, RunningHasNoError, RunnersLag, LeaseExclusive
<1> QED
  BY <1>1, <1>2, <1>3, <1>5, <1>6, <1>7, <1>8, <1>9, <1>10, <1>11, <1>12, <1>13
  DEF Next, Ends

\* The invariant of every reachable state.
THEOREM Invariant == Spec => []IInv
<1>1. Init => IInv
  BY InitInv
<1>2. IInv /\ [Next]_vars => IInv'
  BY NextInv
<1> QED BY <1>1, <1>2, PTL DEF Spec

\* Rows and managers have their types; no row is at more attempts than the job
\* allows.
THEOREM TypeCorrect == Spec => []TypeOK
<1>1. IInv => TypeOK
  BY DEF IInv
<1> QED BY <1>1, Invariant, PTL

\* tryClaim: however many managers contend and however late they act on the
\* clock of their tick, an attempt has one runner.
THEOREM LeasesAreExclusive == Spec => []LeaseExclusive
<1>1. IInv => LeaseExclusive
  BY DEF IInv
<1> QED BY <1>1, Invariant, PTL

-----------------------------------------------------------------------------
\* What a step can make of a row that is closed or that runs.
LEMMA RowSteps ==
  ASSUME IInv, [Next]_vars, NEW p \in Plan
  PROVE  \/ exec'[p] = exec[p]
         \/ /\ exec[p].status # "SUCCESS"
            /\ exec'[p].status # "SUCCESS" /\ exec'[p].error_code # "handler_error"
         \/ \E m \in Runner : /\ Runs(m, p) /\ Holds(m)
                              /\ \E outcome \in {"SUCCESS", "FAILED"} : Finish(m, outcome)
<1>0. exec \in [Plan -> Row] /\ \A m \in Runner : runner[m].now \in Nat
  BY DEF IInv, TypeOK, RunnerState
<1>1. ASSUME exec' = exec PROVE exec'[p] = exec[p]
  BY <1>1
<1>2. ASSUME NEW m \in Runner, MarkStale(m)
      PROVE  \/ exec'[p] = exec[p]
             \/ /\ exec[p].status # "SUCCESS"
                /\ exec'[p].status # "SUCCESS" /\ exec'[p].error_code # "handler_error"
  <2>1. CASE ~ Abandoned(p, runner[m].now)
    BY <1>2, <2>1 DEF MarkStale
  <2>2. CASE Abandoned(p, runner[m].now)
    <3>1. exec'[p] = [exec[p] EXCEPT !.status = "FAILED", !.error_code = "stale_timeout"]
      BY <1>2, <2>2 DEF MarkStale
    <3> QED BY <3>1, <2>2, <1>0 DEF Abandoned, Row
  <2> QED BY <2>1, <2>2
<1>3. ASSUME NEW m \in Runner, Claim(m)
      PROVE  \/ exec'[p] = exec[p]
             \/ /\ exec[p].status # "SUCCESS"
                /\ exec'[p].status # "SUCCESS" /\ exec'[p].error_code # "handler_error"
  <2>1. PICK q \in runner[m].plans :
           IF exec[q].status = "none" \/ Claimable(q, runner[m].now)
           THEN exec' = [exec EXCEPT ![q] = Leased(q, runner[m].now)]
           ELSE exec' = exec
    BY <1>3 DEF Claim
  <2>2. exec[q].status = "none" \/ Claimable(q, runner[m].now) => exec[q].status # "SUCCESS"
    BY DEF Claimable, Abandoned
  <2>3. Leased(q, runner[m].now).status = "RUNNING" /\ Leased(q, runner[m].now).error_code = "none"
    BY DEF Leased
  <2> QED BY <2>1, <2>2, <2>3, <1>0
<1>4. ASSUME NEW m \in Runner, Heartbeat(m)
      PROVE  \/ exec'[p] = exec[p]
             \/ /\ exec[p].status # "SUCCESS"
                /\ exec'[p].status # "SUCCESS" /\ exec'[p].error_code # "handler_error"
  <2>1. CASE p = runner[m].plan
    <3>1. exec[p].status = "RUNNING" /\ exec[p].error_code = "none"
      BY <1>4, <2>1 DEF Heartbeat, Holds, IInv, RunningHasNoError
    <3>2. exec'[p] = [exec[p] EXCEPT !.stale_after = clock + StaleTimeout]
      BY <1>0, <1>4, <2>1 DEF Heartbeat
    <3> QED BY <3>1, <3>2, <1>0 DEF Row
  <2>2. CASE p # runner[m].plan
    BY <1>0, <1>4, <2>2 DEF Heartbeat
  <2> QED BY <2>1, <2>2
<1>5. ASSUME NEW m \in Runner, NEW outcome \in {"SUCCESS", "FAILED"}, Finish(m, outcome)
      PROVE  exec'[p] = exec[p] \/ (Runs(m, p) /\ Holds(m))
  BY <1>0, <1>5 DEF Finish, Runs
<1> QED
  BY <1>1, <1>2, <1>3, <1>4, <1>5
  DEF Next, Ends, vars, TickStart, MarkStaleFails, PlanTick, ClaimFails, FinishFails, Crash, Tick

\* finishSuccess and finishFailure, tryClaim and the sweep: a plan that
\* succeeded is never touched again.
THEOREM SuccessIsFinalThm == Spec => SuccessIsFinal
<1>1. ASSUME IInv, [Next]_vars, NEW p \in Plan, exec[p].status = "SUCCESS"
      PROVE  exec'[p] = exec[p]
  BY <1>1, RowSteps DEF Holds, Runs
<1>2. IInv /\ [Next]_vars
      => [\A p \in Plan : exec[p].status = "SUCCESS" => exec'[p] = exec[p]]_vars
  BY <1>1
<1> QED BY <1>2, Invariant, PTL DEF Spec, SuccessIsFinal

\* The outcome of an attempt is written by the manager that ran it, and its
\* run is over with that.
THEOREM OutcomeByHolderThm == Spec => OutcomeByHolder
<1>1. ASSUME IInv, [Next]_vars, NEW p \in Plan, exec[p].status = "RUNNING",
             exec'[p].status = "SUCCESS" \/ exec'[p].error_code = "handler_error"
      PROVE  \E m \in Runner : /\ Runs(m, p) /\ runner[m].attempt = exec[p].attempt
                              /\ ~ Runs(m, p)'
  <2>1. exec'[p] # exec[p]
    BY <1>1 DEF IInv, RunningHasNoError
  <2>2. PICK m \in Runner : /\ Runs(m, p) /\ Holds(m)
                            /\ \E outcome \in {"SUCCESS", "FAILED"} : Finish(m, outcome)
    BY <1>1, <2>1, RowSteps
  <2>3. GoOn(m, runner[m].plans) /\ runner[m].plans \in SUBSET Plan
    BY <1>1, <2>2 DEF Finish, IInv, TypeOK, RunnerState
  <2>4. PICK r \in RunnerState : runner' = [runner EXCEPT ![m] = r] /\ r.pc # "run"
    BY <1>1, <2>3, GoOnRunner DEF IInv
  <2>5. runner'[m].pc # "run"
    BY <1>1, <2>4 DEF IInv, TypeOK
  <2> QED BY <2>2, <2>5 DEF Runs, Holds
<1>2. IInv /\ [Next]_vars
      => [\A p \in Plan :
             /\ exec[p].status = "RUNNING"
             /\ exec'[p].status = "SUCCESS" \/ exec'[p].error_code = "handler_error"
             => \E m \in Runner : /\ Runs(m, p) /\ runner[m].attempt = exec[p].attempt
                                  /\ ~ Runs(m, p)']_vars
  BY <1>1
<1> QED BY <1>2, Invariant, PTL DEF Spec, OutcomeByHolder
=============================================================================
