------------------------------ MODULE WorkQueue ------------------------------
(****************************************************************************)
(* What the task queue promises to those who ask for work and to those who  *)
(* do it, without polls, leases, sweeps or crashes: a piece of work is asked *)
(* for, claimed by one at a time of those that must not run together, begun *)
(* and closed; what failed may be tried again, once, as new work.           *)
(****************************************************************************)
CONSTANTS
    Work,
    Rival,      \* pairs of Work that must not be in hand together
    NoWork

VARIABLES
    phase,      \* of each piece of work
    origin      \* the failed work it tries again, or NoWork

vars == <<phase, origin>>

Open == {"waiting", "claimed", "begun"}
Phase == Open \cup {"none", "completed", "failed", "cancelled"}
InHand(w) == phase[w] \in {"claimed", "begun"}
Rivals(v, w) == <<v, w>> \in Rival \/ <<w, v>> \in Rival

Init ==
    /\ phase = [w \in Work |-> "none"]
    /\ origin = [w \in Work |-> NoWork]

Goes(w, from, to) ==
    /\ phase[w] = from
    /\ phase' = [phase EXCEPT ![w] = to]
    /\ UNCHANGED origin

Ask(w) == Goes(w, "none", "waiting")

Claim(w) ==
    /\ \A v \in Work : v # w /\ Rivals(v, w) => ~ InHand(v)
    /\ Goes(w, "waiting", "claimed")

\* A claim that did not reach its claimant, and only that, is undone.
GiveBack(w) == Goes(w, "claimed", "waiting")

Begin(w) == Goes(w, "claimed", "begun")

Complete(w) == Goes(w, "begun", "completed")

\* Work is given up wherever it stands, much of it at once.
GiveUp(outcome) ==
    /\ phase' \in [Work -> Phase]
    /\ \A w \in Work : phase'[w] # phase[w] => phase[w] \in Open /\ phase'[w] = outcome
    /\ UNCHANGED origin

\* With the failure or some time after it, and never a second time.
TryAgain(w, again) ==
    /\ InHand(w) \/ phase[w] = "failed"
    /\ phase[again] = "none"
    /\ \A v \in Work : origin[v] # w
    /\ phase' = [phase EXCEPT ![w] = "failed", ![again] = "waiting"]
    /\ origin' = [origin EXCEPT ![again] = w]

Next ==
    \/ GiveUp("failed") \/ GiveUp("cancelled")
    \/ \E w \in Work : Ask(w) \/ Claim(w) \/ GiveBack(w) \/ Begin(w) \/ Complete(w)
    \/ \E w, again \in Work : TryAgain(w, again)

Spec == Init /\ [][Next]_vars

-----------------------------------------------------------------------------
(* What follows from it.                                                    *)

\* Rivals are never in hand together.
RivalsApart ==
    \A v, w \in Work : v # w /\ Rivals(v, w) => ~ (InHand(v) /\ InHand(w))

\* What is tried again has failed and is tried again by one piece of work, which
\* was asked for.
TriedAgainOnce ==
    \A v \in Work : origin[v] # NoWork =>
        /\ phase[origin[v]] = "failed" /\ phase[v] # "none"
        /\ \A w \in Work : origin[w] = origin[v] => w = v

\* What is closed stays closed, with its outcome, and what is asked for is never
\* forgotten.
ClosedForGood ==
    [][\A w \in Work :
          /\ phase[w] \in {"completed", "failed", "cancelled"} => phase'[w] = phase[w]
          /\ phase[w] # "none" => phase'[w] # "none" /\ origin'[w] = origin[w]]_vars
=============================================================================
