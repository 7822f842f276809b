--------------------------- MODULE WorkQueueProofs ---------------------------
(****************************************************************************)
(* What the promise of the task queue amounts to, for any work and rivals.   *)
(****************************************************************************)
EXTENDS WorkQueue, TLAPS

Typed == phase \in [Work -> Phase] /\ origin \in [Work -> Work \cup {NoWork}]
IInv == Typed /\ RivalsApart /\ TriedAgainOnce

-----------------------------------------------------------------------------
\* One piece of work takes a step on its way.
LEMMA GoesOn ==
    ASSUME Typed, NEW w \in Work, NEW from, NEW to \in Phase, Goes(w, from, to)
    PROVE  /\ phase' \in [Work -> Phase] /\ UNCHANGED origin
           /\ phase[w] = from /\ phase'[w] = to
           /\ \A v \in Work : v # w => phase'[v] = phase[v]
BY DEF Typed, Goes

\* A step that takes nothing in hand and leaves what is closed.
LEMMA NothingTaken ==
    ASSUME IInv, phase' \in [Work -> Phase], UNCHANGED origin,
           \A w \in Work : /\ InHand(w)' => InHand(w)
                           /\ phase[w] = "failed" => phase'[w] = "failed"
                           /\ phase[w] # "none" => phase'[w] # "none"
    PROVE  IInv'
<1>1. Typed'
  BY DEF IInv, Typed
<1>2. RivalsApart'
  BY DEF IInv, RivalsApart, Rivals
<1>3. TriedAgainOnce'
  <2> SUFFICES ASSUME NEW v \in Work, origin[v] # NoWork
               PROVE  /\ phase'[origin[v]] = "failed" /\ phase'[v] # "none"
                      /\ \A w \in Work : origin[w] = origin[v] => w = v
    BY DEF TriedAgainOnce
  <2>1. origin[v] \in Work
    BY DEF IInv, Typed
  <2> QED
    BY <2>1 DEF IInv, TriedAgainOnce
<1> QED
  BY <1>1, <1>2, <1>3 DEF IInv

LEMMA InitInv == Init => IInv
BY DEF Init, IInv, Typed, RivalsApart, TriedAgainOnce, InHand, Phase, Open

\* Every step keeps the invariant.
LEMMA NextInv ==
    ASSUME IInv, [Next]_vars
    PROVE  IInv'
<1>0. Typed /\ RivalsApart /\ TriedAgainOnce
  BY DEF IInv
<1>1. ASSUME NEW w \in Work, Ask(w) \/ GiveBack(w) \/ Begin(w) \/ Complete(w) PROVE IInv'
  <2>1. PICK from, to \in Phase :
            /\ Goes(w, from, to)
            /\ to \in {"claimed", "begun"} => from \in {"claimed", "begun"}
            /\ from # "failed" /\ to # "none"
    BY <1>1 DEF Ask, GiveBack, Begin, Complete, Phase, Open
  <2> QED
    BY <1>0, <2>1, GoesOn, NothingTaken DEF InHand
<1>2. ASSUME NEW w \in Work, Claim(w) PROVE IInv'
  <2>1. "claimed" \in Phase /\ Goes(w, "waiting", "claimed")
    BY <1>2 DEF Claim, Phase, Open
  <2>2. /\ phase' \in [Work -> Phase] /\ UNCHANGED origin
        /\ phase[w] = "waiting" /\ phase'[w] = "claimed"
        /\ \A v \in Work : v # w => phase'[v] = phase[v]
    BY <1>0, <2>1, GoesOn
  <2>3. RivalsApart'
    <3> SUFFICES ASSUME NEW v \in Work, NEW u \in Work, v # u, Rivals(v, u)
                 PROVE  ~ (InHand(v)' /\ InHand(u)')
      BY DEF RivalsApart, Rivals
    <3>1. CASE w \in {v, u}
      BY <1>2, <2>2, <3>1 DEF Claim, Rivals, InHand
    <3>2. CASE w \notin {v, u}
      BY <1>0, <2>2, <3>2 DEF RivalsApart, InHand
    <3> QED
      BY <3>1, <3>2
  <2>4. TriedAgainOnce'
    <3> SUFFICES ASSUME NEW v \in Work, origin[v] # NoWork
                 PROVE  /\ phase'[origin[v]] = "failed" /\ phase'[v] # "none"
                        /\ \A u \in Work : origin[u] = origin[v] => u = v
      BY <2>2 DEF TriedAgainOnce
    <3>1. origin[v] \in Work
      BY <1>0 DEF Typed
    <3> QED
      BY <1>0, <2>2, <3>1 DEF TriedAgainOnce
  <2> QED
    BY <1>0, <2>2, <2>3, <2>4 DEF IInv, Typed
<1>3. ASSUME NEW outcome \in {"failed", "cancelled"}, GiveUp(outcome) PROVE IInv'
  BY <1>3, NothingTaken DEF GiveUp, InHand, Open
<1>4. ASSUME NEW w \in Work, NEW again \in Work, TryAgain(w, again) PROVE IInv'
  <2>1. /\ phase' \in [Work -> Phase] /\ origin' \in [Work -> Work \cup {NoWork}]
        /\ again # w /\ phase[again] = "none" /\ phase'[again] = "waiting" /\ phase'[w] = "failed"
        /\ \A v \in Work : v \notin {w, again} => phase'[v] = phase[v]
        /\ origin'[again] = w /\ \A v \in Work : v # again => origin'[v] = origin[v]
        /\ \A v \in Work : origin[v] # w
    BY <1>0, <1>4 DEF TryAgain, Typed, InHand, Phase, Open
  <2>2. RivalsApart'
    <3>1. \A v \in Work : InHand(v)' => InHand(v)
      BY <2>1 DEF InHand
    <3> QED
      BY <1>0, <3>1 DEF RivalsApart, Rivals
  <2>3. TriedAgainOnce'
    <3> SUFFICES ASSUME NEW v \in Work, origin'[v] # NoWork
                 PROVE  /\ phase'[origin'[v]] = "failed" /\ phase'[v] # "none"
                        /\ \A u \in Work : origin'[u] = origin'[v] => u = v
      BY DEF TriedAgainOnce
    <3>1. CASE v = again
      BY <2>1, <3>1
    <3>2. CASE v # again
      <4>1. /\ origin[v] \in Work /\ phase[origin[v]] = "failed" /\ phase[v] # "none"
            /\ \A u \in Work : origin[u] = origin[v] => u = v
        BY <1>0, <2>1, <3>2 DEF Typed, TriedAgainOnce
      <4> QED
        BY <2>1, <3>2, <4>1
    <3> QED
      BY <3>1, <3>2
  <2> QED
    BY <2>1, <2>2, <2>3 DEF IInv, Typed
<1>5. CASE UNCHANGED vars
  BY <1>0, <1>5 DEF vars, IInv, Typed, RivalsApart, Rivals, TriedAgainOnce, InHand
<1> QED
  BY <1>1, <1>2, <1>3, <1>4, <1>5 DEF Next

-----------------------------------------------------------------------------
\* The promise keeps rivals apart and has failed work tried again once.
THEOREM PromiseIsSafe == Spec => [](RivalsApart /\ TriedAgainOnce)
BY InitInv, NextInv, PTL DEF Spec, IInv

\* The promise never reopens what is closed, nor forgets what was asked for.
THEOREM PromiseIsFinal == Spec => ClosedForGood
<1>1. ASSUME IInv, [Next]_vars
      PROVE  [\A w \in Work :
                 /\ phase[w] \in {"completed", "failed", "cancelled"} => phase'[w] = phase[w]
                 /\ phase[w] # "none" => phase'[w] # "none" /\ origin'[w] = origin[w]]_vars
  <2> SUFFICES ASSUME Next, NEW w \in Work
               PROVE  /\ phase[w] \in {"completed", "failed", "cancelled"} => phase'[w] = phase[w]
                      /\ phase[w] # "none" => phase'[w] # "none" /\ origin'[w] = origin[w]
    BY <1>1
  <2>0. Typed
    BY <1>1 DEF IInv
  <2>1. ASSUME NEW v \in Work, Ask(v) \/ Claim(v) \/ GiveBack(v) \/ Begin(v) \/ Complete(v)
        PROVE  /\ UNCHANGED origin /\ phase'[v] # "none"
               /\ phase[v] \notin {"completed", "failed", "cancelled"}
               /\ \A u \in Work : u # v => phase'[u] = phase[u]
    BY <2>0, <2>1 DEF Ask, Claim, GiveBack, Begin, Complete, Goes, Typed
  <2>2. ASSUME NEW outcome \in {"failed", "cancelled"}, GiveUp(outcome)
        PROVE  /\ UNCHANGED origin
               /\ phase'[w] # phase[w] => phase[w] \in Open /\ phase'[w] = outcome
    BY <2>2 DEF GiveUp
  <2>3. ASSUME NEW v \in Work, NEW again \in Work, TryAgain(v, again)
        PROVE  /\ phase[again] = "none" /\ phase'[v] = "failed"
               /\ phase[v] \notin {"completed", "cancelled", "none"}
               /\ \A u \in Work : u \notin {v, again} => phase'[u] = phase[u]
               /\ \A u \in Work : u # again => origin'[u] = origin[u]
    BY <2>0, <2>3 DEF TryAgain, Typed, InHand
  <2> QED
    BY <2>1, <2>2, <2>3 DEF Next, Open
<1> QED
  BY <1>1, InitInv, NextInv, PTL DEF Spec, ClosedForGood
=============================================================================
