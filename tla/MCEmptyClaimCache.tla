--------------------------- MODULE MCEmptyClaimCache ---------------------------
(****************************************************************************)
(* Small instances of EmptyClaimCache.                                      *)
(****************************************************************************)
EXTENDS EmptyClaimCache, TLC

CONSTANTS MaxVersion, t1, r1, r2, q1

SameRuntime == [t \in Task |-> r1]
OneBatch == {{r1, r2}}

\* A bound on the commits that are announced: beyond it Redis does not answer.
FewBumps == \A r \in Runtime : version[r] <= MaxVersion

CalmNext ==
    \/ Rows \/ Polls \/ Tick
    \/ \E t \in Task : (Bump(t) /\ FewBumps') \/ BumpExpire(t) \/ BumpFails(t)
BatchNext == CalmNext \/ (\E q \in Poll : Abort(q)) \/ Crash

\* Servers that stop and requests that break off do not do so for ever.
BatchSpec == Init /\ [][BatchNext]_vars /\ Fairness /\ <>[][CalmNext]_vars
=============================================================================
