------------------------------- MODULE MCDaemon -------------------------------
(* Instances of Daemon.                                                     *)
EXTENDS Daemon, TLC

CONSTANTS t1, t2, t3, s1, s2, d1, u1

\* Two tasks of one directory, and one that has its own.
SharedDirectory == t1 :> d1 @@ t2 :> d1 @@ t3 :> NoDir

Alike == Permutations({t1, t2}) \cup Permutations(Slot)
=============================================================================
