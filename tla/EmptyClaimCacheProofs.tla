------------------------ MODULE EmptyClaimCacheProofs ------------------------
(****************************************************************************)
(* For any number of rows, runtimes and requests and any lifetimes of the   *)
(* two keys that satisfy TTLAssumption: a verdict never hides a row whose   *)
(* Bump is done, unless the request that stored it lost its EXPIRE.         *)
(****************************************************************************)
EXTENDS EmptyClaimCache, TLAPS

Ages == [version : 0..(VersionTTL - 1), verdict : 0..(EmptyTTL - 1)]

\* A request that is not being handled has the type of one.
LEMMA IdleType == Idle \in PollState
<1>1. 0 \in 0..PollBound
  BY TTLAssumption
<1> QED BY <1>1 DEF Idle, PollState

\* Both keys are of age 0 at the start.
LEMMA ZeroAges == [version |-> 0, verdict |-> 0] \in Ages
<1>1. 0 \in 0..(VersionTTL - 1) /\ 0 \in 0..(EmptyTTL - 1)
  BY TTLAssumption
<1> QED BY <1>1 DEF Ages

\* The initial state has the types.
LEMMA InitType == Init => TypeOK
BY IdleType, ZeroAges DEF Init, TypeOK, Ages

\* A key that is set or renewed is of age 0.
LEMMA RenewedAges ==
  ASSUME NEW f \in [Runtime -> Ages], NEW r \in Runtime
  PROVE  /\ [f EXCEPT ![r].version = 0] \in [Runtime -> Ages]
         /\ [f EXCEPT ![r].verdict = 0] \in [Runtime -> Ages]
<1>1. 0 \in 0..(VersionTTL - 1) /\ 0 \in 0..(EmptyTTL - 1)
  BY TTLAssumption
<1>2. f[r] \in Ages
  OBVIOUS
<1>3. [f[r] EXCEPT !.version = 0] \in Ages /\ [f[r] EXCEPT !.verdict = 0] \in Ages
  BY <1>1, <1>2 DEF Ages
<1>4. /\ [f EXCEPT ![r].version = 0] = [f EXCEPT ![r] = [f[r] EXCEPT !.version = 0]]
      /\ [f EXCEPT ![r].verdict = 0] = [f EXCEPT ![r] = [f[r] EXCEPT !.verdict = 0]]
  OBVIOUS
<1> QED BY <1>3, <1>4

\* What a step of request q makes of the request.
LEMMA PollSteps ==
  ASSUME TypeOK, NEW q \in Poll, NEW p \in PollState,
         poll' = [poll EXCEPT ![q] = p]
  PROVE  poll' \in [Poll -> PollState] /\ poll'[q] = p /\ \A q2 \in Poll \ {q} : poll'[q2] = poll[q2]
BY DEF TypeOK

\* A request in the middle of its checks stays there, with one runtime less.
LEMMA IsEmptyPoll ==
  ASSUME TypeOK, NEW q \in Poll, NEW r \in Runtime, IsEmpty(q, r)
  PROVE  \E p \in PollState :
           /\ poll' = [poll EXCEPT ![q] = p]
           /\ p.pc = "check" /\ p.sampled = poll[q].sampled /\ p.seen = poll[q].seen
           /\ p.renew = poll[q].renew /\ p.unrenewed = poll[q].unrenewed /\ p.age = poll[q].age
<1>0. poll[q] \in PollState
  BY DEF TypeOK
<1> DEFINE p(m) == [poll[q] EXCEPT !.runtimes = poll[q].runtimes \ {r}, !.miss = m]
<1>1. p(poll[q].miss) \in PollState /\ p({r}) \in PollState
  BY <1>0 DEF PollState
<1>2. \/ poll' = [poll EXCEPT ![q] = p(poll[q].miss)]
      \/ poll' = [poll EXCEPT ![q] = p({r})]
  <2>1. [poll EXCEPT ![q].runtimes = @ \ {r}] = [poll EXCEPT ![q] = p(poll[q].miss)]
    BY <1>0 DEF TypeOK, PollState
  <2>2. [poll EXCEPT ![q].runtimes = @ \ {r}, ![q].miss = {r}] = [poll EXCEPT ![q] = p({r})]
    BY <1>0 DEF TypeOK, PollState
  <2> QED BY <2>1, <2>2 DEF IsEmpty
<1>3. \A m : /\ p(m).pc = poll[q].pc /\ p(m).sampled = poll[q].sampled
             /\ p(m).seen = poll[q].seen /\ p(m).renew = poll[q].renew
             /\ p(m).unrenewed = poll[q].unrenewed /\ p(m).age = poll[q].age
  BY <1>0 DEF PollState
<1> QED BY <1>1, <1>2, <1>3 DEF IsEmpty, AtNext

\* The version sampled is the current one, its key still to be renewed, or 0.
LEMMA CurrentVersionPoll ==
  ASSUME TypeOK, NEW q \in Poll, NEW r \in Runtime, CurrentVersion(q, r)
  PROVE  \E v \in Nat, p \in PollState :
           /\ poll' = [poll EXCEPT ![q] = p]
           /\ p.pc = "check" /\ p.sampled = poll[q].sampled \cup {r} /\ p.age = poll[q].age
           /\ p.seen = [poll[q].seen EXCEPT ![r] = v] /\ p.unrenewed = poll[q].unrenewed
           /\ \/ v = 0 /\ p.renew = poll[q].renew
              \/ v = version[r] /\ p.renew = poll[q].renew \cup {r}
<1>0. poll[q] \in PollState /\ poll \in [Poll -> PollState]
  BY DEF TypeOK
<1>1. PICK v \in {version[r], 0} : poll' = [poll EXCEPT ![q] = Sampled(poll[q], r, v)]
  BY DEF CurrentVersion
<1>2. v \in Nat /\ (v = version[r] \/ v = 0)
  BY DEF TypeOK
<1> DEFINE n == IF v > 0 THEN poll[q].renew \cup {r} ELSE poll[q].renew
           p == [poll[q] EXCEPT !.miss = {}, !.sampled = poll[q].sampled \cup {r},
                                !.seen = [poll[q].seen EXCEPT ![r] = v], !.renew = n]
<1>3. /\ n \in SUBSET Runtime
      /\ \/ v = 0 /\ n = poll[q].renew
         \/ v = version[r] /\ n = poll[q].renew \cup {r}
  <2>0. poll[q].renew \in SUBSET Runtime
    BY <1>0 DEF PollState
  <2>1. CASE v > 0
    BY <1>2, <2>0, <2>1
  <2>2. CASE v = 0
    BY <2>0, <2>2
  <2> QED BY <1>2, <2>1, <2>2
<1>4. Sampled(poll[q], r, v) = p
  BY <1>0 DEF Sampled, PollState
<1>5. poll' = [poll EXCEPT ![q] = p]
  BY <1>1, <1>4
<1> HIDE DEF n
<1>6. p \in PollState
  BY <1>0, <1>2, <1>3 DEF PollState
<1>7. /\ p.pc = poll[q].pc /\ p.sampled = poll[q].sampled \cup {r}
      /\ p.age = poll[q].age /\ p.seen = [poll[q].seen EXCEPT ![r] = v]
      /\ p.unrenewed = poll[q].unrenewed /\ p.renew = n
  BY <1>0 DEF PollState
<1> HIDE DEF p
<1> QED BY <1>2, <1>3, <1>5, <1>6, <1>7 DEF CurrentVersion

\* The key is renewed, or r is remembered as one whose key was not.
LEMMA RenewVersionPoll ==
  ASSUME TypeOK, NEW q \in Poll, NEW r \in Runtime, RenewVersion(q, r)
  PROVE  \E p \in PollState :
           /\ poll' = [poll EXCEPT ![q] = p]
           /\ p.pc = "check" /\ p.sampled = poll[q].sampled /\ p.age = poll[q].age
           /\ p.seen = poll[q].seen /\ p.renew = poll[q].renew \ {r}
           /\ \/ Renewed(r) /\ p.unrenewed = poll[q].unrenewed
              \/ UNCHANGED redis /\ p.unrenewed = poll[q].unrenewed \cup {r}
<1>0. poll[q] \in PollState
  BY DEF TypeOK
<1> DEFINE p(n) == [poll[q] EXCEPT !.renew = poll[q].renew \ {r}, !.unrenewed = n]
<1>1. \A n \in SUBSET Runtime : p(n) \in PollState
  BY <1>0 DEF PollState
<1>2. /\ [poll EXCEPT ![q].renew = @ \ {r}] = [poll EXCEPT ![q] = p(poll[q].unrenewed)]
      /\ [poll EXCEPT ![q] = NotRenewed(@, r)]
           = [poll EXCEPT ![q] = p(poll[q].unrenewed \cup {r})]
  <2>1. /\ [poll[q] EXCEPT !.renew = @ \ {r}] = p(poll[q].unrenewed)
        /\ NotRenewed(poll[q], r) = p(poll[q].unrenewed \cup {r})
    BY <1>0 DEF NotRenewed, PollState
  <2> HIDE DEF p
  <2>2. [poll EXCEPT ![q].renew = @ \ {r}] = [poll EXCEPT ![q] = [poll[q] EXCEPT !.renew = @ \ {r}]]
    BY <1>0 DEF TypeOK, PollState
  <2> QED BY <2>1, <2>2
<1>3. \A n : /\ p(n).pc = poll[q].pc /\ p(n).sampled = poll[q].sampled
             /\ p(n).age = poll[q].age /\ p(n).seen = poll[q].seen
             /\ p(n).renew = poll[q].renew \ {r} /\ p(n).unrenewed = n
  BY <1>0 DEF PollState
<1>4. /\ poll[q].unrenewed \in SUBSET Runtime /\ poll[q].unrenewed \cup {r} \in SUBSET Runtime
      /\ poll[q].pc = "check"
  BY <1>0 DEF RenewVersion, PollState
<1> HIDE DEF p
<1>5. \/ Renewed(r) /\ poll' = [poll EXCEPT ![q] = p(poll[q].unrenewed)]
      \/ UNCHANGED redis /\ poll' = [poll EXCEPT ![q] = p(poll[q].unrenewed \cup {r})]
  BY <1>2, Zenon DEF RenewVersion
<1>6. CASE Renewed(r) /\ poll' = [poll EXCEPT ![q] = p(poll[q].unrenewed)]
  <2>1. p(poll[q].unrenewed) \in PollState
    BY <1>1, <1>4
  <2> WITNESS p(poll[q].unrenewed) \in PollState
  <2> QED BY <1>3, <1>4, <1>6
<1>7. CASE UNCHANGED redis /\ poll' = [poll EXCEPT ![q] = p(poll[q].unrenewed \cup {r})]
  <2>1. p(poll[q].unrenewed \cup {r}) \in PollState
    BY <1>1, <1>4
  <2> WITNESS p(poll[q].unrenewed \cup {r}) \in PollState
  <2> QED BY <1>3, <1>4, <1>7
<1> QED BY <1>5, <1>6, <1>7

\* Storing the verdict of r leaves the rest of the request as it was.
LEMMA MarkEmptyPoll ==
  ASSUME TypeOK, NEW q \in Poll, NEW r \in Runtime, MarkEmpty(q, r)
  PROVE  \E p \in PollState :
           /\ poll' = [poll EXCEPT ![q] = p]
           /\ p.pc = "mark" /\ p.empty = poll[q].empty \ {r} /\ p.seen = poll[q].seen
           /\ p.unrenewed = poll[q].unrenewed /\ p.age = poll[q].age
<1>0. poll[q] \in PollState
  BY DEF TypeOK
<1> DEFINE p == [poll[q] EXCEPT !.empty = poll[q].empty \ {r}]
<1>1. p \in PollState
  BY <1>0 DEF PollState
<1>2. poll' = [poll EXCEPT ![q] = p]
  BY <1>0 DEF TypeOK, PollState, MarkEmpty
<1>3. /\ p.pc = poll[q].pc /\ p.empty = poll[q].empty \ {r} /\ p.seen = poll[q].seen
      /\ p.unrenewed = poll[q].unrenewed /\ p.age = poll[q].age
  BY <1>0 DEF PollState
<1> QED BY <1>1, <1>2, <1>3 DEF MarkEmpty

\* What is about to be stored as empty was sampled and has no queued row.
LEMMA SelectPoll ==
  ASSUME TypeOK, NEW q \in Poll, Select(q)
  PROVE  \E p \in PollState :
           /\ poll' = [poll EXCEPT ![q] = p]
           /\ \/ p.pc = "idle"
              \/ /\ p.pc = "mark" /\ p.seen = poll[q].seen /\ p.age = poll[q].age
                 /\ p.unrenewed = poll[q].unrenewed
                 /\ \A r \in p.empty : r \in poll[q].sampled /\ Queued(r) = {}
<1>0. poll[q] \in PollState
  BY DEF TypeOK
<1> DEFINE found == UNION {Queued(r) : r \in poll[q].sampled}
           none == {r \in poll[q].sampled : Queued(r) = {}}
           p == [poll[q] EXCEPT !.pc = "mark", !.listed = found, !.empty = none]
<1>1. found \in SUBSET Task /\ none \in SUBSET Runtime
  BY <1>0 DEF Queued, PollState
<1>2. \A r \in none : r \in poll[q].sampled /\ Queued(r) = {}
  OBVIOUS
<1> HIDE DEF found, none
<1>3. p \in PollState
  BY <1>0, <1>1 DEF PollState
<1>4. /\ p.pc = "mark" /\ p.seen = poll[q].seen /\ p.age = poll[q].age /\ p.empty = none
      /\ p.unrenewed = poll[q].unrenewed
  BY <1>0 DEF PollState
<1>5. poll' = [poll EXCEPT ![q] = Idle] \/ poll' = [poll EXCEPT ![q] = p]
  BY DEF Select, found, none
<1> QED BY <1>2, <1>3, <1>4, <1>5, IdleType DEF Idle

\* The other steps of a request leave it with nothing to check or to store.
LEMMA OtherPoll ==
  ASSUME TypeOK, NEW q \in Poll,
         \/ \E rs \in Machine : Start(q, rs)
         \/ Claim(q) \/ End(q) \/ Abort(q)
  PROVE  \E p \in PollState :
           /\ poll' = [poll EXCEPT ![q] = p]
           /\ p.pc # "mark" /\ (p.pc = "check" => p.sampled = {} /\ p.renew = {})
<1>0. poll[q] \in PollState
  BY DEF TypeOK
<1>1. ASSUME NEW rs \in Machine, Start(q, rs)
      PROVE  \E p \in PollState : /\ poll' = [poll EXCEPT ![q] = p]
                                  /\ p.pc = "check" /\ p.sampled = {} /\ p.renew = {}
  <2> DEFINE p == [Idle EXCEPT !.pc = "check", !.runtimes = rs]
  <2>1. p \in PollState
    BY IdleType, ColumnAssumption DEF PollState
  <2>2. p.pc = "check" /\ p.sampled = Idle.sampled /\ p.renew = Idle.renew
    BY IdleType DEF PollState
  <2>3. Idle.sampled = {} /\ Idle.renew = {}
    BY DEF Idle
  <2>4. poll' = [poll EXCEPT ![q] = p]
    BY <1>1, Zenon DEF Start
  <2> HIDE DEF p
  <2> QED BY <2>1, <2>2, <2>3, <2>4
<1>2. CASE Claim(q)
  <2> DEFINE p == [poll[q] EXCEPT !.pc = "claim"]
  <2>1. p \in PollState /\ p.pc = "claim"
    BY <1>0 DEF PollState
  <2>2. poll' = [poll EXCEPT ![q] = p]
    BY <1>2, <1>0 DEF Claim, TypeOK
  <2> QED BY <2>1, <2>2
<1>3. CASE End(q) \/ Abort(q)
  BY <1>3, IdleType DEF End, Abort, Idle
<1> QED BY <1>1, <1>2, <1>3

-----------------------------------------------------------------------------
\* A renewal keeps the types of the keys.
LEMMA RenewedType ==
  ASSUME TypeOK, NEW r \in Runtime, Renewed(r)
  PROVE  /\ version' \in [Runtime -> Nat]
         /\ lasting' \subseteq Runtime /\ unrenewed' \subseteq Runtime
         /\ verdict' \in [Runtime -> Nat \cup {NoVerdict}]
         /\ age' \in [Runtime -> [version : 0..(VersionTTL - 1), verdict : 0..(EmptyTTL - 1)]]
<1>1. age' \in [Runtime -> Ages]
  BY RenewedAges DEF Renewed, TypeOK, Ages
<1> QED BY <1>1 DEF Renewed, TypeOK, Ages

\* The steps of one request keep the types.
LEMMA PollStepType ==
  ASSUME TypeOK, NEW q \in Poll,
         (\E rs \in Machine : Start(q, rs)) \/ PollStep(q) \/ Abort(q)
  PROVE  TypeOK'
<1>1. ASSUME NEW r \in Runtime, IsEmpty(q, r) PROVE TypeOK'
  <2>1. PICK p \in PollState : poll' = [poll EXCEPT ![q] = p]
    BY <1>1, IsEmptyPoll
  <2> QED BY <1>1, <2>1 DEF IsEmpty, TypeOK, redis
<1>2. ASSUME NEW r \in Runtime, CurrentVersion(q, r) PROVE TypeOK'
  <2>1. PICK p \in PollState : poll' = [poll EXCEPT ![q] = p]
    BY <1>2, CurrentVersionPoll
  <2> QED BY <1>2, <2>1 DEF CurrentVersion, TypeOK, redis
<1>6. ASSUME NEW r \in Runtime, RenewVersion(q, r) PROVE TypeOK'
  <2>1. PICK p \in PollState : poll' = [poll EXCEPT ![q] = p]
    BY <1>6, RenewVersionPoll
  <2>2. poll' \in [Poll -> PollState]
    BY <2>1 DEF TypeOK
  <2>3. Renewed(r) \/ UNCHANGED redis
    BY <1>6 DEF RenewVersion
  <2>4. UNCHANGED <<row, owed, expiring>>
    BY <1>6 DEF RenewVersion
  <2>5. CASE Renewed(r)
    BY <2>2, <2>4, <2>5, RenewedType DEF TypeOK
  <2>6. CASE UNCHANGED redis
    BY <2>2, <2>4, <2>6 DEF TypeOK, redis
  <2> QED BY <2>3, <2>5, <2>6
<1>3. ASSUME NEW r \in Runtime, MarkEmpty(q, r) PROVE TypeOK'
  <2>1. PICK p \in PollState : poll' = [poll EXCEPT ![q] = p]
    BY <1>3, MarkEmptyPoll
  <2>2. age' \in [Runtime -> Ages]
    <3>1. age \in [Runtime -> Ages]
      BY DEF TypeOK, Ages
    <3>2. age' = [age EXCEPT ![r].verdict = 0] \/ age' = age
      BY <1>3 DEF MarkEmpty
    <3>3. [age EXCEPT ![r].verdict = 0] \in [Runtime -> Ages]
      BY <3>1, RenewedAges, Zenon
    <3> QED BY <3>1, <3>2, <3>3, Zenon
  <2>3. poll[q].seen[r] \in Nat
    BY DEF TypeOK, PollState
  <2>4. verdict' \in [Runtime -> Nat \cup {NoVerdict}]
    BY <1>3, <2>3 DEF MarkEmpty, TypeOK
  <2>5. unrenewed' \subseteq Runtime
    BY <1>3 DEF MarkEmpty, TypeOK
  <2> QED BY <1>3, <2>1, <2>2, <2>4, <2>5 DEF MarkEmpty, TypeOK, Ages
<1>4. CASE Select(q)
  <2>1. PICK p \in PollState : poll' = [poll EXCEPT ![q] = p]
    BY <1>4, SelectPoll
  <2> QED BY <1>4, <2>1 DEF Select, TypeOK, redis
<1>5. CASE (\E rs \in Machine : Start(q, rs)) \/ Claim(q) \/ End(q) \/ Abort(q)
  <2>1. PICK p \in PollState : poll' = [poll EXCEPT ![q] = p]
    BY <1>5, OtherPoll
  <2>2. UNCHANGED <<row, owed, expiring, redis>>
    BY <1>5, Zenon DEF Start, Claim, End, Abort
  <2> QED BY <2>1, <2>2 DEF TypeOK, redis
<1> QED BY <1>1, <1>2, <1>3, <1>4, <1>5, <1>6 DEF PollStep

\* A request that grows older stays one, but for an EXPIRE that came too late.
LEMMA LaterPoll ==
  ASSUME TypeOK, Tick, NEW q \in Poll, poll[q].pc # "idle"
  PROVE  \E p \in PollState :
           /\ poll'[q] = p
           /\ p.pc = poll[q].pc /\ p.sampled = poll[q].sampled
           /\ p.empty = poll[q].empty /\ p.seen = poll[q].seen
           /\ p.age = poll[q].age + 1 /\ poll[q].age \in Nat /\ p.age <= PollBound
           /\ p.renew = {r \in poll[q].renew : ~ VersionGone(r)}
           /\ p.unrenewed = poll[q].unrenewed \cup {r \in poll[q].renew : VersionGone(r)}
<1>0. poll[q] \in PollState
  BY DEF TypeOK
<1> DEFINE a == poll[q].age + 1
           n == {r \in poll[q].renew : ~ VersionGone(r)}
           u == poll[q].unrenewed \cup {r \in poll[q].renew : VersionGone(r)}
           p == [poll[q] EXCEPT !.age = a, !.renew = n, !.unrenewed = u]
<1>1. a \in 0..PollBound /\ poll[q].age \in Nat /\ a <= PollBound
  BY <1>0, TTLAssumption DEF Tick, PollState
<1>2. n \in SUBSET Runtime /\ u \in SUBSET Runtime
  BY <1>0 DEF PollState
<1>3. poll'[q] = p
  <2>1. poll'[q] = Later(poll[q])
    BY DEF Tick
  <2>2. Later(poll[q]) = p
    BY <1>0 DEF Later, PollState
  <2> QED BY <2>1, <2>2
<1> HIDE DEF a, n, u
<1>4. p \in PollState
  BY <1>0, <1>1, <1>2 DEF PollState
<1>5. /\ p.pc = poll[q].pc /\ p.sampled = poll[q].sampled
      /\ p.empty = poll[q].empty /\ p.seen = poll[q].seen
      /\ p.age = a /\ p.renew = n /\ p.unrenewed = u
  BY <1>0 DEF PollState
<1> HIDE DEF p
<1> QED BY <1>1, <1>3, <1>4, <1>5 DEF a, n, u

\* A tick keeps the types: a key is gone before its age reaches its lifetime.
LEMMA TickType == TypeOK /\ Tick => TypeOK'
<1> SUFFICES ASSUME TypeOK, Tick PROVE TypeOK'
  OBVIOUS
<1>1. version' \in [Runtime -> Nat] /\ verdict' \in [Runtime -> Nat \cup {NoVerdict}]
  BY DEF Tick, TypeOK
<1>2. ASSUME NEW r \in Runtime
      PROVE  /\ (IF VersionGone(r) \/ r \in lasting THEN 0 ELSE age[r].version + 1)
                   \in 0..(VersionTTL - 1)
             /\ (IF VerdictGone(r) THEN 0 ELSE age[r].verdict + 1) \in 0..(EmptyTTL - 1)
  <2>0. 0 \in 0..(VersionTTL - 1)
    BY TTLAssumption
  <2>1. age[r].version \in 0..(VersionTTL - 1) /\ age[r].verdict \in 0..(EmptyTTL - 1)
    BY DEF TypeOK
  <2> QED BY <2>0, <2>1, TTLAssumption DEF VersionGone, VerdictGone
<1>3. age' \in [Runtime -> Ages]
  BY <1>2 DEF Tick, Ages
<1>4. ASSUME NEW q \in Poll PROVE poll'[q] \in PollState
  <2>1. CASE poll[q].pc = "idle"
    BY <2>1 DEF Tick, TypeOK
  <2>2. CASE poll[q].pc # "idle"
    BY <2>2, LaterPoll
  <2> QED BY <2>1, <2>2
<1>5. poll' \in [Poll -> PollState]
  BY <1>4 DEF Tick
<1>6. row' \in [Task -> {"none", "queued", "counted", "announced", "taken", "done"}]
  BY DEF Tick, TypeOK
<1> QED BY <1>1, <1>3, <1>5, <1>6 DEF Tick, TypeOK, Ages

\* Every step keeps the types.
LEMMA TypeStep == TypeOK /\ [Next]_vars => TypeOK'
<1> SUFFICES ASSUME TypeOK, [Next]_vars PROVE TypeOK'
  OBVIOUS
<1>1. CASE Rows
  BY <1>1 DEF Rows, Commit, Take, Requeue, Finish, TypeOK, redis
<1>2. CASE Bumps
  <2>1. ASSUME NEW t \in Task, Bump(t) PROVE TypeOK'
    <3>1. RuntimeOf[t] \in Runtime
      BY ColumnAssumption
    <3>2. version' \in [Runtime -> Nat] /\ lasting' \subseteq Runtime
      BY <2>1, <3>1 DEF Bump, TypeOK
    <3>3. row' \in [Task -> {"none", "queued", "counted", "announced", "taken", "done"}]
      BY <2>1 DEF Bump, TypeOK
    <3> QED BY <2>1, <3>2, <3>3 DEF Bump, TypeOK
  <2>2. ASSUME NEW t \in Task, BumpFails(t) PROVE TypeOK'
    BY <2>2 DEF BumpFails, TypeOK, redis
  <2>3. ASSUME NEW t \in Task, BumpExpire(t) PROVE TypeOK'
    <3>1. RuntimeOf[t] \in Runtime
      BY ColumnAssumption
    <3>2. owed' \subseteq Task /\ expiring' \subseteq Task /\ poll' \in [Poll -> PollState]
      BY <2>3 DEF BumpExpire, TypeOK
    <3>3. row' \in [Task -> {"none", "queued", "counted", "announced", "taken", "done"}]
      BY <2>3 DEF BumpExpire, TypeOK
    <3>4. CASE Renewed(RuntimeOf[t])
      BY <3>1, <3>2, <3>3, <3>4, RenewedType DEF TypeOK
    <3>5. CASE UNCHANGED redis
      BY <3>2, <3>3, <3>5 DEF TypeOK, redis
    <3> QED BY <2>3, <3>4, <3>5 DEF BumpExpire
  <2> QED BY <1>2, <2>1, <2>2, <2>3 DEF Bumps
<1>3. CASE Polls \/ \E q \in Poll : Abort(q)
  BY <1>3, PollStepType DEF Polls
<1>4. CASE Tick
  BY <1>4, TickType
<1>5. CASE Crash
  BY <1>5, IdleType DEF Crash, TypeOK, redis
<1>6. CASE UNCHANGED vars
  BY <1>6 DEF vars, redis, TypeOK
<1> QED BY <1>1, <1>2, <1>3, <1>4, <1>5, <1>6 DEF Next

\* The types hold whatever fails or expires.
THEOREM TypeCorrect == Spec => []TypeOK
BY InitType, TypeStep, PTL DEF Spec

-----------------------------------------------------------------------------
(* Why no verdict hides an announced row: a version whose key was renewed at *)
(* most a time units ago is still the current one or an older one, as long   *)
(* as a is less than VersionTTL; and what was counted on a key goes with it. *)

Unannounced(r) == \A t \in Task : RuntimeOf[t] = r => row[t] # "announced"
Clean(r) == Unannounced(r) /\ \A t \in Task : RuntimeOf[t] = r => row[t] # "counted"

Recent(s, a, r) == s > 0 => version[r] >= s /\ age[r].version <= a
Overtaken(s, a, r) == version[r] > s /\ (age[r].version <= a \/ Unannounced(r))
Stands(s, a, r) == Recent(s, a, r) /\ (Clean(r) \/ Overtaken(s, a, r))

PollSafe(q) ==
    /\ poll[q].pc = "check" =>
           /\ \A r \in poll[q].renew : version[r] >= poll[q].seen[r]
           /\ \A r \in poll[q].sampled \ (poll[q].renew \cup poll[q].unrenewed) :
                  Recent(poll[q].seen[r], poll[q].age, r)
    /\ poll[q].pc = "mark" =>
           \A r \in poll[q].empty \ poll[q].unrenewed :
               Stands(poll[q].seen[r], poll[q].age, r)
VerdictSafe(r) ==
    verdict[r] # NoVerdict /\ r \notin unrenewed
        => Stands(verdict[r], age[r].verdict + PollBound, r)

SafeInv == TypeOK /\ (\A q \in Poll : PollSafe(q)) /\ (\A r \in Runtime : VerdictSafe(r))

\* At the start there is no verdict and no request.
LEMMA SafeInit == Init => SafeInv
<1> SUFFICES ASSUME Init PROVE SafeInv
  OBVIOUS
<1>1. \A q \in Poll : poll[q].pc = "idle"
  BY DEF Init, Idle
<1> QED BY <1>1, InitType DEF SafeInv, PollSafe, VerdictSafe, Init

\* A trusted verdict is one that no bump has overtaken.
LEMMA SafeSeen == SafeInv => AnnouncedRowsAreSeen
<1> SUFFICES ASSUME SafeInv, NEW t \in Task, row[t] \in {"counted", "announced"},
                    Trusted(RuntimeOf[t]), RuntimeOf[t] \notin unrenewed
             PROVE  FALSE
  BY DEF AnnouncedRowsAreSeen
<1>1. RuntimeOf[t] \in Runtime
  BY ColumnAssumption
<1>2. version[RuntimeOf[t]] \in Nat /\ verdict[RuntimeOf[t]] = version[RuntimeOf[t]]
  BY <1>1 DEF SafeInv, TypeOK, Trusted
<1>3. verdict[RuntimeOf[t]] # NoVerdict
  BY <1>2, VerdictAssumption
<1>4. Overtaken(verdict[RuntimeOf[t]], age[RuntimeOf[t]].verdict + PollBound, RuntimeOf[t])
  BY <1>1, <1>3 DEF SafeInv, VerdictSafe, Stands, Clean, Unannounced
<1> QED BY <1>2, <1>4 DEF Overtaken

-----------------------------------------------------------------------------
\* Outside Tick a version only grows and its key only gets younger; a row is
\* counted only by a step that makes the version of its runtime grow, and
\* announced only by one that renews its key.
Kept(r) ==
    /\ version'[r] >= version[r]
    /\ age'[r].version = age[r].version \/ age'[r].version = 0
    /\ Clean(r) => Clean(r)' \/ (version'[r] > version[r] /\ Unannounced(r)')
    /\ Unannounced(r) => Unannounced(r)' \/ age'[r].version = 0

\* A renewal, with the row of t at most announced by it.
LEMMA RenewedKept ==
  ASSUME TypeOK, NEW s \in Runtime, Renewed(s), NEW r \in Runtime,
         \A t \in Task :
             /\ row'[t] = "counted" => row[t] = "counted"
             /\ row'[t] = "announced" =>
                    \/ row[t] = "announced"
                    \/ RuntimeOf[t] = s /\ row[t] = "counted"
  PROVE  Kept(r)
<1>0. version[r] \in Nat /\ age[r] \in Ages /\ age \in [Runtime -> Ages]
  BY DEF TypeOK, Ages
<1>1. version'[r] = version[r]
  BY DEF Renewed
<1>2. /\ age'[r].version = age[r].version \/ age'[r].version = 0
      /\ r = s => age'[r].version = 0
  BY <1>0 DEF Renewed, Ages
<1>3. Unannounced(r) => Unannounced(r)' \/ r = s
  BY DEF Unannounced
<1>4. Clean(r) => Clean(r)'
  BY DEF Clean, Unannounced
<1> QED BY <1>0, <1>1, <1>2, <1>3, <1>4 DEF Kept

\* Every step outside Tick is of that kind.
LEMMA KeptStep ==
  ASSUME TypeOK, Rows \/ Bumps \/ Polls \/ (\E q \in Poll : Abort(q)) \/ Crash \/ UNCHANGED vars,
         NEW r \in Runtime
  PROVE  Kept(r)
<1>0. version[r] \in Nat /\ age[r] \in Ages /\ age \in [Runtime -> Ages]
  BY DEF TypeOK, Ages
<1>1. CASE Rows
  <2>1. UNCHANGED redis
    BY <1>1 DEF Rows, Commit, Take, Requeue, Finish
  <2>2. UNCHANGED <<version, age>>
    BY <2>1 DEF redis
  <2>3. \A t \in Task : row'[t] \in {"counted", "announced"} => row'[t] = row[t]
    BY <1>1 DEF Rows, Commit, Take, Requeue, Finish, TypeOK
  <2>4. (Clean(r) => Clean(r)') /\ (Unannounced(r) => Unannounced(r)')
    BY <2>3 DEF Clean, Unannounced
  <2> QED BY <1>0, <2>2, <2>4 DEF Kept
<1>2. ASSUME NEW t \in Task, Bump(t) PROVE Kept(r)
  <2>1. RuntimeOf[t] \in Runtime /\ UNCHANGED age
    BY <1>2, ColumnAssumption DEF Bump
  <2>2. \A u \in Task : row'[u] # row[u] => u = t /\ row'[u] = "counted"
    BY <1>2 DEF Bump, TypeOK
  <2>3. Unannounced(r) => Unannounced(r)'
    BY <2>2 DEF Unannounced
  <2>4. CASE r = RuntimeOf[t]
    <3>1. version'[r] = version[r] + 1
      BY <1>2, <2>4 DEF Bump, TypeOK
    <3> QED BY <1>0, <2>1, <2>3, <3>1 DEF Kept, Clean
  <2>5. CASE r # RuntimeOf[t]
    <3>1. version'[r] = version[r]
      BY <1>2, <2>5 DEF Bump, TypeOK
    <3>2. Clean(r) => Clean(r)'
      BY <2>2, <2>3, <2>5 DEF Clean
    <3> QED BY <1>0, <2>1, <2>3, <3>1, <3>2 DEF Kept
  <2> QED BY <2>4, <2>5
<1>3. ASSUME NEW t \in Task, BumpExpire(t) PROVE Kept(r)
  <2>1. CASE /\ Renewed(RuntimeOf[t])
             /\ row' = [row EXCEPT ![t] = IF @ = "counted" THEN "announced" ELSE @]
    <3>1. RuntimeOf[t] \in Runtime /\ Renewed(RuntimeOf[t])
      BY <2>1, ColumnAssumption
    <3>2. \A u \in Task : row'[u] # row[u] => u = t /\ row[u] = "counted" /\ row'[u] = "announced"
      BY <2>1 DEF TypeOK
    <3> QED BY <3>1, <3>2, RenewedKept
  <2>2. CASE UNCHANGED <<row, redis>>
    BY <1>0, <2>2 DEF Kept, Clean, Unannounced, redis
  <2> QED BY <1>3, <2>1, <2>2 DEF BumpExpire
<1>4. ASSUME NEW q \in Poll, NEW s \in Runtime, RenewVersion(q, s) PROVE Kept(r)
  <2>1. UNCHANGED row /\ (Renewed(s) \/ UNCHANGED redis)
    BY <1>4 DEF RenewVersion
  <2>2. CASE Renewed(s)
    BY <2>1, <2>2, RenewedKept
  <2>3. CASE UNCHANGED redis
    BY <1>0, <2>1, <2>3 DEF Kept, Clean, Unannounced, redis
  <2> QED BY <2>1, <2>2, <2>3
<1>5. ASSUME NEW q \in Poll, NEW s \in Runtime, MarkEmpty(q, s) PROVE Kept(r)
  <2>1. age'[r].version = age[r].version
    BY <1>0, <1>5 DEF MarkEmpty, Ages
  <2>2. UNCHANGED <<row, version>>
    BY <1>5 DEF MarkEmpty
  <2> QED BY <1>0, <2>1, <2>2 DEF Kept, Clean, Unannounced
<1>6. CASE UNCHANGED <<row, redis>>
  BY <1>0, <1>6 DEF Kept, Clean, Unannounced, redis
<1>7. ASSUME NEW q \in Poll,
             \/ \E rs \in Machine : Start(q, rs)
             \/ \E s \in Runtime : IsEmpty(q, s) \/ CurrentVersion(q, s)
             \/ Select(q) \/ Claim(q) \/ End(q) \/ Abort(q)
      PROVE  Kept(r)
  <2>1. UNCHANGED <<row, redis>>
    BY <1>7, Zenon DEF Start, IsEmpty, CurrentVersion, Select, Claim, End, Abort
  <2> QED BY <1>6, <2>1
<1>8. CASE Crash \/ UNCHANGED vars
  BY <1>6, <1>8 DEF Crash, vars
<1>9. ASSUME NEW t \in Task, BumpFails(t) PROVE Kept(r)
  BY <1>6, <1>9 DEF BumpFails
<1> QED BY <1>1, <1>2, <1>3, <1>4, <1>5, <1>7, <1>8, <1>9 DEF Bumps, Polls, PollStep

\* What stands keeps standing, for a bound on the age that may have grown.
LEMMA StandsKept ==
  ASSUME TypeOK, TypeOK', NEW r \in Runtime, Kept(r), NEW s \in Nat, NEW a \in Nat
  PROVE  /\ Recent(s, a, r) => Recent(s, a, r)'
         /\ Stands(s, a, r) => Stands(s, a, r)'
<1>1. /\ version[r] \in Nat /\ version'[r] \in Nat
      /\ age[r].version \in Nat /\ age'[r].version \in Nat
  BY TTLAssumption DEF TypeOK
<1>2. Recent(s, a, r) => Recent(s, a, r)'
  BY <1>1 DEF Kept, Recent
<1>3. ASSUME Overtaken(s, a, r) PROVE Overtaken(s, a, r)'
  <2>1. version'[r] > s
    BY <1>1, <1>3 DEF Kept, Overtaken
  <2>2. age'[r].version <= a \/ Unannounced(r)'
    BY <1>1, <1>3 DEF Kept, Overtaken
  <2> QED BY <2>1, <2>2 DEF Overtaken
<1>4. ASSUME Clean(r), Recent(s, a, r) PROVE Clean(r)' \/ Overtaken(s, a, r)'
  <2>1. CASE version'[r] > version[r] /\ Unannounced(r)'
    <3>1. version'[r] > s
      BY <1>1, <1>4, <2>1 DEF Recent
    <3> QED BY <2>1, <3>1 DEF Overtaken
  <2> QED BY <1>4, <2>1 DEF Kept
<1> QED BY <1>2, <1>3, <1>4 DEF Stands

\* A unit of time later it stands for a bound greater by one.
LEMMA StandsTick ==
  ASSUME TypeOK, Tick, NEW r \in Runtime, NEW s \in Nat, NEW a \in Nat, a + 1 < VersionTTL
  PROVE  /\ Recent(s, a, r) => Recent(s, a + 1, r)'
         /\ Stands(s, a, r) => Stands(s, a + 1, r)'
<1>1. version[r] \in Nat /\ age[r].version \in 0..(VersionTTL - 1)
  BY DEF TypeOK
<1>2. ASSUME age[r].version <= a, version[r] > 0
      PROVE  version'[r] = version[r] /\ age'[r].version <= a + 1
  <2>1. ~ VersionGone(r)
    BY <1>1, <1>2, TTLAssumption DEF VersionGone
  <2>2. version'[r] = version[r] /\ age'[r].version \in {0, age[r].version + 1}
    BY <2>1 DEF Tick
  <2> QED BY <1>1, <1>2, <2>2
<1>3. (Clean(r) => Clean(r)') /\ (Unannounced(r) => Unannounced(r)')
  <2>1. \A t \in Task : row'[t] = row[t] \/ row'[t] = "queued"
    BY DEF Tick
  <2> QED BY <2>1 DEF Clean, Unannounced
<1>4. Recent(s, a, r) => Recent(s, a + 1, r)'
  BY <1>1, <1>2, TTLAssumption DEF Recent
<1>5. ASSUME Overtaken(s, a, r) PROVE Clean(r)' \/ Overtaken(s, a + 1, r)'
  <2>1. CASE age[r].version <= a
    BY <1>1, <1>2, <1>5, <2>1 DEF Overtaken
  <2>2. CASE Unannounced(r) /\ VersionGone(r)
    <3>1. \A t \in Task : RuntimeOf[t] = r => row'[t] # "counted"
      BY <2>2 DEF Tick
    <3> QED BY <1>3, <2>2, <3>1 DEF Clean
  <2>3. CASE Unannounced(r) /\ ~ VersionGone(r)
    <3>1. version'[r] = version[r]
      BY <2>3 DEF Tick
    <3> QED BY <1>3, <1>5, <2>3, <3>1 DEF Overtaken
  <2> QED BY <1>5, <2>1, <2>2, <2>3 DEF Overtaken
<1> QED BY <1>3, <1>4, <1>5 DEF Stands

\* A bound on the age may be replaced by a greater one.
LEMMA StandsLonger ==
  ASSUME TypeOK, NEW r \in Runtime, NEW s \in Nat, NEW a \in Nat, NEW b \in Nat, a <= b, Stands(s, a, r)
  PROVE  Stands(s, b, r)
<1>1. age[r].version \in Nat
  BY TTLAssumption DEF TypeOK
<1> QED BY <1>1 DEF Stands, Recent, Overtaken

-----------------------------------------------------------------------------
\* A request that a step leaves alone, outside Tick.
LEMMA PollKept ==
  ASSUME TypeOK, TypeOK', NEW q \in Poll, PollSafe(q), poll'[q] = poll[q],
         \A r \in Runtime : Kept(r)
  PROVE  PollSafe(q)'
<1>0. poll[q] \in PollState
  BY DEF TypeOK
<1>1. ASSUME poll[q].pc = "check",
             NEW r \in poll[q].sampled \ (poll[q].renew \cup poll[q].unrenewed)
      PROVE  (Recent(poll[q].seen[r], poll[q].age, r))'
  <2>0. r \in Runtime /\ Kept(r)
    BY <1>0, <1>1 DEF PollState
  <2>1. PICK s \in Nat, a \in Nat : s = poll[q].seen[r] /\ a = poll[q].age
    BY <1>0, <2>0, TTLAssumption DEF PollState
  <2>2. Recent(s, a, r)
    BY <1>1, <2>1 DEF PollSafe
  <2>3. Recent(s, a, r)'
    BY <2>0, <2>2, StandsKept
  <2> QED BY <2>1, <2>3
<1>2. ASSUME poll[q].pc = "mark", NEW r \in poll[q].empty \ poll[q].unrenewed
      PROVE  (Stands(poll[q].seen[r], poll[q].age, r))'
  <2>0. r \in Runtime /\ Kept(r)
    BY <1>0, <1>2 DEF PollState
  <2>1. PICK s \in Nat, a \in Nat : s = poll[q].seen[r] /\ a = poll[q].age
    BY <1>0, <2>0, TTLAssumption DEF PollState
  <2>2. Stands(s, a, r)
    BY <1>2, <2>1 DEF PollSafe
  <2>3. Stands(s, a, r)'
    BY <2>0, <2>2, StandsKept
  <2> QED BY <2>1, <2>3
<1>3. ASSUME poll[q].pc = "check", NEW r \in poll[q].renew
      PROVE  version'[r] >= poll[q].seen[r]
  <2>0. r \in Runtime /\ Kept(r) /\ poll[q].seen[r] \in Nat
    BY <1>0, <1>3 DEF PollState
  <2>1. version[r] \in Nat /\ version'[r] \in Nat /\ version[r] >= poll[q].seen[r]
    BY <1>3, <2>0 DEF PollSafe, TypeOK
  <2> QED BY <2>0, <2>1 DEF Kept
<1> QED BY <1>1, <1>2, <1>3 DEF PollSafe

\* A verdict that a step leaves alone, outside Tick.
LEMMA VerdictKept ==
  ASSUME TypeOK, TypeOK', NEW r \in Runtime, VerdictSafe(r), Kept(r),
         verdict'[r] = verdict[r], age'[r].verdict = age[r].verdict,
         r \in unrenewed => r \in unrenewed'
  PROVE  VerdictSafe(r)'
<1> SUFFICES ASSUME verdict'[r] # NoVerdict, r \notin unrenewed'
             PROVE  Stands(verdict[r], age[r].verdict + PollBound, r)'
  BY DEF VerdictSafe
<1>1. PICK s \in Nat, a \in Nat : s = verdict[r] /\ a = age[r].verdict + PollBound
  BY TTLAssumption DEF TypeOK
<1>2. Stands(s, a, r)
  BY <1>1 DEF VerdictSafe
<1>3. Stands(s, a, r)'
  BY <1>2, StandsKept
<1> QED BY <1>1, <1>3

\* The steps of a request.
LEMMA PollStepSafe ==
  ASSUME SafeInv, TypeOK', NEW q \in Poll,
         (\E rs \in Machine : Start(q, rs)) \/ PollStep(q) \/ Abort(q)
  PROVE  PollSafe(q)' /\ (\A q2 \in Poll \ {q} : poll'[q2] = poll[q2])
<1>0. TypeOK /\ PollSafe(q) /\ poll[q] \in PollState /\ poll \in [Poll -> PollState]
  BY DEF SafeInv, TypeOK
<1>k. \A r \in Runtime : Kept(r)
  BY <1>0, KeptStep DEF Polls
<1>n. \A r \in Runtime : version'[r] \in Nat /\ version[r] \in Nat /\ poll[q].seen[r] \in Nat
  BY <1>0 DEF TypeOK, PollState
<1>1. ASSUME NEW r0 \in Runtime, IsEmpty(q, r0)
      PROVE  PollSafe(q)' /\ (\A q2 \in Poll \ {q} : poll'[q2] = poll[q2])
  <2>1. PICK p \in PollState :
           /\ poll' = [poll EXCEPT ![q] = p]
           /\ p.pc = "check" /\ p.sampled = poll[q].sampled /\ p.seen = poll[q].seen
           /\ p.renew = poll[q].renew /\ p.unrenewed = poll[q].unrenewed /\ p.age = poll[q].age
    BY <1>0, <1>1, IsEmptyPoll
  <2>2. poll'[q] = p /\ poll[q].renew = {} /\ poll[q].pc = "check"
    BY <1>0, <1>1, <2>1 DEF IsEmpty, AtNext
  <2>3. ASSUME NEW r \in p.sampled \ (p.renew \cup p.unrenewed)
        PROVE  (Recent(poll[q].seen[r], poll[q].age, r))'
    <3>0. r \in Runtime /\ Kept(r)
      BY <1>k DEF PollState
    <3>1. PICK s \in Nat, a \in Nat : s = p.seen[r] /\ a = p.age
      BY <3>0, TTLAssumption DEF PollState
    <3>2. Recent(s, a, r)
      BY <1>0, <2>1, <2>2, <2>3, <3>1 DEF PollSafe
    <3>3. Recent(s, a, r)'
      BY <1>0, <3>0, <3>2, StandsKept
    <3> QED BY <2>2, <3>1, <3>3
  <2> QED BY <1>0, <2>1, <2>2, <2>3 DEF PollSafe
<1>2. ASSUME NEW r0 \in Runtime, CurrentVersion(q, r0)
      PROVE  PollSafe(q)' /\ (\A q2 \in Poll \ {q} : poll'[q2] = poll[q2])
  <2>1. PICK v \in Nat, p \in PollState :
           /\ poll' = [poll EXCEPT ![q] = p]
           /\ p.pc = "check" /\ p.sampled = poll[q].sampled \cup {r0} /\ p.age = poll[q].age
           /\ p.seen = [poll[q].seen EXCEPT ![r0] = v] /\ p.unrenewed = poll[q].unrenewed
           /\ \/ v = 0 /\ p.renew = poll[q].renew
              \/ v = version[r0] /\ p.renew = poll[q].renew \cup {r0}
    BY <1>0, <1>2, CurrentVersionPoll
  <2>2. poll'[q] = p /\ poll[q].pc = "check" /\ UNCHANGED version
    BY <1>0, <1>2, <2>1 DEF CurrentVersion, redis
  <2>3. ASSUME NEW r \in p.sampled \ (p.renew \cup p.unrenewed)
        PROVE  (Recent(poll[q].seen[r], poll[q].age, r))'
    <3>0. r \in Runtime /\ Kept(r)
      BY <1>k DEF PollState
    <3>1. PICK s \in Nat, a \in Nat : s = p.seen[r] /\ a = p.age
      BY <3>0, TTLAssumption DEF PollState
    <3>2. CASE r = r0
      <4>1. s = 0
        BY <1>0, <2>1, <2>3, <3>1, <3>2 DEF PollState
      <4> QED BY <2>2, <3>1, <4>1 DEF Recent
    <3>3. CASE r # r0
      <4>1. /\ s = poll[q].seen[r]
            /\ r \in poll[q].sampled \ (poll[q].renew \cup poll[q].unrenewed)
        BY <1>0, <2>1, <2>3, <3>0, <3>1, <3>3 DEF PollState
      <4>2. Recent(s, a, r)
        BY <1>0, <2>1, <2>2, <3>1, <4>1 DEF PollSafe
      <4>3. Recent(s, a, r)'
        BY <1>0, <3>0, <4>2, StandsKept
      <4> QED BY <2>2, <3>1, <4>3
    <3> QED BY <3>2, <3>3
  <2>4. ASSUME NEW r \in p.renew PROVE version'[r] >= p.seen[r]
    <3>0. r \in Runtime
      BY <2>4 DEF PollState
    <3>1. CASE r # r0
      <4>1. r \in poll[q].renew /\ p.seen[r] = poll[q].seen[r]
        BY <1>0, <2>1, <2>4, <3>0, <3>1 DEF PollState
      <4>2. version[r] >= p.seen[r]
        BY <1>0, <2>2, <4>1 DEF PollSafe
      <4> QED BY <2>2, <4>2
    <3>2. CASE r = r0
      <4>1. p.seen[r] = 0 \/ p.seen[r] = version[r]
        BY <1>0, <2>1, <3>2 DEF PollState
      <4> QED BY <1>n, <2>2, <3>0, <4>1
    <3> QED BY <3>1, <3>2
  <2> QED BY <1>0, <2>1, <2>2, <2>3, <2>4 DEF PollSafe
<1>6. ASSUME NEW r0 \in Runtime, RenewVersion(q, r0)
      PROVE  PollSafe(q)' /\ (\A q2 \in Poll \ {q} : poll'[q2] = poll[q2])
  <2>1. PICK p \in PollState :
           /\ poll' = [poll EXCEPT ![q] = p]
           /\ p.pc = "check" /\ p.sampled = poll[q].sampled /\ p.age = poll[q].age
           /\ p.seen = poll[q].seen /\ p.renew = poll[q].renew \ {r0}
           /\ \/ Renewed(r0) /\ p.unrenewed = poll[q].unrenewed
              \/ UNCHANGED redis /\ p.unrenewed = poll[q].unrenewed \cup {r0}
    BY <1>0, <1>6, RenewVersionPoll
  <2>2. poll'[q] = p /\ poll[q].pc = "check" /\ r0 \in poll[q].renew
    BY <1>0, <1>6, <2>1 DEF RenewVersion
  <2>3. ASSUME NEW r \in p.sampled \ (p.renew \cup p.unrenewed)
        PROVE  (Recent(poll[q].seen[r], poll[q].age, r))'
    <3>0. r \in Runtime /\ Kept(r)
      BY <1>k DEF PollState
    <3>1. PICK s \in Nat, a \in Nat : s = p.seen[r] /\ a = p.age
      BY <3>0, TTLAssumption DEF PollState
    <3>2. CASE r = r0
      <4>1. Renewed(r0) /\ version'[r] = version[r] /\ version[r] >= s
        BY <1>0, <2>1, <2>2, <2>3, <3>1, <3>2 DEF PollSafe, Renewed
      <4>2. age'[r].version = 0
        BY <1>0, <3>2, <4>1 DEF Renewed, TypeOK
      <4> QED BY <2>2, <3>1, <4>1, <4>2 DEF Recent
    <3>3. CASE r # r0
      <4>1. Recent(s, a, r)
        BY <1>0, <2>1, <2>2, <2>3, <3>1, <3>3 DEF PollSafe
      <4>2. Recent(s, a, r)'
        BY <1>0, <3>0, <4>1, StandsKept
      <4> QED BY <2>2, <3>1, <4>2
    <3> QED BY <3>2, <3>3
  <2>4. ASSUME NEW r \in p.renew PROVE version'[r] >= p.seen[r]
    <3>0. r \in Runtime /\ r \in poll[q].renew /\ Kept(r)
      BY <1>k, <2>1, <2>4 DEF PollState
    <3>1. version[r] >= p.seen[r] /\ version'[r] >= version[r] /\ p.seen[r] \in Nat
      BY <1>0, <1>n, <2>1, <2>2, <3>0 DEF PollSafe, Kept
    <3> QED BY <1>n, <3>0, <3>1
  <2> QED BY <1>0, <2>1, <2>2, <2>3, <2>4 DEF PollSafe
<1>3. ASSUME NEW r0 \in Runtime, MarkEmpty(q, r0)
      PROVE  PollSafe(q)' /\ (\A q2 \in Poll \ {q} : poll'[q2] = poll[q2])
  <2>1. PICK p \in PollState :
           /\ poll' = [poll EXCEPT ![q] = p]
           /\ p.pc = "mark" /\ p.empty = poll[q].empty \ {r0} /\ p.seen = poll[q].seen
           /\ p.unrenewed = poll[q].unrenewed /\ p.age = poll[q].age
    BY <1>0, <1>3, MarkEmptyPoll
  <2>2. poll'[q] = p /\ poll[q].pc = "mark"
    BY <1>0, <1>3, <2>1 DEF MarkEmpty
  <2>3. ASSUME NEW r \in p.empty \ p.unrenewed PROVE (Stands(poll[q].seen[r], poll[q].age, r))'
    <3>0. r \in Runtime /\ Kept(r)
      BY <1>k DEF PollState
    <3>1. PICK s \in Nat, a \in Nat : s = p.seen[r] /\ a = p.age
      BY <3>0, TTLAssumption DEF PollState
    <3>2. Stands(s, a, r)
      BY <1>0, <2>1, <2>2, <2>3, <3>1 DEF PollSafe
    <3>3. Stands(s, a, r)'
      BY <1>0, <3>0, <3>2, StandsKept
    <3> QED BY <2>2, <3>1, <3>3
  <2> QED BY <1>0, <2>1, <2>2, <2>3 DEF PollSafe
<1>4. CASE Select(q)
  <2>1. PICK p \in PollState :
           /\ poll' = [poll EXCEPT ![q] = p]
           /\ \/ p.pc = "idle"
              \/ /\ p.pc = "mark" /\ p.seen = poll[q].seen /\ p.age = poll[q].age
                 /\ p.unrenewed = poll[q].unrenewed
                 /\ \A r \in p.empty : r \in poll[q].sampled /\ Queued(r) = {}
    BY <1>0, <1>4, SelectPoll
  <2>2. poll'[q] = p
    BY <1>0, <2>1
  <2>3. ASSUME p.pc = "mark", NEW r \in p.empty \ p.unrenewed PROVE (Stands(poll[q].seen[r], poll[q].age, r))'
    <3>0. r \in Runtime /\ Kept(r)
      BY <1>k DEF PollState
    <3>1. PICK s \in Nat, a \in Nat : s = p.seen[r] /\ a = p.age
      BY <3>0, TTLAssumption DEF PollState
    <3>2. Recent(s, a, r) /\ Queued(r) = {}
      <4>1. poll[q].pc = "check" /\ poll[q].renew = {}
        BY <1>4 DEF Select
      <4> QED BY <1>0, <2>1, <2>3, <3>1, <4>1 DEF PollSafe
    <3>3. Clean(r)
      BY <3>2 DEF Queued, Clean, Unannounced, Waiting
    <3>4. Stands(s, a, r)'
      BY <1>0, <3>0, <3>2, <3>3, StandsKept DEF Stands
    <3> QED BY <2>2, <3>1, <3>4
  <2> QED BY <1>0, <2>1, <2>2, <2>3 DEF PollSafe
<1>5. CASE (\E rs \in Machine : Start(q, rs)) \/ Claim(q) \/ End(q) \/ Abort(q)
  <2>1. PICK p \in PollState : /\ poll' = [poll EXCEPT ![q] = p]
                               /\ p.pc # "mark"
                               /\ p.pc = "check" => p.sampled = {} /\ p.renew = {}
    BY <1>0, <1>5, OtherPoll
  <2>2. poll'[q] = p
    BY <1>0, <2>1
  <2> QED BY <1>0, <2>1, <2>2 DEF PollSafe
<1> QED BY <1>1, <1>2, <1>3, <1>4, <1>5, <1>6 DEF PollStep

-----------------------------------------------------------------------------
\* A verdict is stored for what stands.
LEMMA MarkEmptySafe ==
  ASSUME SafeInv, TypeOK', NEW q \in Poll, NEW r0 \in Runtime, MarkEmpty(q, r0), NEW r \in Runtime
  PROVE  VerdictSafe(r)'
<1>0. TypeOK /\ VerdictSafe(r) /\ PollSafe(q) /\ poll[q] \in PollState /\ age \in [Runtime -> Ages]
  BY DEF SafeInv, TypeOK, Ages
<1>k. Kept(r)
  BY <1>0, KeptStep DEF Polls, PollStep
<1>1. CASE verdict'[r] = verdict[r] /\ age'[r] = age[r] /\ (r \in unrenewed => r \in unrenewed')
  BY <1>0, <1>1, <1>k, VerdictKept
<1>2. CASE r = r0 /\ verdict' = [verdict EXCEPT ![r] = poll[q].seen[r]]
                  /\ unrenewed' = (unrenewed \ {r}) \cup (poll[q].unrenewed \cap {r})
                  /\ age' = [age EXCEPT ![r].verdict = 0]
  <2>0. SUFFICES ASSUME r \notin poll[q].unrenewed PROVE VerdictSafe(r)'
    BY <1>2 DEF VerdictSafe
  <2>1. PICK s \in Nat, a \in Nat : s = poll[q].seen[r] /\ a = poll[q].age /\ a <= PollBound
    BY <1>0, TTLAssumption DEF PollState
  <2>2. Stands(s, a, r)
    BY <1>0, <1>2, <2>0, <2>1 DEF MarkEmpty, PollSafe
  <2>3. Stands(s, PollBound, r)
    BY <1>0, <2>1, <2>2, StandsLonger, TTLAssumption
  <2>4. Stands(s, PollBound, r)'
    BY <1>0, <1>k, <2>3, StandsKept, TTLAssumption
  <2>5. verdict'[r] = s
    BY <1>0, <1>2, <2>1 DEF TypeOK
  <2>6. age'[r].verdict = 0
    BY <1>0, <1>2 DEF Ages
  <2>7. age'[r].verdict + PollBound = PollBound
    BY <2>6, TTLAssumption
  <2> QED BY <2>4, <2>5, <2>7 DEF VerdictSafe
<1>3. \/ UNCHANGED <<verdict, unrenewed, age>>
      \/ /\ verdict' = [verdict EXCEPT ![r0] = poll[q].seen[r0]]
         /\ unrenewed' = (unrenewed \ {r0}) \cup (poll[q].unrenewed \cap {r0})
         /\ age' = [age EXCEPT ![r0].verdict = 0]
  BY DEF MarkEmpty
<1> QED BY <1>0, <1>1, <1>2, <1>3 DEF TypeOK

\* Outside Tick and MarkEmpty no verdict changes.
LEMMA OtherVerdicts ==
  ASSUME TypeOK, NEW r \in Runtime,
         \/ Rows \/ Bumps \/ Crash \/ UNCHANGED vars
         \/ \E q \in Poll : \/ \E rs \in Machine : Start(q, rs)
                            \/ \E s \in Runtime : \/ IsEmpty(q, s) \/ CurrentVersion(q, s)
                                                  \/ RenewVersion(q, s)
                            \/ Select(q) \/ Claim(q) \/ End(q) \/ Abort(q)
  PROVE  /\ verdict'[r] = verdict[r] /\ age'[r].verdict = age[r].verdict
         /\ UNCHANGED unrenewed
<1>0. age \in [Runtime -> Ages]
  BY DEF TypeOK, Ages
<1>1. CASE UNCHANGED redis
  BY <1>1 DEF redis
<1>2. ASSUME NEW s \in Runtime, Renewed(s)
      PROVE  /\ verdict'[r] = verdict[r] /\ age'[r].verdict = age[r].verdict
             /\ UNCHANGED unrenewed
  BY <1>0, <1>2 DEF Renewed, Ages
<1>3. CASE Rows \/ Crash \/ UNCHANGED vars
  BY <1>1, <1>3 DEF Rows, Commit, Take, Requeue, Finish, Crash, vars
<1>4. ASSUME NEW t \in Task, Bump(t)
      PROVE  verdict'[r] = verdict[r] /\ age'[r].verdict = age[r].verdict /\ UNCHANGED unrenewed
  BY <1>4 DEF Bump
<1>5. ASSUME NEW t \in Task, BumpExpire(t) PROVE UNCHANGED redis \/ \E s \in Runtime : Renewed(s)
  BY <1>5, ColumnAssumption, Zenon DEF BumpExpire
<1>6. ASSUME NEW t \in Task, BumpFails(t) PROVE UNCHANGED redis
  BY <1>6 DEF BumpFails
<1>7. ASSUME NEW q \in Poll, \/ \E rs \in Machine : Start(q, rs)
                             \/ \E s \in Runtime : IsEmpty(q, s) \/ CurrentVersion(q, s)
                             \/ Select(q) \/ Claim(q) \/ End(q) \/ Abort(q)
      PROVE  UNCHANGED redis
  BY <1>7, Zenon DEF Start, IsEmpty, CurrentVersion, Select, Claim, End, Abort
<1>8. ASSUME NEW q \in Poll, NEW s \in Runtime, RenewVersion(q, s)
      PROVE  UNCHANGED redis \/ Renewed(s)
  BY <1>8 DEF RenewVersion
<1>9. CASE Bumps
  BY <1>1, <1>2, <1>4, <1>5, <1>6, <1>9 DEF Bumps
<1> QED BY <1>1, <1>2, <1>3, <1>7, <1>8, <1>9

\* A tick keeps the invariant: the ages stay below VersionTTL.
LEMMA TickSafe == SafeInv /\ Tick => SafeInv'
<1> SUFFICES ASSUME SafeInv, Tick PROVE SafeInv'
  OBVIOUS
<1>0. TypeOK /\ TypeOK'
  BY TickType DEF SafeInv
<1>1. ASSUME NEW q \in Poll PROVE PollSafe(q)'
  <2>0. poll[q] \in PollState /\ PollSafe(q)
    BY <1>0 DEF SafeInv, TypeOK
  <2>1. CASE poll[q].pc = "idle"
    BY <2>1 DEF Tick, PollSafe
  <2>2. CASE poll[q].pc # "idle"
    <3>1. PICK p \in PollState :
             /\ poll'[q] = p
             /\ p.pc = poll[q].pc /\ p.sampled = poll[q].sampled
             /\ p.empty = poll[q].empty /\ p.seen = poll[q].seen
             /\ p.age = poll[q].age + 1 /\ poll[q].age \in Nat /\ p.age <= PollBound
             /\ p.renew = {r \in poll[q].renew : ~ VersionGone(r)}
             /\ p.unrenewed = poll[q].unrenewed \cup {r \in poll[q].renew : VersionGone(r)}
      BY <1>0, <2>2, LaterPoll
    <3>3. poll[q].age \in Nat /\ poll[q].age + 1 < VersionTTL
      BY <3>1, TTLAssumption
    <3>6. ASSUME NEW r \in p.renew, poll[q].pc = "check" PROVE version'[r] >= poll[q].seen[r]
      <4>1. r \in Runtime /\ r \in poll[q].renew /\ ~ VersionGone(r)
        BY <3>1, <3>6 DEF PollState
      <4>2. version'[r] = version[r]
        BY <4>1 DEF Tick
      <4> QED BY <2>0, <3>6, <4>1, <4>2 DEF PollSafe
    <3>4. ASSUME poll[q].pc = "check", NEW r \in p.sampled \ (p.renew \cup p.unrenewed)
          PROVE  (Recent(poll[q].seen[r], poll[q].age, r))'
      <4>1. PICK s \in Nat, a \in Nat : s = poll[q].seen[r] /\ a = poll[q].age
        BY <2>0, <3>1, <3>3 DEF PollState
      <4>2. r \in Runtime /\ Recent(s, a, r)
        BY <2>0, <3>1, <3>4, <4>1 DEF PollSafe, PollState
      <4>3. Recent(s, a + 1, r)'
        BY <1>0, <3>3, <4>1, <4>2, StandsTick
      <4> QED BY <3>1, <4>1, <4>3
    <3>5. ASSUME poll[q].pc = "mark", NEW r \in p.empty \ p.unrenewed
          PROVE  (Stands(poll[q].seen[r], poll[q].age, r))'
      <4>1. PICK s \in Nat, a \in Nat : s = poll[q].seen[r] /\ a = poll[q].age
        BY <2>0, <3>1, <3>3, <3>5 DEF PollState
      <4>2. r \in Runtime /\ Stands(s, a, r)
        BY <2>0, <3>1, <3>5, <4>1 DEF PollSafe, PollState
      <4>3. Stands(s, a + 1, r)'
        BY <1>0, <3>3, <4>1, <4>2, StandsTick
      <4> QED BY <3>1, <4>1, <4>3
    <3> QED BY <3>1, <3>4, <3>5, <3>6 DEF PollSafe
  <2> QED BY <2>1, <2>2
<1>2. ASSUME NEW r \in Runtime PROVE VerdictSafe(r)'
  <2>0. VerdictSafe(r) /\ age[r].verdict \in 0..(EmptyTTL - 1) /\ verdict[r] \in Nat \cup {NoVerdict}
    BY <1>0 DEF SafeInv, TypeOK
  <2>1. CASE VerdictGone(r)
    BY <2>1 DEF Tick, VerdictSafe
  <2>2. CASE ~ VerdictGone(r) /\ r \in unrenewed
    BY <2>2 DEF Tick, VerdictSafe
  <2>3. CASE ~ VerdictGone(r) /\ r \notin unrenewed
    <3>1. verdict'[r] = verdict[r] /\ verdict[r] # NoVerdict /\ age'[r].verdict = age[r].verdict + 1
      BY <2>3 DEF Tick, VerdictGone
    <3>2. age[r].verdict + 1 < EmptyTTL
      BY <2>0, <2>3, TTLAssumption DEF VerdictGone
    <3>3. PICK s \in Nat, a \in Nat : s = verdict[r] /\ a = age[r].verdict + PollBound
      BY <2>0, <3>1, TTLAssumption
    <3>4. a + 1 < VersionTTL
      BY <2>0, <3>2, <3>3, TTLAssumption
    <3>5. Stands(s, a, r)
      BY <2>0, <2>3, <3>1, <3>3 DEF VerdictSafe
    <3>6. Stands(s, a + 1, r)'
      BY <1>0, <3>4, <3>5, StandsTick
    <3>7. a + 1 = age'[r].verdict + PollBound
      BY <2>0, <3>1, <3>3, TTLAssumption
    <3> QED BY <3>1, <3>3, <3>6, <3>7 DEF VerdictSafe
  <2> QED BY <2>1, <2>2, <2>3
<1> QED BY <1>0, <1>1, <1>2 DEF SafeInv

\* Every step keeps the invariant.
LEMMA SafeStep == SafeInv /\ [Next]_vars => SafeInv'
<1> SUFFICES ASSUME SafeInv, [Next]_vars PROVE SafeInv'
  OBVIOUS
<1>0. TypeOK /\ TypeOK'
  BY TypeStep DEF SafeInv
<1>1. CASE Tick
  BY <1>1, TickSafe
<1>2. CASE Rows \/ Bumps \/ Crash \/ UNCHANGED vars
  <2>k. \A r \in Runtime : Kept(r)
    BY <1>0, <1>2, KeptStep
  <2>1. ASSUME NEW q \in Poll PROVE PollSafe(q)'
    <3>1. CASE poll'[q] = poll[q]
      BY <1>0, <2>k, <3>1, PollKept DEF SafeInv
    <3>2. CASE Crash
      BY <3>2 DEF Crash, PollSafe, Idle
    <3>3. CASE Rows \/ Bumps \/ UNCHANGED vars
      BY <3>1, <3>3 DEF Rows, Commit, Take, Requeue, Finish, Bumps, Bump, BumpExpire, BumpFails, vars
    <3> QED BY <1>2, <3>2, <3>3
  <2>2. ASSUME NEW r \in Runtime PROVE VerdictSafe(r)'
    BY <1>0, <1>2, <2>k, OtherVerdicts, VerdictKept DEF SafeInv
  <2> QED BY <1>0, <2>1, <2>2 DEF SafeInv
<1>3. ASSUME NEW q \in Poll, (\E rs \in Machine : Start(q, rs)) \/ PollStep(q) \/ Abort(q)
      PROVE  SafeInv'
  <2>k. \A r \in Runtime : Kept(r)
    BY <1>0, <1>3, KeptStep DEF Polls
  <2>1. PollSafe(q)' /\ (\A q2 \in Poll \ {q} : poll'[q2] = poll[q2])
    BY <1>0, <1>3, PollStepSafe
  <2>2. ASSUME NEW q2 \in Poll PROVE PollSafe(q2)'
    <3>1. CASE q2 = q
      BY <2>1, <3>1
    <3>2. CASE q2 # q
      BY <1>0, <2>1, <2>k, <3>2, PollKept DEF SafeInv
    <3> QED BY <3>1, <3>2
  <2>3. ASSUME NEW r \in Runtime PROVE VerdictSafe(r)'
    <3>1. CASE \E s \in Runtime : MarkEmpty(q, s)
      BY <1>0, <3>1, MarkEmptySafe
    <3>2. CASE \/ \E rs \in Machine : Start(q, rs)
               \/ \E s \in Runtime : \/ IsEmpty(q, s) \/ CurrentVersion(q, s)
                                     \/ RenewVersion(q, s)
               \/ Select(q) \/ Claim(q) \/ End(q) \/ Abort(q)
      <4>1. verdict'[r] = verdict[r] /\ age'[r].verdict = age[r].verdict /\ UNCHANGED unrenewed
        BY <1>0, <3>2, OtherVerdicts
      <4> QED BY <1>0, <2>k, <4>1, VerdictKept DEF SafeInv
    <3> QED BY <1>3, <3>1, <3>2 DEF PollStep
  <2> QED BY <1>0, <2>2, <2>3 DEF SafeInv
<1> QED BY <1>1, <1>2, <1>3 DEF Next, Polls

\* A row whose Bump is done is never hidden by a verdict, however the Redis calls
\* of requests and enqueues interleave, fail or expire, but by one whose request
\* lost the EXPIRE of CurrentVersion alone.
THEOREM AnnouncedRowsAreSeenHolds == Spec => []AnnouncedRowsAreSeen
BY SafeInit, SafeStep, SafeSeen, PTL DEF Spec
=============================================================================
