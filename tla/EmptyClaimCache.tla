--------------------------- MODULE EmptyClaimCache ---------------------------
(****************************************************************************)
(* internal/service/empty_claim_cache.go and its callers: a claim request   *)
(* that finds no queued row of a runtime stores an "empty" verdict in Redis, *)
(* and later requests answer from it without a look at the database.  An    *)
(* enqueue commits its row and then bumps the runtime's version; a verdict  *)
(* counts only while it is tagged with the current version.                 *)
(*                                                                          *)
(* A request checks one runtime (ClaimTaskForRuntime) or all of a machine   *)
(* (ClaimTasksForRuntimes); each Redis call and the SELECT are steps of     *)
(* their own, and every Redis call may fail: the GET of a version apart     *)
(* from the EXPIRE after it, and each command of the pipeline of a Bump.    *)
(* Ages count time since a key was last set or renewed, and since a request *)
(* began.                                                                   *)
(****************************************************************************)
EXTENDS Naturals

CONSTANTS
    Task, Runtime,
    RuntimeOf,     \* runtime_id of a row
    Poll,          \* claim requests handled at a time
    Machine,       \* the sets of runtimes requests are made for
    EmptyTTL,      \* EmptyClaimCacheTTL, 3 minutes
    VersionTTL,    \* emptyClaimVersionTTL, 24 hours
    PollBound,     \* the longest a request takes
    NoVerdict

ASSUME ColumnAssumption ==
    /\ RuntimeOf \in [Task -> Runtime]
    /\ Machine \subseteq SUBSET Runtime

\* A verdict is gone long before the version it is compared with may start
\* again from nothing.
ASSUME TTLAssumption ==
    /\ EmptyTTL \in Nat \ {0} /\ VersionTTL \in Nat \ {0} /\ PollBound \in Nat
    /\ EmptyTTL + PollBound <= VersionTTL

ASSUME VerdictAssumption == NoVerdict \notin Nat

VARIABLES
    row,      \* none, queued, counted (queued, the INCR of its Bump done),
              \* announced (counted, its EXPIRE done as well), taken, done
    owed,     \* rows whose handler has committed and not sent its INCR yet
    expiring, \* rows whose handler has sent its INCR and not its EXPIRE
    version,  \* per runtime: the version key, 0 when it does not exist
    lasting,  \* runtimes whose version key has no expiry
    verdict,  \* per runtime: the tag of the empty key, if it exists
    unrenewed,\* runtimes whose verdict is of a request that lost its EXPIRE (history)
    age,      \* per runtime: of the two keys
    poll

redis == <<version, lasting, verdict, unrenewed, age>>
vars == <<row, owed, expiring, redis, poll>>

PollState ==
    [pc : {"idle", "check", "mark", "claim"},
     runtimes : SUBSET Runtime,  \* left to check
     miss : SUBSET Runtime,      \* checked, version not sampled yet
     sampled : SUBSET Runtime, seen : [Runtime -> Nat],
     renew : SUBSET Runtime,     \* version sampled, its key not renewed yet
     unrenewed : SUBSET Runtime, \* sampled, the EXPIRE lost or too late (history)
     empty : SUBSET Runtime,     \* no candidate, verdict not stored yet
     listed : SUBSET Task, age : 0..PollBound]

TypeOK ==
    /\ row \in [Task -> {"none", "queued", "counted", "announced", "taken", "done"}]
    /\ owed \subseteq Task /\ expiring \subseteq Task
    /\ version \in [Runtime -> Nat]
    /\ lasting \subseteq Runtime /\ unrenewed \subseteq Runtime
    /\ verdict \in [Runtime -> Nat \cup {NoVerdict}]
    /\ age \in [Runtime -> [version : 0..(VersionTTL - 1), verdict : 0..(EmptyTTL - 1)]]
    /\ poll \in [Poll -> PollState]

Idle == [pc |-> "idle", runtimes |-> {}, miss |-> {}, sampled |-> {},
         seen |-> [r \in Runtime |-> 0], renew |-> {}, unrenewed |-> {},
         empty |-> {}, listed |-> {}, age |-> 0]

Init ==
    /\ row = [t \in Task |-> "none"]
    /\ owed = {} /\ expiring = {}
    /\ version = [r \in Runtime |-> 0]
    /\ lasting = {} /\ unrenewed = {}
    /\ verdict = [r \in Runtime |-> NoVerdict]
    /\ age = [r \in Runtime |-> [version |-> 0, verdict |-> 0]]
    /\ poll = [q \in Poll |-> Idle]

Waiting == {"queued", "counted", "announced"}
Queued(r) == {t \in Task : RuntimeOf[t] = r /\ row[t] \in Waiting}

-----------------------------------------------------------------------------
(* Enqueues, and the other commits that notifyRuntimeMayHaveWork follows.   *)

Commit(t) ==
    /\ row[t] = "none"
    /\ row' = [row EXCEPT ![t] = "queued"]
    /\ owed' = owed \cup {t}
    /\ UNCHANGED <<expiring, redis, poll>>

\* A claim, a cancellation or an expiry: the row is not queued any more.
Take(t) ==
    /\ row[t] \in Waiting
    /\ row' = [row EXCEPT ![t] = "taken"]
    /\ UNCHANGED <<owed, expiring, redis, poll>>

\* The claim is handed back, or the run ends.
Requeue(t) ==
    /\ row[t] = "taken"
    /\ row' = [row EXCEPT ![t] = "queued"]
    /\ owed' = owed \cup {t}
    /\ UNCHANGED <<expiring, redis, poll>>

Finish(t) ==
    /\ row[t] = "taken"
    /\ row' = [row EXCEPT ![t] = "done"]
    /\ owed' = owed \cup {t}
    /\ UNCHANGED <<expiring, redis, poll>>

\* EXPIRE of the version key of r; without a key it does nothing.
Renewed(r) ==
    /\ version[r] > 0
    /\ lasting' = lasting \ {r}
    /\ age' = [age EXCEPT ![r].version = 0]
    /\ UNCHANGED <<version, verdict, unrenewed>>

\* The INCR of a Bump.  A key it creates has no expiry, one that is there
\* keeps its own.
Bump(t) ==
    LET r == RuntimeOf[t]
    IN  /\ t \in owed
        /\ version' = [version EXCEPT ![r] = @ + 1]
        /\ lasting' = IF version[r] = 0 THEN lasting \cup {r} ELSE lasting
        /\ row' = [row EXCEPT ![t] = IF @ = "queued" THEN "counted" ELSE @]
        /\ owed' = owed \ {t}
        /\ expiring' = expiring \cup {t}
        /\ UNCHANGED <<verdict, unrenewed, age, poll>>

\* Its EXPIRE, lost or too late for the key in the second case.
BumpExpire(t) ==
    /\ t \in expiring
    /\ \/ /\ Renewed(RuntimeOf[t])
          /\ row' = [row EXCEPT ![t] = IF @ = "counted" THEN "announced" ELSE @]
       \/ UNCHANGED <<row, redis>>
    /\ expiring' = expiring \ {t}
    /\ UNCHANGED <<owed, poll>>

\* The INCR fails, and with it the EXPIRE or not; the error is logged.
BumpFails(t) ==
    /\ t \in owed
    /\ owed' = owed \ {t}
    /\ expiring' \in {expiring, expiring \cup {t}}
    /\ UNCHANGED <<row, redis, poll>>

-----------------------------------------------------------------------------
(* Claim requests.                                                          *)

Start(q, rs) ==
    /\ poll[q].pc = "idle"
    /\ poll' = [poll EXCEPT ![q] = [Idle EXCEPT !.pc = "check", !.runtimes = rs]]
    /\ UNCHANGED <<row, owed, expiring, redis>>

Trusted(r) == verdict[r] = version[r]

\* The runtimes are checked one after the other.
AtNext(q, r) ==
    /\ poll[q].pc = "check" /\ poll[q].miss = {} /\ poll[q].renew = {}
    /\ r \in poll[q].runtimes

\* Mutated form of IsEmpty: a hit renews the verdict.
IsEmptyRenews(q, r) ==
    /\ AtNext(q, r)
    /\ \/ /\ Trusted(r)
          /\ poll' = [poll EXCEPT ![q].runtimes = @ \ {r}]
          /\ age' = [age EXCEPT ![r].verdict = 0]
       \/ /\ poll' = [poll EXCEPT ![q].runtimes = @ \ {r}, ![q].miss = {r}]
          /\ UNCHANGED age
    /\ UNCHANGED <<row, owed, expiring, version, lasting, verdict, unrenewed>>

\* A trusted verdict, or a miss: no verdict, another version or no answer.
IsEmpty(q, r) ==
    /\ AtNext(q, r)
    /\ \/ Trusted(r) /\ poll' = [poll EXCEPT ![q].runtimes = @ \ {r}]
       \/ poll' = [poll EXCEPT ![q].runtimes = @ \ {r}, ![q].miss = {r}]
    /\ UNCHANGED <<row, owed, expiring, redis>>

Sampled(p, r, v) ==
    [p EXCEPT !.miss = {}, !.sampled = @ \cup {r}, !.seen[r] = v,
              !.renew = IF v > 0 THEN @ \cup {r} ELSE @]
NotRenewed(p, r) == [p EXCEPT !.renew = @ \ {r}, !.unrenewed = @ \cup {r}]

\* The version is sampled before the SELECT.  A key that is there is then
\* renewed; without one, or without an answer, the version counts as 0.
CurrentVersion(q, r) ==
    /\ poll[q].pc = "check" /\ r \in poll[q].miss
    /\ \E v \in {version[r], 0} : poll' = [poll EXCEPT ![q] = Sampled(@, r, v)]
    /\ UNCHANGED <<row, owed, expiring, redis>>

\* Its EXPIRE, whose error is ignored.
RenewVersion(q, r) ==
    /\ poll[q].pc = "check" /\ r \in poll[q].renew
    /\ \/ Renewed(r) /\ poll' = [poll EXCEPT ![q].renew = @ \ {r}]
       \/ poll' = [poll EXCEPT ![q] = NotRenewed(@, r)] /\ UNCHANGED redis
    /\ UNCHANGED <<row, owed, expiring>>

\* One SELECT over the runtimes that missed; none, and the request is over.
Select(q) ==
    LET found == UNION {Queued(r) : r \in poll[q].sampled}
    IN  /\ poll[q].pc = "check" /\ poll[q].runtimes = {}
        /\ poll[q].miss = {} /\ poll[q].renew = {}
        /\ poll' = [poll EXCEPT ![q] =
                       IF @.sampled = {} THEN Idle
                       ELSE [@ EXCEPT !.pc = "mark", !.listed = found,
                                      !.empty = {r \in poll[q].sampled : Queued(r) = {}}]]
        /\ UNCHANGED <<row, owed, expiring, redis>>

\* Mutated form of MarkEmpty: the version is read when the verdict is stored.
MarkEmptyCurrent(q, r) ==
    /\ poll[q].pc = "mark" /\ r \in poll[q].empty
    /\ verdict' = [verdict EXCEPT ![r] = version[r]]
    /\ unrenewed' = unrenewed \ {r}
    /\ age' = [age EXCEPT ![r].verdict = 0]
    /\ poll' = [poll EXCEPT ![q].empty = @ \ {r}]
    /\ UNCHANGED <<row, owed, expiring, version, lasting>>

MarkEmpty(q, r) ==
    /\ poll[q].pc = "mark" /\ r \in poll[q].empty
    /\ \/ /\ verdict' = [verdict EXCEPT ![r] = poll[q].seen[r]]
          /\ unrenewed' = (unrenewed \ {r}) \cup (poll[q].unrenewed \cap {r})
          /\ age' = [age EXCEPT ![r].verdict = 0]
       \/ UNCHANGED <<verdict, unrenewed, age>>
    /\ poll' = [poll EXCEPT ![q].empty = @ \ {r}]
    /\ UNCHANGED <<row, owed, expiring, version, lasting>>

\* The candidates are at hand and claimed one by one.
Claim(q) ==
    /\ poll[q].pc = "mark" /\ poll[q].empty = {}
    /\ poll' = [poll EXCEPT ![q].pc = "claim"]
    /\ UNCHANGED <<row, owed, expiring, redis>>

End(q) ==
    /\ poll[q].pc = "claim"
    /\ poll' = [poll EXCEPT ![q] = Idle]
    /\ UNCHANGED <<row, owed, expiring, redis>>

\* A statement fails or the client is gone: the request ends where it is.
Abort(q) ==
    /\ poll[q].pc # "idle"
    /\ poll' = [poll EXCEPT ![q] = Idle]
    /\ UNCHANGED <<row, owed, expiring, redis>>

-----------------------------------------------------------------------------
(* Time, and a server that stops.                                           *)

\* Mutated form of VersionGone: the version key is set without an expiry.
VersionStays(r) == version[r] = 0
VersionGone(r) == version[r] = 0 \/ (r \notin lasting /\ age[r].version + 1 = VersionTTL)

VerdictGone(r) == verdict[r] = NoVerdict \/ age[r].verdict + 1 = EmptyTTL

Later(p) ==
    [p EXCEPT !.age = @ + 1,
              !.renew = {r \in @ : ~ VersionGone(r)},
              !.unrenewed = @ \cup {r \in p.renew : VersionGone(r)}]

\* A key without an expiry does not age.  With a version key goes what was
\* counted on it.
Tick ==
    /\ \A q \in Poll : poll[q].pc # "idle" => poll[q].age < PollBound
    /\ version' = [r \in Runtime |-> IF VersionGone(r) THEN 0 ELSE version[r]]
    /\ verdict' = [r \in Runtime |-> IF VerdictGone(r) THEN NoVerdict ELSE verdict[r]]
    /\ unrenewed' = {r \in unrenewed : ~ VerdictGone(r)}
    /\ age' = [r \in Runtime |->
                 [version |-> IF VersionGone(r) \/ r \in lasting THEN 0 ELSE age[r].version + 1,
                  verdict |-> IF VerdictGone(r) THEN 0 ELSE age[r].verdict + 1]]
    /\ row' = [t \in Task |->
                 IF row[t] = "counted" /\ VersionGone(RuntimeOf[t]) THEN "queued" ELSE row[t]]
    /\ poll' = [q \in Poll |-> IF poll[q].pc = "idle" THEN poll[q] ELSE Later(poll[q])]
    /\ UNCHANGED <<owed, expiring, lasting>>

Crash ==
    /\ owed' = {} /\ expiring' = {}
    /\ poll' = [q \in Poll |-> Idle]
    /\ UNCHANGED <<row, redis>>

-----------------------------------------------------------------------------
Rows == \E t \in Task : Commit(t) \/ Take(t) \/ Requeue(t) \/ Finish(t)
Bumps == \E t \in Task : Bump(t) \/ BumpExpire(t) \/ BumpFails(t)

PollStep(q) ==
    \/ \E r \in Runtime :
           IsEmpty(q, r) \/ CurrentVersion(q, r) \/ RenewVersion(q, r) \/ MarkEmpty(q, r)
    \/ Select(q) \/ Claim(q) \/ End(q)
Polls == \E q \in Poll : (\E rs \in Machine : Start(q, rs)) \/ PollStep(q)

Next == Rows \/ Bumps \/ Polls \/ (\E q \in Poll : Abort(q)) \/ Tick \/ Crash

Spec == Init /\ [][Next]_vars

\* The daemons keep polling and time goes on.
Fairness ==
    /\ WF_vars(Tick)
    /\ \A q \in Poll : WF_vars(PollStep(q))
    /\ \A rs \in Machine : WF_vars(\E q \in Poll : Start(q, rs))

-----------------------------------------------------------------------------
\* From the INCR of its Bump on, and with the EXPIRE for as long as it waits,
\* no verdict hides a queued row: neither one that was there, nor one that a
\* request that began earlier stores later, nor one left from before the version
\* key expired and was counted up again.  Only the verdict of a request whose own
\* EXPIRE was lost alone, an error CurrentVersion ignores, may do so.
AnnouncedRowsAreSeen ==
    \A t \in Task : row[t] \in {"counted", "announced"} /\ Trusted(RuntimeOf[t])
                      => RuntimeOf[t] \in unrenewed

\* A row whose Bump failed or was lost with its server, or which a verdict hides
\* for a lost EXPIRE, is stalled at most until the verdict expires: some request lists it, or it is gone.
QueuedRowsAreListed ==
    \A t \in Task :
        row[t] \in Waiting ~>
            \/ \E q \in Poll : t \in poll[q].listed
            \/ row[t] \notin Waiting
=============================================================================
