------------------------- MODULE DaemonManagerProofs -------------------------
(****************************************************************************)
(* Theorems of DaemonManager.  A step of a call is of one of six kinds      *)
(* (Moves), and each part of the invariant follows from the kind; the calls *)
(* at the files of the profile are taken one by one.                        *)
(****************************************************************************)
EXTENDS DaemonManager, TLAPS

-----------------------------------------------------------------------------
(* The invariant.                                                           *)
\* The token that syncToken mints has an owner.
SyncHasUser ==
    \A o \in Op : op[o].stage = "sync" \/ op[o].then = "sync" => op[o].user \in User

\* A call that holds the guard only stops and starts the daemon.
GuardShape ==
    \A o \in Op : op[o].guarded =>
        op[o].stage \in {"restart", "stop", "start"} /\ op[o].then \in {"none", "start"}

\* A syncToken follows a clearToken only.
ThenShape == \A o \in Op : op[o].then = "sync" => op[o].stage = "clear"

\* One call at a time is at the files of the profile, and between two calls they
\* name the owner of the token.
InFiles(o) == op[o].stage \in {"sync", "clear"}
ProfileOwned ==
    profile.userId # NoUser /\ profile.token # NoToken => profile.token.owner = profile.userId
OwnParts ==
    /\ \A o, p \in Op : InFiles(o) /\ InFiles(p) => o = p
    /\ \A o \in Op :
          /\ At(o, "sync", "config") => op[o].token.owner = op[o].user
          /\ At(o, "sync", "userId") => profile.token.owner = op[o].user
          /\ op[o].stage = "clear" => op[o].token = NoToken
    /\ (\A o \in Op : ~ At(o, "sync", "userId")) => ProfileOwned
OwnInv == mishap # "failed" => OwnParts

-----------------------------------------------------------------------------
(* The calls in progress.                                                   *)

\* What a step of one call leaves of the calls in progress.
Only(o) == op' \in [Op -> OpState] /\ \A p \in Op : p # o => op'[p] = op[p]

LEMMA SetOp ==
    ASSUME op \in [Op -> OpState], NEW o \in Op, NEW x \in OpState,
           op' = [op EXCEPT ![o] = x]
    PROVE  Only(o) /\ op'[o] = x
BY DEF Only

LEMMA UpdateType ==
    ASSUME NEW r \in OpState
    PROVE  /\ \A c \in Await : [r EXCEPT !.pc = c] \in OpState
           /\ \A s \in Stage, t \in Follow :
                 [r EXCEPT !.stage = s, !.then = t, !.pc = "begin"] \in OpState
           /\ [r EXCEPT !.guarded = TRUE] \in OpState
           /\ \A c \in Await, h \in {"down", "starting", "running"} :
                 [r EXCEPT !.pc = c, !.health = h] \in OpState
           /\ \A c \in Await, t \in Token \cup {NoToken} :
                 [r EXCEPT !.pc = c, !.token = t] \in OpState
           /\ \A c \in Await, t \in Token \cup {NoToken}, b \in BOOLEAN :
                 [r EXCEPT !.pc = c, !.token = t, !.changed = b] \in OpState
<1>1. r.stage \in Stage /\ r.then \in Follow /\ r.pc \in Await /\ r.guarded \in BOOLEAN
  BY DEF OpState
<1>2. "begin" \in Await
  BY DEF Await
<1> QED
  BY <1>1, <1>2 DEF OpState

LEMMA IdleType == Idle \in OpState
<1>1. "idle" \in Stage /\ "none" \in Follow /\ "begin" \in Await
  BY DEF Stage, Follow, Await
<1> QED
  BY <1>1 DEF Idle, OpState

LEMMA CalledType ==
    ASSUME NEW s \in Stage, NEW t \in Follow, NEW u \in User \cup {NoUser}
    PROVE  Called(s, t, u) \in OpState
<1>1. "begin" \in Await
  BY DEF Await
<1> QED
  BY <1>1 DEF Called, Idle, OpState

LEMMA FinishedType ==
    ASSUME op \in [Op -> OpState], NEW o \in Op
    PROVE  Finished(o) \in OpState
<1>1. op[o] \in OpState /\ op[o].then \in Follow
  BY DEF OpState
<1>2. /\ \A s \in Follow \ {"none"} : s \in Stage
      /\ "restart" \in Follow /\ "none" \in Follow /\ "sync" \in Stage
  BY DEF Follow, Stage
<1>3. CASE op[o].then = "none"
  BY <1>3, IdleType DEF Finished
<1>4. CASE op[o].then = "sync"
  BY <1>1, <1>2, <1>4, UpdateType DEF Finished, Become
<1>5. CASE op[o].then \notin {"none", "sync"}
  BY <1>1, <1>2, <1>5, UpdateType DEF Finished, Become
<1> QED
  BY <1>3, <1>4, <1>5

\* Where a call now is, and what it still holds.
Now(o, s, t, c) == op'[o].stage = s /\ op'[o].then = t /\ op'[o].pc = c
Keeps(o) == op'[o].user = op[o].user /\ op'[o].guarded = op[o].guarded
Fresh(o, u, g) == op'[o].user = u /\ op'[o].guarded = g /\ op'[o].token = NoToken
IdleNow(o) == Now(o, "idle", "none", "begin") /\ Fresh(o, NoUser, FALSE)
Ended(o) ==
    \/ op[o].then = "none" /\ IdleNow(o)
    \/ /\ op[o].then # "none"
       /\ Keeps(o) /\ op'[o].token = op[o].token
       /\ \/ op[o].then = "sync" /\ Now(o, "sync", "restart", "begin")
          \/ op[o].then # "sync" /\ Now(o, op[o].then, "none", "begin")

LEMMA IdleFields ==
    ASSUME NEW o \in Op, op'[o] = Idle
    PROVE  IdleNow(o)
BY DEF Idle, IdleNow, Now, Fresh

LEMMA CalledFields ==
    ASSUME NEW o \in Op, NEW s, NEW t, NEW u, op'[o] = Called(s, t, u)
    PROVE  Now(o, s, t, "begin") /\ Fresh(o, u, FALSE)
BY DEF Called, Idle, Now, Fresh

LEMMA BecomeFields ==
    ASSUME NEW o \in Op, op[o] \in OpState, NEW s, NEW t, op'[o] = Become(o, s, t)
    PROVE  Now(o, s, t, "begin") /\ Keeps(o) /\ op'[o].token = op[o].token
BY DEF Become, OpState, Now, Keeps

LEMMA FinishedFields ==
    ASSUME NEW o \in Op, op[o] \in OpState, op'[o] = Finished(o)
    PROVE  Ended(o)
<1>1. CASE op[o].then = "none"
  BY <1>1, IdleFields DEF Finished, Ended
<1>2. CASE op[o].then = "sync"
  BY <1>2, BecomeFields DEF Finished, Ended
<1>3. CASE op[o].then \notin {"none", "sync"}
  BY <1>3, BecomeFields DEF Finished, Ended
<1> QED
  BY <1>1, <1>2, <1>3

LEMMA GotoOp ==
    ASSUME op \in [Op -> OpState], NEW o \in Op, NEW c \in Await, Goto(o, c)
    PROVE  /\ Only(o)
           /\ Now(o, op[o].stage, op[o].then, c) /\ Keeps(o) /\ op'[o].token = op[o].token
<1>1. op[o] \in OpState
  OBVIOUS
<1>2. op' = [op EXCEPT ![o] = [op[o] EXCEPT !.pc = c]]
  BY DEF Goto
<1>3. Only(o) /\ op'[o] = [op[o] EXCEPT !.pc = c]
  BY <1>1, <1>2, SetOp, UpdateType
<1> QED
  BY <1>1, <1>3 DEF OpState, Now, Keeps

LEMMA DoneOp ==
    ASSUME op \in [Op -> OpState], NEW o \in Op, Done(o)
    PROVE  /\ Only(o) /\ Ended(o)
           /\ IF op[o].then = "none" THEN Release(o) ELSE UNCHANGED operationInProgress
<1>1. Only(o) /\ op'[o] = Finished(o) /\ op[o] \in OpState
  BY SetOp, FinishedType DEF Done
<1> QED
  BY <1>1, FinishedFields DEF Done

LEMMA FailedOp ==
    ASSUME op \in [Op -> OpState], NEW o \in Op, Failed(o)
    PROVE  Only(o) /\ IdleNow(o) /\ Release(o)
<1>1. Only(o) /\ op'[o] = Idle
  BY SetOp, IdleType DEF Failed
<1> QED
  BY <1>1, IdleFields DEF Failed

LEMMA ThrownOp ==
    ASSUME op \in [Op -> OpState], NEW o \in Op, Thrown(o)
    PROVE  /\ Only(o)
           /\ \/ IdleNow(o) /\ Release(o)
              \/ /\ Ended(o)
                 /\ op[o].stage = "clear" /\ op[o].then = "guardedStop"
                 /\ UNCHANGED operationInProgress
<1>1. CASE op[o].stage = "clear" /\ op[o].then = "guardedStop"
  <2>1. Only(o) /\ op'[o] = Finished(o) /\ op[o] \in OpState
    BY <1>1, SetOp, FinishedType DEF Thrown
  <2> QED
    BY <1>1, <2>1, FinishedFields DEF Thrown
<1>2. CASE ~ (op[o].stage = "clear" /\ op[o].then = "guardedStop")
  BY <1>2, FailedOp DEF Thrown
<1> QED
  BY <1>1, <1>2

(* What each action does to the calls in progress. *)

LEMMA PollOnceOp ==
    ASSUME TypeOK, NEW o \in Op, PollOnce(o)
    PROVE  /\ Only(o)
           /\ \E who \in {"poll", "getStatus"} : Now(o, who, "none", "apply")
           /\ Fresh(o, NoUser, FALSE)
<1>1. PICK h \in Fetched, who \in {"poll", "getStatus"} :
          op' = [op EXCEPT ![o] = [Called(who, "none", NoUser) EXCEPT
                                      !.pc = "apply", !.health = h]]
  BY DEF PollOnce
<1>2. h \in {"down", "starting", "running"} /\ op \in [Op -> OpState]
  BY DEF Fetched, TypeOK, Daemon
<1>3. who \in Stage /\ "none" \in Follow /\ "apply" \in Await
  BY DEF Stage, Follow, Await
<1>4. Called(who, "none", NoUser) \in OpState
  BY <1>3, CalledType
<1>5. [Called(who, "none", NoUser) EXCEPT !.pc = "apply", !.health = h] \in OpState
  BY <1>2, <1>3, <1>4, UpdateType
<1>6. /\ Only(o)
      /\ op'[o] = [Called(who, "none", NoUser) EXCEPT !.pc = "apply", !.health = h]
  BY <1>1, <1>2, <1>5, SetOp
<1> QED
  BY <1>6 DEF Called, Idle, Now, Fresh

LEMMA AutoStartOp ==
    ASSUME TypeOK, NEW o \in Op, AutoStart(o)
    PROVE  /\ Only(o)
           /\ \/ Done(o)
              \/ /\ UNCHANGED operationInProgress
                 /\ Now(o, "autoStart", op[o].then, "apply") /\ Keeps(o)
                 /\ op'[o].token = op[o].token
<1>1. op \in [Op -> OpState] /\ op[o] \in OpState
  BY DEF TypeOK
<1>2. CASE Done(o)
  BY <1>1, <1>2, DoneOp
<1>3. CASE /\ UNCHANGED operationInProgress
           /\ \E h \in Fetched : op' = [op EXCEPT ![o].pc = "apply", ![o].health = h]
  <2>1. PICK h \in Fetched : op' = [op EXCEPT ![o].pc = "apply", ![o].health = h]
    BY <1>3
  <2>2. op' = [op EXCEPT ![o] = [op[o] EXCEPT !.pc = "apply", !.health = h]]
    BY <2>1, <1>1
  <2>3. h \in {"down", "starting", "running"}
    BY DEF Fetched, TypeOK, Daemon
  <2>4. "apply" \in Await
    BY DEF Await
  <2>5. Only(o) /\ op'[o] = [op[o] EXCEPT !.pc = "apply", !.health = h]
    BY <1>1, <2>2, <2>3, <2>4, SetOp, UpdateType
  <2> QED
    BY <1>1, <1>3, <2>5 DEF AutoStart, At, OpState, Now, Keeps
<1> QED
  BY <1>2, <1>3 DEF AutoStart

LEMMA ReportOp ==
    ASSUME TypeOK, NEW o \in Op, NEW status, Report(o, status)
    PROVE  /\ Only(o)
           /\ \E next \in {"version", "start", "idle"} : Now(o, next, "none", "begin")
           /\ Fresh(o, NoUser, FALSE)
<1>1. PICK next \in {"version", "start", "idle"} :
          op' = [op EXCEPT ![o] = Called(next, "none", NoUser)]
  BY DEF Report
<1>2. next \in Stage /\ "none" \in Follow /\ op \in [Op -> OpState]
  BY DEF Stage, Follow, TypeOK
<1> QED
  BY <1>1, <1>2, CalledType, SetOp, CalledFields

LEMMA EnsureOp ==
    ASSUME TypeOK, NEW o \in Op, EnsureRunningDaemonVersionMatches(o)
    PROVE  /\ Only(o)
           /\ \/ IdleNow(o)
              \/ /\ Now(o, "restart", "none", "begin") /\ Keeps(o)
                 /\ op'[o].token = op[o].token
<1>1. op \in [Op -> OpState] /\ op[o] \in OpState
  BY DEF TypeOK
<1>2. "restart" \in Stage /\ "none" \in Follow
  BY DEF Stage, Follow
<1>3. Become(o, "restart", "none") \in OpState
  BY <1>1, <1>2, UpdateType DEF Become
<1>4. PICK x \in {Become(o, "restart", "none"), Idle} : op' = [op EXCEPT ![o] = x]
  BY DEF EnsureRunningDaemonVersionMatches
<1>5. Only(o) /\ op'[o] = x
  BY <1>1, <1>3, <1>4, IdleType, SetOp
<1> QED
  BY <1>1, <1>4, <1>5, IdleFields, BecomeFields

LEMMA RestartDaemonOp ==
    ASSUME TypeOK, NEW o \in Op, RestartDaemon(o)
    PROVE  /\ Only(o)
           /\ \/ Done(o)
              \/ /\ Now(o, "stop", "start", "begin") /\ Keeps(o)
                 /\ op'[o].token = op[o].token
                 /\ UNCHANGED operationInProgress
<1>1. op \in [Op -> OpState] /\ op[o] \in OpState
  BY DEF TypeOK
<1>2. "stop" \in Stage /\ "start" \in Follow
  BY DEF Stage, Follow
<1>3. Become(o, "stop", "start") \in OpState
  BY <1>1, <1>2, UpdateType DEF Become
<1>4. CASE Done(o)
  BY <1>1, <1>4, DoneOp
<1>5. CASE /\ op' = [op EXCEPT ![o] = Become(o, "stop", "start")]
           /\ UNCHANGED operationInProgress
  BY <1>1, <1>3, <1>5, SetOp, BecomeFields
<1> QED
  BY <1>4, <1>5 DEF RestartDaemon

LEMMA SyncTokenOp ==
    ASSUME TypeOK, NEW o \in Op, SyncToken(o)
    PROVE  /\ Only(o)
           /\ Keeps(o)
           /\ \/ /\ Now(o, "sync", op[o].then, "config") /\ op'[o].token = profile.token
                 /\ profile.userId = op[o].user /\ profile.token # NoToken
              \/ Now(o, "sync", op[o].then, "mint") /\ op'[o].token = NoToken
<1>1. /\ op \in [Op -> OpState] /\ op[o] \in OpState
      /\ profile.token \in Token \cup {NoToken}
  BY DEF TypeOK
<1>2. PICK c \in Await, t \in Token \cup {NoToken}, b \in BOOLEAN :
         /\ op' = [op EXCEPT ![o].pc = c, ![o].token = t, ![o].changed = b]
         /\ \/ c = "config" /\ t = profile.token
               /\ profile.userId = op[o].user /\ profile.token # NoToken
            \/ c = "mint" /\ t = NoToken
  <2>1. "config" \in Await /\ "mint" \in Await
    BY DEF Await
  <2> DEFINE reuse == profile.userId = op[o].user /\ profile.token # NoToken
             b == profile.userId \notin {NoUser, op[o].user}
  <2>2. CASE reuse
    <3>1. op' = [op EXCEPT ![o].pc = "config", ![o].token = profile.token, ![o].changed = b]
      BY <2>2 DEF SyncToken
    <3> QED
      BY <1>1, <2>1, <2>2, <3>1
  <2>3. CASE ~ reuse
    <3>1. op' = [op EXCEPT ![o].pc = "mint", ![o].token = NoToken, ![o].changed = b]
      BY <2>3 DEF SyncToken
    <3> QED
      BY <2>1, <3>1
  <2> QED
    BY <2>2, <2>3
<1>3. op' = [op EXCEPT ![o] = [op[o] EXCEPT !.pc = c, !.token = t, !.changed = b]]
  BY <1>1, <1>2
<1>4. Only(o) /\ op'[o] = [op[o] EXCEPT !.pc = c, !.token = t, !.changed = b]
  BY <1>1, <1>3, SetOp, UpdateType
<1>5. Now(o, "sync", op[o].then, c) /\ Keeps(o) /\ op'[o].token = t
  BY <1>1, <1>4 DEF SyncToken, At, OpState, Now, Keeps
<1> QED
  BY <1>2, <1>4, <1>5

LEMMA MintPatOp ==
    ASSUME TypeOK, SyncHasUser, NEW o \in Op, MintPat(o)
    PROVE  /\ Only(o)
           /\ \/ Failed(o) /\ mishap' = "failed"
              \/ /\ Now(o, "sync", op[o].then, "config") /\ Keeps(o)
                 /\ op'[o].token \in Token /\ op'[o].token.owner = op[o].user
                 /\ UNCHANGED <<operationInProgress, mishap>>
<1>1. op \in [Op -> OpState] /\ op[o] \in OpState
  BY DEF TypeOK
<1>2. [owner |-> op[o].user, live |-> TRUE] \in Token /\ "config" \in Await
  BY DEF MintPat, At, SyncHasUser, Token, Await
<1>3. CASE Failed(o) /\ GoesWrong
  BY <1>1, <1>3, FailedOp DEF GoesWrong
<1>4. CASE op' = [op EXCEPT ![o].pc = "config",
                            ![o].token = [owner |-> op[o].user, live |-> TRUE]]
  <2> DEFINE t == [owner |-> op[o].user, live |-> TRUE]
  <2>1. op' = [op EXCEPT ![o] = [op[o] EXCEPT !.pc = "config", !.token = t]]
    BY <1>1, <1>4
  <2>2. Only(o) /\ op'[o] = [op[o] EXCEPT !.pc = "config", !.token = t]
    BY <1>1, <1>2, <2>1, SetOp, UpdateType
  <2>4. Now(o, "sync", op[o].then, "config") /\ Keeps(o) /\ op'[o].token = t
    BY <1>1, <2>2 DEF MintPat, At, OpState, Now, Keeps
  <2>3. CASE UNCHANGED <<operationInProgress, mishap>>
    BY <1>2, <2>2, <2>3, <2>4
  <2> QED
    BY <1>3, <1>4, <2>2, <2>3 DEF MintPat
<1> QED
  BY <1>3, <1>4 DEF MintPat

LEMMA RestartForUserOp ==
    ASSUME TypeOK, NEW o \in Op, NEW p \in Op, RestartForUser(o, p)
    PROVE  /\ op' \in [Op -> OpState]
           /\ o # p
           /\ \A q \in Op : q \notin {o, p} => op'[q] = op[q]
           /\ Ended(o)
           /\ \/ Now(p, "restart", "none", "begin") /\ Fresh(p, NoUser, FALSE)
              \/ IdleNow(p)
<1>1. /\ op \in [Op -> OpState] /\ o # p
      /\ Finished(o) \in OpState
  BY FinishedType DEF TypeOK, RestartForUser, At, IsIdle
<1>2. "restart" \in Stage /\ "none" \in Follow
  BY DEF Stage, Follow
<1>3. PICK x \in {Called("restart", "none", NoUser), Idle} :
          op' = [op EXCEPT ![o] = Finished(o), ![p] = x]
  BY DEF RestartForUser
<1>4. x \in OpState
  BY <1>2, <1>3, CalledType, IdleType
<1>5. op' \in [Op -> OpState] /\ op'[o] = Finished(o) /\ op'[p] = x
  BY <1>1, <1>3, <1>4
<1>6. \A q \in Op : q \notin {o, p} => op'[q] = op[q]
  BY <1>1, <1>3
<1> QED
  BY <1>1, <1>3, <1>5, <1>6, FinishedFields, CalledFields, IdleFields

LEMMA GuardedStopOp ==
    ASSUME TypeOK, NEW o \in Op, GuardedStop(o)
    PROVE  /\ Only(o)
           /\ \/ IdleNow(o) /\ UNCHANGED operationInProgress
              \/ /\ Now(o, "stop", "none", "begin") /\ op'[o].user = op[o].user
                 /\ op'[o].guarded /\ op'[o].token = op[o].token
                 /\ ~ operationInProgress /\ operationInProgress'
<1>1. op \in [Op -> OpState] /\ op[o] \in OpState
  BY DEF TypeOK
<1>2. "stop" \in Stage /\ "none" \in Follow
  BY DEF Stage, Follow
<1>3. Become(o, "stop", "none") \in OpState
  BY <1>1, <1>2, UpdateType DEF Become
<1>4. [Become(o, "stop", "none") EXCEPT !.guarded = TRUE] \in OpState
  BY <1>3, UpdateType
<1>5. CASE operationInProgress
  BY <1>1, <1>5, IdleType, SetOp, IdleFields DEF GuardedStop
<1>6. CASE ~ operationInProgress
  <2>1. Only(o) /\ op'[o] = [Become(o, "stop", "none") EXCEPT !.guarded = TRUE]
    BY <1>1, <1>4, <1>6, SetOp DEF GuardedStop
  <2>2. /\ Now(o, "stop", "none", "begin") /\ op'[o].user = op[o].user
        /\ op'[o].guarded /\ op'[o].token = op[o].token
    BY <1>1, <2>1 DEF Become, OpState, Now
  <2> QED
    BY <1>6, <2>1, <2>2 DEF GuardedStop
<1> QED
  BY <1>5, <1>6

LEMMA PressOp ==
    ASSUME TypeOK, NEW o \in Op, Press(o)
    PROVE  /\ Only(o)
           /\ ~ operationInProgress /\ operationInProgress'
           /\ \E s \in {"start", "stop", "restart"} : Now(o, s, "none", "begin")
           /\ Fresh(o, NoUser, TRUE)
<1>1. PICK s \in {"start", "stop", "restart"} : Guarded(o, s)
  BY DEF Press
<1>2. s \in Stage /\ "none" \in Follow /\ op \in [Op -> OpState]
  BY DEF Stage, Follow, TypeOK
<1>3. Called(s, "none", NoUser) \in OpState
  BY <1>2, CalledType
<1>4. [Called(s, "none", NoUser) EXCEPT !.guarded = TRUE] \in OpState
  BY <1>3, UpdateType
<1>5. Only(o) /\ op'[o] = [Called(s, "none", NoUser) EXCEPT !.guarded = TRUE]
  BY <1>1, <1>2, <1>4, SetOp DEF Guarded
<1>6. Now(o, s, "none", "begin") /\ Fresh(o, NoUser, TRUE)
  BY <1>5 DEF Called, Idle, Now, Fresh
<1>7. ~ operationInProgress /\ operationInProgress'
  BY <1>1 DEF Guarded
<1> QED
  BY <1>5, <1>6, <1>7

LEMMA BeginOp ==
    ASSUME TypeOK, NEW o \in Op, NEW u \in User \cup {NoUser},
           NEW s \in Stage, NEW t \in Follow, op' = [op EXCEPT ![o] = Called(s, t, u)]
    PROVE  Only(o) /\ Now(o, s, t, "begin") /\ Fresh(o, u, FALSE)
BY CalledType, SetOp, CalledFields DEF TypeOK

LEMMA RelaunchOp ==
    ASSUME TypeOK, NEW o \in Op, Relaunch(o)
    PROVE  /\ op' \in [Op -> OpState]
           /\ \A q \in Op \ {o} : IdleNow(q)
           /\ \/ /\ Now(o, "sync", "autoStart", "begin") /\ Fresh(o, session, FALSE)
                 /\ session \in User
              \/ IdleNow(o)
<1>1. session \in User \cup {NoUser}
  BY DEF TypeOK
<1>2. "sync" \in Stage /\ "autoStart" \in Follow
  BY DEF Stage, Follow
<1>3. Called("sync", "autoStart", session) \in OpState
  BY <1>1, <1>2, CalledType
<1>4. op' = [p \in Op |-> IF p = o /\ session # NoUser
                         THEN Called("sync", "autoStart", session) ELSE Idle]
  BY DEF Relaunch
<1>5. /\ op' \in [Op -> OpState]
      /\ \A q \in Op \ {o} : op'[q] = Idle
      /\ \/ op'[o] = Called("sync", "autoStart", session) /\ session # NoUser
         \/ op'[o] = Idle
  BY <1>1, <1>3, <1>4, IdleType
<1> QED
  BY <1>1, <1>5, IdleFields, CalledFields

(* What each part of the invariant asks of a step of one call. *)

\* A step of one call is of one of six kinds.
Moves(o) ==
    /\ Only(o)
    /\ \/ /\ op'[o].stage = op[o].stage /\ op'[o].then = op[o].then   \* goes on
          /\ Keeps(o) /\ UNCHANGED operationInProgress
       \/ /\ Ended(o)                                                \* returns
          /\ IF op[o].then = "none" THEN Release(o) ELSE UNCHANGED operationInProgress
       \/ IdleNow(o) /\ Release(o)                                   \* fails
       \/ /\ op'[o].stage \in {"restart", "stop"}                     \* turns into another
          /\ op'[o].then \in {"none", "start"}
          /\ Keeps(o) /\ UNCHANGED operationInProgress
       \/ /\ op[o].stage \notin {"restart", "stop", "start"}          \* begins, unguarded
          /\ ~ op'[o].guarded
          /\ op'[o].stage = "sync" \/ op'[o].then = "sync" => op'[o].user \in User
          /\ op'[o].then = "sync" => op'[o].stage = "clear"
          /\ UNCHANGED operationInProgress
       \/ /\ op'[o].stage \in {"restart", "stop", "start"}            \* takes the guard
          /\ op'[o].then = "none"
          /\ op'[o].guarded /\ ~ operationInProgress /\ operationInProgress'

LEMMA SyncKept ==
    ASSUME SyncHasUser, NEW o \in Op, Moves(o)
    PROVE  SyncHasUser'
<1>1. op'[o].stage = "sync" \/ op'[o].then = "sync" => op'[o].user \in User
  BY DEF SyncHasUser, Moves, Keeps, Ended, IdleNow, Now, Fresh
<1> QED
  BY <1>1 DEF SyncHasUser, Moves, Only

LEMMA ThenKept ==
    ASSUME ThenShape, NEW o \in Op, Moves(o)
    PROVE  ThenShape'
<1>1. op'[o].then = "sync" => op'[o].stage = "clear"
  BY DEF ThenShape, Moves, Keeps, Ended, IdleNow, Now, Fresh
<1> QED
  BY <1>1 DEF ThenShape, Moves, Only

LEMMA GuardKept ==
    ASSUME TypeOK, GuardIsHeld, GuardShape, NEW o \in Op, Moves(o)
    PROVE  GuardIsHeld' /\ GuardShape'
<1>1. \A q \in Op : q # o => op'[q] = op[q]
  BY DEF Moves, Only
<1>2. op'[o].guarded => /\ op'[o].stage \in {"restart", "stop", "start"}
                        /\ op'[o].then \in {"none", "start"}
  BY DEF GuardShape, Moves, Keeps, Ended, IdleNow, Now, Fresh
<1>3. GuardShape'
  BY <1>1, <1>2 DEF GuardShape
<1>4. \/ op'[o].guarded = op[o].guarded /\ UNCHANGED operationInProgress
      \/ ~ op'[o].guarded /\ Release(o)
      \/ op'[o].guarded /\ ~ operationInProgress /\ operationInProgress'
  <2>1. op[o].guarded \in BOOLEAN /\ op'[o].guarded \in BOOLEAN
    BY DEF TypeOK, OpState, Moves, Only
  <2>2. op[o].guarded => op[o].stage \in {"restart", "stop", "start"}
    BY DEF GuardShape
  <2> QED
    BY <2>1, <2>2 DEF Moves, Keeps, Ended, IdleNow, Now, Fresh
<1>5. GuardIsHeld'
  <2>1. CASE op'[o].guarded = op[o].guarded /\ UNCHANGED operationInProgress
    <3>1. \A q \in Op : op'[q].guarded = op[q].guarded
      BY <1>1, <2>1
    <3> QED
      BY <2>1, <3>1 DEF GuardIsHeld
  <2>2. CASE ~ op'[o].guarded /\ Release(o) /\ op[o].guarded
    <3>1. \A q \in Op : ~ op'[q].guarded
      BY <1>1, <2>2 DEF GuardIsHeld
    <3>2. ~ operationInProgress'
      BY <2>2 DEF Release
    <3> QED
      BY <3>1, <3>2 DEF GuardIsHeld
  <2>3. CASE ~ op'[o].guarded /\ Release(o) /\ ~ op[o].guarded
    <3>1. \A q \in Op : op'[q].guarded <=> op[q].guarded
      BY <1>1, <2>3
    <3>2. operationInProgress' <=> operationInProgress
      BY <2>3 DEF Release
    <3> QED
      BY <3>1, <3>2 DEF GuardIsHeld
  <2>4. CASE op'[o].guarded /\ ~ operationInProgress /\ operationInProgress'
    <3>1. \A q \in Op : q # o => ~ op'[q].guarded
      BY <1>1, <2>4 DEF GuardIsHeld
    <3> QED
      BY <2>4, <3>1 DEF GuardIsHeld
  <2> QED
    BY <1>4, <2>1, <2>2, <2>3, <2>4
<1> QED
  BY <1>3, <1>5

InStop(o) == op[o].stage = "stop" /\ op[o].pc \in {"exec", "wait", "failed"}

LEMMA StopKept ==
    ASSUME NoStuckStopping, NEW o \in Op, Only(o),
           currentState' = "stopping" =>
               \/ currentState = "stopping" /\ ~ InStop(o)
               \/ InStop(o)'
    PROVE  NoStuckStopping'
BY DEF NoStuckStopping, InStop, Only

(* The kind of each action. *)

LEMMA PollOnceMoves ==
    ASSUME TypeOK, SyncHasUser, NEW o \in Op, PollOnce(o)
    PROVE  Moves(o)
<1>1. op \in [Op -> OpState] /\ session \in User \cup {NoUser}
  BY DEF TypeOK
<1> QED
  BY <1>1, PollOnceOp
     DEF PollOnce, IsIdle, app, At, Moves, Now, Keeps, Fresh, IdleNow

LEMMA AutoStartMoves ==
    ASSUME TypeOK, SyncHasUser, NEW o \in Op, AutoStart(o)
    PROVE  Moves(o)
<1>1. op \in [Op -> OpState] /\ session \in User \cup {NoUser}
  BY DEF TypeOK
<1> QED
  BY <1>1, AutoStartOp, DoneOp
     DEF AutoStart, At, Moves, Now, Keeps, Fresh, IdleNow

LEMMA FetchHealthMoves ==
    ASSUME TypeOK, SyncHasUser, NEW o \in Op, FetchHealth(o)
    PROVE  Moves(o)
<1>1. op \in [Op -> OpState] /\ session \in User \cup {NoUser}
  BY DEF TypeOK
<1>2. {"probe"} \subseteq Await
  BY DEF Await
<1> QED
  BY <1>1, <1>2, ReportOp, GotoOp
     DEF FetchHealth, AtHealth, At, Moves, Now, Keeps, Fresh, IdleNow

LEMMA ProbeTokenValidityMoves ==
    ASSUME TypeOK, SyncHasUser, NEW o \in Op, ProbeTokenValidity(o)
    PROVE  Moves(o)
<1>1. op \in [Op -> OpState] /\ session \in User \cup {NoUser}
  BY DEF TypeOK
<1> QED
  BY <1>1, ReportOp
     DEF ProbeTokenValidity, AtHealth, At, Moves, Now, Keeps, Fresh, IdleNow

LEMMA EnsureRunningDaemonVersionMatchesMoves ==
    ASSUME TypeOK, SyncHasUser, NEW o \in Op, EnsureRunningDaemonVersionMatches(o)
    PROVE  Moves(o)
<1>1. op \in [Op -> OpState] /\ session \in User \cup {NoUser}
  BY DEF TypeOK
<1> QED
  BY <1>1, EnsureOp
     DEF EnsureRunningDaemonVersionMatches, At, Moves, Now, Keeps, Fresh, IdleNow

LEMMA RestartDaemonMoves ==
    ASSUME TypeOK, SyncHasUser, NEW o \in Op, RestartDaemon(o)
    PROVE  Moves(o)
<1>1. op \in [Op -> OpState] /\ session \in User \cup {NoUser}
  BY DEF TypeOK
<1> QED
  BY <1>1, RestartDaemonOp, DoneOp
     DEF RestartDaemon, At, Moves, Now, Keeps, Fresh, IdleNow

LEMMA StopDaemonMoves ==
    ASSUME TypeOK, SyncHasUser, NEW o \in Op, StopDaemon(o)
    PROVE  Moves(o)
<1>1. op \in [Op -> OpState] /\ session \in User \cup {NoUser}
  BY DEF TypeOK
<1>2. {"exec"} \subseteq Await
  BY DEF Await
<1> QED
  BY <1>1, <1>2, DoneOp, FailedOp, GotoOp
     DEF StopDaemon, At, Moves, Now, Keeps, Fresh, IdleNow

LEMMA CliStopMoves ==
    ASSUME TypeOK, SyncHasUser, NEW o \in Op, CliStop(o)
    PROVE  Moves(o)
<1>1. op \in [Op -> OpState] /\ session \in User \cup {NoUser}
  BY DEF TypeOK
<1>2. {"wait", "failed"} \subseteq Await
  BY DEF Await
<1> QED
  BY <1>1, <1>2, GotoOp
     DEF CliStop, app, At, Moves, Now, Keeps, Fresh, IdleNow

LEMMA StopReturnsMoves ==
    ASSUME TypeOK, SyncHasUser, NEW o \in Op, StopReturns(o)
    PROVE  Moves(o)
<1>1. op \in [Op -> OpState] /\ session \in User \cup {NoUser}
  BY DEF TypeOK
<1> QED
  BY <1>1, DoneOp, FailedOp
     DEF StopReturns, At, Moves, Now, Keeps, Fresh, IdleNow

LEMMA StartDaemonMoves ==
    ASSUME TypeOK, SyncHasUser, NEW o \in Op, StartDaemon(o)
    PROVE  Moves(o)
<1>1. op \in [Op -> OpState] /\ session \in User \cup {NoUser}
  BY DEF TypeOK
<1>2. {"exec"} \subseteq Await
  BY DEF Await
<1> QED
  BY <1>1, <1>2, DoneOp, FailedOp, GotoOp
     DEF StartDaemon, At, Moves, Now, Keeps, Fresh, IdleNow

LEMMA CliStartMoves ==
    ASSUME TypeOK, SyncHasUser, NEW o \in Op, CliStart(o)
    PROVE  Moves(o)
<1>1. op \in [Op -> OpState] /\ session \in User \cup {NoUser}
  BY DEF TypeOK
<1>2. {"wait", "failed"} \subseteq Await
  BY DEF Await
<1> QED
  BY <1>1, <1>2, GotoOp
     DEF CliStart, app, At, Moves, Now, Keeps, Fresh, IdleNow

LEMMA StartReturnsMoves ==
    ASSUME TypeOK, SyncHasUser, NEW o \in Op, StartReturns(o)
    PROVE  Moves(o)
<1>1. op \in [Op -> OpState] /\ session \in User \cup {NoUser}
  BY DEF TypeOK
<1> QED
  BY <1>1, DoneOp, FailedOp
     DEF StartReturns, At, Moves, Now, Keeps, Fresh, IdleNow

LEMMA SyncTokenMoves ==
    ASSUME TypeOK, SyncHasUser, NEW o \in Op, SyncToken(o)
    PROVE  Moves(o)
<1>1. op \in [Op -> OpState] /\ session \in User \cup {NoUser}
  BY DEF TypeOK
<1> QED
  BY <1>1, SyncTokenOp
     DEF SyncToken, app, At, Moves, Now, Keeps, Fresh, IdleNow

LEMMA MintPatMoves ==
    ASSUME TypeOK, SyncHasUser, NEW o \in Op, MintPat(o)
    PROVE  Moves(o)
<1>1. op \in [Op -> OpState] /\ session \in User \cup {NoUser}
  BY DEF TypeOK
<1> QED
  BY <1>1, MintPatOp, FailedOp
     DEF MintPat, At, Moves, Now, Keeps, Fresh, IdleNow

LEMMA WriteProfileConfigMoves ==
    ASSUME TypeOK, SyncHasUser, NEW o \in Op, WriteProfileConfig(o)
    PROVE  Moves(o)
<1>1. op \in [Op -> OpState] /\ session \in User \cup {NoUser}
  BY DEF TypeOK
<1>2. {"userId"} \subseteq Await
  BY DEF Await
<1> QED
  BY <1>1, <1>2, ThrownOp, GotoOp
     DEF WriteProfileConfig, At, Moves, Now, Keeps, Fresh, IdleNow

LEMMA WriteProfileUserIdMoves ==
    ASSUME TypeOK, SyncHasUser, NEW o \in Op, WriteProfileUserId(o)
    PROVE  Moves(o)
<1>1. op \in [Op -> OpState] /\ session \in User \cup {NoUser}
  BY DEF TypeOK
<1>2. {"alive"} \subseteq Await
  BY DEF Await
<1> QED
  BY <1>1, <1>2, ThrownOp, DoneOp, GotoOp
     DEF WriteProfileUserId, At, Moves, Now, Keeps, Fresh, IdleNow

LEMMA ClearTokenMoves ==
    ASSUME TypeOK, SyncHasUser, NEW o \in Op, ClearToken(o)
    PROVE  Moves(o)
<1>1. op \in [Op -> OpState] /\ session \in User \cup {NoUser}
  BY DEF TypeOK
<1>2. {"userId", "config"} \subseteq Await
  BY DEF Await
<1> QED
  BY <1>1, <1>2, GotoOp
     DEF ClearToken, app, At, Moves, Now, Keeps, Fresh, IdleNow

LEMMA RemoveProfileUserIdMoves ==
    ASSUME TypeOK, SyncHasUser, NEW o \in Op, RemoveProfileUserId(o)
    PROVE  Moves(o)
<1>1. op \in [Op -> OpState] /\ session \in User \cup {NoUser}
  BY DEF TypeOK
<1> QED
  BY <1>1, DoneOp
     DEF RemoveProfileUserId, At, Moves, Now, Keeps, Fresh, IdleNow

LEMMA GuardedStopMoves ==
    ASSUME TypeOK, SyncHasUser, NEW o \in Op, GuardedStop(o)
    PROVE  Moves(o)
<1>1. op \in [Op -> OpState] /\ session \in User \cup {NoUser}
  BY DEF TypeOK
<1> QED
  BY <1>1, GuardedStopOp
     DEF GuardedStop, At, Moves, Now, Keeps, Fresh, IdleNow

LEMMA PressMoves ==
    ASSUME TypeOK, SyncHasUser, NEW o \in Op, Press(o)
    PROVE  Moves(o)
<1>1. op \in [Op -> OpState] /\ session \in User \cup {NoUser}
  BY DEF TypeOK
<1> QED
  BY <1>1, PressOp
     DEF Press, Guarded, IsIdle, At, Moves, Now, Keeps, Fresh, IdleNow

LEMMA LoginMoves ==
    ASSUME TypeOK, SyncHasUser, NEW o \in Op, NEW u \in User, Login(o, u)
    PROVE  Moves(o)
<1>1. op \in [Op -> OpState] /\ session \in User \cup {NoUser}
  BY DEF TypeOK
<1>2. "sync" \in Stage /\ "autoStart" \in Follow
  BY DEF Stage, Follow
<1>3. op' = [op EXCEPT ![o] = Called("sync", "autoStart", u)] /\ u \in User \cup {NoUser}
  BY DEF Login
<1>4. Only(o) /\ Now(o, "sync", "autoStart", "begin") /\ Fresh(o, u, FALSE)
  BY <1>2, <1>3, BeginOp
<1> QED
  BY <1>1, <1>2, <1>3, <1>4, BeginOp
     DEF Login, IsIdle, app, At, Moves, Now, Keeps, Fresh, IdleNow

LEMMA LogoutMoves ==
    ASSUME TypeOK, SyncHasUser, NEW o \in Op, Logout(o)
    PROVE  Moves(o)
<1>1. op \in [Op -> OpState] /\ session \in User \cup {NoUser}
  BY DEF TypeOK
<1>2. "clear" \in Stage /\ "guardedStop" \in Follow
  BY DEF Stage, Follow
<1>3. op' = [op EXCEPT ![o] = Called("clear", "guardedStop", NoUser)] /\ NoUser \in User \cup {NoUser}
  BY DEF Logout
<1>4. Only(o) /\ Now(o, "clear", "guardedStop", "begin") /\ Fresh(o, NoUser, FALSE)
  BY <1>2, <1>3, BeginOp
<1> QED
  BY <1>1, <1>2, <1>3, <1>4, BeginOp
     DEF Logout, IsIdle, app, At, Moves, Now, Keeps, Fresh, IdleNow

LEMMA ReauthenticateMoves ==
    ASSUME TypeOK, SyncHasUser, NEW o \in Op, Reauthenticate(o)
    PROVE  Moves(o)
<1>1. op \in [Op -> OpState] /\ session \in User \cup {NoUser}
  BY DEF TypeOK
<1>2. "clear" \in Stage /\ "sync" \in Follow
  BY DEF Stage, Follow
<1>3. /\ op' = [op EXCEPT ![o] = Called("clear", "sync", session)]
      /\ IsIdle(o) /\ session # NoUser /\ UNCHANGED app
  BY DEF Reauthenticate
<1>4. Only(o) /\ Now(o, "clear", "sync", "begin") /\ Fresh(o, session, FALSE)
  BY <1>1, <1>2, <1>3, BeginOp
<1>5. session \in User /\ UNCHANGED operationInProgress /\ op[o].stage = "idle"
  BY <1>1, <1>3 DEF app, IsIdle
<1>6. /\ op[o].stage \notin {"restart", "stop", "start"}
      /\ ~ op'[o].guarded
      /\ op'[o].stage = "sync" \/ op'[o].then = "sync" => op'[o].user \in User
      /\ op'[o].then = "sync" => op'[o].stage = "clear"
  BY <1>4, <1>5 DEF Now, Fresh
<1> QED
  BY <1>4, <1>5, <1>6 DEF Moves

\* Only a user has a token minted.
LEMMA SyncStep ==
    ASSUME TypeOK, SyncHasUser, [Next]_vars
    PROVE  SyncHasUser'
<1>1. ASSUME NEW o \in Op, Health(o) PROVE SyncHasUser'
  BY <1>1, SyncKept, PollOnceMoves, AutoStartMoves, FetchHealthMoves, ProbeTokenValidityMoves, EnsureRunningDaemonVersionMatchesMoves DEF Health
<1>2. ASSUME NEW o \in Op, Lifecycle(o) PROVE SyncHasUser'
  BY <1>2, SyncKept, RestartDaemonMoves, StopDaemonMoves, CliStopMoves, StopReturnsMoves, StartDaemonMoves, CliStartMoves, StartReturnsMoves DEF Lifecycle
<1>3. ASSUME NEW o \in Op, GuardedStop(o) \/ (Credentials(o) /\ ~ \E p \in Op : RestartForUser(o, p)) PROVE SyncHasUser'
  BY <1>3, SyncKept, SyncTokenMoves, MintPatMoves, WriteProfileConfigMoves, WriteProfileUserIdMoves, ClearTokenMoves, RemoveProfileUserIdMoves, GuardedStopMoves DEF Credentials
<1>4. ASSUME NEW o \in Op, Renderer(o), ~ Relaunch(o) PROVE SyncHasUser'
  BY <1>4, SyncKept, PressMoves, LogoutMoves, ReauthenticateMoves, LoginMoves DEF Renderer
<1>5. ASSUME NEW o \in Op, NEW p \in Op, RestartForUser(o, p) PROVE SyncHasUser'
  <2>1. /\ op'[o].stage = "sync" \/ op'[o].then = "sync" => op'[o].user \in User
        /\ op'[p].stage # "sync" /\ op'[p].then # "sync"
    BY <1>5, RestartForUserOp DEF SyncHasUser, Now, Fresh, Ended, IdleNow, Keeps
  <2>2. \A q \in Op : q \notin {o, p} => op'[q] = op[q]
    BY <1>5, RestartForUserOp
  <2> QED
    BY <2>1, <2>2 DEF SyncHasUser
<1>6. ASSUME NEW o \in Op, Relaunch(o) PROVE SyncHasUser'
  BY <1>6, RelaunchOp DEF SyncHasUser, Now, Fresh, IdleNow
<1>7. CASE Environment \/ UNCHANGED vars
  BY <1>7 DEF Environment, BootstrapCli, Grace, DaemonReady, DaemonExits, DaemonWorks, Revoke, vars, app, SyncHasUser
<1> QED
  BY <1>1, <1>2, <1>3, <1>4, <1>5, <1>6, <1>7
     DEF Next, Credentials

\* What follows a call stays in its place.
LEMMA ThenStep ==
    ASSUME TypeOK, SyncHasUser, ThenShape, [Next]_vars
    PROVE  ThenShape'
<1>1. ASSUME NEW o \in Op, Health(o) PROVE ThenShape'
  BY <1>1, ThenKept, PollOnceMoves, AutoStartMoves, FetchHealthMoves, ProbeTokenValidityMoves, EnsureRunningDaemonVersionMatchesMoves DEF Health
<1>2. ASSUME NEW o \in Op, Lifecycle(o) PROVE ThenShape'
  BY <1>2, ThenKept, RestartDaemonMoves, StopDaemonMoves, CliStopMoves, StopReturnsMoves, StartDaemonMoves, CliStartMoves, StartReturnsMoves DEF Lifecycle
<1>3. ASSUME NEW o \in Op, GuardedStop(o) \/ (Credentials(o) /\ ~ \E p \in Op : RestartForUser(o, p)) PROVE ThenShape'
  BY <1>3, ThenKept, SyncTokenMoves, MintPatMoves, WriteProfileConfigMoves, WriteProfileUserIdMoves, ClearTokenMoves, RemoveProfileUserIdMoves, GuardedStopMoves DEF Credentials
<1>4. ASSUME NEW o \in Op, Renderer(o), ~ Relaunch(o) PROVE ThenShape'
  BY <1>4, ThenKept, PressMoves, LogoutMoves, ReauthenticateMoves, LoginMoves DEF Renderer
<1>5. ASSUME NEW o \in Op, NEW p \in Op, RestartForUser(o, p) PROVE ThenShape'
  <2>1. op'[o].then # "sync" /\ op'[p].then # "sync"
    BY <1>5, RestartForUserOp DEF Now, Ended, IdleNow
  <2>2. \A q \in Op : q \notin {o, p} => op'[q] = op[q]
    BY <1>5, RestartForUserOp
  <2> QED
    BY <2>1, <2>2 DEF ThenShape
<1>6. ASSUME NEW o \in Op, Relaunch(o) PROVE ThenShape'
  BY <1>6, RelaunchOp DEF ThenShape, Now, IdleNow
<1>7. CASE Environment \/ UNCHANGED vars
  BY <1>7 DEF Environment, BootstrapCli, Grace, DaemonReady, DaemonExits, DaemonWorks, Revoke, vars, app, ThenShape
<1> QED
  BY <1>1, <1>2, <1>3, <1>4, <1>5, <1>6, <1>7
     DEF Next, Credentials

\* The guard changes hands with the calls.
LEMMA GuardStep ==
    ASSUME TypeOK, SyncHasUser, GuardIsHeld, GuardShape, [Next]_vars
    PROVE  GuardIsHeld' /\ GuardShape'
<1>1. ASSUME NEW o \in Op, Health(o) PROVE GuardIsHeld' /\ GuardShape'
  BY <1>1, GuardKept, PollOnceMoves, AutoStartMoves, FetchHealthMoves, ProbeTokenValidityMoves, EnsureRunningDaemonVersionMatchesMoves DEF Health
<1>2. ASSUME NEW o \in Op, Lifecycle(o) PROVE GuardIsHeld' /\ GuardShape'
  BY <1>2, GuardKept, RestartDaemonMoves, StopDaemonMoves, CliStopMoves, StopReturnsMoves, StartDaemonMoves, CliStartMoves, StartReturnsMoves DEF Lifecycle
<1>3. ASSUME NEW o \in Op, GuardedStop(o) \/ (Credentials(o) /\ ~ \E p \in Op : RestartForUser(o, p)) PROVE GuardIsHeld' /\ GuardShape'
  BY <1>3, GuardKept, SyncTokenMoves, MintPatMoves, WriteProfileConfigMoves, WriteProfileUserIdMoves, ClearTokenMoves, RemoveProfileUserIdMoves, GuardedStopMoves DEF Credentials
<1>4. ASSUME NEW o \in Op, Renderer(o), ~ Relaunch(o) PROVE GuardIsHeld' /\ GuardShape'
  BY <1>4, GuardKept, PressMoves, LogoutMoves, ReauthenticateMoves, LoginMoves DEF Renderer
<1>5. ASSUME NEW o \in Op, NEW p \in Op, RestartForUser(o, p) PROVE GuardIsHeld' /\ GuardShape'
  <2>1. o # p /\ op[o].stage = "sync" /\ op[p].stage = "idle"
    BY <1>5, RestartForUserOp DEF RestartForUser, At, IsIdle
  <2>2. ~ op[o].guarded /\ ~ op[p].guarded
    BY <2>1 DEF GuardShape
  <2>3. ~ op'[o].guarded /\ ~ op'[p].guarded
    BY <1>5, <2>2, RestartForUserOp DEF Fresh, Ended, IdleNow, Keeps
  <2>4. UNCHANGED operationInProgress
    BY <1>5 DEF RestartForUser, app
  <2>5. \A q \in Op : q \notin {o, p} => op'[q] = op[q]
    BY <1>5, RestartForUserOp
  <2>6. \A q \in Op : op'[q].guarded <=> op[q].guarded
    BY <2>2, <2>3, <2>5
  <2> QED
    BY <2>2, <2>3, <2>4, <2>5, <2>6 DEF GuardIsHeld, GuardShape
<1>6. ASSUME NEW o \in Op, Relaunch(o) PROVE GuardIsHeld' /\ GuardShape'
  <2>1. \A q \in Op : ~ op'[q].guarded
    BY <1>6, RelaunchOp DEF Fresh, IdleNow
  <2>2. ~ operationInProgress'
    BY <1>6 DEF Relaunch
  <2> QED
    BY <2>1, <2>2 DEF GuardIsHeld, GuardShape
<1>7. CASE Environment \/ UNCHANGED vars
  BY <1>7 DEF Environment, BootstrapCli, Grace, DaemonReady, DaemonExits, DaemonWorks, Revoke, vars, app, GuardIsHeld, GuardShape
<1> QED
  BY <1>1, <1>2, <1>3, <1>4, <1>5, <1>6, <1>7
     DEF Next, Credentials

\* Whatever ends a stop takes its "stopping" with it.
LEMMA StoppingStep ==
    ASSUME TypeOK, SyncHasUser, NoStuckStopping, [Next]_vars
    PROVE  NoStuckStopping'
<1>0. op \in [Op -> OpState] /\ session \in User \cup {NoUser}
  BY DEF TypeOK
<1>1. ASSUME NEW o \in Op, PollOnce(o) PROVE NoStuckStopping'
  BY <1>0, <1>1, PollOnceOp, StopKept
     DEF PollOnce, IsIdle, Now, Keeps, Fresh, IdleNow, Ended, At, InStop, app
<1>2. ASSUME NEW o \in Op, AutoStart(o) PROVE NoStuckStopping'
  BY <1>0, <1>2, AutoStartOp, DoneOp, StopKept
     DEF AutoStart, Now, Keeps, Fresh, IdleNow, Ended, At, InStop, app
<1>3. ASSUME NEW o \in Op, FetchHealth(o) PROVE NoStuckStopping'
  <2> DEFINE Statuses == {"running", Verdict(op[o].health, attempt.expired)}
  <2>1. "probe" \in Await /\ ~ InStop(o)
    BY <1>3 DEF Await, FetchHealth, AtHealth, At, InStop
  <2>2. ASSUME NEW status \in Statuses, Report(o, status) PROVE NoStuckStopping'
    <3>1. Only(o)
      BY <2>2, ReportOp
    <3>2. currentState' = "stopping" => currentState = "stopping"
      BY <2>2 DEF Report, Verdict
    <3> QED
      BY <2>1, <3>1, <3>2, StopKept
  <2>3. CASE Goto(o, "probe") /\ UNCHANGED currentState
    BY <1>0, <2>1, <2>3, GotoOp, StopKept
  <2>4. \/ \E status \in Statuses : Report(o, status)
        \/ Goto(o, "probe") /\ UNCHANGED currentState
    BY <1>3 DEF FetchHealth
  <2> QED
    BY <2>2, <2>3, <2>4
<1>4. ASSUME NEW o \in Op, ProbeTokenValidity(o) PROVE NoStuckStopping'
  BY <1>0, <1>4, ReportOp, StopKept
     DEF ProbeTokenValidity, Report, Verdict, AtHealth, Now, Keeps, Fresh, IdleNow, Ended, At, InStop, app
<1>5. ASSUME NEW o \in Op, EnsureRunningDaemonVersionMatches(o) PROVE NoStuckStopping'
  BY <1>0, <1>5, EnsureOp, StopKept
     DEF EnsureRunningDaemonVersionMatches, Now, Keeps, Fresh, IdleNow, Ended, At, InStop, app
<1>6. ASSUME NEW o \in Op, RestartDaemon(o) PROVE NoStuckStopping'
  BY <1>0, <1>6, RestartDaemonOp, DoneOp, StopKept
     DEF RestartDaemon, Now, Keeps, Fresh, IdleNow, Ended, At, InStop, app
<1>7. ASSUME NEW o \in Op, StopDaemon(o) PROVE NoStuckStopping'
  <2>1. "exec" \in Await /\ ~ InStop(o) /\ op[o].stage = "stop"
    BY <1>7 DEF Await, StopDaemon, At, InStop
  <2>2. CASE Done(o) /\ UNCHANGED currentState
    BY <1>0, <2>1, <2>2, DoneOp, StopKept
  <2>3. CASE Failed(o) /\ UNCHANGED currentState
    BY <1>0, <2>1, <2>3, FailedOp, StopKept
  <2>4. CASE Goto(o, "exec")
    <3>1. Only(o) /\ Now(o, "stop", op[o].then, "exec")
      BY <1>0, <2>1, <2>4, GotoOp
    <3>2. InStop(o)'
      BY <3>1 DEF Now, InStop
    <3> QED
      BY <3>1, <3>2, StopKept
  <2> QED
    BY <1>7, <2>2, <2>3, <2>4 DEF StopDaemon
<1>8. ASSUME NEW o \in Op, CliStop(o) PROVE NoStuckStopping'
  <2>1. {"wait", "failed"} \subseteq Await
    BY DEF Await
  <2> QED
    BY <1>0, <1>8, <2>1, GotoOp, StopKept
       DEF CliStop, Now, Keeps, Fresh, IdleNow, Ended, At, InStop, app
<1>9. ASSUME NEW o \in Op, StopReturns(o) PROVE NoStuckStopping'
  BY <1>0, <1>9, DoneOp, FailedOp, StopKept
     DEF StopReturns, Now, Keeps, Fresh, IdleNow, Ended, At, InStop, app
<1>10. ASSUME NEW o \in Op, StartDaemon(o) PROVE NoStuckStopping'
  <2>1. "exec" \in Await /\ ~ InStop(o)
    BY <1>10 DEF Await, StartDaemon, At, InStop
  <2>2. currentState' = "stopping" => currentState = "stopping"
    BY <1>10 DEF StartDaemon
  <2>3. Done(o) \/ Failed(o) \/ Goto(o, "exec")
    BY <1>10 DEF StartDaemon
  <2>4. Only(o)
    BY <1>0, <2>1, <2>3, DoneOp, FailedOp, GotoOp
  <2> QED
    BY <2>1, <2>2, <2>4, StopKept
<1>11. ASSUME NEW o \in Op, CliStart(o) PROVE NoStuckStopping'
  <2>1. {"wait", "failed"} \subseteq Await
    BY DEF Await
  <2> QED
    BY <1>0, <1>11, <2>1, GotoOp, StopKept
       DEF CliStart, Now, Keeps, Fresh, IdleNow, Ended, At, InStop, app
<1>12. ASSUME NEW o \in Op, StartReturns(o) PROVE NoStuckStopping'
  BY <1>0, <1>12, DoneOp, FailedOp, StopKept
     DEF StartReturns, Now, Keeps, Fresh, IdleNow, Ended, At, InStop, app
<1>13. ASSUME NEW o \in Op, SyncToken(o) PROVE NoStuckStopping'
  BY <1>0, <1>13, SyncTokenOp, StopKept
     DEF SyncToken, Now, Keeps, Fresh, IdleNow, Ended, At, InStop, app
<1>14. ASSUME NEW o \in Op, MintPat(o) PROVE NoStuckStopping'
  BY <1>0, <1>14, MintPatOp, FailedOp, StopKept
     DEF MintPat, Now, Keeps, Fresh, IdleNow, Ended, At, InStop, app
<1>15. ASSUME NEW o \in Op, WriteProfileConfig(o) PROVE NoStuckStopping'
  <2>1. "userId" \in Await
    BY DEF Await
  <2>2. Only(o) /\ ~ InStop(o)
    BY <1>0, <1>15, <2>1, ThrownOp, GotoOp DEF WriteProfileConfig, At, InStop
  <2>3. UNCHANGED currentState
    BY <1>15 DEF WriteProfileConfig, app
  <2> QED
    BY <2>2, <2>3, StopKept
<1>16. ASSUME NEW o \in Op, WriteProfileUserId(o) PROVE NoStuckStopping'
  <2>1. {"alive"} \subseteq Await
    BY DEF Await
  <2> QED
    BY <1>0, <1>16, <2>1, ThrownOp, DoneOp, GotoOp, StopKept
       DEF WriteProfileUserId, Now, Keeps, Fresh, IdleNow, Ended, At, InStop, app
<1>17. ASSUME NEW o \in Op, NEW p \in Op, RestartForUser(o, p) PROVE NoStuckStopping'
  <2>1. ~ InStop(o) /\ ~ InStop(p) /\ UNCHANGED currentState
    BY <1>17 DEF RestartForUser, At, IsIdle, InStop, app
  <2>2. \A q \in Op : q \notin {o, p} => op'[q] = op[q]
    BY <1>17, RestartForUserOp
  <2> QED
    BY <2>1, <2>2 DEF NoStuckStopping, InStop
<1>18. ASSUME NEW o \in Op, ClearToken(o) PROVE NoStuckStopping'
  <2>1. {"userId", "config"} \subseteq Await
    BY DEF Await
  <2> QED
    BY <1>0, <1>18, <2>1, GotoOp, StopKept
       DEF ClearToken, Now, Keeps, Fresh, IdleNow, Ended, At, InStop, app
<1>19. ASSUME NEW o \in Op, RemoveProfileUserId(o) PROVE NoStuckStopping'
  BY <1>0, <1>19, DoneOp, StopKept
     DEF RemoveProfileUserId, Now, Keeps, Fresh, IdleNow, Ended, At, InStop, app
<1>20. ASSUME NEW o \in Op, GuardedStop(o) PROVE NoStuckStopping'
  BY <1>0, <1>20, GuardedStopOp, StopKept
     DEF GuardedStop, Now, Keeps, Fresh, IdleNow, Ended, At, InStop, app
<1>21. ASSUME NEW o \in Op, Press(o) PROVE NoStuckStopping'
  BY <1>0, <1>21, PressOp, StopKept
     DEF Press, Guarded, IsIdle, Now, Keeps, Fresh, IdleNow, Ended, At, InStop, app
<1>22. ASSUME NEW o \in Op, NEW u \in User, Login(o, u) PROVE NoStuckStopping'
  <2>1. "sync" \in Stage /\ "autoStart" \in Follow
    BY DEF Stage, Follow
  <2> QED
    BY <1>0, <1>22, <2>1, BeginOp, StopKept
       DEF Login, IsIdle, Now, Keeps, Fresh, IdleNow, Ended, At, InStop, app
<1>23. ASSUME NEW o \in Op, Logout(o) PROVE NoStuckStopping'
  <2>1. "clear" \in Stage /\ "guardedStop" \in Follow
    BY DEF Stage, Follow
  <2> QED
    BY <1>0, <1>23, <2>1, BeginOp, StopKept
       DEF Logout, IsIdle, Now, Keeps, Fresh, IdleNow, Ended, At, InStop, app
<1>24. ASSUME NEW o \in Op, Reauthenticate(o) PROVE NoStuckStopping'
  <2>1. "clear" \in Stage /\ "sync" \in Follow
    BY DEF Stage, Follow
  <2> QED
    BY <1>0, <1>24, <2>1, BeginOp, StopKept
       DEF Reauthenticate, IsIdle, Now, Keeps, Fresh, IdleNow, Ended, At, InStop, app
<1>25. ASSUME NEW o \in Op, Relaunch(o) PROVE NoStuckStopping'
  BY <1>25 DEF Relaunch, NoStuckStopping
<1>26. CASE BootstrapCli
  BY <1>26 DEF BootstrapCli, NoStuckStopping, app
<1>27. CASE Grace
  BY <1>27 DEF Grace, NoStuckStopping, app
<1>28. CASE DaemonReady
  BY <1>28 DEF DaemonReady, NoStuckStopping, app
<1>29. CASE DaemonExits
  BY <1>29 DEF DaemonExits, NoStuckStopping, app
<1>30. CASE DaemonWorks
  BY <1>30 DEF DaemonWorks, NoStuckStopping, app
<1>31. CASE Revoke
  BY <1>31 DEF Revoke, NoStuckStopping, app
<1>32. CASE UNCHANGED vars
  BY <1>32 DEF vars, app, NoStuckStopping
<1> QED
  BY <1>1, <1>2, <1>3, <1>4, <1>5, <1>6, <1>7, <1>8, <1>9, <1>10, <1>11, <1>12, <1>13, <1>14, <1>15, <1>16, <1>17, <1>18, <1>19, <1>20, <1>21, <1>22, <1>23, <1>24, <1>25, <1>26, <1>27, <1>28, <1>29, <1>30, <1>31, <1>32
     DEF Next, Health, Lifecycle, Credentials, Renderer, Environment

\* A step beside the files of the profile, and one of the call that is at them.
Aside(o) ==
    /\ Only(o)
    /\ op[o].stage \notin {"sync", "clear"} /\ op'[o].stage \notin {"sync", "clear"}
    /\ UNCHANGED profile
    /\ mishap' # "failed" => mishap # "failed"

LEMMA OwnAside ==
    ASSUME OwnInv, NEW o \in Op, Aside(o)
    PROVE  OwnInv'
<1> SUFFICES ASSUME mishap' # "failed" PROVE OwnParts'
  BY DEF OwnInv
<1>1. OwnParts
  BY DEF OwnInv, Aside
<1>2. \A q \in Op : q # o => op'[q] = op[q]
  BY DEF Aside, Only
<1>3. \A q \in Op : \/ op'[q] = op[q]
                    \/ /\ op[q].stage \notin {"sync", "clear"}
                       /\ op'[q].stage \notin {"sync", "clear"}
  BY <1>2 DEF Aside
<1> QED
  BY <1>1, <1>3 DEF OwnParts, InFiles, At, Aside, ProfileOwned

LEMMA OwnAt ==
    ASSUME OwnInv, NEW o \in Op, Only(o), InFiles(o),
           mishap' # "failed" => mishap # "failed",
           mishap' # "failed" =>
             /\ At(o, "sync", "config")' => op'[o].token.owner = op'[o].user
             /\ At(o, "sync", "userId")' => profile'.token.owner = op'[o].user
             /\ op'[o].stage = "clear" => op'[o].token = NoToken
             /\ ~ At(o, "sync", "userId")' => ProfileOwned'
    PROVE  OwnInv'
<1> SUFFICES ASSUME mishap' # "failed" PROVE OwnParts'
  BY DEF OwnInv
<1>1. OwnParts
  BY DEF OwnInv
<1>2. \A q \in Op : q # o => op'[q] = op[q] /\ ~ InFiles(q) /\ ~ InFiles(q)'
  BY <1>1 DEF OwnParts, Only, InFiles
<1>3. \A q \in Op : q # o => ~ At(q, "sync", "config")' /\ ~ At(q, "sync", "userId")'
                             /\ op'[q].stage # "clear"
  BY <1>2 DEF InFiles, At
<1> QED
  BY <1>2, <1>3 DEF OwnParts

LEMMA OwnCreds ==
    ASSUME TypeOK, SyncHasUser, ThenShape, OwnInv, NEW o \in Op,
           \/ SyncToken(o) \/ MintPat(o) \/ WriteProfileConfig(o) \/ WriteProfileUserId(o)
           \/ ClearToken(o) \/ RemoveProfileUserId(o)
    PROVE  OwnInv'
<1>0. op \in [Op -> OpState] /\ {"userId", "config", "alive"} \subseteq Await
  BY DEF TypeOK, Await
<1>a. InFiles(o)
  BY DEF SyncToken, MintPat, WriteProfileConfig, WriteProfileUserId, ClearToken,
         RemoveProfileUserId, At, InFiles
<1>b. mishap # "failed" =>
         /\ At(o, "sync", "config") => op[o].token.owner = op[o].user
         /\ At(o, "sync", "userId") => profile.token.owner = op[o].user
         /\ op[o].stage = "clear" => op[o].token = NoToken
         /\ ~ At(o, "sync", "userId") => ProfileOwned
  BY <1>a DEF OwnInv, OwnParts, InFiles, At
<1>c. op[o].then = "sync" => op[o].stage = "clear"
  BY DEF ThenShape
<1>d. op[o].then # "clear"
  BY <1>0 DEF OpState, Follow
<1>1. CASE SyncToken(o)
  <2>1. /\ Only(o) /\ op'[o].stage = "sync" /\ op'[o].user = op[o].user
        /\ op'[o].pc \in {"config", "mint"}
        /\ op'[o].pc = "config" => /\ op'[o].token = profile.token
                                   /\ profile.userId = op[o].user /\ profile.token # NoToken
        /\ op[o].user \in User
    BY <1>0, <1>1, SyncTokenOp DEF Now, Keeps, SyncHasUser, SyncToken, At
  <2>2. UNCHANGED <<profile, mishap>> /\ ~ At(o, "sync", "userId")
    BY <1>1 DEF SyncToken, At
  <2>3. op[o].user # NoUser
    BY <2>1, ManagerAssumption
  <2> QED
    BY <1>a, <1>b, <2>1, <2>2, <2>3, OwnAt DEF At, ProfileOwned
<1>2. CASE MintPat(o)
  <2>1. Only(o) /\ UNCHANGED profile /\ ~ At(o, "sync", "userId")
    BY <1>0, <1>2, MintPatOp, FailedOp DEF MintPat, At
  <2>2. CASE mishap' = "failed"
    BY <2>2 DEF OwnInv
  <2>3. CASE mishap' # "failed"
    <3>1. /\ Now(o, "sync", op[o].then, "config") /\ op'[o].token.owner = op[o].user
          /\ op'[o].user = op[o].user /\ UNCHANGED mishap
      BY <1>2, <2>3, MintPatOp DEF Keeps
    <3> QED
      BY <1>a, <1>b, <2>1, <3>1, OwnAt DEF At, Now, ProfileOwned
  <2> QED
    BY <2>2, <2>3
<1>3. CASE WriteProfileConfig(o)
  <2>1. CASE mishap' = "failed"
    BY <2>1 DEF OwnInv
  <2>2. CASE mishap' # "failed"
    <3>1. /\ profile' = [profile EXCEPT !.token = op[o].token] /\ Goto(o, "userId")
          /\ UNCHANGED mishap
      BY <1>3, <2>2 DEF WriteProfileConfig, GoesWrong
    <3>2. /\ Only(o) /\ Now(o, op[o].stage, op[o].then, "userId") /\ Keeps(o)
          /\ op'[o].token = op[o].token
      BY <1>0, <3>1, GotoOp
    <3>3. profile'.token = op[o].token /\ profile'.userId = profile.userId
      BY <3>1 DEF TypeOK
    <3>4. \/ At(o, "sync", "config")
          \/ At(o, "clear", "config")
      BY <1>3 DEF WriteProfileConfig
    <3> QED
      BY <1>a, <1>b, <2>2, <3>1, <3>2, <3>3, <3>4, OwnAt DEF At, Now, Keeps, ProfileOwned
  <2> QED
    BY <2>1, <2>2
<1>4. CASE WriteProfileUserId(o)
  <2>1. CASE mishap' = "failed"
    BY <2>1 DEF OwnInv
  <2>2. CASE mishap' # "failed"
    <3>1. /\ profile' = [profile EXCEPT !.userId = op[o].user] /\ UNCHANGED mishap
          /\ Goto(o, "alive") \/ Done(o)
          /\ At(o, "sync", "userId")
      BY <1>4, <2>2 DEF WriteProfileUserId, GoesWrong
    <3>2. /\ Only(o) /\ ~ At(o, "sync", "userId")' /\ ~ At(o, "sync", "config")'
          /\ op'[o].stage # "clear"
      BY <1>0, <1>c, <1>d, <3>1, GotoOp, DoneOp DEF At, Now, Ended, IdleNow
    <3>3. profile'.token = profile.token /\ profile'.userId = op[o].user
      BY <3>1 DEF TypeOK
    <3> QED
      BY <1>a, <1>b, <2>2, <3>1, <3>2, <3>3, OwnAt DEF ProfileOwned
  <2> QED
    BY <2>1, <2>2
<1>5. CASE ClearToken(o)
  <2>1. /\ Only(o) /\ op'[o].stage = "clear" /\ op'[o].token = op[o].token
    BY <1>0, <1>5, GotoOp DEF ClearToken, At, Now
  <2>2. UNCHANGED <<profile, mishap>> /\ op[o].stage = "clear"
    BY <1>5 DEF ClearToken, At
  <2> QED
    BY <1>a, <1>b, <2>1, <2>2, OwnAt DEF At, ProfileOwned
<1>6. CASE RemoveProfileUserId(o)
  <2>1. /\ Only(o) /\ ~ At(o, "sync", "userId")' /\ ~ At(o, "sync", "config")'
        /\ op'[o].stage # "clear"
    BY <1>0, <1>d, <1>6, DoneOp DEF RemoveProfileUserId, At, Now, Ended, IdleNow
  <2>2. UNCHANGED mishap /\ profile'.userId = NoUser
    BY <1>6 DEF RemoveProfileUserId, TypeOK
  <2> QED
    BY <1>a, <1>b, <2>1, <2>2, OwnAt DEF ProfileOwned
<1> QED
  BY <1>1, <1>2, <1>3, <1>4, <1>5, <1>6

LEMMA OwnBegin ==
    ASSUME TypeOK, OwnInv, NEW o \in Op, Only(o), IsIdle(o), Overlaps, UNCHANGED profile,
           op'[o].pc = "begin", op'[o].stage = "clear" => op'[o].token = NoToken
    PROVE  OwnInv'
<1> SUFFICES ASSUME mishap' # "failed" PROVE OwnParts'
  BY DEF OwnInv
<1>1. OwnParts /\ CredentialsSettled
  BY DEF OwnInv, Overlaps
<1>2. \A q \in Op : q # o => op'[q] = op[q] /\ ~ InFiles(q) /\ ~ InFiles(q)'
  BY <1>1 DEF Only, InFiles, CredentialsSettled
<1>3. \A q \in Op : q # o => ~ At(q, "sync", "config")' /\ ~ At(q, "sync", "userId")'
                             /\ op'[q].stage # "clear"
  BY <1>2 DEF InFiles, At
<1>4. ProfileOwned
  BY <1>1 DEF OwnParts, CredentialsSettled, At
<1> QED
  BY <1>2, <1>3, <1>4 DEF OwnParts, ProfileOwned, At

LEMMA OwnRestartForUser ==
    ASSUME TypeOK, ThenShape, OwnInv, NEW o \in Op, NEW p \in Op, RestartForUser(o, p)
    PROVE  OwnInv'
<1> SUFFICES ASSUME mishap' # "failed" PROVE OwnParts'
  BY DEF OwnInv
<1>1. OwnParts /\ UNCHANGED profile /\ At(o, "sync", "alive")
  BY DEF OwnInv, RestartForUser
<1>2. op[o].then \notin {"sync", "clear"}
  BY <1>1 DEF ThenShape, TypeOK, OpState, Follow, At
<1>3. op'[o].stage \notin {"sync", "clear"} /\ op'[p].stage \notin {"sync", "clear"}
  BY <1>2, RestartForUserOp DEF Ended, IdleNow, Now
<1>4. \A q \in Op : q \notin {o, p} => op'[q] = op[q] /\ ~ InFiles(q)
  BY <1>1, RestartForUserOp DEF OwnParts, InFiles, At
<1>5. \A q \in Op : op'[q].stage \notin {"sync", "clear"}
  BY <1>3, <1>4 DEF InFiles
<1>6. ProfileOwned
  BY <1>1, <1>4, RestartForUserOp DEF OwnParts, InFiles, At, RestartForUser, IsIdle
<1> QED
  BY <1>1, <1>5, <1>6 DEF OwnParts, InFiles, At, ProfileOwned

LEMMA OwnRelaunch ==
    ASSUME TypeOK, OwnInv, NEW o \in Op, Relaunch(o)
    PROVE  OwnInv'
<1> SUFFICES ASSUME mishap' # "failed" PROVE OwnParts'
  BY DEF OwnInv
<1>1. OwnParts /\ UNCHANGED profile /\ Quiet
  BY DEF OwnInv, Relaunch
<1>2. ProfileOwned
  BY <1>1 DEF OwnParts, Quiet, IsIdle, At
<1>3. /\ \A q \in Op : q # o => op'[q].stage \notin {"sync", "clear"}
      /\ op'[o].stage # "clear" /\ op'[o].pc = "begin"
  BY RelaunchOp DEF Now, Fresh, IdleNow
<1> QED
  BY <1>1, <1>2, <1>3 DEF OwnParts, InFiles, At, ProfileOwned

LEMMA AsideSteps ==
    ASSUME TypeOK, ThenShape, NEW o \in Op,
           Health(o) \/ Lifecycle(o) \/ GuardedStop(o) \/ Press(o)
    PROVE  Aside(o)
<1>0. op \in [Op -> OpState] /\ op[o].then \in Follow \ {"clear"}
  BY DEF TypeOK, OpState, Follow
<1>a. op[o].then = "sync" => op[o].stage = "clear"
  BY DEF ThenShape
<1>1. CASE PollOnce(o)
  BY <1>0, <1>a, <1>1, PollOnceOp
     DEF PollOnce, IsIdle, app, At, Aside, Now, Ended, IdleNow
<1>2. CASE AutoStart(o)
  BY <1>0, <1>a, <1>2, AutoStartOp, DoneOp
     DEF AutoStart, At, Aside, Now, Ended, IdleNow
<1>3. CASE FetchHealth(o)
  <2>1. {"probe"} \subseteq Await
    BY DEF Await
  <2> QED
    BY <1>0, <1>a, <1>3, <2>1, ReportOp, GotoOp
       DEF FetchHealth, AtHealth, At, Aside, Now, Ended, IdleNow
<1>4. CASE ProbeTokenValidity(o)
  BY <1>0, <1>a, <1>4, ReportOp
     DEF ProbeTokenValidity, AtHealth, At, Aside, Now, Ended, IdleNow
<1>5. CASE EnsureRunningDaemonVersionMatches(o)
  BY <1>0, <1>a, <1>5, EnsureOp
     DEF EnsureRunningDaemonVersionMatches, At, Aside, Now, Ended, IdleNow
<1>6. CASE RestartDaemon(o)
  BY <1>0, <1>a, <1>6, RestartDaemonOp, DoneOp
     DEF RestartDaemon, At, Aside, Now, Ended, IdleNow
<1>7. CASE StopDaemon(o)
  <2>1. {"exec"} \subseteq Await
    BY DEF Await
  <2> QED
    BY <1>0, <1>a, <1>7, <2>1, DoneOp, FailedOp, GotoOp
       DEF StopDaemon, GoesWrong, At, Aside, Now, Ended, IdleNow
<1>8. CASE CliStop(o)
  <2>1. {"wait", "failed"} \subseteq Await
    BY DEF Await
  <2> QED
    BY <1>0, <1>a, <1>8, <2>1, GotoOp
       DEF CliStop, app, GoesWrong, At, Aside, Now, Ended, IdleNow
<1>9. CASE StopReturns(o)
  BY <1>0, <1>a, <1>9, DoneOp, FailedOp
     DEF StopReturns, At, Aside, Now, Ended, IdleNow
<1>10. CASE StartDaemon(o)
  <2>1. {"exec"} \subseteq Await
    BY DEF Await
  <2> QED
    BY <1>0, <1>a, <1>10, <2>1, DoneOp, FailedOp, GotoOp
       DEF StartDaemon, At, Aside, Now, Ended, IdleNow
<1>11. CASE CliStart(o)
  <2>1. {"wait", "failed"} \subseteq Await
    BY DEF Await
  <2> QED
    BY <1>0, <1>a, <1>11, <2>1, GotoOp
       DEF CliStart, app, At, Aside, Now, Ended, IdleNow
<1>12. CASE StartReturns(o)
  BY <1>0, <1>a, <1>12, DoneOp, FailedOp
     DEF StartReturns, At, Aside, Now, Ended, IdleNow
<1>13. CASE GuardedStop(o)
  BY <1>0, <1>a, <1>13, GuardedStopOp
     DEF GuardedStop, At, Aside, Now, Ended, IdleNow
<1>14. CASE Press(o)
  BY <1>0, <1>a, <1>14, PressOp
     DEF Press, Guarded, IsIdle, At, Aside, Now, Ended, IdleNow
<1> QED
  BY <1>1, <1>2, <1>3, <1>4, <1>5, <1>6, <1>7, <1>8, <1>9, <1>10, <1>11, <1>12, <1>13, <1>14 DEF Health, Lifecycle

\* Every step keeps the types.
LEMMA TypeStep ==
    ASSUME TypeOK, SyncHasUser, [Next]_vars
    PROVE  TypeOK'
<1>0. op \in [Op -> OpState] /\ session \in User \cup {NoUser}
  BY DEF TypeOK
<1>1. ASSUME NEW o \in Op, PollOnce(o) PROVE TypeOK'
  <2>1. op' \in [Op -> OpState]
    BY <1>0, <1>1, PollOnceOp DEF PollOnce, Only
  <2> QED
    BY <1>1, <2>1 DEF TypeOK, PollOnce, app
<1>2. ASSUME NEW o \in Op, AutoStart(o) PROVE TypeOK'
  <2>1. op' \in [Op -> OpState]
    BY <1>0, <1>2, AutoStartOp, DoneOp DEF AutoStart, Only
  <2> QED
    BY <1>2, <2>1 DEF TypeOK, AutoStart, Done, Release
<1>3. ASSUME NEW o \in Op, FetchHealth(o) PROVE TypeOK'
  <2>1. {"probe"} \subseteq Await
    BY DEF Await
  <2>2. op' \in [Op -> OpState]
    BY <1>0, <1>3, <2>1, ReportOp, GotoOp DEF FetchHealth, Only
  <2>3. currentState' \in State
    <3>1. "running" \in State /\ Verdict(op[o].health, attempt.expired) \in State
      BY DEF Verdict, State
    <3> QED
      BY <1>3, <3>1 DEF TypeOK, FetchHealth, Report
  <2>4. attempt' \in [since: {"null", "recent", "long"}, probed: BOOLEAN, expired: BOOLEAN]
    BY <1>3 DEF TypeOK, FetchHealth
  <2>5. UNCHANGED <<operationInProgress, pendingVersionRestart, profile, daemon, session, mishap>>
    BY <1>3 DEF FetchHealth
  <2> QED
    BY <2>2, <2>3, <2>4, <2>5 DEF TypeOK
<1>4. ASSUME NEW o \in Op, ProbeTokenValidity(o) PROVE TypeOK'
  <2>1. op' \in [Op -> OpState]
    BY <1>0, <1>4, ReportOp DEF ProbeTokenValidity, Only
  <2>2. PICK expired \in BOOLEAN :
            /\ attempt' = [attempt EXCEPT !.expired = expired]
            /\ Report(o, Verdict(op[o].health, expired))
    <3>1. attempt.expired \in BOOLEAN
      BY DEF TypeOK
    <3> QED
      BY <1>4, <3>1 DEF ProbeTokenValidity
  <2>3. attempt' \in [since : {"null", "recent", "long"}, probed : BOOLEAN, expired : BOOLEAN]
    BY <2>2 DEF TypeOK
  <2>4. currentState' \in {currentState, Verdict(op[o].health, expired)}
    BY <2>2 DEF Report
  <2>5. op[o].health \in {"down", "starting", "running"}
    BY <1>0 DEF OpState
  <2>6. currentState' \in State
    BY <2>4, <2>5 DEF Verdict, State, TypeOK
  <2>7. UNCHANGED <<operationInProgress, pendingVersionRestart, profile, daemon, session, mishap>>
    BY <1>4 DEF ProbeTokenValidity
  <2> QED
    BY <2>1, <2>3, <2>6, <2>7 DEF TypeOK
<1>5. ASSUME NEW o \in Op, EnsureRunningDaemonVersionMatches(o) PROVE TypeOK'
  <2>1. op' \in [Op -> OpState]
    BY <1>0, <1>5, EnsureOp DEF EnsureRunningDaemonVersionMatches, Only
  <2> QED
    BY <1>5, <2>1 DEF TypeOK, EnsureRunningDaemonVersionMatches
<1>6. ASSUME NEW o \in Op, RestartDaemon(o) PROVE TypeOK'
  <2>1. op' \in [Op -> OpState]
    BY <1>0, <1>6, RestartDaemonOp, DoneOp DEF RestartDaemon, Only
  <2> QED
    BY <1>6, <2>1 DEF TypeOK, RestartDaemon, Done, Release
<1>7. ASSUME NEW o \in Op, StopDaemon(o) PROVE TypeOK'
  <2>1. {"exec"} \subseteq Await
    BY DEF Await
  <2>2. op' \in [Op -> OpState]
    BY <1>0, <1>7, <2>1, DoneOp, FailedOp, GotoOp DEF StopDaemon, Only
  <2> QED
    BY <1>7, <2>2 DEF TypeOK, StopDaemon, Done, Failed, Release, GoesWrong, State
<1>8. ASSUME NEW o \in Op, CliStop(o) PROVE TypeOK'
  <2>1. {"wait", "failed"} \subseteq Await
    BY DEF Await
  <2>2. op' \in [Op -> OpState]
    BY <1>0, <1>8, <2>1, GotoOp DEF CliStop, Only
  <2>3. daemon' \in Daemon
    <3>1. daemon' \in {daemon, Down}
      BY <1>8 DEF CliStop
    <3>2. Down \in Daemon /\ daemon \in Daemon
      BY DEF Down, Daemon, TypeOK
    <3>3. [daemon EXCEPT !.current = FALSE] \in Daemon
      BY <3>2 DEF Daemon
    <3> QED
      BY <3>1, <3>2, <3>3
  <2>4. UNCHANGED <<currentState, operationInProgress, pendingVersionRestart, attempt, profile, session>> /\ mishap' \in {mishap, "failed"}
    BY <1>8 DEF TypeOK, CliStop, GoesWrong, Down, Daemon, app
  <2> QED
    BY <1>8, <2>2, <2>3, <2>4 DEF TypeOK, State, CliStop
<1>9. ASSUME NEW o \in Op, StopReturns(o) PROVE TypeOK'
  <2>1. op' \in [Op -> OpState]
    BY <1>0, <1>9, DoneOp, FailedOp DEF StopReturns, Only
  <2> QED
    BY <1>9, <2>1 DEF TypeOK, StopReturns, Done, Failed, Release, State
<1>10. ASSUME NEW o \in Op, StartDaemon(o) PROVE TypeOK'
  <2>1. {"exec"} \subseteq Await
    BY DEF Await
  <2>2. op' \in [Op -> OpState]
    BY <1>0, <1>10, <2>1, DoneOp, FailedOp, GotoOp DEF StartDaemon, Only
  <2>3. attempt' \in [since : {"null", "recent", "long"}, probed : BOOLEAN, expired : BOOLEAN]
    <3>1. \/ UNCHANGED attempt
          \/ attempt' = [since |-> "recent", probed |-> FALSE, expired |-> FALSE]
      BY <1>10 DEF StartDaemon
    <3>2. attempt \in [since : {"null", "recent", "long"}, probed : BOOLEAN, expired : BOOLEAN]
      BY DEF TypeOK
    <3>3. CASE attempt' = attempt
      BY <3>2, <3>3
    <3>4. CASE attempt' = [since |-> "recent", probed |-> FALSE, expired |-> FALSE]
      BY <3>4
    <3> QED
      BY <3>1, <3>3, <3>4
  <2>4. currentState' \in State
    BY <1>10 DEF TypeOK, StartDaemon, Done, Failed, Release, State
  <2>5. operationInProgress' \in BOOLEAN
    BY <1>10 DEF TypeOK, StartDaemon, Done, Failed, Release, State
  <2> QED
    BY <1>10, <2>2, <2>3, <2>4, <2>5 DEF TypeOK, State, StartDaemon
<1>11. ASSUME NEW o \in Op, CliStart(o) PROVE TypeOK'
  <2>1. {"wait", "failed"} \subseteq Await
    BY DEF Await
  <2>2. op' \in [Op -> OpState]
    BY <1>0, <1>11, <2>1, GotoOp DEF CliStart, Only
  <2>3. daemon' \in Daemon
    <3>1. \/ UNCHANGED daemon
          \/ daemon' = [Down EXCEPT !.status = "starting", !.token = profile.token]
      BY <1>11 DEF CliStart
    <3>2. daemon \in Daemon /\ profile.token \in Token \cup {NoToken}
      BY DEF TypeOK
    <3>3. [Down EXCEPT !.status = "starting", !.token = profile.token] \in Daemon
      BY <3>2 DEF Down, Daemon
    <3> QED
      BY <3>1, <3>2, <3>3
  <2>4. UNCHANGED <<app, profile, session, mishap>>
    BY <1>11 DEF CliStart
  <2> QED
    BY <2>2, <2>3, <2>4 DEF TypeOK, app
<1>12. ASSUME NEW o \in Op, StartReturns(o) PROVE TypeOK'
  <2>1. op' \in [Op -> OpState]
    BY <1>0, <1>12, DoneOp, FailedOp DEF StartReturns, Only
  <2>2. currentState' \in State /\ operationInProgress' \in BOOLEAN
    BY <1>12 DEF TypeOK, StartReturns, Done, Failed, Release, State
  <2>3. UNCHANGED <<pendingVersionRestart, attempt, profile, daemon, session, mishap>>
    BY <1>12 DEF StartReturns
  <2> QED
    BY <2>1, <2>2, <2>3 DEF TypeOK
<1>13. ASSUME NEW o \in Op, SyncToken(o) PROVE TypeOK'
  <2>1. op' \in [Op -> OpState]
    BY <1>0, <1>13, SyncTokenOp DEF SyncToken, Only
  <2> QED
    BY <1>13, <2>1 DEF TypeOK, SyncToken, app
<1>14. ASSUME NEW o \in Op, MintPat(o) PROVE TypeOK'
  <2>1. op' \in [Op -> OpState]
    BY <1>0, <1>14, MintPatOp, FailedOp DEF MintPat, Only
  <2> QED
    BY <1>14, <2>1 DEF TypeOK, MintPat, Failed, Release, GoesWrong
<1>15. ASSUME NEW o \in Op, WriteProfileConfig(o) PROVE TypeOK'
  <2>1. {"userId"} \subseteq Await
    BY DEF Await
  <2>2. op' \in [Op -> OpState]
    BY <1>0, <1>15, <2>1, ThrownOp, GotoOp DEF WriteProfileConfig, Only
  <2>3. operationInProgress' \in BOOLEAN /\ mishap' \in {"none", "refused", "failed"}
    BY <1>15 DEF TypeOK, WriteProfileConfig, Thrown, Failed, Release, GoesWrong
  <2>4. profile' \in [token: Token \cup {NoToken}, userId: User \cup {NoUser}]
    <3>1. op[o].token \in Token \cup {NoToken}
      BY <1>0 DEF OpState
    <3> QED
      BY <1>15, <3>1 DEF TypeOK, WriteProfileConfig
  <2>5. UNCHANGED <<currentState, pendingVersionRestart, attempt, daemon, session>>
    BY <1>15 DEF WriteProfileConfig
  <2> QED
    BY <2>2, <2>3, <2>4, <2>5 DEF TypeOK
<1>16. ASSUME NEW o \in Op, WriteProfileUserId(o) PROVE TypeOK'
  <2>1. {"alive"} \subseteq Await
    BY DEF Await
  <2>2. op' \in [Op -> OpState]
    BY <1>0, <1>16, <2>1, ThrownOp, DoneOp, GotoOp DEF WriteProfileUserId, Only
  <2> QED
    BY <1>16, <2>2 DEF TypeOK, WriteProfileUserId, Thrown, Done, Failed, Release, GoesWrong, OpState
<1>17. ASSUME NEW o \in Op, NEW p \in Op, RestartForUser(o, p) PROVE TypeOK'
  <2>1. op' \in [Op -> OpState]
    BY <1>0, <1>17, RestartForUserOp DEF RestartForUser, Only
  <2> QED
    BY <1>17, <2>1 DEF TypeOK, RestartForUser, app
<1>18. ASSUME NEW o \in Op, ClearToken(o) PROVE TypeOK'
  <2>1. {"userId", "config"} \subseteq Await
    BY DEF Await
  <2>2. op' \in [Op -> OpState]
    BY <1>0, <1>18, <2>1, GotoOp DEF ClearToken, Only
  <2> QED
    BY <1>18, <2>2 DEF TypeOK, ClearToken, app
<1>19. ASSUME NEW o \in Op, RemoveProfileUserId(o) PROVE TypeOK'
  <2>1. op' \in [Op -> OpState]
    BY <1>0, <1>19, DoneOp DEF RemoveProfileUserId, Only
  <2> QED
    BY <1>19, <2>1 DEF TypeOK, RemoveProfileUserId, Done, Release
<1>20. ASSUME NEW o \in Op, GuardedStop(o) PROVE TypeOK'
  <2>1. op' \in [Op -> OpState]
    BY <1>0, <1>20, GuardedStopOp DEF GuardedStop, Only
  <2> QED
    BY <1>20, <2>1 DEF TypeOK, GuardedStop
<1>21. ASSUME NEW o \in Op, Press(o) PROVE TypeOK'
  <2>1. op' \in [Op -> OpState]
    BY <1>0, <1>21, PressOp DEF Press, Only
  <2> QED
    BY <1>21, <2>1 DEF TypeOK, Press, Guarded
<1>22. ASSUME NEW o \in Op, NEW u \in User, Login(o, u) PROVE TypeOK'
  <2>1. "sync" \in Stage /\ "autoStart" \in Follow
    BY DEF Stage, Follow
  <2>2. op' \in [Op -> OpState]
    BY <1>0, <1>22, <2>1, BeginOp DEF Login, Only
  <2> QED
    BY <1>22, <2>2 DEF TypeOK, Login, Overlaps, app
<1>23. ASSUME NEW o \in Op, Logout(o) PROVE TypeOK'
  <2>1. "clear" \in Stage /\ "guardedStop" \in Follow
    BY DEF Stage, Follow
  <2>2. op' \in [Op -> OpState]
    BY <1>0, <1>23, <2>1, BeginOp DEF Logout, Only
  <2> QED
    BY <1>23, <2>2 DEF TypeOK, Logout, Overlaps, app
<1>24. ASSUME NEW o \in Op, Reauthenticate(o) PROVE TypeOK'
  <2>1. "clear" \in Stage /\ "sync" \in Follow
    BY DEF Stage, Follow
  <2>2. op' \in [Op -> OpState]
    BY <1>0, <1>24, <2>1, BeginOp DEF Reauthenticate, Only
  <2> QED
    BY <1>24, <2>2 DEF TypeOK, Reauthenticate, Overlaps, app
<1>25. ASSUME NEW o \in Op, Relaunch(o) PROVE TypeOK'
  <2>1. op' \in [Op -> OpState]
    BY <1>0, <1>25, RelaunchOp DEF Relaunch, Only
  <2>2. daemon' \in Daemon
    <3>1. daemon' \in {daemon, Down} \/ daemon' = [daemon EXCEPT !.current = FALSE]
      BY <1>25 DEF Relaunch
    <3>2. Down \in Daemon /\ daemon \in Daemon
      BY DEF Down, Daemon, TypeOK
    <3>3. [daemon EXCEPT !.current = FALSE] \in Daemon
      BY <3>2 DEF Daemon
    <3> QED
      BY <3>1, <3>2, <3>3
  <2>3. mishap' \in {mishap, "failed"}
    BY <1>25 DEF TypeOK, Relaunch, NoAttempt, Down, Daemon, State
  <2>4. attempt' \in [since : {"null", "recent", "long"}, probed : BOOLEAN, expired : BOOLEAN]
    BY <1>25 DEF TypeOK, Relaunch, NoAttempt, Down, Daemon, State
  <2> QED
    BY <1>25, <2>1, <2>2, <2>3, <2>4 DEF TypeOK, State, Relaunch
<1>26. CASE BootstrapCli
  BY <1>26 DEF TypeOK, BootstrapCli, State
<1>27. CASE Grace
  BY <1>27 DEF TypeOK, Grace
<1>28. CASE DaemonReady
  BY <1>28 DEF TypeOK, DaemonReady, Daemon, app
<1>29. CASE DaemonExits
  BY <1>29 DEF TypeOK, DaemonExits, Down, Daemon, app
<1>30. CASE DaemonWorks
  <2>1. daemon' = [daemon EXCEPT !.busy = ~ @] /\ UNCHANGED <<app, profile, session, op, mishap>>
    BY <1>30 DEF DaemonWorks
  <2>2. daemon \in Daemon
    BY DEF TypeOK
  <2>3. [daemon EXCEPT !.busy = ~ @] \in Daemon
    BY <2>2 DEF Daemon
  <2>4. daemon' \in Daemon
    BY <2>1, <2>3
  <2> QED
    BY <2>1, <2>4 DEF TypeOK, app
<1>31. CASE Revoke
  BY <1>31 DEF TypeOK, Revoke, Token, app
<1>32. CASE UNCHANGED vars
  BY <1>32 DEF TypeOK, vars, app
<1>33. ASSUME NEW o \in Op, Health(o) PROVE TypeOK'
  BY <1>1, <1>2, <1>3, <1>4, <1>5, <1>33 DEF Health
<1>34. ASSUME NEW o \in Op, Lifecycle(o) PROVE TypeOK'
  BY <1>6, <1>7, <1>8, <1>9, <1>10, <1>11, <1>12, <1>34 DEF Lifecycle
<1>35. ASSUME NEW o \in Op, Credentials(o) PROVE TypeOK'
  BY <1>13, <1>14, <1>15, <1>16, <1>17, <1>18, <1>19, <1>35 DEF Credentials
<1>36. ASSUME NEW o \in Op, Renderer(o) PROVE TypeOK'
  BY <1>21, <1>22, <1>23, <1>24, <1>25, <1>36 DEF Renderer
<1>37. CASE Environment
  BY <1>26, <1>27, <1>28, <1>29, <1>30, <1>31, <1>37 DEF Environment
<1> QED
  BY <1>20, <1>32, <1>33, <1>34, <1>35, <1>36, <1>37 DEF Next

\* Every step leaves the files of the profile in one hand.
LEMMA OwnStep ==
    ASSUME TypeOK, SyncHasUser, ThenShape, OwnInv, [Next]_vars
    PROVE  OwnInv'
<1>0. op \in [Op -> OpState] /\ session \in User \cup {NoUser}
  BY DEF TypeOK
<1>1. ASSUME NEW o \in Op, Health(o) \/ Lifecycle(o) \/ GuardedStop(o) \/ Press(o)
      PROVE  OwnInv'
  BY <1>1, AsideSteps, OwnAside
<1>2. ASSUME NEW o \in Op, Credentials(o) PROVE OwnInv'
  BY <1>2, OwnCreds, OwnRestartForUser DEF Credentials
<1>3. ASSUME NEW o \in Op, NEW u \in User, Login(o, u) PROVE OwnInv'
  <2>1. op' = [op EXCEPT ![o] = Called("sync", "autoStart", u)]
        /\ "sync" \in Stage /\ "autoStart" \in Follow /\ u \in User \cup {NoUser}
    BY <1>3 DEF Login, Stage, Follow
  <2>2. Only(o) /\ Now(o, "sync", "autoStart", "begin") /\ Fresh(o, u, FALSE)
    BY <2>1, BeginOp
  <2> QED
    BY <1>3, <2>2, OwnBegin DEF Login, Now, Fresh, app
<1>4. ASSUME NEW o \in Op, Logout(o) PROVE OwnInv'
  <2>1. op' = [op EXCEPT ![o] = Called("clear", "guardedStop", NoUser)]
        /\ "clear" \in Stage /\ "guardedStop" \in Follow /\ NoUser \in User \cup {NoUser}
    BY <1>4 DEF Logout, Stage, Follow
  <2>2. Only(o) /\ Now(o, "clear", "guardedStop", "begin") /\ Fresh(o, NoUser, FALSE)
    BY <2>1, BeginOp
  <2> QED
    BY <1>4, <2>2, OwnBegin DEF Logout, Now, Fresh, app
<1>5. ASSUME NEW o \in Op, Reauthenticate(o) PROVE OwnInv'
  <2>1. op' = [op EXCEPT ![o] = Called("clear", "sync", session)]
        /\ "clear" \in Stage /\ "sync" \in Follow /\ session \in User \cup {NoUser}
    BY <1>0, <1>5 DEF Reauthenticate, Stage, Follow
  <2>2. Only(o) /\ Now(o, "clear", "sync", "begin") /\ Fresh(o, session, FALSE)
    BY <2>1, BeginOp
  <2> QED
    BY <1>5, <2>2, OwnBegin DEF Reauthenticate, Now, Fresh, app
<1>6. ASSUME NEW o \in Op, Relaunch(o) PROVE OwnInv'
  BY <1>6, OwnRelaunch
<1>7. CASE Revoke
  <2>1. /\ UNCHANGED <<op, mishap>> /\ profile'.userId = profile.userId
        /\ profile'.token.owner = profile.token.owner /\ profile.token # NoToken
    BY <1>7 DEF Revoke, TypeOK, Token
  <2> QED
    BY <2>1 DEF OwnInv, OwnParts, InFiles, At, ProfileOwned
<1>8. CASE UNCHANGED vars \/ (Environment /\ ~ Revoke)
  BY <1>8 DEF vars, app, Environment, BootstrapCli, Grace, DaemonReady, DaemonExits,
              DaemonWorks, OwnInv, OwnParts, InFiles, At, ProfileOwned
<1> QED
  BY <1>1, <1>2, <1>3, <1>4, <1>5, <1>6, <1>7, <1>8 DEF Next, Renderer

\* The prompt to log in again does not give way to "starting".
LEMMA FlapStep ==
    ASSUME TypeOK, [Next]_vars, attempt.expired, attempt'.expired, currentState' = "starting"
    PROVE  currentState = "starting"
<1> SUFFICES ASSUME currentState # "starting" PROVE FALSE
  OBVIOUS
<1>0. /\ attempt \in [since : {"null", "recent", "long"}, probed : BOOLEAN, expired : BOOLEAN]
      /\ \A o \in Op : op[o].health \in {"down", "starting", "running"}
  BY DEF TypeOK, OpState
<1>1. ASSUME NEW o \in Op, FetchHealth(o) PROVE FALSE
  <2>1. CASE op[o].health = "running"
    BY <1>0, <1>1, <2>1 DEF FetchHealth
  <2>2. CASE op[o].health # "running"
    BY <1>0, <1>1, <2>2 DEF FetchHealth, Report, Verdict, ProbeDue
  <2> QED
    BY <2>1, <2>2
<1>2. ASSUME NEW o \in Op, ProbeTokenValidity(o) PROVE FALSE
  BY <1>0, <1>2 DEF ProbeTokenValidity, Report, Verdict
<1>3. ASSUME NEW o \in Op, StartDaemon(o) PROVE FALSE
  BY <1>0, <1>3 DEF StartDaemon
<1>4. ASSUME NEW o \in Op, Health(o), ~ FetchHealth(o), ~ ProbeTokenValidity(o) PROVE FALSE
  BY <1>4 DEF Health, PollOnce, AutoStart, EnsureRunningDaemonVersionMatches, app
<1>5. ASSUME NEW o \in Op, Lifecycle(o), ~ StartDaemon(o) PROVE FALSE
  BY <1>5 DEF Lifecycle, RestartDaemon, StopDaemon, CliStop, StopReturns, CliStart,
              StartReturns, app
<1>6. ASSUME NEW o \in Op, Credentials(o) PROVE FALSE
  BY <1>6 DEF Credentials, SyncToken, MintPat, WriteProfileConfig, WriteProfileUserId,
              RestartForUser, ClearToken, RemoveProfileUserId, app
<1>7. ASSUME NEW o \in Op, Renderer(o) \/ GuardedStop(o) PROVE FALSE
  BY <1>7 DEF Renderer, Press, Logout, Reauthenticate, Relaunch, Login, GuardedStop, app
<1>8. CASE Environment \/ UNCHANGED vars
  BY <1>8 DEF Environment, BootstrapCli, Grace, DaemonReady, DaemonExits, DaemonWorks,
              Revoke, vars, app
<1> QED
  BY <1>1, <1>2, <1>3, <1>4, <1>5, <1>6, <1>7, <1>8 DEF Next

-----------------------------------------------------------------------------
\* What holds between any two steps.
IInv ==
    /\ TypeOK /\ SyncHasUser /\ ThenShape
    /\ GuardIsHeld /\ GuardShape
    /\ NoStuckStopping
    /\ OwnInv

LEMMA InitIInv ==
    ASSUME Init
    PROVE  IInv
<1>1. \A o \in Op : op[o] = Idle
  BY DEF Init
<1>2. Idle.stage = "idle" /\ Idle.then = "none" /\ Idle.guarded = FALSE
  BY DEF Idle
<1>3. TypeOK
  <2>1. op \in [Op -> OpState]
    BY IdleType DEF Init
  <2>2. daemon \in Daemon
    BY LaunchAssumption DEF Init
  <2> QED
    BY <2>1, <2>2 DEF Init, TypeOK, State, NoAttempt
<1>4. SyncHasUser /\ ThenShape /\ GuardShape
  BY <1>1, <1>2 DEF SyncHasUser, ThenShape, GuardShape
<1>5. GuardIsHeld /\ NoStuckStopping
  BY <1>1, <1>2 DEF Init, GuardIsHeld, NoStuckStopping
<1>6. OwnInv
  BY <1>1, <1>2 DEF Init, OwnInv, OwnParts, InFiles, At, ProfileOwned
<1> QED
  BY <1>3, <1>4, <1>5, <1>6 DEF IInv

LEMMA NextIInv ==
    ASSUME IInv, [Next]_vars
    PROVE  IInv'
BY TypeStep, SyncStep, ThenStep, GuardStep, StoppingStep, OwnStep DEF IInv

LEMMA SpecIInv == Spec => []IInv
BY InitIInv, NextIInv, PTL DEF Spec

\* The state of the manager, of the files and of the daemon keeps to its types,
\* for any number of users and of calls in progress.
THEOREM ManagerTypeCorrect == Spec => []TypeOK
<1>1. IInv => TypeOK
  BY DEF IInv
<1> QED
  BY <1>1, SpecIInv, PTL

\* withGuard: the guard is held by exactly one call and outlives none.
THEOREM GuardHeldByOne == Spec => []GuardIsHeld
<1>1. IInv => GuardIsHeld
  BY DEF IInv
<1> QED
  BY <1>1, SpecIInv, PTL

\* "stopping" is shown only while a stop is at work.
THEOREM StoppingEnds == Spec => []NoStuckStopping
<1>1. IInv => NoStuckStopping
  BY DEF IInv
<1> QED
  BY <1>1, SpecIInv, PTL

\* As long as no call has failed, been cut off or overlapped with another one on
\* the files, no session gets the token of another user.
THEOREM TokenIsOwn == Spec => []PatIsOwn
<1>1. IInv => PatIsOwn
  <2> SUFFICES ASSUME IInv, mishap # "failed"
               PROVE  /\ \A o \in Op : At(o, "sync", "config") => op[o].token.owner = op[o].user
                      /\ CredentialsSettled /\ profile.userId # NoUser
                            /\ profile.token # NoToken => profile.token.owner = profile.userId
    BY DEF PatIsOwn
  <2>1. OwnParts
    BY DEF IInv, OwnInv
  <2>2. CredentialsSettled => ProfileOwned
    BY <2>1 DEF OwnParts, CredentialsSettled, At
  <2> QED
    BY <2>1, <2>2 DEF OwnParts, ProfileOwned
<1> QED
  BY <1>1, SpecIInv, PTL

\* Once the login is known to have expired only a new start shows "starting".
THEOREM PromptDoesNotFlap == Spec => NoFlapping
<1>1. IInv /\ [Next]_vars =>
        [attempt.expired /\ attempt'.expired /\ currentState' = "starting"
         => currentState = "starting"]_vars
  BY FlapStep DEF IInv
<1> QED
  BY <1>1, SpecIInv, PTL DEF Spec, NoFlapping
=============================================================================
