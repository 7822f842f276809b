---------------------------- MODULE DaemonManager ----------------------------
(****************************************************************************)
(* The manager of the local daemon in the main process of the desktop app:  *)
(* apps/desktop/src/main/daemon-manager.ts, with the calls the renderer     *)
(* makes (App.tsx, daemon-runtime-card.tsx).  JavaScript runs from one      *)
(* await to the next without interruption: that is a step, and the calls in *)
(* progress interleave between their steps.                                 *)
(****************************************************************************)
CONSTANTS
    User, NoUser,
    NoToken,
    Op,         \* places for calls in progress, the bound on how many overlap
    AtLaunch    \* the daemons that may be on the port when the app starts

VARIABLES
    currentState,           \* what the user is shown
    operationInProgress,
    pendingVersionRestart,
    attempt,                \* startingSince, authProbeDone, authExpired
    profile,                \* the token of config.json and the user id beside it
    daemon,                 \* the process behind the port
    session,                \* who is logged in in the renderer
    op,                     \* the calls in progress
    mishap                  \* history: what has gone wrong so far

app == <<currentState, operationInProgress, pendingVersionRestart, attempt>>
vars == <<app, profile, daemon, session, op, mishap>>

-----------------------------------------------------------------------------
State == {"installing_cli", "cli_not_found", "stopped", "starting", "running",
          "stopping", "auth_expired"}

\* live: the server still accepts it.
Token == [owner : User, live : BOOLEAN]

ASSUME ManagerAssumption == NoUser \notin User /\ NoToken \notin Token

\* busy: active_task_count > 0; current: cli_version is that of our CLI;
\* native: its os is the host's.
Daemon == [status : {"down", "starting", "running"}, token : Token \cup {NoToken},
           busy : BOOLEAN, current : BOOLEAN, native : BOOLEAN]
Down == [status |-> "down", token |-> NoToken, busy |-> FALSE,
         current |-> TRUE, native |-> TRUE]

ASSUME LaunchAssumption == AtLaunch # {} /\ AtLaunch \subseteq Daemon

\* The function a call is in, and the one that follows it.
Stage == {"idle", "poll", "getStatus", "autoStart", "version", "restart", "stop", "start",
          "sync", "clear", "guardedStop"}
Follow == {"none", "start", "autoStart", "restart", "guardedStop", "sync"}

\* The await it is at.
Await == {"begin", "apply", "probe", "exec", "wait", "failed", "mint", "config",
          "userId", "alive"}

\* health: the status /health gave, "down" for no answer; token and changed:
\* what syncToken has found.
OpState ==
    [stage : Stage, then : Follow, pc : Await,
     user : User \cup {NoUser}, guarded : BOOLEAN,
     health : {"down", "starting", "running"},
     token : Token \cup {NoToken}, changed : BOOLEAN]

TypeOK ==
    /\ currentState \in State
    /\ operationInProgress \in BOOLEAN
    /\ pendingVersionRestart \in BOOLEAN
    /\ attempt \in [since : {"null", "recent", "long"}, probed : BOOLEAN, expired : BOOLEAN]
    /\ profile \in [token : Token \cup {NoToken}, userId : User \cup {NoUser}]
    /\ daemon \in Daemon
    /\ session \in User \cup {NoUser}
    /\ op \in [Op -> OpState]
    /\ mishap \in {"none", "refused", "failed"}

NoAttempt == [since |-> "null", probed |-> FALSE, expired |-> FALSE]

Idle == [stage |-> "idle", then |-> "none", pc |-> "begin", user |-> NoUser,
         guarded |-> FALSE, health |-> "down", token |-> NoToken, changed |-> FALSE]

Init ==
    /\ currentState = "installing_cli"
    /\ operationInProgress = FALSE
    /\ pendingVersionRestart = FALSE
    /\ attempt = NoAttempt
    /\ profile = [token |-> NoToken, userId |-> NoUser]
    /\ daemon \in AtLaunch
    /\ session = NoUser
    /\ op = [o \in Op |-> Idle]
    /\ mishap = "none"

IsIdle(o) == op[o].stage = "idle"
Quiet == \A o \in Op : IsIdle(o)
At(o, stage, pc) == op[o].stage = stage /\ op[o].pc = pc

Alive == daemon.status # "down"
CliFound == currentState \notin {"installing_cli", "cli_not_found"}

\* A call begins; it goes on after another await; it goes on in another function.
Called(stage, then, u) == [Idle EXCEPT !.stage = stage, !.then = then, !.user = u]
Goto(o, pc) == op' = [op EXCEPT ![o].pc = pc]
Become(o, stage, then) ==
    [op[o] EXCEPT !.stage = stage, !.then = then, !.pc = "begin"]

\* withGuard's finally: the guard is given back with the last function.
Release(o) == operationInProgress' = (operationInProgress /\ ~ op[o].guarded)
\* The syncToken that follows another function is followed by a restart.
Finished(o) ==
    CASE op[o].then = "none" -> Idle
      [] op[o].then = "sync" -> Become(o, "sync", "restart")
      [] OTHER -> Become(o, op[o].then, "none")
Done(o) ==
    /\ op' = [op EXCEPT ![o] = Finished(o)]
    /\ IF op[o].then = "none" THEN Release(o) ELSE UNCHANGED operationInProgress

\* Mutated form of Failed: no finally.
FailedNoFinally(o) == op' = [op EXCEPT ![o] = Idle] /\ UNCHANGED operationInProgress
\* An error is returned or thrown: what was to follow does not.
Failed(o) == op' = [op EXCEPT ![o] = Idle] /\ Release(o)

GoesWrong == mishap' = "failed"

-----------------------------------------------------------------------------
(* fetchHealth, as pollOnce and daemon:auto-start call it.                  *)

\* /health answers, or not within its two seconds.
Fetched == {daemon.status, "down"}
\* isDaemonExternallyManaged, of such an answer.
Foreign(h) == h # "down" /\ ~ daemon.native

\* The tick of the poll, or daemon:get-status of a view.
PollOnce(o) ==
    /\ IsIdle(o) /\ CliFound
    /\ \E h \in Fetched, who \in {"poll", "getStatus"} :
          op' = [op EXCEPT ![o] = [Called(who, "none", NoUser) EXCEPT
                                      !.pc = "apply", !.health = h]]
    /\ UNCHANGED <<app, profile, daemon, session, mishap>>

AutoStart(o) ==
    /\ At(o, "autoStart", "begin")
    /\ \/ /\ CliFound
          /\ \E h \in Fetched : op' = [op EXCEPT ![o].pc = "apply", ![o].health = h]
          /\ UNCHANGED operationInProgress
       \/ currentState = "cli_not_found" /\ Done(o)
    /\ UNCHANGED <<currentState, pendingVersionRestart, attempt, profile, daemon,
                   session, mishap>>

\* Mutated form of Verdict: the daemon's own "starting" comes first.
VerdictFlaps(h, expired) ==
    CASE h \in {"running", "starting"} -> h
      [] h = "down" /\ expired -> "auth_expired"
      [] OTHER -> IF currentState = "starting" THEN "starting" ELSE "stopped"
\* What the answer means together with the state found when it arrives.
Verdict(h, expired) ==
    CASE h = "running" -> "running"
      [] h # "running" /\ expired -> "auth_expired"
      [] h = "starting" /\ ~ expired -> "starting"
      [] OTHER -> IF currentState = "starting" THEN "starting" ELSE "stopped"

\* pollOnce shows the status and looks after a restart it owes; get-status only
\* answers; daemon:auto-start starts a daemon or checks the version of the one
\* it found.
Report(o, status) ==
    LET who == op[o].stage
        next == CASE who = "autoStart" -> IF status = "running" THEN "version" ELSE "start"
                  [] who = "poll" /\ status = "running" /\ pendingVersionRestart
                       -> "version"
                  [] OTHER -> "idle"
    IN  /\ op' = [op EXCEPT ![o] = Called(next, "none", NoUser)]
        /\ currentState' = IF who = "poll" THEN status ELSE currentState

\* A start that has not come up after the grace is probed once.
ProbeDue ==
    /\ currentState = "starting" /\ attempt.since = "long"
    /\ ~ attempt.expired /\ ~ attempt.probed

AtHealth(o, pc) == \E who \in {"poll", "getStatus", "autoStart"} : At(o, who, pc)

FetchHealth(o) ==
    /\ AtHealth(o, "apply")
    /\ LET h == op[o].health
       IN  IF h = "running"
           THEN /\ attempt' = [attempt EXCEPT !.since = "null", !.expired = FALSE]
                /\ Report(o, "running")
           ELSE IF ProbeDue
           THEN /\ attempt' = [attempt EXCEPT !.probed = TRUE]
                /\ Goto(o, "probe")
                /\ UNCHANGED currentState
           ELSE Report(o, Verdict(h, attempt.expired)) /\ UNCHANGED attempt
    /\ UNCHANGED <<operationInProgress, pendingVersionRestart, profile, daemon, session,
                   mishap>>

\* Only a missing or a rejected token counts (classifyAuthProbe); an answer
\* that does not come, or another one, leaves the question open.
ProbeTokenValidity(o) ==
    /\ AtHealth(o, "probe")
    /\ \E answered \in BOOLEAN :
          LET rejected == \/ profile.token = NoToken
                          \/ answered /\ ~ profile.token.live
              expired == attempt.expired \/ rejected
          IN  /\ attempt' = [attempt EXCEPT !.expired = expired]
              /\ Report(o, Verdict(op[o].health, expired))
    /\ UNCHANGED <<operationInProgress, pendingVersionRestart, profile, daemon, session,
                   mishap>>

\* With decideVersionAction: an idle daemon of another version is restarted, a
\* busy one later.
EnsureRunningDaemonVersionMatches(o) ==
    /\ At(o, "version", "begin")
    /\ \E h \in Fetched :
          LET differs == h = "running" /\ ~ Foreign(h) /\ ~ daemon.current
          IN  /\ pendingVersionRestart' = (differs /\ daemon.busy)
              /\ op' = [op EXCEPT ![o] = IF differs /\ ~ daemon.busy
                                         THEN Become(o, "restart", "none") ELSE Idle]
    /\ UNCHANGED <<currentState, operationInProgress, attempt, profile, daemon, session,
                   mishap>>

-----------------------------------------------------------------------------
(* restartDaemon, stopDaemon and startDaemon, and the CLI they run.         *)

\* What the native CLI cannot reach is left alone, and that is a success.
RestartDaemon(o) ==
    /\ At(o, "restart", "begin")
    /\ \E h \in Fetched :
          IF Foreign(h)
          THEN Done(o)
          ELSE /\ op' = [op EXCEPT ![o] = Become(o, "stop", "start")]
               /\ UNCHANGED operationInProgress
    /\ UNCHANGED <<currentState, pendingVersionRestart, attempt, profile, daemon,
                   session, mishap>>

\* Both wait for the CLI (resolveCliBinary) while it is being installed.
StopDaemon(o) ==
    /\ At(o, "stop", "begin")
    /\ \/ /\ \E h \in Fetched : Foreign(h)
          /\ Done(o)
          /\ UNCHANGED <<currentState, attempt, mishap>>
       \/ /\ currentState = "cli_not_found" /\ \E h \in Fetched : ~ Foreign(h)
          /\ Failed(o)
          /\ GoesWrong
          /\ UNCHANGED <<currentState, attempt>>
       \/ /\ CliFound /\ \E h \in Fetched : ~ Foreign(h)
          /\ currentState' = "stopping"
          /\ attempt' = [attempt EXCEPT !.since = "null", !.expired = FALSE]
          /\ Goto(o, "exec")
          /\ UNCHANGED <<operationInProgress, mishap>>
    /\ UNCHANGED <<pendingVersionRestart, profile, daemon, session>>

\* silieco daemon stop: the daemon is gone when it returns, or it has given up
\* on one that is still at work, or it fails or is killed.
CliStop(o) ==
    /\ At(o, "stop", "exec")
    /\ \/ /\ daemon' = Down
          /\ Goto(o, "wait")
          /\ UNCHANGED mishap
       \/ /\ Alive
          /\ Goto(o, "wait")
          /\ GoesWrong
          /\ UNCHANGED daemon
       \/ /\ Goto(o, "failed")
          /\ GoesWrong
          /\ UNCHANGED daemon
    /\ UNCHANGED <<app, profile, session>>

\* Mutated form of StopReturns: an error leaves the state as it is.
StopReturnsOnSuccessOnly(o) ==
    /\ \/ At(o, "stop", "wait") /\ Done(o) /\ currentState' = "stopped"
       \/ At(o, "stop", "failed") /\ Failed(o) /\ UNCHANGED currentState
    /\ UNCHANGED <<pendingVersionRestart, attempt, profile, daemon, session, mishap>>
StopReturns(o) ==
    /\ \/ At(o, "stop", "wait") /\ Done(o)
       \/ At(o, "stop", "failed") /\ Failed(o)
    /\ currentState' = "stopped"
    /\ UNCHANGED <<pendingVersionRestart, attempt, profile, daemon, session, mishap>>

\* A second daemon is not started: the poll follows the one that is there.
StartDaemon(o) ==
    /\ At(o, "start", "begin")
    /\ \/ /\ currentState = "cli_not_found"
          /\ Failed(o)
          /\ UNCHANGED <<currentState, attempt>>
       \/ /\ CliFound /\ Alive
          /\ Done(o)
          /\ UNCHANGED <<currentState, attempt>>
       \/ /\ CliFound   \* and no daemon, or one that does not answer in time
          /\ currentState' = "starting"
          /\ attempt' = [since |-> "recent", probed |-> FALSE, expired |-> FALSE]
          /\ Goto(o, "exec")
          /\ UNCHANGED operationInProgress
    /\ UNCHANGED <<pendingVersionRestart, profile, daemon, session, mishap>>

\* silieco daemon start: it refuses beside another daemon and without a token.
CliStart(o) ==
    /\ At(o, "start", "exec")
    /\ \/ /\ ~ Alive /\ profile.token # NoToken
          /\ daemon' = [Down EXCEPT !.status = "starting", !.token = profile.token]
          /\ Goto(o, "wait")
       \/ Goto(o, "failed") /\ UNCHANGED daemon
    /\ UNCHANGED <<app, profile, session, mishap>>

\* It returns when the daemon serves or dies, or after 45 s.
StartReturns(o) ==
    /\ \/ /\ At(o, "start", "wait") /\ Alive
          /\ Done(o)
          /\ UNCHANGED currentState
       \/ /\ At(o, "start", "failed") \/ (At(o, "start", "wait") /\ ~ Alive)
          /\ Failed(o)
          /\ currentState' = "stopped"
    /\ UNCHANGED <<pendingVersionRestart, attempt, profile, daemon, session, mishap>>

-----------------------------------------------------------------------------
(* syncToken, clearToken and reauthenticate: the files of the profile.      *)

\* Mutated form of SyncToken: a cached token is used without asking whose it is.
SyncTokenOfAnyone(o) ==
    /\ At(o, "sync", "begin")
    /\ LET reuse == profile.token # NoToken
       IN  op' = [op EXCEPT ![o].pc = IF reuse THEN "config" ELSE "mint",
                            ![o].token = IF reuse THEN profile.token ELSE NoToken,
                            ![o].changed = profile.userId \notin {NoUser, op[o].user}]
    /\ UNCHANGED <<app, profile, daemon, session, mishap>>
\* The cached token is used again only by the user it was minted for.  (The two
\* files are read in one step.)
SyncToken(o) ==
    /\ At(o, "sync", "begin")
    /\ LET u == op[o].user
           reuse == profile.userId = u /\ profile.token # NoToken
       IN  op' = [op EXCEPT ![o].pc = IF reuse THEN "config" ELSE "mint",
                            ![o].token = IF reuse THEN profile.token ELSE NoToken,
                            ![o].changed = profile.userId \notin {NoUser, u}]
    /\ UNCHANGED <<app, profile, daemon, session, mishap>>

MintPat(o) ==
    /\ At(o, "sync", "mint")
    /\ \/ /\ op' = [op EXCEPT ![o].pc = "config",
                              ![o].token = [owner |-> op[o].user, live |-> TRUE]]
          /\ UNCHANGED <<operationInProgress, mishap>>
       \/ Failed(o) /\ GoesWrong
    /\ UNCHANGED <<currentState, pendingVersionRestart, attempt, profile, daemon, session>>

\* A rejected call ends, but a logout goes on to stop the daemon.
Thrown(o) ==
    IF op[o].stage = "clear" /\ op[o].then = "guardedStop"
    THEN op' = [op EXCEPT ![o] = Finished(o)] /\ UNCHANGED operationInProgress
    ELSE Failed(o)

\* writeProfileConfig, of syncToken and clearToken: the whole file, or an error.
WriteProfileConfig(o) ==
    /\ At(o, "sync", "config") \/ At(o, "clear", "config")
    /\ \/ /\ profile' = [profile EXCEPT !.token = op[o].token]
          /\ Goto(o, "userId")
          /\ UNCHANGED <<operationInProgress, mishap>>
       \/ Thrown(o) /\ GoesWrong /\ UNCHANGED profile
    /\ UNCHANGED <<currentState, pendingVersionRestart, attempt, daemon, session>>

WriteProfileUserId(o) ==
    /\ At(o, "sync", "userId")
    /\ \/ /\ profile' = [profile EXCEPT !.userId = op[o].user]
          /\ IF op[o].changed
             THEN Goto(o, "alive") /\ UNCHANGED operationInProgress
             ELSE Done(o)
          /\ UNCHANGED mishap
       \/ Thrown(o) /\ GoesWrong /\ UNCHANGED profile
    /\ UNCHANGED <<currentState, pendingVersionRestart, attempt, daemon, session>>

\* Mutated form of RestartForUser: a daemon that is still booting is left.
RestartForUserWhenRunning(o, p) ==
    /\ At(o, "sync", "alive") /\ IsIdle(p)
    /\ \E h \in Fetched :
          /\ op' = [op EXCEPT ![o] = Finished(o),
                              ![p] = IF h = "running"
                                     THEN Called("restart", "none", NoUser) ELSE Idle]
          /\ mishap' = IF h = daemon.status THEN mishap ELSE "failed"
    /\ UNCHANGED <<app, profile, daemon, session>>
\* The user has changed: a daemon that is up is restarted by a call of its own
\* (p), while this one goes on.
RestartForUser(o, p) ==
    /\ At(o, "sync", "alive") /\ IsIdle(p)
    /\ \E h \in Fetched :
          /\ op' = [op EXCEPT ![o] = Finished(o),
                              ![p] = IF h # "down"
                                     THEN Called("restart", "none", NoUser) ELSE Idle]
          /\ mishap' = IF h = daemon.status THEN mishap ELSE "failed"
    /\ UNCHANGED <<app, profile, daemon, session>>

ClearToken(o) ==
    /\ At(o, "clear", "begin")
    /\ Goto(o, IF profile.token = NoToken THEN "userId" ELSE "config")
    /\ UNCHANGED <<app, profile, daemon, session, mishap>>

\* Mutated form of RemoveProfileUserId: the id is left and the token lost.
RemoveNothing(o) ==
    /\ At(o, "clear", "userId")
    /\ profile' = [profile EXCEPT !.userId = NoToken]
    /\ Done(o)
    /\ UNCHANGED <<currentState, pendingVersionRestart, attempt, daemon, session, mishap>>
RemoveProfileUserId(o) ==
    /\ At(o, "clear", "userId")
    /\ profile' = [profile EXCEPT !.userId = NoUser]
    /\ Done(o)
    /\ UNCHANGED <<currentState, pendingVersionRestart, attempt, daemon, session, mishap>>

-----------------------------------------------------------------------------
(* The calls of the renderer.                                               *)

\* withGuard: one call of this kind at a time, a second one is refused.
Guarded(o, stage) ==
    /\ IsIdle(o) /\ ~ operationInProgress
    /\ operationInProgress' = TRUE
    /\ op' = [op EXCEPT ![o] = [Called(stage, "none", NoUser) EXCEPT !.guarded = TRUE]]

\* The buttons of the runtime card, and the restart after the first workspace.
Press(o) ==
    /\ session # NoUser
    /\ \/ currentState = "stopped" /\ Guarded(o, "start")
       \/ currentState = "running" /\ Guarded(o, "stop")
       \/ Guarded(o, "restart")
    /\ UNCHANGED <<currentState, pendingVersionRestart, attempt, profile, daemon,
                   session, mishap>>

\* Mutated form of GuardedStop: only a daemon that is shown running is stopped.
GuardedStopWhenRunning(o) ==
    /\ At(o, "guardedStop", "begin")
    /\ IF operationInProgress \/ currentState # "running"
       THEN op' = [op EXCEPT ![o] = Idle] /\ UNCHANGED operationInProgress
       ELSE /\ op' = [op EXCEPT ![o] = [Become(o, "stop", "none") EXCEPT !.guarded = TRUE]]
            /\ operationInProgress' = TRUE
    /\ mishap' = IF operationInProgress /\ mishap = "none" THEN "refused" ELSE mishap
    /\ UNCHANGED <<currentState, pendingVersionRestart, attempt, profile, daemon, session>>
\* The stop of a logout is refused while another call holds the guard.
GuardedStop(o) ==
    /\ At(o, "guardedStop", "begin")
    /\ IF operationInProgress
       THEN /\ op' = [op EXCEPT ![o] = Idle]
            /\ mishap' = IF mishap = "none" THEN "refused" ELSE mishap
            /\ UNCHANGED operationInProgress
       ELSE /\ op' = [op EXCEPT ![o] = [Become(o, "stop", "none") EXCEPT !.guarded = TRUE]]
            /\ operationInProgress' = TRUE
            /\ UNCHANGED mishap
    /\ UNCHANGED <<currentState, pendingVersionRestart, attempt, profile, daemon, session>>

\* Nothing is at work on the files of the profile.
CredentialsSettled == \A o \in Op : op[o].stage \notin {"sync", "clear"}
\* History: two calls at once on the files count as a mishap.
Overlaps == mishap' = IF CredentialsSettled THEN mishap ELSE "failed"

\* A login, or a deep link that switches the account.
Login(o, u) ==
    /\ IsIdle(o) /\ session # u
    /\ session' = u
    /\ op' = [op EXCEPT ![o] = Called("sync", "autoStart", u)]
    /\ Overlaps
    /\ UNCHANGED <<app, profile, daemon>>

Logout(o) ==
    /\ IsIdle(o) /\ session # NoUser
    /\ session' = NoUser
    /\ op' = [op EXCEPT ![o] = Called("clear", "guardedStop", NoUser)]
    /\ Overlaps
    /\ UNCHANGED <<app, profile, daemon>>

Reauthenticate(o) ==
    /\ IsIdle(o) /\ currentState = "auth_expired" /\ session # NoUser
    /\ op' = [op EXCEPT ![o] = Called("clear", "sync", session)]
    /\ Overlaps
    /\ UNCHANGED <<app, profile, daemon, session>>

\* bootstrapCli, at the start of the app and of daemon:retry-install.
BootstrapCli ==
    /\ ~ CliFound
    /\ currentState = "cli_not_found" => session # NoUser
    /\ currentState' \in {"stopped", "cli_not_found"}
    /\ UNCHANGED <<operationInProgress, pendingVersionRestart, attempt, profile, daemon,
                   session, op, mishap>>

\* The app exits, perhaps with its daemon (autoStop), and comes back, perhaps
\* with another CLI; the renderer restores its session.
Relaunch(o) ==
    /\ currentState' = "installing_cli"
    /\ operationInProgress' = FALSE
    /\ pendingVersionRestart' = FALSE
    /\ attempt' = NoAttempt
    /\ op' = [p \in Op |-> IF p = o /\ session # NoUser
                           THEN Called("sync", "autoStart", session) ELSE Idle]
    /\ \/ UNCHANGED daemon
       \/ daemon' = Down /\ daemon.native
       \/ daemon' = [daemon EXCEPT !.current = FALSE] /\ Alive
    /\ mishap' = IF Quiet THEN mishap ELSE "failed"
    /\ UNCHANGED <<profile, session>>

-----------------------------------------------------------------------------
(* Time, the daemon and the server.                                         *)

\* AUTH_PROBE_GRACE_MS are over.
Grace ==
    /\ attempt.since = "recent"
    /\ attempt' = [attempt EXCEPT !.since = "long"]
    /\ UNCHANGED <<currentState, operationInProgress, pendingVersionRestart, profile,
                   daemon, session, op, mishap>>

DaemonReady ==
    /\ daemon.status = "starting" /\ daemon.token # NoToken /\ daemon.token.live
    /\ daemon' = [daemon EXCEPT !.status = "running"]
    /\ UNCHANGED <<app, profile, session, op, mishap>>

DaemonExits ==
    /\ Alive
    /\ daemon' = Down
    /\ UNCHANGED <<app, profile, session, op, mishap>>

DaemonWorks ==
    /\ daemon.status = "running"
    /\ daemon' = [daemon EXCEPT !.busy = ~ @]
    /\ UNCHANGED <<app, profile, session, op, mishap>>

\* The token of the profile is revoked.
Revoke ==
    /\ profile.token # NoToken /\ profile.token.live
    /\ profile' = [profile EXCEPT !.token.live = FALSE]
    /\ UNCHANGED <<app, daemon, session, op, mishap>>

-----------------------------------------------------------------------------
Health(o) ==
    \/ PollOnce(o) \/ AutoStart(o) \/ FetchHealth(o) \/ ProbeTokenValidity(o)
    \/ EnsureRunningDaemonVersionMatches(o)
Lifecycle(o) ==
    \/ RestartDaemon(o) \/ StopDaemon(o) \/ CliStop(o) \/ StopReturns(o)
    \/ StartDaemon(o) \/ CliStart(o) \/ StartReturns(o)
Credentials(o) ==
    \/ SyncToken(o) \/ MintPat(o) \/ WriteProfileConfig(o) \/ WriteProfileUserId(o)
    \/ \E p \in Op : RestartForUser(o, p)
    \/ ClearToken(o) \/ RemoveProfileUserId(o)
Renderer(o) ==
    \/ Press(o) \/ Logout(o) \/ Reauthenticate(o) \/ Relaunch(o)
    \/ \E u \in User : Login(o, u)
Environment == BootstrapCli \/ Grace \/ DaemonReady \/ DaemonExits \/ DaemonWorks \/ Revoke

Next ==
    \/ \E o \in Op : Health(o) \/ Lifecycle(o) \/ Credentials(o) \/ GuardedStop(o)
    \/ \E o \in Op : Renderer(o)
    \/ Environment

Spec == Init /\ [][Next]_vars

-----------------------------------------------------------------------------
\* The guard is held by exactly one call, from its beginning to its end, error
\* or not: a guard that outlives its call would refuse every start, stop and
\* restart until the app is restarted (withGuard).
GuardIsHeld ==
    /\ operationInProgress <=> \E o \in Op : op[o].guarded
    /\ \A o, p \in Op : op[o].guarded /\ op[p].guarded => o = p

\* "stopping" is shown only while a stop is at work: whatever overlaps with it
\* or fails in it, the user is not left there (stopDaemon).
NoStuckStopping ==
    currentState = "stopping" =>
        \E o \in Op : op[o].stage = "stop" /\ op[o].pc \in {"exec", "wait", "failed"}

\* Once the login is known to have expired the prompt to log in again does not
\* flap back to "starting": only a new start shows that (daemon-manager.ts,
\* authExpired).
NoFlapping ==
    [][attempt.expired /\ attempt'.expired /\ currentState' = "starting"
       => currentState = "starting"]_vars

\* The token the daemon of a session will load belongs to the user the profile
\* names: no user's session runs on the token of another (syncToken).
PatIsOwn ==
    mishap # "failed" =>
        /\ \A o \in Op : At(o, "sync", "config") => op[o].token.owner = op[o].user
        /\ CredentialsSettled /\ profile.userId # NoUser /\ profile.token # NoToken
              => profile.token.owner = profile.userId

\* What a switch of users owes: when all calls have returned, the daemon of the
\* machine works for the one who is logged in.
WorksForSession ==
    Quiet /\ session # NoUser /\ Alive /\ daemon.native => daemon.token.owner = session

\* A change of users reaches a daemon that is up, booting or running, however
\* polls, starts and stops of the user overlap with it (syncToken, and the stop
\* of App.tsx's logout).
SwitchTakesEffect == mishap = "none" => WorksForSession

\* When the calls of a logout have returned nothing of the user is left: no token
\* and no user id in the profile, and no daemon on the machine, not even one that
\* a start in progress at the logout was about to bring up (clearToken, and the
\* stop of App.tsx's logout).
LogoutLeavesNothing ==
    mishap = "none" /\ Quiet /\ session = NoUser =>
        /\ profile = [token |-> NoToken, userId |-> NoUser]
        /\ ~ (Alive /\ daemon.native)

\* "On logout ... stop the daemon so that a subsequent login as a different user
\* never inherits the previous user's ... credentials" (App.tsx), also while
\* another call of the user is in progress.
LogoutStops == mishap # "failed" => WorksForSession
=============================================================================
