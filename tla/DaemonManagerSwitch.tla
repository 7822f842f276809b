------------------------- MODULE DaemonManagerSwitch -------------------------
(****************************************************************************)
(* A switch of users reaches the daemon: SwitchTakesEffect, for any number  *)
(* of users and of overlapping calls.  While the token of the profile or of *)
(* the daemon is another user's, some call in progress is going to replace  *)
(* it, and it cannot be lost on the way but for what the history counts as  *)
(* a mishap.                                                                *)
(****************************************************************************)
EXTENDS DaemonManagerProofs

\* The app is new on the machine (Init's profile is empty): no daemon that its
\* CLI could have started is on the port.
LaunchIsClean == \A d \in AtLaunch : d.status = "down" \/ ~ d.native

-----------------------------------------------------------------------------
(* The invariant.                                                           *)

\* A token of somebody else than the one who is logged in.
Wrong(t) == t # NoToken /\ t.owner # session

\* The files name another user than the one this sync is for.
Differs(o) == profile.userId \notin {NoUser, op[o].user}

\* A call that is going to stop the daemon, if nothing goes wrong.
WillStop(o) ==
    \/ op[o].stage = "stop" /\ op[o].pc \in {"begin", "exec"}
    \/ op[o].stage \in {"restart", "guardedStop", "clear"}
    \/ op[o].stage = "sync" /\ (op[o].then = "restart" \/ op[o].pc = "alive" \/ Differs(o))

\* A call that is going to replace the token of the profile.
WillReplace(o) ==
    \/ op[o].stage = "clear" /\ op[o].pc \in {"begin", "config"}
    \/ op[o].stage = "sync" /\ op[o].pc \in {"begin", "mint", "config"} /\ Differs(o)

\* What syncToken has found stays true until it has written the user id.
SyncShape ==
    \A o \in Op : op[o].stage = "sync" =>
        /\ op[o].pc \in {"mint", "config", "userId"} => (op[o].changed <=> Differs(o))
        /\ op[o].pc = "config" => op[o].token # NoToken
        /\ op[o].pc = "userId" => profile.token # NoToken
        /\ op[o].pc = "alive" => profile.userId = op[o].user
SyncForSession ==
    \A o \in Op : op[o].stage = "sync" \/ op[o].then = "sync" => op[o].user = session
\* A clearToken is that of a logout or that of a new login of the same user.
ClearShape ==
    \A o \in Op : op[o].stage = "clear" =>
        /\ op[o].then = "sync" \/ (op[o].then = "guardedStop" /\ session = NoUser)
        /\ op[o].pc = "userId" => profile.token = NoToken

\* The token and the user id come and go together.
Paired ==
    (\A o \in Op : ~ At(o, "sync", "userId") /\ ~ At(o, "clear", "userId"))
       => (profile.token = NoToken <=> profile.userId = NoUser)
SettledForSession == CredentialsSettled /\ session # NoUser => profile.userId = session
TokenReplaced == Wrong(profile.token) => \E o \in Op : WillReplace(o)
FilesParts ==
    /\ SyncShape /\ SyncForSession /\ ClearShape
    /\ Paired /\ SettledForSession /\ TokenReplaced

Loaded == Alive /\ daemon.native => daemon.token # NoToken
Stale == Alive /\ daemon.native /\ Wrong(daemon.token)
DaemonStopped == Stale => \E o \in Op : WillStop(o)
DaemonParts == Loaded /\ DaemonStopped

SwitchInv == mishap = "none" => FilesParts /\ DaemonParts

-----------------------------------------------------------------------------
(* The files of the profile.                                                *)

\* The calls elsewhere do not touch them.
LEMMA FilesAside ==
    ASSUME FilesParts, ThenShape', NEW o \in Op, Aside(o), UNCHANGED session
    PROVE  FilesParts'
<1>1. \A q \in Op : \/ op'[q] = op[q]
                    \/ /\ op[q].stage \notin {"sync", "clear"}
                       /\ op'[q].stage \notin {"sync", "clear"}
  BY DEF Aside, Only
<1>2. UNCHANGED <<profile, session>>
  BY DEF Aside
<1>3. SyncShape'
  BY <1>1, <1>2 DEF FilesParts, SyncShape, Differs
<1>4. SyncForSession'
  BY <1>1, <1>2 DEF FilesParts, SyncForSession, ThenShape
<1>5. ClearShape'
  BY <1>1, <1>2 DEF FilesParts, ClearShape
<1>6. Paired'
  BY <1>1, <1>2 DEF FilesParts, Paired, At
<1>7. SettledForSession'
  BY <1>1, <1>2 DEF FilesParts, SettledForSession, CredentialsSettled
<1>8. TokenReplaced'
  <2>1. \A q \in Op : WillReplace(q) => WillReplace(q)'
    BY <1>1, <1>2 DEF WillReplace, Differs
  <2> QED
    BY <1>2, <2>1 DEF FilesParts, TokenReplaced, Wrong
<1> QED
  BY <1>3, <1>4, <1>5, <1>6, <1>7, <1>8 DEF FilesParts

\* After a step that leaves at most one call at the files, only that call counts.
LEMMA FilesOne ==
    ASSUME ThenShape', NEW o \in Op,
           \A q \in Op : q # o => ~ InFiles(q)',
           op'[o].stage = "sync" =>
               /\ op'[o].pc \in {"mint", "config", "userId"} => (op'[o].changed <=> Differs(o)')
               /\ op'[o].pc = "config" => op'[o].token # NoToken
               /\ op'[o].pc = "userId" => profile'.token # NoToken
               /\ op'[o].pc = "alive" => profile'.userId = op'[o].user,
           op'[o].stage = "sync" \/ op'[o].then = "sync" => op'[o].user = session',
           op'[o].stage = "clear" =>
               /\ op'[o].then = "sync" \/ (op'[o].then = "guardedStop" /\ session' = NoUser)
               /\ op'[o].pc = "userId" => profile'.token = NoToken,
           ~ At(o, "sync", "userId")' /\ ~ At(o, "clear", "userId")'
               => (profile'.token = NoToken <=> profile'.userId = NoUser),
           ~ InFiles(o)' /\ session' # NoUser => profile'.userId = session',
           Wrong(profile.token)' => WillReplace(o)'
    PROVE  FilesParts'
<1>1. \A q \in Op : q # o => op'[q].stage \notin {"sync", "clear"} /\ op'[q].then # "sync"
  BY DEF InFiles, ThenShape
<1>2. SyncShape'
  BY <1>1 DEF SyncShape
<1>3. SyncForSession'
  BY <1>1 DEF SyncForSession
<1>4. ClearShape'
  BY <1>1 DEF ClearShape
<1>5. Paired'
  BY DEF Paired
<1>6. SettledForSession'
  BY DEF SettledForSession, CredentialsSettled, InFiles
<1>7. TokenReplaced'
  BY DEF TokenReplaced
<1> QED
  BY <1>2, <1>3, <1>4, <1>5, <1>6, <1>7 DEF FilesParts

\* Who is at the files is alone there, and stays alone after a step of its own.
LEMMA AloneAfter ==
    ASSUME OwnParts, NEW o \in Op, InFiles(o), \A q \in Op : q # o => op'[q] = op[q]
    PROVE  /\ \A q \in Op : q # o => ~ InFiles(q) /\ ~ InFiles(q)'
           /\ \A q \in Op : At(q, "sync", "userId") \/ At(q, "clear", "userId") => q = o
           /\ \A q \in Op : WillReplace(q) => q = o
BY DEF OwnParts, InFiles, At, WillReplace

\* The steps of a call at the files.
LEMMA FilesSync ==
    ASSUME TypeOK, SyncHasUser, ThenShape, ThenShape', OwnParts, FilesParts,
           NEW o \in Op, SyncToken(o)
    PROVE  FilesParts'
<1>1. /\ Only(o) /\ Keeps(o) /\ op[o].stage = "sync" /\ op[o].pc = "begin"
      /\ op'[o].stage = "sync" /\ op'[o].then = op[o].then
      /\ op'[o].pc \in {"mint", "config"}
      /\ op'[o].pc = "config" => op'[o].token = profile.token /\ profile.token # NoToken
  BY SyncTokenOp DEF Now, SyncToken, At
<1>2. op'[o].changed <=> Differs(o)
  <2>1. op \in [Op -> OpState]
    BY DEF TypeOK
  <2>2. op[o] \in OpState
    BY <2>1
  <2>3. op'[o].changed = (profile.userId \notin {NoUser, op[o].user})
    BY <2>1, <2>2 DEF SyncToken, OpState
  <2> QED
    BY <2>3 DEF Differs
<1>3. UNCHANGED <<profile, session>>
  BY DEF SyncToken
<1>4. op'[o].user = op[o].user /\ op[o].user = session /\ op[o].then # "sync"
  BY <1>1 DEF Keeps, FilesParts, SyncForSession, ThenShape
<1>5. Differs(o)' <=> Differs(o)
  BY <1>3, <1>4 DEF Differs
<1>6. /\ InFiles(o) /\ \A q \in Op : q # o => op'[q] = op[q]
  BY <1>1 DEF InFiles, Only
<1>7. profile.token = NoToken <=> profile.userId = NoUser
  BY <1>1, <1>6, AloneAfter DEF FilesParts, Paired, At
<1>8. Wrong(profile.token)' => WillReplace(o)'
  <2>1. Wrong(profile.token)' => WillReplace(o)
    BY <1>3, <1>6, AloneAfter DEF FilesParts, TokenReplaced, Wrong
  <2> QED
    BY <1>1, <1>5, <2>1 DEF WillReplace
<1>9. InFiles(o)' /\ op'[o].stage # "clear"
  BY <1>1 DEF InFiles
<1> QED
  BY <1>1, <1>2, <1>3, <1>4, <1>5, <1>6, <1>7, <1>8, <1>9, AloneAfter, FilesOne

LEMMA FilesMint ==
    ASSUME TypeOK, SyncHasUser, ThenShape, ThenShape', OwnParts, FilesParts,
           NEW o \in Op, MintPat(o), mishap' # "failed"
    PROVE  FilesParts'
<1>1. /\ Only(o) /\ Keeps(o) /\ op[o].stage = "sync" /\ op[o].pc = "mint"
      /\ op'[o].stage = "sync" /\ op'[o].then = op[o].then /\ op'[o].pc = "config"
      /\ op'[o].token \in Token
  BY MintPatOp DEF Now, MintPat, At
<1>2. op'[o].changed = op[o].changed
  <2>1. op \in [Op -> OpState] /\ op[o] \in OpState
    BY DEF TypeOK
  <2>2. op' = [op EXCEPT ![o].pc = "config",
                         ![o].token = [owner |-> op[o].user, live |-> TRUE]]
    BY DEF MintPat, GoesWrong
  <2> QED
    BY <2>1, <2>2 DEF OpState
<1>3. UNCHANGED <<profile, session>>
  BY DEF MintPat
<1>4. op'[o].user = op[o].user /\ op[o].user = session /\ op[o].then # "sync"
  BY <1>1 DEF Keeps, FilesParts, SyncForSession, ThenShape
<1>5. Differs(o)' <=> Differs(o)
  BY <1>3, <1>4 DEF Differs
<1>6. op'[o].changed <=> Differs(o)'
  BY <1>1, <1>2, <1>5 DEF FilesParts, SyncShape
<1>7. InFiles(o) /\ \A q \in Op : q # o => op'[q] = op[q]
  BY <1>1 DEF InFiles, Only
<1>8. profile.token = NoToken <=> profile.userId = NoUser
  BY <1>1, <1>7, AloneAfter DEF FilesParts, Paired, At
<1>9. Wrong(profile.token)' => WillReplace(o)'
  <2>1. Wrong(profile.token)' => WillReplace(o)
    BY <1>3, <1>7, AloneAfter DEF FilesParts, TokenReplaced, Wrong
  <2> QED
    BY <1>1, <1>5, <2>1 DEF WillReplace
<1>10. InFiles(o)' /\ op'[o].token # NoToken
  BY <1>1, ManagerAssumption DEF InFiles
<1> QED
  BY <1>1, <1>3, <1>4, <1>6, <1>7, <1>8, <1>9, <1>10, AloneAfter, FilesOne

\* A call that goes on at the same function: what it had found is kept.
LEMMA GotoKeeps ==
    ASSUME TypeOK, NEW o \in Op, NEW c \in Await, Goto(o, c)
    PROVE  /\ \A q \in Op : q # o => op'[q] = op[q]
           /\ op'[o].stage = op[o].stage /\ op'[o].then = op[o].then /\ op'[o].pc = c
           /\ op'[o].user = op[o].user /\ op'[o].token = op[o].token
           /\ op'[o].changed = op[o].changed
<1>1. op \in [Op -> OpState] /\ op[o] \in OpState
  BY DEF TypeOK
<1>2. op'[o].changed = op[o].changed
  BY <1>1 DEF Goto, OpState
<1> QED
  BY <1>1, <1>2, GotoOp DEF Only, Now, Keeps

LEMMA FilesWriteConfig ==
    ASSUME TypeOK, SyncHasUser, ThenShape, ThenShape', OwnParts, FilesParts,
           NEW o \in Op, WriteProfileConfig(o), mishap' # "failed"
    PROVE  FilesParts'
<1>1. /\ At(o, "sync", "config") \/ At(o, "clear", "config")
      /\ profile' = [profile EXCEPT !.token = op[o].token] /\ Goto(o, "userId")
      /\ UNCHANGED session
  BY DEF WriteProfileConfig, GoesWrong
<1>2. profile'.token = op[o].token /\ profile'.userId = profile.userId
  BY <1>1 DEF TypeOK
<1>3. /\ \A q \in Op : q # o => op'[q] = op[q]
      /\ op'[o].stage = op[o].stage /\ op'[o].then = op[o].then /\ op'[o].pc = "userId"
      /\ op'[o].user = op[o].user /\ op'[o].changed = op[o].changed
  BY <1>1, GotoKeeps DEF Await
<1>4. InFiles(o) /\ InFiles(o)'
  BY <1>1, <1>3 DEF InFiles, At
<1>5. CASE At(o, "sync", "config")
  <2>1. op[o].stage = "sync" /\ op[o].pc = "config" /\ op[o].token # NoToken
    BY <1>5 DEF At, FilesParts, SyncShape
  <2>2. op[o].user = session /\ op[o].then # "sync" /\ op[o].token.owner = op[o].user
    BY <1>5, <2>1 DEF FilesParts, SyncForSession, ThenShape, OwnParts
  <2>3. op'[o].changed <=> Differs(o)'
    BY <1>2, <1>3, <2>1 DEF FilesParts, SyncShape, Differs
  <2>4. ~ Wrong(profile.token)'
    BY <1>1, <1>2, <2>2 DEF Wrong
  <2>5. At(o, "sync", "userId")'
    BY <1>3, <2>1 DEF At
  <2> QED
    BY <1>1, <1>2, <1>3, <1>4, <2>1, <2>2, <2>3, <2>4, <2>5, AloneAfter, FilesOne
<1>6. CASE At(o, "clear", "config")
  <2>1. op[o].stage = "clear" /\ op[o].token = NoToken
    BY <1>6 DEF At, OwnParts
  <2>2. /\ op[o].then = "sync" \/ (op[o].then = "guardedStop" /\ session = NoUser)
        /\ op[o].then = "sync" => op[o].user = session
    BY <2>1 DEF FilesParts, ClearShape, SyncForSession
  <2>3. ~ Wrong(profile.token)'
    BY <1>2, <2>1 DEF Wrong
  <2>4. At(o, "clear", "userId")'
    BY <1>3, <2>1 DEF At
  <2> QED
    BY <1>1, <1>2, <1>3, <1>4, <2>1, <2>2, <2>3, <2>4, AloneAfter, FilesOne
<1> QED
  BY <1>1, <1>5, <1>6

LEMMA FilesWriteUserId ==
    ASSUME TypeOK, SyncHasUser, ThenShape, ThenShape', OwnParts, FilesParts,
           NEW o \in Op, WriteProfileUserId(o), mishap' # "failed"
    PROVE  FilesParts'
<1>1. /\ op[o].stage = "sync" /\ op[o].pc = "userId"
      /\ profile' = [profile EXCEPT !.userId = op[o].user]
      /\ Goto(o, "alive") \/ Done(o)
      /\ UNCHANGED session
  BY DEF WriteProfileUserId, GoesWrong, At
<1>2. profile'.token = profile.token /\ profile'.userId = op[o].user
  BY <1>1 DEF TypeOK
<1>3. op \in [Op -> OpState] /\ op[o].then \in Follow \ {"clear", "sync"}
  BY <1>1 DEF TypeOK, OpState, Follow, ThenShape
<1>4. op[o].user = session /\ op[o].user # NoUser /\ profile.token # NoToken
  BY <1>1, ManagerAssumption DEF FilesParts, SyncForSession, SyncShape, SyncHasUser
<1>5. InFiles(o) /\ ~ WillReplace(o)
  BY <1>1 DEF InFiles, WillReplace
<1>6. CASE Goto(o, "alive")
  <2>1. /\ \A q \in Op : q # o => op'[q] = op[q]
        /\ op'[o].stage = op[o].stage /\ op'[o].then = op[o].then /\ op'[o].pc = "alive"
        /\ op'[o].user = op[o].user
    BY <1>6, GotoKeeps DEF Await
  <2>2. ~ Wrong(profile.token)'
    BY <1>1, <1>2, <1>5, <2>1, AloneAfter DEF FilesParts, TokenReplaced, Wrong
  <2>3. InFiles(o)'
    BY <1>1, <2>1 DEF InFiles
  <2> QED
    BY <1>1, <1>2, <1>3, <1>4, <1>5, <2>1, <2>2, <2>3, AloneAfter, FilesOne
<1>7. CASE Done(o)
  <2>1. Only(o) /\ op'[o].stage \notin {"sync", "clear"}
    BY <1>3, <1>7, DoneOp DEF Ended, IdleNow, Now
  <2>2. /\ \A q \in Op : q # o => op'[q] = op[q]
        /\ op'[o].then # "sync"
    BY <2>1 DEF Only, ThenShape
  <2>3. ~ Wrong(profile.token)'
    BY <1>1, <1>2, <1>5, <2>2, AloneAfter DEF FilesParts, TokenReplaced, Wrong
  <2> QED
    BY <1>1, <1>2, <1>4, <1>5, <2>1, <2>2, <2>3, AloneAfter, FilesOne
<1> QED
  BY <1>1, <1>6, <1>7

LEMMA FilesRestartForUser ==
    ASSUME TypeOK, SyncHasUser, ThenShape, ThenShape', OwnParts, FilesParts,
           NEW o \in Op, NEW p \in Op, RestartForUser(o, p)
    PROVE  FilesParts'
<1>1. /\ op[o].stage = "sync" /\ op[o].pc = "alive" /\ op[p].stage = "idle"
      /\ UNCHANGED <<profile, session>>
  BY DEF RestartForUser, At, IsIdle
<1>2. op[o].then \in Follow \ {"clear", "sync"}
  BY <1>1 DEF TypeOK, OpState, Follow, ThenShape
<1>3. /\ op'[o].stage \notin {"sync", "clear"} /\ op'[p].stage \notin {"sync", "clear"}
      /\ \A q \in Op : q \notin {o, p} => op'[q] = op[q]
  BY <1>2, RestartForUserOp DEF Ended, IdleNow, Now
<1>4. InFiles(o) /\ \A q \in Op : InFiles(q) => q = o
  BY <1>1 DEF OwnParts, InFiles
<1>5. \A q \in Op : ~ InFiles(q)'
  BY <1>3, <1>4 DEF InFiles
<1>6. op'[o].then # "sync" /\ op'[o].stage \notin {"sync", "clear"}
  BY <1>3 DEF ThenShape
<1>7. profile.userId = session
  BY <1>1 DEF FilesParts, SyncShape, SyncForSession
<1>8. profile.token = NoToken <=> profile.userId = NoUser
  BY <1>1, <1>4 DEF FilesParts, Paired, At, InFiles
<1>9. ~ Wrong(profile.token)'
  BY <1>1, <1>4 DEF FilesParts, TokenReplaced, Wrong, WillReplace, InFiles
<1> QED
  BY <1>1, <1>5, <1>6, <1>7, <1>8, <1>9, FilesOne

LEMMA FilesClear ==
    ASSUME TypeOK, SyncHasUser, ThenShape, ThenShape', OwnParts, FilesParts,
           NEW o \in Op, ClearToken(o)
    PROVE  FilesParts'
<1> DEFINE c == IF profile.token = NoToken THEN "userId" ELSE "config"
<1>1. /\ op[o].stage = "clear" /\ op[o].pc = "begin" /\ Goto(o, c)
      /\ UNCHANGED <<profile, session>>
  BY DEF ClearToken, At
<1>2. c \in Await
  BY DEF Await
<1>3. /\ \A q \in Op : q # o => op'[q] = op[q]
      /\ op'[o].stage = "clear" /\ op'[o].then = op[o].then /\ op'[o].pc = c
      /\ op'[o].user = op[o].user
  BY <1>1, <1>2, GotoKeeps
<1>4. InFiles(o) /\ InFiles(o)'
  BY <1>1, <1>3 DEF InFiles
<1>5. /\ op[o].then = "sync" \/ (op[o].then = "guardedStop" /\ session = NoUser)
      /\ op[o].then = "sync" => op[o].user = session
  BY <1>1 DEF FilesParts, ClearShape, SyncForSession
<1>6. profile.token = NoToken <=> profile.userId = NoUser
  BY <1>1, <1>3, <1>4, AloneAfter DEF FilesParts, Paired, At
<1>7. Wrong(profile.token)' => WillReplace(o)'
  BY <1>1, <1>3 DEF Wrong, WillReplace
<1>8. op'[o].pc = "userId" => profile.token = NoToken
  BY <1>3
<1> HIDE DEF c
<1> QED
  BY <1>1, <1>3, <1>4, <1>5, <1>6, <1>7, <1>8, AloneAfter, FilesOne

LEMMA FilesRemove ==
    ASSUME TypeOK, SyncHasUser, ThenShape, ThenShape', OwnParts, FilesParts,
           NEW o \in Op, RemoveProfileUserId(o)
    PROVE  FilesParts'
<1>1. /\ op[o].stage = "clear" /\ op[o].pc = "userId" /\ Done(o)
      /\ profile' = [profile EXCEPT !.userId = NoUser] /\ UNCHANGED session
  BY DEF RemoveProfileUserId, At
<1>2. profile'.token = NoToken /\ profile'.userId = NoUser
  BY <1>1 DEF TypeOK, FilesParts, ClearShape
<1>3. /\ \A q \in Op : q # o => op'[q] = op[q]
      /\ Ended(o)
  BY <1>1, DoneOp DEF TypeOK, Only
<1>4. InFiles(o)
  BY <1>1 DEF InFiles
<1>5. ~ Wrong(profile.token)' /\ ~ At(o, "sync", "userId")' /\ ~ At(o, "clear", "userId")'
  BY <1>2, <1>3 DEF Wrong, At, Ended, IdleNow, Now
<1>6. CASE op[o].then = "sync"
  <2>1. op'[o].stage = "sync" /\ op'[o].then = "restart" /\ op'[o].pc = "begin"
    BY <1>3, <1>6 DEF Ended, Now
  <2>2. op'[o].user = session
    BY <1>3, <1>6 DEF Ended, Keeps, FilesParts, SyncForSession
  <2>3. InFiles(o)'
    BY <2>1 DEF InFiles
  <2> QED
    BY <1>1, <1>2, <1>3, <1>4, <1>5, <2>1, <2>2, <2>3, AloneAfter, FilesOne
<1>7. CASE op[o].then # "sync"
  <2>1. op[o].then = "guardedStop" /\ session = NoUser
    BY <1>1, <1>7 DEF FilesParts, ClearShape
  <2>2. op'[o].stage = "guardedStop" /\ op'[o].then = "none"
    BY <1>3, <2>1 DEF Ended, Now
  <2> QED
    BY <1>1, <1>2, <1>3, <1>4, <1>5, <2>1, <2>2, AloneAfter, FilesOne
<1> QED
  BY <1>6, <1>7

\* A call that begins at the files begins there alone, or it is a mishap.
LEMMA FilesBegin ==
    ASSUME OwnParts, FilesParts, NEW o \in Op, IsIdle(o), Only(o),
           UNCHANGED profile, Overlaps, mishap # "failed", mishap' # "failed"
    PROVE  /\ CredentialsSettled
           /\ \A q \in Op : q # o => ~ InFiles(q)'
           /\ profile.token = NoToken <=> profile.userId = NoUser
           /\ profile.token # NoToken => profile.token.owner = profile.userId
<1>1. CredentialsSettled
  BY DEF Overlaps
<1>2. \A q \in Op : ~ InFiles(q) /\ (q # o => op'[q] = op[q])
  BY <1>1 DEF CredentialsSettled, InFiles, Only
<1>3. profile.token = NoToken <=> profile.userId = NoUser
  BY <1>1 DEF FilesParts, Paired, At, CredentialsSettled
<1>4. profile.token # NoToken => profile.token.owner = profile.userId
  BY <1>1, <1>3 DEF OwnParts, CredentialsSettled, At, ProfileOwned
<1> QED
  BY <1>1, <1>2, <1>3, <1>4 DEF InFiles

LEMMA FilesLogin ==
    ASSUME TypeOK, ThenShape', OwnParts, FilesParts, NEW o \in Op, NEW u \in User, Login(o, u),
           mishap # "failed", mishap' # "failed"
    PROVE  FilesParts'
<1>1. /\ IsIdle(o) /\ Overlaps /\ UNCHANGED profile /\ session' = u
      /\ op' = [op EXCEPT ![o] = Called("sync", "autoStart", u)]
  BY DEF Login
<1>2. "sync" \in Stage /\ "autoStart" \in Follow
  BY DEF Stage, Follow
<1>3. Only(o) /\ Now(o, "sync", "autoStart", "begin") /\ op'[o].user = u
  BY <1>1, <1>2, BeginOp DEF Fresh
<1>4. /\ op'[o].stage = "sync" /\ op'[o].then = "autoStart" /\ op'[o].pc = "begin" /\ InFiles(o)'
  BY <1>3 DEF Now, InFiles
<1>5. Wrong(profile.token)' => Differs(o)'
  BY <1>1, <1>3, FilesBegin DEF Wrong, Differs
<1>6. Wrong(profile.token)' => WillReplace(o)'
  BY <1>4, <1>5 DEF WillReplace
<1> QED
  BY <1>1, <1>3, <1>4, <1>6, FilesBegin, FilesOne

LEMMA FilesLogout ==
    ASSUME TypeOK, ThenShape', OwnParts, FilesParts, NEW o \in Op, Logout(o),
           mishap # "failed", mishap' # "failed"
    PROVE  FilesParts'
<1>1. /\ IsIdle(o) /\ Overlaps /\ UNCHANGED profile /\ session' = NoUser
      /\ op' = [op EXCEPT ![o] = Called("clear", "guardedStop", NoUser)]
  BY DEF Logout
<1>2. "clear" \in Stage /\ "guardedStop" \in Follow
  BY DEF Stage, Follow
<1>3. Only(o) /\ Now(o, "clear", "guardedStop", "begin")
  BY <1>1, <1>2, BeginOp
<1>4. /\ op'[o].stage = "clear" /\ op'[o].then = "guardedStop" /\ op'[o].pc = "begin"
      /\ InFiles(o)' /\ WillReplace(o)'
  BY <1>3 DEF Now, InFiles, WillReplace
<1> QED
  BY <1>1, <1>3, <1>4, FilesBegin, FilesOne

LEMMA FilesReauthenticate ==
    ASSUME TypeOK, ThenShape', OwnParts, FilesParts, NEW o \in Op, Reauthenticate(o),
           mishap # "failed", mishap' # "failed"
    PROVE  FilesParts'
<1>1. /\ IsIdle(o) /\ Overlaps /\ UNCHANGED profile /\ UNCHANGED session
      /\ op' = [op EXCEPT ![o] = Called("clear", "sync", session)]
  BY DEF Reauthenticate
<1>2. "clear" \in Stage /\ "sync" \in Follow /\ session \in User \cup {NoUser}
  BY DEF Stage, Follow, TypeOK
<1>3. Only(o) /\ Now(o, "clear", "sync", "begin") /\ op'[o].user = session
  BY <1>1, <1>2, BeginOp DEF Fresh
<1>4. /\ op'[o].stage = "clear" /\ op'[o].then = "sync" /\ op'[o].pc = "begin"
      /\ InFiles(o)' /\ WillReplace(o)'
  BY <1>3 DEF Now, InFiles, WillReplace
<1> QED
  BY <1>1, <1>3, <1>4, FilesBegin, FilesOne

LEMMA FilesRelaunch ==
    ASSUME TypeOK, ThenShape', FilesParts, NEW o \in Op, Relaunch(o), mishap' # "failed"
    PROVE  FilesParts'
<1>1. Quiet /\ UNCHANGED <<profile, session>>
  BY DEF Relaunch
<1>2. \A q \in Op : op[q].stage = "idle"
  BY <1>1 DEF Quiet, IsIdle
<1>3. \A q \in Op : q # o => ~ InFiles(q)'
  BY RelaunchOp DEF IdleNow, Now, InFiles
<1>4. profile.token = NoToken <=> profile.userId = NoUser
  BY <1>2 DEF FilesParts, Paired, At
<1>5. ~ Wrong(profile.token)'
  BY <1>1, <1>2 DEF FilesParts, TokenReplaced, Wrong, WillReplace
<1>6. session # NoUser => profile.userId = session
  BY <1>2 DEF FilesParts, SettledForSession, CredentialsSettled
<1>7. \/ op'[o].stage = "idle" /\ op'[o].then = "none"
      \/ /\ op'[o].stage = "sync" /\ op'[o].then = "autoStart" /\ op'[o].pc = "begin"
         /\ op'[o].user = session
  BY RelaunchOp DEF IdleNow, Now, Fresh
<1> QED
  BY <1>1, <1>3, <1>4, <1>5, <1>6, <1>7, FilesOne DEF InFiles

\* The world outside does not change whose the files are.
LEMMA FilesEnvironment ==
    ASSUME TypeOK, FilesParts, Environment \/ UNCHANGED vars
    PROVE  FilesParts'
<1>1. UNCHANGED <<op, session>>
  BY DEF Environment, BootstrapCli, Grace, DaemonReady, DaemonExits, DaemonWorks, Revoke, vars, app
<1>2. /\ profile'.userId = profile.userId
      /\ profile'.token = NoToken <=> profile.token = NoToken
      /\ profile.token # NoToken => profile'.token.owner = profile.token.owner
  <2>1. CASE Revoke
    <3>1. profile.token \in Token /\ profile' = [profile EXCEPT !.token.live = FALSE]
      BY <2>1 DEF Revoke, TypeOK
    <3>2. [profile.token EXCEPT !.live = FALSE] \in Token
      BY <3>1 DEF Token
    <3>3. /\ profile'.token = [profile.token EXCEPT !.live = FALSE]
          /\ profile'.userId = profile.userId
      BY <3>1 DEF TypeOK
    <3>4. [profile.token EXCEPT !.live = FALSE].owner = profile.token.owner
      BY <3>1 DEF Token
    <3> QED
      BY <3>1, <3>2, <3>3, <3>4, ManagerAssumption
  <2>2. CASE UNCHANGED profile
    BY <2>2
  <2> QED
    BY <2>1, <2>2 DEF Environment, BootstrapCli, Grace, DaemonReady, DaemonExits, DaemonWorks, vars
<1>3. SyncShape' /\ SyncForSession' /\ ClearShape'
  BY <1>1, <1>2 DEF FilesParts, SyncShape, SyncForSession, ClearShape, Differs
<1>4. Paired' /\ SettledForSession'
  BY <1>1, <1>2 DEF FilesParts, Paired, At, SettledForSession, CredentialsSettled
<1>5. TokenReplaced'
  <2>1. Wrong(profile.token)' => Wrong(profile.token)
    BY <1>1, <1>2 DEF Wrong
  <2>2. \A q \in Op : WillReplace(q) => WillReplace(q)'
    BY <1>1, <1>2 DEF WillReplace, Differs
  <2> QED
    BY <2>1, <2>2 DEF FilesParts, TokenReplaced
<1> QED
  BY <1>3, <1>4, <1>5 DEF FilesParts

-----------------------------------------------------------------------------
(* The daemon.                                                              *)

\* A step of one call that leaves the daemon as it is.
LEMMA StopKeeps ==
    ASSUME DaemonParts, NEW o \in Op, Only(o), UNCHANGED <<profile, daemon, session>>,
           Stale /\ WillStop(o) => WillStop(o)'
    PROVE  DaemonParts'
<1>1. \A q \in Op : q # o => (WillStop(q)' <=> WillStop(q))
  BY DEF Only, WillStop, Differs
<1>2. Loaded' /\ (Stale' <=> Stale)
  BY DEF DaemonParts, Loaded, Stale, Alive, Wrong
<1>3. DaemonStopped'
  BY <1>1, <1>2 DEF DaemonParts, DaemonStopped
<1> QED
  BY <1>2, <1>3 DEF DaemonParts

LEMMA StopAside ==
    ASSUME TypeOK, ThenShape, DaemonParts, NEW o \in Op,
           \/ Health(o) \/ RestartDaemon(o) \/ StopDaemon(o) \/ StopReturns(o)
           \/ StartDaemon(o) \/ StartReturns(o) \/ GuardedStop(o) \/ Press(o),
           mishap = "none", mishap' = "none"
    PROVE  DaemonParts'
<1>1. Only(o) /\ UNCHANGED profile
  BY AsideSteps DEF Aside, Lifecycle
<1>2. UNCHANGED <<daemon, session>>
  BY DEF Health, PollOnce, AutoStart, FetchHealth, ProbeTokenValidity,
         EnsureRunningDaemonVersionMatches, RestartDaemon, StopDaemon, StopReturns,
         StartDaemon, StartReturns, GuardedStop, Press
<1>3. CASE Health(o)
  <2>1. op[o].stage \in {"idle", "autoStart", "poll", "getStatus", "version"}
    BY <1>3 DEF Health, PollOnce, AutoStart, FetchHealth, ProbeTokenValidity,
                EnsureRunningDaemonVersionMatches, IsIdle, At, AtHealth
  <2> QED
    BY <1>1, <1>2, <2>1, StopKeeps DEF WillStop
<1>4. CASE RestartDaemon(o)
  <2>1. Done(o) => ~ Stale
    <3>1. op[o] \in OpState /\ op[o].stage = "restart" /\ op[o].then \in Follow
      BY <1>4 DEF RestartDaemon, At, TypeOK, OpState
    <3>2. Ended(o) /\ Done(o) => op'[o].stage # "stop"
      BY <3>1 DEF Ended, IdleNow, Now, Follow
    <3>3. \/ \E h \in Fetched : Foreign(h)
          \/ op' = [op EXCEPT ![o] = Become(o, "stop", "start")]
      BY <1>4 DEF RestartDaemon
    <3>4. op' = [op EXCEPT ![o] = Become(o, "stop", "start")] => op'[o].stage = "stop"
      BY <3>1 DEF TypeOK, Become, OpState
    <3> QED
      BY <3>2, <3>3, <3>4, DoneOp DEF TypeOK, Foreign, Stale
  <2>2. ~ Done(o) => WillStop(o)'
    BY <1>4, RestartDaemonOp DEF Now, WillStop
  <2> QED
    BY <1>1, <1>2, <2>1, <2>2, StopKeeps
<1>5. CASE StopDaemon(o)
  <2>1. \/ ~ Stale
        \/ Goto(o, "exec") /\ op[o].stage = "stop"
    BY <1>5 DEF StopDaemon, GoesWrong, Foreign, Stale, At
  <2>2. Goto(o, "exec") /\ op[o].stage = "stop" => WillStop(o)'
    BY GotoKeeps DEF Await, WillStop
  <2> QED
    BY <1>1, <1>2, <2>1, <2>2, StopKeeps
<1>6. CASE StopReturns(o) \/ StartDaemon(o) \/ StartReturns(o) \/ Press(o)
  <2>1. \/ op[o].stage = "stop" /\ op[o].pc \in {"wait", "failed"}
        \/ op[o].stage \in {"start", "idle"}
    BY <1>6 DEF StopReturns, StartDaemon, StartReturns, Press, Guarded, IsIdle, At
  <2> QED
    BY <1>1, <1>2, <2>1, StopKeeps DEF WillStop
<1>7. CASE GuardedStop(o)
  <2>1. op'[o].stage = "stop" /\ op'[o].pc = "begin"
    <3>1. ~ operationInProgress
      BY <1>7 DEF GuardedStop
    <3>2. op' = [op EXCEPT ![o] = [Become(o, "stop", "none") EXCEPT !.guarded = TRUE]]
      BY <1>7, <3>1 DEF GuardedStop
    <3> QED
      BY <3>2 DEF TypeOK, Become, OpState
  <2> QED
    BY <1>1, <1>2, <2>1, StopKeeps DEF WillStop
<1> QED
  BY <1>3, <1>4, <1>5, <1>6, <1>7

LEMMA StopCliStop ==
    ASSUME NEW o \in Op, CliStop(o), mishap' = "none"
    PROVE  DaemonParts'
<1>1. daemon' = Down
  BY DEF CliStop, GoesWrong
<1> QED
  BY <1>1 DEF Down, DaemonParts, Loaded, DaemonStopped, Stale, Alive

\* A daemon starts with the token of the profile: if that is going to be
\* replaced, the daemon is going to be stopped.
LEMMA StopCliStart ==
    ASSUME TypeOK, ThenShape, FilesParts, DaemonParts, NEW o \in Op, CliStart(o)
    PROVE  DaemonParts'
<1>1. Only(o) /\ UNCHANGED <<profile, session>> /\ op[o].stage = "start"
  BY AsideSteps DEF Aside, Lifecycle, CliStart, At
<1>2. CASE UNCHANGED daemon
  BY <1>1, <1>2, StopKeeps DEF WillStop
<1>3. CASE ~ UNCHANGED daemon
  <2>1. /\ profile.token # NoToken
        /\ daemon' = [Down EXCEPT !.status = "starting", !.token = profile.token]
    BY <1>3 DEF CliStart
  <2>2. daemon'.token = profile.token
    BY <2>1 DEF Down
  <2>3. Loaded'
    BY <2>1, <2>2 DEF Loaded
  <2>4. ASSUME Stale' PROVE \E q \in Op : WillStop(q)'
    <3>1. Wrong(profile.token)
      BY <1>1, <2>2, <2>4 DEF Stale, Wrong
    <3>2. PICK q \in Op : WillReplace(q)
      BY <3>1 DEF FilesParts, TokenReplaced
    <3>3. q # o /\ op'[q] = op[q]
      BY <1>1, <3>2 DEF WillReplace, Only
    <3>4. WillStop(q)'
      BY <1>1, <3>2, <3>3 DEF WillReplace, WillStop, Differs
    <3> QED
      BY <3>4
  <2> QED
    BY <2>3, <2>4 DEF DaemonParts, DaemonStopped
<1> QED
  BY <1>2, <1>3

\* syncToken and clearToken hold on to their purpose until they are over.
LEMMA StopCredentials ==
    ASSUME TypeOK, SyncHasUser, ThenShape, OwnParts, FilesParts, DaemonParts, NEW o \in Op,
           \/ SyncToken(o) \/ MintPat(o) \/ WriteProfileConfig(o) \/ WriteProfileUserId(o)
           \/ ClearToken(o) \/ RemoveProfileUserId(o),
           mishap' # "failed"
    PROVE  DaemonParts'
<1>1. UNCHANGED <<daemon, session>> /\ InFiles(o)
  BY DEF SyncToken, MintPat, WriteProfileConfig, WriteProfileUserId, ClearToken,
         RemoveProfileUserId, At, InFiles
<1>2. ASSUME \A q \in Op : q # o => op'[q] = op[q], WillStop(o) => WillStop(o)'
      PROVE  DaemonParts'
  <2>1. \A q \in Op : q # o => (WillStop(q) => WillStop(q)')
    BY <1>1, <1>2, AloneAfter DEF WillStop, InFiles
  <2>2. Loaded' /\ (Stale' <=> Stale)
    BY <1>1 DEF DaemonParts, Loaded, Stale, Alive, Wrong
  <2>3. DaemonStopped'
    BY <1>2, <2>1, <2>2 DEF DaemonParts, DaemonStopped
  <2> QED
    BY <2>2, <2>3 DEF DaemonParts
<1>3. CASE SyncToken(o)
  <2>1. /\ Only(o) /\ op'[o].stage = "sync" /\ op'[o].then = op[o].then
        /\ op'[o].user = op[o].user /\ UNCHANGED profile /\ At(o, "sync", "begin")
    BY <1>3, SyncTokenOp DEF Now, Keeps, SyncToken
  <2> QED
    BY <1>2, <2>1 DEF WillStop, Differs, At, Only
<1>4. CASE MintPat(o)
  <2>1. /\ Only(o) /\ op'[o].stage = "sync" /\ op'[o].then = op[o].then
        /\ op'[o].user = op[o].user /\ UNCHANGED profile /\ At(o, "sync", "mint")
    BY <1>4, MintPatOp DEF Now, Keeps, MintPat
  <2> QED
    BY <1>2, <2>1 DEF WillStop, Differs, At, Only
<1>5. CASE WriteProfileConfig(o)
  <2>1. /\ Goto(o, "userId") /\ profile' = [profile EXCEPT !.token = op[o].token]
        /\ op[o].pc = "config"
    BY <1>5 DEF WriteProfileConfig, GoesWrong, At
  <2>2. profile'.userId = profile.userId
    BY <2>1 DEF TypeOK
  <2>3. /\ \A q \in Op : q # o => op'[q] = op[q]
        /\ op'[o].stage = op[o].stage /\ op'[o].then = op[o].then /\ op'[o].user = op[o].user
    BY <2>1, GotoKeeps DEF Await
  <2> QED
    BY <1>1, <1>2, <2>1, <2>2, <2>3 DEF WillStop, Differs, InFiles
<1>6. CASE WriteProfileUserId(o)
  <2>1. /\ op[o].stage = "sync" /\ op[o].pc = "userId"
        /\ op[o].changed => Goto(o, "alive")
        /\ ~ op[o].changed => Done(o)
    BY <1>6 DEF WriteProfileUserId, GoesWrong, At
  <2>2. op[o].changed <=> Differs(o)
    BY <2>1 DEF FilesParts, SyncShape
  <2>3. CASE op[o].changed
    BY <1>2, <2>1, <2>3, GotoKeeps DEF Await, WillStop
  <2>4. CASE ~ op[o].changed
    <3>1. Only(o) /\ Ended(o)
      BY <2>1, <2>4, DoneOp DEF TypeOK
    <3>2. WillStop(o) => op[o].then = "restart"
      BY <2>1, <2>2, <2>4 DEF WillStop
    <3>3. op[o].then = "restart" => op'[o].stage = "restart"
      BY <3>1 DEF Ended, Now
    <3> QED
      BY <1>2, <3>1, <3>2, <3>3 DEF WillStop, Only
  <2> QED
    BY <2>3, <2>4
<1>7. CASE ClearToken(o)
  <2>1. PICK c \in Await : Goto(o, c)
    BY <1>7 DEF ClearToken, Await
  <2>2. op[o].stage = "clear"
    BY <1>7 DEF ClearToken, At
  <2> QED
    BY <1>2, <2>1, <2>2, GotoKeeps DEF WillStop
<1>8. CASE RemoveProfileUserId(o)
  <2>1. Only(o) /\ Ended(o) /\ op[o].stage = "clear"
    BY <1>8, DoneOp DEF RemoveProfileUserId, At, TypeOK
  <2>2. op[o].then \in {"sync", "guardedStop"}
    BY <2>1 DEF FilesParts, ClearShape
  <2>3. \/ op'[o].stage = "sync" /\ op'[o].then = "restart"
        \/ op'[o].stage = "guardedStop"
    BY <2>1, <2>2 DEF Ended, Now
  <2> QED
    BY <1>2, <2>1, <2>3 DEF WillStop, Only
<1> QED
  BY <1>3, <1>4, <1>5, <1>6, <1>7, <1>8

LEMMA StopRestartForUser ==
    ASSUME TypeOK, ThenShape, OwnParts, DaemonParts,
           NEW o \in Op, NEW p \in Op, RestartForUser(o, p), mishap' # "failed"
    PROVE  DaemonParts'
<1>1. UNCHANGED <<profile, daemon, session>> /\ o # p
  BY DEF RestartForUser, At, IsIdle
<1>2. Alive => op'[p].stage = "restart"
  <2>1. SUFFICES ASSUME Alive PROVE op'[p].stage = "restart"
    OBVIOUS
  <2>2. op' = [op EXCEPT ![o] = Finished(o), ![p] = Called("restart", "none", NoUser)]
    BY <2>1 DEF RestartForUser, Alive
  <2> QED
    BY <1>1, <2>2 DEF TypeOK, Called, Idle
<1>3. Loaded' /\ (Stale' <=> Stale)
  BY <1>1 DEF DaemonParts, Loaded, Stale, Alive, Wrong
<1>4. DaemonStopped'
  BY <1>2, <1>3 DEF DaemonStopped, Stale, WillStop
<1> QED
  BY <1>3, <1>4 DEF DaemonParts

LEMMA StopLogin ==
    ASSUME TypeOK, ThenShape, OwnParts, FilesParts, DaemonParts,
           NEW o \in Op, NEW u \in User, Login(o, u), mishap # "failed", mishap' # "failed"
    PROVE  DaemonParts'
<1>1. /\ IsIdle(o) /\ Overlaps /\ UNCHANGED <<profile, daemon>> /\ session' = u
      /\ session # u /\ op' = [op EXCEPT ![o] = Called("sync", "autoStart", u)]
  BY DEF Login
<1>2. "sync" \in Stage /\ "autoStart" \in Follow
  BY DEF Stage, Follow
<1>3. Only(o) /\ op'[o].stage = "sync" /\ op'[o].user = u
  BY <1>1, <1>2, BeginOp DEF Fresh, Now
<1>4. CredentialsSettled
  BY <1>1 DEF Overlaps
<1>5. Loaded'
  BY <1>1 DEF DaemonParts, Loaded, Alive
<1>6. ASSUME Stale' PROVE \E q \in Op : WillStop(q)'
  <2>1. Alive /\ daemon.native /\ daemon.token # NoToken
    BY <1>1, <1>6 DEF Stale, Alive, Wrong
  <2>2. CASE Wrong(daemon.token)
    <3>1. PICK q \in Op : WillStop(q)
      BY <2>1, <2>2 DEF DaemonParts, DaemonStopped, Stale
    <3>2. op'[q] = op[q] /\ op[q].stage \notin {"sync", "clear"}
      BY <1>1, <1>3, <1>4, <3>1 DEF Only, IsIdle, WillStop, CredentialsSettled
    <3> QED
      BY <3>1, <3>2 DEF WillStop
  <2>3. CASE ~ Wrong(daemon.token)
    <3>1. daemon.token.owner = session /\ session # NoUser
      BY <2>1, <2>3, ManagerAssumption DEF Wrong, TypeOK, Daemon, Token
    <3>2. profile.userId = session
      BY <1>4, <3>1 DEF FilesParts, SettledForSession
    <3>3. Differs(o)'
      BY <1>1, <1>3, <3>1, <3>2 DEF Differs
    <3> QED
      BY <1>3, <3>3 DEF WillStop
  <2> QED
    BY <2>2, <2>3
<1> QED
  BY <1>5, <1>6 DEF DaemonParts, DaemonStopped

\* A logout, and a new login of the same user, stop the daemon in the end.
LEMMA StopClears ==
    ASSUME TypeOK, DaemonParts, NEW o \in Op, Logout(o) \/ Reauthenticate(o)
    PROVE  DaemonParts'
<1>1. UNCHANGED daemon
  BY DEF Logout, Reauthenticate
<1>2. "clear" \in Stage /\ {"sync", "guardedStop"} \subseteq Follow
  BY DEF Stage, Follow
<1>3. PICK t \in {"sync", "guardedStop"}, u \in User \cup {NoUser} :
          op' = [op EXCEPT ![o] = Called("clear", t, u)]
  BY DEF Logout, Reauthenticate, TypeOK
<1>4. op'[o].stage = "clear"
  BY <1>2, <1>3, BeginOp DEF Now
<1> QED
  BY <1>1, <1>4 DEF DaemonParts, Loaded, DaemonStopped, Alive, WillStop

LEMMA StopRelaunch ==
    ASSUME TypeOK, DaemonParts, NEW o \in Op, Relaunch(o), mishap' # "failed"
    PROVE  DaemonParts'
<1>1. Quiet /\ UNCHANGED session
  BY DEF Relaunch
<1>2. ~ Stale
  BY <1>1 DEF Quiet, IsIdle, DaemonParts, DaemonStopped, WillStop
<1>3. \/ daemon' = Down
      \/ /\ daemon'.status = daemon.status /\ daemon'.native = daemon.native
         /\ daemon'.token = daemon.token
  BY DEF Relaunch, TypeOK, Daemon
<1>4. CASE daemon' = Down
  BY <1>4 DEF Down, DaemonParts, Loaded, DaemonStopped, Stale, Alive
<1>5. CASE daemon' # Down
  BY <1>1, <1>2, <1>3, <1>5 DEF DaemonParts, Loaded, DaemonStopped, Stale, Alive, Wrong
<1> QED
  BY <1>4, <1>5

LEMMA StopEnvironment ==
    ASSUME TypeOK, DaemonParts, Environment \/ UNCHANGED vars
    PROVE  DaemonParts'
<1>1. UNCHANGED <<op, session>> /\ profile'.userId = profile.userId
  BY DEF Environment, BootstrapCli, Grace, DaemonReady, DaemonExits, DaemonWorks, Revoke,
         vars, app, TypeOK
<1>2. \/ daemon' = Down
      \/ /\ Alive <=> Alive'
         /\ daemon'.native = daemon.native /\ daemon'.token = daemon.token
  <2>1. daemon \in Daemon
    BY DEF TypeOK
  <2>2. CASE DaemonReady
    BY <2>1, <2>2 DEF DaemonReady, Daemon, Alive
  <2>3. CASE DaemonWorks
    BY <2>1, <2>3 DEF DaemonWorks, Daemon, Alive
  <2>4. CASE daemon' \in {daemon, Down}
    BY <2>4 DEF Alive
  <2> QED
    BY <2>2, <2>3, <2>4 DEF Environment, BootstrapCli, Grace, DaemonExits, Revoke, vars
<1>3. CASE daemon' = Down
  BY <1>3 DEF Down, DaemonParts, Loaded, DaemonStopped, Stale, Alive
<1>4. CASE daemon' # Down
  <2>1. Loaded' /\ (Stale' <=> Stale)
    BY <1>1, <1>2, <1>4 DEF DaemonParts, Loaded, Stale, Wrong
  <2>2. \A q \in Op : WillStop(q)' <=> WillStop(q)
    BY <1>1 DEF WillStop, Differs
  <2> QED
    BY <2>1, <2>2 DEF DaemonParts, DaemonStopped
<1> QED
  BY <1>3, <1>4

-----------------------------------------------------------------------------
\* A mishap is not forgotten.
LEMMA MishapStays ==
    ASSUME [Next]_vars, mishap' = "none"
    PROVE  mishap = "none"
<1>1. ASSUME NEW o \in Op, Health(o) \/ Lifecycle(o) \/ GuardedStop(o) PROVE mishap = "none"
  BY <1>1 DEF Health, PollOnce, AutoStart, FetchHealth, ProbeTokenValidity,
         EnsureRunningDaemonVersionMatches, Lifecycle, RestartDaemon, StopDaemon, CliStop,
         StopReturns, StartDaemon, CliStart, StartReturns, GuardedStop, GoesWrong
<1>2. ASSUME NEW o \in Op, Credentials(o) PROVE mishap = "none"
  BY <1>2 DEF Credentials, SyncToken, MintPat, WriteProfileConfig, WriteProfileUserId,
         RestartForUser, ClearToken, RemoveProfileUserId, GoesWrong
<1>3. ASSUME NEW o \in Op, Renderer(o) PROVE mishap = "none"
  BY <1>3 DEF Renderer, Press, Login, Logout, Reauthenticate, Relaunch, Overlaps
<1>4. CASE Environment \/ UNCHANGED vars
  BY <1>4 DEF Environment, BootstrapCli, Grace, DaemonReady, DaemonExits, DaemonWorks,
         Revoke, vars
<1> QED
  BY <1>1, <1>2, <1>3, <1>4 DEF Next

LEMMA SwitchStep ==
    ASSUME IInv, IInv', SwitchInv, [Next]_vars
    PROVE  SwitchInv'
<1> SUFFICES ASSUME mishap' = "none" PROVE FilesParts' /\ DaemonParts'
  BY DEF SwitchInv
<1>1. mishap = "none" /\ FilesParts /\ DaemonParts
  BY MishapStays DEF SwitchInv
<1>2. TypeOK /\ SyncHasUser /\ ThenShape /\ OwnParts /\ ThenShape'
  BY <1>1 DEF IInv, OwnInv
<1>3. ASSUME NEW o \in Op, Health(o) \/ Lifecycle(o) \/ GuardedStop(o) \/ Press(o)
      PROVE  FilesParts' /\ DaemonParts'
  <2>1. UNCHANGED session
    BY <1>3 DEF Health, PollOnce, AutoStart, FetchHealth, ProbeTokenValidity,
         EnsureRunningDaemonVersionMatches, Lifecycle, RestartDaemon, StopDaemon, CliStop,
         StopReturns, StartDaemon, CliStart, StartReturns, GuardedStop, Press
  <2>2. FilesParts'
    BY <1>1, <1>2, <1>3, <2>1, AsideSteps, FilesAside
  <2>3. DaemonParts'
    BY <1>1, <1>2, <1>3, StopAside, StopCliStop, StopCliStart DEF Lifecycle
  <2> QED
    BY <2>2, <2>3
<1>4. ASSUME NEW o \in Op, Credentials(o) PROVE FilesParts' /\ DaemonParts'
  <2>1. FilesParts'
    BY <1>1, <1>2, <1>4, FilesSync, FilesMint, FilesWriteConfig, FilesWriteUserId,
       FilesRestartForUser, FilesClear, FilesRemove DEF Credentials
  <2>2. DaemonParts'
    BY <1>1, <1>2, <1>4, StopCredentials, StopRestartForUser DEF Credentials
  <2> QED
    BY <2>1, <2>2
<1>5. ASSUME NEW o \in Op, Renderer(o), ~ Press(o) PROVE FilesParts' /\ DaemonParts'
  <2>1. FilesParts'
    BY <1>1, <1>2, <1>5, FilesLogin, FilesLogout, FilesReauthenticate, FilesRelaunch DEF Renderer
  <2>2. DaemonParts'
    BY <1>1, <1>2, <1>5, StopLogin, StopClears, StopRelaunch DEF Renderer
  <2> QED
    BY <2>1, <2>2
<1>6. CASE Environment \/ UNCHANGED vars
  BY <1>1, <1>2, <1>6, FilesEnvironment, StopEnvironment
<1> QED
  BY <1>3, <1>4, <1>5, <1>6 DEF Next, Renderer

LEMMA InitSwitch ==
    ASSUME Init, LaunchIsClean
    PROVE  SwitchInv
<1>1. \A o \in Op : op[o].stage = "idle" /\ op[o].then = "none"
  BY DEF Init, Idle
<1>2. profile.token = NoToken /\ profile.userId = NoUser /\ session = NoUser
  BY DEF Init
<1>3. FilesParts
  BY <1>1, <1>2 DEF FilesParts, SyncShape, SyncForSession, ClearShape, Paired,
     SettledForSession, TokenReplaced, Wrong
<1>4. ~ Alive \/ ~ daemon.native
  BY DEF Init, LaunchIsClean, Alive
<1>5. DaemonParts
  BY <1>4 DEF DaemonParts, Loaded, DaemonStopped, Stale
<1> QED
  BY <1>3, <1>5 DEF SwitchInv

\* However polls, starts and stops of the user overlap with it, a switch of users
\* reaches the daemon: when all calls have returned it works for the one who is
\* logged in, unless a call has failed, been refused or cut off (syncToken, and
\* the stop of App.tsx's logout).
THEOREM SwitchReachesDaemon ==
    ASSUME LaunchIsClean
    PROVE  Spec => []SwitchTakesEffect
<1>1. Init => IInv /\ SwitchInv
  BY InitIInv, InitSwitch
<1>2. IInv /\ SwitchInv /\ [Next]_vars => (IInv /\ SwitchInv)'
  BY NextIInv, SwitchStep
<1>3. IInv /\ SwitchInv => SwitchTakesEffect
  <2> SUFFICES ASSUME SwitchInv, mishap = "none", Quiet, session # NoUser, Alive, daemon.native
               PROVE  daemon.token.owner = session
    BY DEF SwitchTakesEffect, WorksForSession
  <2>1. \A o \in Op : ~ WillStop(o)
    BY DEF Quiet, IsIdle, WillStop
  <2> QED
    BY <2>1 DEF SwitchInv, DaemonParts, Loaded, DaemonStopped, Stale, Wrong
<1> QED
  BY <1>1, <1>2, <1>3, PTL DEF Spec

\* When the calls of a logout have returned no token and no user id is left in the
\* profile and no daemon on the machine, whatever the logout overlapped with,
\* unless a call has failed, been refused or cut off (clearToken, and the stop of
\* App.tsx's logout).
THEOREM LogoutIsThorough ==
    ASSUME LaunchIsClean
    PROVE  Spec => []LogoutLeavesNothing
<1>1. Init => IInv /\ SwitchInv
  BY InitIInv, InitSwitch
<1>2. IInv /\ SwitchInv /\ [Next]_vars => (IInv /\ SwitchInv)'
  BY NextIInv, SwitchStep
<1>3. IInv /\ SwitchInv => LogoutLeavesNothing
  <2> SUFFICES ASSUME TypeOK, FilesParts, DaemonParts, Quiet, session = NoUser
               PROVE  /\ profile = [token |-> NoToken, userId |-> NoUser]
                      /\ ~ (Alive /\ daemon.native)
    BY DEF LogoutLeavesNothing, SwitchInv, IInv
  <2>1. \A o \in Op : op[o].stage = "idle"
    BY DEF Quiet, IsIdle
  \* A token has an owner, so nobody's session makes every token a wrong one.
  <2>2. \A t \in Token \cup {NoToken} : ~ Wrong(t) => t = NoToken
    BY ManagerAssumption DEF Wrong, Token
  <2>3. profile.token = NoToken
    <3>1. ~ Wrong(profile.token)
      BY <2>1 DEF FilesParts, TokenReplaced, WillReplace
    <3> QED
      BY <2>2, <3>1 DEF TypeOK
  <2>4. profile.userId = NoUser
    BY <2>1, <2>3 DEF FilesParts, Paired, At
  <2>5. ~ (Alive /\ daemon.native)
    <3>1. ~ Stale
      BY <2>1 DEF DaemonParts, DaemonStopped, WillStop
    <3>2. daemon.token \in Token \cup {NoToken}
      BY DEF TypeOK, Daemon
    <3> QED
      BY <2>2, <3>1, <3>2 DEF DaemonParts, Loaded, Stale
  <2> QED
    BY <2>3, <2>4, <2>5 DEF TypeOK
<1> QED
  BY <1>1, <1>2, <1>3, PTL DEF Spec
=============================================================================
