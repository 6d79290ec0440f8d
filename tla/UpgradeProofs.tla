---------------------------- MODULE UpgradeProofs ----------------------------
(***************************************************************************)
(* Proofs about Upgrade, for any processes, commands and profiles.         *)
(*                                                                         *)
(* The types hold however the upgrade and the commands overlap.  The rest  *)
(* is about commands and upgrades one at a time, which is all that         *)
(* InstallLaunchAgent and UninstallLaunchAgent, without a lock, are safe   *)
(* for: then nobody loads the service while a command is between unloading *)
(* it and its end, whatever expires or is interrupted (UnloadInv).         *)
(*                                                                         *)
(* That an upgrade replaces the daemon holds while no two serve processes  *)
(* have been alive together and nothing is cut short.  The argument is     *)
(* ReplaceInv: a process that launchd does not look after is on record, or *)
(* the start that launched it waits for it (RecordsFollow), so what a      *)
(* command finds on record is all there is to stop (RecordedIsAlive); and  *)
(* each of the upgrade's calls leaves what the next one starts from        *)
(* (Replaces): at most the service's process, which must be gone before    *)
(* launchd takes the service back, or no process and no record.            *)
(***************************************************************************)
EXTENDS Upgrade, DaemonProofs

USE DaemonConstants, UpgradeConstants

\* What the upgrade adds to the types,
LEMMA CallTyped ==
  ASSUME TypeOK, Profiled, NEW o \in {"stop", "start", "unload", "load"}, NEW p \in Profiles \cup
     {None},
         o = "start" => p # None, Call(o, p)
  PROVE TypeOK' /\ Profiled'
  <1>1. Entry(o) \in {"lock", "outStatus", "bootstrap"} /\ (Entry(o) = "lock" => o \notin Calls)
    BY DEF Entry, Calls
  <1>2. TypeOK'
    BY <1>1 DEF TypeOK, Call, Places, AllOps, Calls, serveVars, files, launchd
  <1>3. Profiled'
    BY <1>1 DEF TypeOK, Profiled, Call, Calls, Alive, serveVars, launchd
  <1> QED
    BY <1>2, <1>3

\* what a process was started from,
LEMMA Launched ==
  ASSUME TypeOK, Next, NEW d \in Daemons, pc[d] = "new", pc'[d] # "new"
  PROVE pc'[d] = "boot" /\ d # None
  <1>1. ASSUME NEW c \in Cmds, Command(c), ~Spawn(c) PROVE UNCHANGED pc
    BY <1>1 DEF Command, Lock, LockExpires, Unlock, StartStatus, PollReady, PollExpires,
       StopStatus, RestartStatus, KillStatus, Signal, KillWait, KillExpires, KillRemovePid,
       KillRemoveState, OutStatus, Bootout, OutWait, OutExpires, OutRemovePid, OutRemoveState,
       RemoveAgent, InstallStatus, WritePlist, PlistFails, Bootstrap, Rebootout, Rebootstrap,
       Kickstart, AwaitReady, AwaitExpires, OnlyPlace
  <1>2. ASSUME NEW e \in Daemons, Serve(e) \/ CrashServe(e) PROVE pc[e] # "new" /\ pc'[d] = (IF d = e THEN pc'[e] ELSE pc[d])
    BY <1>2 DEF Serve, Boot, WritePid, WriteState, Bind, Confirm, StopServing, CloseServer,
       CheckRecord, RemovePid, RemoveState, CrashServe, Move, Alive, TypeOK
  <1>3. ASSUME NEW e \in Daemons, Respawn(e) PROVE pc'[d] \in {pc[d], "boot"}
    BY <1>3 DEF Respawn, Move, TypeOK
  <1>4. ASSUME NEW c \in Cmds, Spawn(c) PROVE pc'[d] \in {pc[d], "boot"}
    BY <1>4 DEF Spawn, TypeOK
  <1>5. ASSUME NEW c \in Cmds, Begin(c) \/ Interrupt(c) PROVE UNCHANGED pc
    BY <1>5 DEF Begin, Interrupt, OnlyPlace
  <1>6. ASSUME \/ \E p \in Profiles, v \in Versions : EditProfile(p, v)
               \/ \E q \in Ports : Outsider(q)
        PROVE UNCHANGED pc
    BY <1>6 DEF EditProfile, Outsider, serveVars
  <1> QED
    BY <1>1, <1>2, <1>3, <1>4, <1>5, <1>6 DEF Next

\* and that its steps keep them.
LEMMA UTypeStep == UTypeOK /\ Profiled /\ [UNext]_uvars => UTypeOK' /\ Profiled'
  <1> SUFFICES ASSUME UTypeOK, Profiled, [UNext]_uvars PROVE UTypeOK' /\ Profiled'
    OBVIOUS
  <1> USE DEF UTypeOK
  <1>0. crowded' \in BOOLEAN
    BY DEF UNext, uvars
  <1>1. CASE Environment
    <2>1. Next
      BY <1>0, <1>1 DEF Environment, DaemonStep
    <2>2. TypeOK' /\ Profiled'
      BY <2>1, TypeStep, ProfiledStep
    <2>3. exe' \in [Daemons -> {"none", "old", "new"}]
      <3>1. \A d \in Daemons : pc[d] = "new" /\ pc'[d] # "new" => program'[d] \in Programs
        BY <2>1, <2>2, Launched DEF Profiled, Alive
      <3> QED
        BY <1>1, <3>1 DEF Environment, DaemonStep, Exec
    <2> QED
      BY <1>0, <1>1, <2>2, <2>3 DEF Environment, DaemonStep, upgradeVars
  <1>2. CASE Verified
    BY <1>0, <1>2, TypeStep, ProfiledStep DEF Verified, Move1
  <1>3. CASE StopDaemon
    <2>1. Recorded \in [running : BOOLEAN, agent : BOOLEAN, profile : Profiles \cup {None}]
      BY DEF Recorded, RecordedPid, Alive, TypeOK, NoState
    <2>2. TypeOK' /\ Profiled'
      BY <1>0, <1>3, CallTyped, TypeStep, ProfiledStep DEF StopDaemon
    <2> QED
      BY <1>0, <1>3, <2>1, <2>2 DEF StopDaemon, Move1
  <1>4. CASE Stopped \/ Installed \/ InstallFails \/ Restarted
    <2>1. UNCHANGED vars
      BY <1>0, <1>4 DEF Stopped, Installed, InstallFails, Restarted
    <2>2. TypeOK' /\ Profiled'
      BY <2>1, TypeStep, ProfiledStep
    <2> QED
      BY <1>0, <1>4, <2>2 DEF Stopped, Installed, InstallFails, Restarted, Move1
  <1>5. CASE StartDaemon
    <2>1. previous.profile \in Profiles \cup {None}
      OBVIOUS
    <2>2. TypeOK' /\ Profiled'
      BY <1>0, <1>5, <2>1, CallTyped, TypeStep, ProfiledStep DEF StartDaemon
    <2> QED
      BY <1>0, <1>5, <2>2 DEF StartDaemon, Move1
  <1>6. CASE InterruptUpgrade
    <2>1. TypeOK'
      BY <1>0, <1>6 DEF InterruptUpgrade, TypeOK, Places, serveVars, files, launchd
    <2>2. Profiled'
      BY <1>0, <1>6 DEF InterruptUpgrade, TypeOK, Profiled, Alive, serveVars, launchd
    <2> QED
      BY <1>0, <1>6, <2>1, <2>2 DEF InterruptUpgrade
  <1>7. CASE UNCHANGED uvars
    BY <1>0, <1>7, TypeStep, ProfiledStep DEF uvars, upgradeVars
  <1> QED
    BY <1>1, <1>2, <1>3, <1>4, <1>5, <1>6, <1>7 DEF UNext, UpgradeStep

\* Types and profiles, however commands and the upgrade overlap.
LEMMA UTyped == USpec => [](UTypeOK /\ Profiled)
  <1>1. ASSUME UInit PROVE UTypeOK /\ Profiled
    <2>1. crowded \in BOOLEAN
      BY <1>1 DEF UInit
    <2> QED
      BY <1>1, <2>1, InitTyped DEF UInit, UTypeOK, Nothing
  <1>2. UTypeOK /\ Profiled /\ [UNext]_uvars => (UTypeOK /\ Profiled)'
    BY UTypeStep
  <1> QED
    BY <1>1, <1>2, PTL DEF USpec

\* Every variable of daemon and upgrade keeps its type: what the upgrade read before
\* the stop is good enough for the start afterwards.
THEOREM UpgradeTyped == USpec => []UTypeOK
  BY UTyped, PTL

\* A command that unloads the service leaves it unloaded until it ends, one that loads
\* it has a plist, and no step is another command's.
LEMMA CommandUnloads ==
  ASSUME TypeOK, Profiled, LoadedHasPlist, NEW c \in Cmds, Command(c), Unloaded(c) => ~loaded,
         op[c] = "stop" => at[c] \in Stopping /\ (ok[c] => at[c] \in {"unlock", "done"})
  PROVE /\ ~Idle(c) /\ UNCHANGED op
        /\ \A other \in Cmds : other # c => at'[other] = at[other] /\ ok'[other] = ok[other]
        /\ LoadedHasPlist'
        /\ Unloaded(c)' => ~loaded'
        /\ op'[c] = "stop" => at'[c] \in Stopping /\ (ok'[c] => at'[c] \in {"unlock", "done"})
  <1> USE DEF TypeOK, LoadedHasPlist, Idle, Unloaded, Unloading, Killing, Stopping
  <1>1. CASE Lock(c)
    BY <1>1, LockMoves DEF Lock, Goto, World, files, launchd
  <1>2. CASE LockExpires(c)
    BY <1>2 DEF LockExpires, Finish, Fail, World, OnlyPlace, files, launchd
  <1>3. CASE Unlock(c)
    BY <1>3 DEF Unlock, Goto, World, files, launchd
  <1>4. CASE StartStatus(c)
    BY <1>4 DEF StartStatus, Goto, Finish, Succeed, Fail, World, OnlyPlace, files, launchd
  <1>5. CASE Spawn(c)
    BY <1>5 DEF Spawn, Goto, Finish, Fail, files, launchd
  <1>6. CASE PollReady(c)
    BY <1>6 DEF PollReady, Finish, Succeed, World, OnlyPlace, files, launchd
  <1>7. CASE PollExpires(c)
    BY <1>7 DEF PollExpires, Finish, Fail, World, files, launchd, Terminate
  <1>8. CASE StopStatus(c)
    BY <1>8 DEF StopStatus, Goto, World, files, launchd
  <1>9. CASE RestartStatus(c)
    BY <1>9 DEF RestartStatus, Goto, World, OnlyPlace, files, launchd
  <1>10. CASE KillStatus(c)
    BY <1>10, AfterKillMoves DEF KillStatus, Goto, Finish, Succeed, World, files, launchd
  <1>11. CASE Signal(c)
    BY <1>11 DEF Signal, Goto, Finish, Fail, World, files, launchd, Terminate
  <1>12. CASE KillWait(c)
    BY <1>12 DEF KillWait, Goto, World, OnlyPlace, files, launchd
  <1>13. CASE KillExpires(c)
    BY <1>13 DEF KillExpires, Finish, Fail, World, OnlyPlace, files, launchd
  <1>14. CASE KillRemovePid(c)
    BY <1>14 DEF KillRemovePid, Goto, World, launchd
  <1>15. CASE KillRemoveState(c)
    BY <1>15, AfterKillMoves DEF KillRemoveState, Goto, Finish, Succeed, World, launchd
  <1>16. CASE OutStatus(c)
    BY <1>16, AfterOutMoves DEF OutStatus, Goto, Finish, Succeed, World, files, launchd
  <1>17. CASE Bootout(c)
    BY <1>17, AfterOutMoves DEF Bootout, Goto, Finish, Succeed, Fail, World, files, launchd,
       Unload
  <1>18. CASE OutWait(c)
    BY <1>18 DEF OutWait, Goto, World, OnlyPlace, files, launchd
  <1>19. CASE OutExpires(c)
    BY <1>19 DEF OutExpires, Finish, Fail, World, OnlyPlace, files, launchd
  <1>20. CASE OutRemovePid(c)
    BY <1>20 DEF OutRemovePid, Goto, World, launchd
  <1>21. CASE OutRemoveState(c)
    BY <1>21, AfterOutMoves DEF OutRemoveState, Goto, Finish, Succeed, World, launchd
  <1>22. CASE RemoveAgent(c)
    BY <1>22 DEF RemoveAgent, Finish, Succeed, Fail, World, files, launchd
  <1>23. CASE InstallStatus(c)
    BY <1>23 DEF InstallStatus, Goto, World, OnlyPlace, files, launchd
  <1>24. CASE WritePlist(c)
    BY <1>24 DEF WritePlist, Goto, World, files, launchd, Profiled, Service
  <1>25. CASE PlistFails(c)
    BY <1>25 DEF PlistFails, Finish, Fail, World, OnlyPlace, files, launchd
  <1>26. CASE Bootstrap(c)
    BY <1>26 DEF Bootstrap, Goto, Finish, Fail, World, files, launchd, Load, CanLoad
  <1>27. CASE Rebootout(c)
    BY <1>27 DEF Rebootout, Goto, World, files, launchd, Unload
  <1>28. CASE Rebootstrap(c)
    BY <1>28 DEF Rebootstrap, Goto, Finish, Fail, World, files, launchd, Load, CanLoad
  <1>29. CASE Kickstart(c)
    BY <1>29 DEF Kickstart, Goto, Finish, Succeed, Fail, World, files, launchd
  <1>30. CASE AwaitReady(c)
    BY <1>30 DEF AwaitReady, Finish, Succeed, World, OnlyPlace, files, launchd
  <1>31. CASE AwaitExpires(c)
    BY <1>31 DEF AwaitExpires, Finish, Fail, World, OnlyPlace, files, launchd
  <1> QED
    BY <1>1, <1>2, <1>3, <1>4, <1>5, <1>6, <1>7, <1>8, <1>9, <1>10, <1>11, <1>12, <1>13,
       <1>14, <1>15, <1>16, <1>17, <1>18, <1>19, <1>20, <1>21, <1>22, <1>23, <1>24, <1>25,
       <1>26, <1>27, <1>28, <1>29, <1>30, <1>31 DEF Command

\* An install that has written its plist finds it in place, and loads what is in it: a
\* service that is loaded already is unloaded first.
LEMMA CommandInstalls ==
  ASSUME TypeOK, NEW c \in Cmds, Command(c), op[c] = "install" => Installing(c)
  PROVE /\ UNCHANGED <<op, prof, exec>>
        /\ lock' \in {lock, c, None}
        /\ op[c] = "install" => Installing(c)'
        /\ op[c] = "install" /\ at'[c] = "done" => at[c] = "unlock" /\ (ok[c] => lock # c)
  <1> USE DEF TypeOK, Installing, BeforePlist, OfStop, LoadPlaces, Killing
  <1>1. CASE Lock(c)
    BY <1>1, LockMoves DEF Lock, Goto, World, files, launchd
  <1>2. CASE LockExpires(c)
    BY <1>2 DEF LockExpires, Finish, Fail, World, OnlyPlace, files, launchd
  <1>3. CASE Unlock(c)
    BY <1>3 DEF Unlock, Goto, World, files, launchd
  <1>4. CASE StartStatus(c)
    BY <1>4 DEF StartStatus, Goto, Finish, Succeed, Fail, World, OnlyPlace, files, launchd
  <1>5. CASE Spawn(c)
    BY <1>5 DEF Spawn, Goto, Finish, Fail, files, launchd
  <1>6. CASE PollReady(c)
    BY <1>6 DEF PollReady, Finish, Succeed, World, OnlyPlace, files, launchd
  <1>7. CASE PollExpires(c)
    BY <1>7 DEF PollExpires, Finish, Fail, World, files, launchd, Terminate
  <1>8. CASE StopStatus(c)
    BY <1>8 DEF StopStatus, Goto, World, files, launchd
  <1>9. CASE RestartStatus(c)
    BY <1>9 DEF RestartStatus, Goto, World, OnlyPlace, files, launchd
  <1>10. CASE KillStatus(c)
    BY <1>10, AfterKillMoves DEF KillStatus, Goto, Finish, Succeed, World, files, launchd
  <1>11. CASE Signal(c)
    BY <1>11 DEF Signal, Goto, Finish, Fail, World, files, launchd, Terminate
  <1>12. CASE KillWait(c)
    BY <1>12 DEF KillWait, Goto, World, OnlyPlace, files, launchd
  <1>13. CASE KillExpires(c)
    BY <1>13 DEF KillExpires, Finish, Fail, World, OnlyPlace, files, launchd
  <1>14. CASE KillRemovePid(c)
    BY <1>14 DEF KillRemovePid, Goto, World, launchd
  <1>15. CASE KillRemoveState(c)
    BY <1>15, AfterKillMoves DEF KillRemoveState, Goto, Finish, Succeed, World, launchd
  <1>16. CASE OutStatus(c)
    BY <1>16, AfterOutMoves DEF OutStatus, Goto, Finish, Succeed, World, files, launchd
  <1>17. CASE Bootout(c)
    BY <1>17, AfterOutMoves DEF Bootout, Goto, Finish, Succeed, Fail, World, files, launchd,
       Unload
  <1>18. CASE OutWait(c)
    BY <1>18 DEF OutWait, Goto, World, OnlyPlace, files, launchd
  <1>19. CASE OutExpires(c)
    BY <1>19 DEF OutExpires, Finish, Fail, World, OnlyPlace, files, launchd
  <1>20. CASE OutRemovePid(c)
    BY <1>20 DEF OutRemovePid, Goto, World, launchd
  <1>21. CASE OutRemoveState(c)
    BY <1>21, AfterOutMoves DEF OutRemoveState, Goto, Finish, Succeed, World, launchd
  <1>22. CASE RemoveAgent(c)
    BY <1>22 DEF RemoveAgent, Finish, Succeed, Fail, World, files, launchd
  <1>23. CASE InstallStatus(c)
    BY <1>23 DEF InstallStatus, Goto, World, OnlyPlace, files, launchd
  <1>24. CASE WritePlist(c)
    BY <1>24 DEF WritePlist, Goto, World, files, launchd
  <1>25. CASE PlistFails(c)
    BY <1>25 DEF PlistFails, Finish, Fail, World, OnlyPlace, files, launchd
  <1>26. CASE Bootstrap(c)
    BY <1>26 DEF Bootstrap, Goto, Finish, Fail, World, files, launchd, Load, CanLoad
  <1>27. CASE Rebootout(c)
    BY <1>27 DEF Rebootout, Goto, World, files, launchd, Unload
  <1>28. CASE Rebootstrap(c)
    BY <1>28 DEF Rebootstrap, Goto, Finish, Fail, World, files, launchd, Load, CanLoad
  <1>29. CASE Kickstart(c)
    BY <1>29 DEF Kickstart, Goto, Finish, Succeed, Fail, World, files, launchd
  <1>30. CASE AwaitReady(c)
    BY <1>30 DEF AwaitReady, Finish, Succeed, World, OnlyPlace, files, launchd
  <1>31. CASE AwaitExpires(c)
    BY <1>31 DEF AwaitExpires, Finish, Fail, World, OnlyPlace, files, launchd
  <1> QED
    BY <1>1, <1>2, <1>3, <1>4, <1>5, <1>6, <1>7, <1>8, <1>9, <1>10, <1>11, <1>12, <1>13,
       <1>14, <1>15, <1>16, <1>17, <1>18, <1>19, <1>20, <1>21, <1>22, <1>23, <1>24, <1>25,
       <1>26, <1>27, <1>28, <1>29, <1>30, <1>31 DEF Command

\* Nothing else than a command loads the service, or takes the plist away.
LEMMA OthersUnload ==
  ASSUME TypeOK, \/ \E d \in Daemons : Serve(d) \/ CrashServe(d) \/ Respawn(d)
                 \/ \E p \in Profiles, v \in Versions : EditProfile(p, v)
                 \/ \E q \in Ports : Outsider(q)
  PROVE UNCHANGED <<at, op, prof, exec, ok, lock, agent, loaded, service>>
  BY DEF Serve, Boot, WritePid, WriteState, Bind, Confirm, StopServing, CloseServer, CheckRecord,
     RemovePid, RemoveState, CrashServe, Respawn, EditProfile, Outsider, ServeOnly, cmdVars,
     launchd

\* Commands and upgrades one at a time stay so.
LEMMA UnloadStep ==
  ASSUME ~Overlap, UTypeOK, Profiled, UnloadInv, [UNext]_uvars
  PROVE UnloadInv'
  <1> USE DEF UTypeOK, UnloadInv
  <1>1. ASSUME UNCHANGED <<at, op, ok, agent, loaded, place>> PROVE UnloadInv'
    BY <1>1 DEF OneAtATime, Idle, InProgress, LoadedHasPlist, Unloaded
  <1>2. ASSUME Environment, NEW c \in Cmds, Begin(c) PROVE UnloadInv'
    <2>1. /\ \A other \in Cmds : Idle(other)
          /\ at' = [at EXCEPT ![c] = Entry(op[c])]
          /\ UNCHANGED <<op, ok, agent, loaded>>
          /\ at[c] = "new"
      BY <1>2 DEF Begin, Goto, OnlyPlace, World, launchd
    <2>2. Entry(op[c]) \in {"installStatus", "outStatus", "bootstrap", "lock"}
      BY DEF Entry
    <2>3. op[c] = "stop" => Entry(op[c]) = "lock"
      BY DEF Entry
    <2>4. c # Inner /\ ~InProgress /\ UNCHANGED place
      BY <1>2, <2>1, <2>2 DEF Environment, UserBegins, DaemonStep, upgradeVars, TypeOK
    <2>5. OneAtATime'
      BY <2>1, <2>4 DEF OneAtATime, Idle, InProgress, TypeOK
    <2> QED
      BY <2>1, <2>2, <2>3, <2>5 DEF LoadedHasPlist, Unloaded, Unloading, Killing, Stopping, TypeOK
  <1>3. ASSUME Environment, NEW c \in Cmds, Command(c) PROVE UnloadInv'
    <2>1. UNCHANGED place
      BY <1>3 DEF Environment, DaemonStep, upgradeVars
    <2>2. /\ ~Idle(c) /\ UNCHANGED op
          /\ \A other \in Cmds : other # c => at'[other] = at[other] /\ ok'[other] = ok[other]
          /\ LoadedHasPlist'
          /\ Unloaded(c)' => ~loaded'
          /\ op'[c] = "stop" => at'[c] \in Stopping /\ (ok'[c] => at'[c] \in {"unlock", "done"})
      BY <1>3, CommandUnloads
    <2>3. OneAtATime'
      BY <2>1, <2>2 DEF OneAtATime, Idle, InProgress
    <2>4. \A other \in Cmds : other # c => Idle(other)
      BY <2>2 DEF OneAtATime
    <2>5. \A other \in Cmds : other # c => ~Unloaded(other)'
      BY <2>2, <2>4 DEF Idle, Unloaded, Unloading, Killing
    <2> QED
      BY <2>2, <2>3, <2>5
  <1>4. ASSUME Environment, NEW c \in Cmds, Interrupt(c) PROVE UnloadInv'
    <2>1. /\ at' = [at EXCEPT ![c] = "done"] /\ ok' = [ok EXCEPT ![c] = FALSE]
          /\ UNCHANGED <<op, agent, loaded, place>>
      BY <1>4 DEF Interrupt, World, launchd, Environment, DaemonStep, upgradeVars
    <2> QED
      BY <2>1 DEF OneAtATime, Idle, InProgress, LoadedHasPlist, Unloaded, Unloading, Killing,
         Stopping, TypeOK
  <1>5. CASE Environment
    <2>1. Next /\ UNCHANGED place
      BY <1>5 DEF Environment, DaemonStep, upgradeVars
    <2> QED
      BY <1>1, <1>2, <1>3, <1>4, <1>5, <2>1, OthersUnload DEF Next
  <1>6. ASSUME NEW o \in {"stop", "start", "unload", "load"}, NEW p, Call(o, p),
               place \in {"status", "start"}, place' \in {"stopping", "starting"}
        PROVE UnloadInv'
    <2>1. /\ at' = [at EXCEPT ![Inner] = Entry(o)] /\ op' = [op EXCEPT ![Inner] = o]
          /\ ok' = [ok EXCEPT ![Inner] = FALSE]
          /\ UNCHANGED <<agent, loaded>>
      BY <1>6 DEF Call, launchd
    <2>2. Entry(o) \in {"outStatus", "bootstrap", "lock"} /\ (o = "stop" => Entry(o) = "lock")
      BY DEF Entry
    <2>3. \A c \in Cmds : Idle(c)
      BY <1>6 DEF OneAtATime, InProgress
    <2>4. OneAtATime'
      BY <1>6, <2>1, <2>3 DEF OneAtATime, InProgress, Idle, TypeOK
    <2>5. \A c \in Cmds : ~Unloaded(c)'
      BY <2>1, <2>2, <2>3 DEF Idle, Unloaded, Unloading, Killing, TypeOK
    <2>6. \A c \in Cmds : op'[c] = "stop" => at'[c] \in Stopping /\ (ok'[c] => at'[c] \in {"unlock", "done"})
      BY <2>1, <2>2 DEF Stopping, TypeOK
    <2> QED
      BY <2>1, <2>4, <2>5, <2>6 DEF LoadedHasPlist
  <1>7. ASSUME UNCHANGED vars, place' # place, place' \notin {"stopping", "starting"},
               \A c \in Cmds : Idle(c)
        PROVE UnloadInv'
    BY <1>7 DEF vars, cmdVars, launchd, OneAtATime, Idle, InProgress, LoadedHasPlist, Unloaded
  <1>8. CASE Verified
    BY <1>7, <1>8 DEF Verified, Move1
  <1>9. CASE StopDaemon \/ StartDaemon
    <2>1. CASE UNCHANGED vars /\ place' \in {"install", "failed"}
      BY <1>7, <1>9, <2>1 DEF StopDaemon, StartDaemon, Move1, OneAtATime, InProgress
    <2>2. CASE place' \in {"stopping", "starting"}
      BY <1>6, <1>9, <2>2 DEF StopDaemon, StartDaemon, Move1
    <2> QED
      BY <1>9, <2>1, <2>2 DEF StopDaemon, StartDaemon, Move1
  <1>10. CASE Stopped \/ Installed \/ InstallFails \/ Restarted
    <2>1. \A c \in Cmds : Idle(c)
      BY <1>10 DEF Stopped, Installed, InstallFails, Restarted, Move1, OneAtATime, InProgress, Idle
    <2> QED
      BY <1>7, <1>10, <2>1 DEF Stopped, Installed, InstallFails, Restarted, Move1
  <1>11. CASE InterruptUpgrade
    <2>1. /\ IF Idle(Inner) THEN at' = at ELSE at' = [at EXCEPT ![Inner] = "done"]
          /\ ok' = [ok EXCEPT ![Inner] = FALSE]
          /\ UNCHANGED <<op, agent, loaded>>
          /\ place' = "failed" /\ InProgress
      BY <1>11 DEF InterruptUpgrade, launchd
    <2>2. \A c \in Cmds : Idle(c)'
      BY <2>1 DEF OneAtATime, Idle, TypeOK
    <2>3. OneAtATime'
      BY <2>1, <2>2 DEF OneAtATime, InProgress
    <2> QED
      BY <2>1, <2>2, <2>3 DEF Idle, LoadedHasPlist, Unloaded, Unloading, Killing, Stopping, TypeOK
  <1>12. CASE UNCHANGED uvars
    BY <1>1, <1>12 DEF uvars, upgradeVars, vars, cmdVars, launchd
  <1> QED
    BY <1>5, <1>8, <1>9, <1>10, <1>11, <1>12 DEF UNext, UpgradeStep

\* UnloadInv holds at the start and every step keeps it, however long deadlines are and
\* whoever is interrupted.
THEOREM UnloadInvariance == ASSUME ~Overlap PROVE USpec => []UnloadInv
  <1>1. UInit => UnloadInv
    BY DEF UInit, Init, UnloadInv, OneAtATime, Idle, InProgress, LoadedHasPlist, Unloaded,
       Unloading,
       Killing, Stopping
  <1>2. UTypeOK /\ Profiled /\ UnloadInv /\ [UNext]_uvars => UnloadInv'
    BY UnloadStep
  <1> QED
    BY <1>1, <1>2, UTyped, PTL DEF USpec

\* A loaded service has its plist, so that a later command finds it and can unload it.
THEOREM ServiceHasPlist == ASSUME ~Overlap PROVE USpec => []LoadedHasPlist
  BY UnloadInvariance, PTL DEF UnloadInv

\* A stop that reports success has unloaded the service, or found it unloaded, whatever
\* became of the daemon's process meanwhile.
THEOREM StopUnloadsService == ASSUME ~Overlap PROVE USpec => StopUnloads
  <1>1. UTypeOK /\ UnloadInv => \A c \in Cmds : Reports(c, "stop") => ~loaded
    BY DEF UnloadInv, Reports, Unloaded
  <1>2. UTypeOK /\ UnloadInv => [\A c \in Cmds : Reports(c, "stop") => ~loaded]_vars
    BY <1>1
  <1> QED
    BY <1>2, UTyped, UnloadInvariance, PTL DEF StopUnloads, USpec

\* Installs one at a time stay on their way.
LEMMA InstallStep ==
  ASSUME ~Overlap, UTypeOK, Profiled, UnloadInv, InstallInv, [UNext]_uvars
  PROVE InstallInv'
  <1> USE DEF UTypeOK, InstallInv
  <1>1. ASSUME UNCHANGED <<at, op, prof, exec, ok, lock, agent, loaded, service>> PROVE InstallInv'
    BY <1>1 DEF Installing
  <1>2. ASSUME NEW c \in Cmds, Begin(c) PROVE InstallInv'
    <2>1. /\ at[c] = "new" /\ at' = [at EXCEPT ![c] = Entry(op[c])]
          /\ UNCHANGED <<op, prof, exec, ok, lock, agent, loaded, service>>
      BY <1>2 DEF Begin, Goto, OnlyPlace, World, launchd
    <2>2. op[c] = "install" => Entry(op[c]) = "installStatus"
      BY DEF Entry
    <2> QED
      BY <2>1, <2>2 DEF Installing, BeforePlist, OfStop, LoadPlaces, Killing, TypeOK
  <1>3. ASSUME NEW c \in Cmds, Command(c) PROVE InstallInv'
    <2>1. /\ UNCHANGED <<op, prof, exec>>
          /\ lock' \in {lock, c, None}
          /\ op[c] = "install" => Installing(c)'
      BY <1>3, CommandInstalls
    <2>2. ~Idle(c) /\ \A other \in Cmds : other # c => at'[other] = at[other]
      BY <1>3, CommandUnloads DEF UnloadInv
    <2>3. ASSUME NEW other \in Cmds, other # c, op[other] = "install" PROVE Installing(other)'
      <3>1. at[other] \in {"new", "done"} /\ at'[other] = at[other]
        BY <2>2, <2>3 DEF UnloadInv, OneAtATime, Idle
      <3>2. Installing(other)
        BY <2>3
      <3> QED
        BY <2>1, <2>3, <3>1, <3>2 DEF Installing, BeforePlist, OfStop, LoadPlaces, Killing
    <2> QED
      BY <2>1, <2>3
  <1>4. ASSUME NEW c \in Cmds, at' = [at EXCEPT ![c] = "done"] \/ (at' = at /\ at[c] \in {"new", "done"}),
               ok' = [ok EXCEPT ![c] = FALSE], lock' = (IF lock = c THEN None ELSE lock),
               UNCHANGED <<op, prof, exec, agent, loaded, service>>
        PROVE InstallInv'
    BY <1>4 DEF Installing, BeforePlist, OfStop, LoadPlaces, Killing, TypeOK
  <1>5. ASSUME NEW c \in Cmds, Interrupt(c) PROVE InstallInv'
    BY <1>4, <1>5 DEF Interrupt, World, launchd
  <1>6. CASE Environment
    BY <1>1, <1>2, <1>3, <1>5, <1>6, OthersUnload DEF Environment, DaemonStep, Next
  <1>7. ASSUME NEW o \in {"stop", "start", "unload", "load"}, NEW p, Call(o, p) PROVE InstallInv'
    <2>1. op'[Inner] # "install"
      BY <1>7 DEF Call, TypeOK
    <2>2. \A c \in Cmds : c # Inner => /\ at'[c] = at[c] /\ op'[c] = op[c] /\ prof'[c] = prof[c]
                                       /\ exec'[c] = exec[c] /\ ok'[c] = ok[c]
      BY <1>7 DEF Call, TypeOK
    <2>3. UNCHANGED <<lock, agent, loaded, service>>
      BY <1>7 DEF Call, launchd
    <2> QED
      BY <2>1, <2>2, <2>3 DEF Installing
  <1>8. CASE UNCHANGED vars
    BY <1>1, <1>8 DEF vars, cmdVars, launchd
  <1>9. CASE UpgradeStep \/ Verified
    BY <1>7, <1>8, <1>9 DEF UpgradeStep, Verified, StopDaemon, Stopped, Installed, InstallFails,
       StartDaemon, Restarted
  <1>10. CASE InterruptUpgrade
    BY <1>4, <1>10 DEF InterruptUpgrade, Idle, launchd
  <1> QED
    BY <1>6, <1>8, <1>9, <1>10 DEF UNext, uvars

\* InstallInv holds at the start and every step keeps it, however long deadlines are and
\* whoever is interrupted.
LEMMA InstallInvariance == ASSUME ~Overlap PROVE USpec => []InstallInv
  <1>1. UInit => InstallInv
    BY DEF UInit, Init, InstallInv, Installing, BeforePlist, OfStop, LoadPlaces, Killing
  <1>2. UTypeOK /\ Profiled /\ UnloadInv /\ InstallInv /\ [UNext]_uvars => InstallInv'
    BY InstallStep
  <1> QED
    BY <1>1, <1>2, UTyped, UnloadInvariance, PTL DEF USpec

\* An install that reports success has made launchd take its own profile and program,
\* whatever service was loaded before, and whichever steps of launchctl failed.
THEOREM InstallLoadsIt == ASSUME ~Overlap PROVE USpec => InstallTakesEffect
  <1> DEFINE Taken == \A c \in Cmds : Reports(c, "install") =>
                        loaded /\ service = [profile |-> prof[c], program |-> exec[c]]
  <1>1. UTypeOK /\ Profiled /\ UnloadInv /\ InstallInv /\ [UNext]_uvars => [Taken]_vars
    <2> SUFFICES ASSUME UTypeOK, Profiled, UnloadInv, InstallInv, [UNext]_uvars, NEW c \in Cmds, Reports(c, "install")
                 PROVE loaded /\ service = [profile |-> prof[c], program |-> exec[c]]
      OBVIOUS
    <2>1. Installing(c)
      BY DEF InstallInv, Reports
    <2>2. PICK x \in Cmds : Environment /\ (Begin(x) \/ Command(x) \/ Interrupt(x))
      BY OthersUnload DEF Reports, UNext, uvars, vars, Environment, DaemonStep, Next, Verified,
         UpgradeStep, StopDaemon, Stopped, Installed, InstallFails, StartDaemon, Restarted,
         InterruptUpgrade, Call, Entry, UTypeOK, TypeOK
    <2>3. x = c
      <3>1. Begin(x) \/ Interrupt(x) => \A y \in Cmds : y # x => at'[y] = at[y]
        BY DEF Begin, Goto, Interrupt, UTypeOK, TypeOK
      <3>2. Command(x) => \A y \in Cmds : y # x => at'[y] = at[y]
        BY CommandUnloads DEF UnloadInv, UTypeOK
      <3> QED
        BY <2>2, <3>1, <3>2 DEF Reports
    <2>4. ~Begin(c) /\ ~Interrupt(c)
      BY DEF Begin, Goto, Entry, Interrupt, Reports, UTypeOK, TypeOK
    <2>5. at[c] = "unlock" /\ lock # c
      BY <2>2, <2>3, <2>4, CommandInstalls DEF InstallInv, Reports, UTypeOK
    <2> QED
      BY <2>1, <2>5 DEF Installing, Reports
  <1> QED
    BY <1>1, UTyped, UnloadInvariance, InstallInvariance, PTL DEF InstallTakesEffect, USpec

-----------------------------------------------------------------------------
(***************************************************************************)
(* The old daemon does not survive its upgrade                             *)
(***************************************************************************)

\* Where a command is says which step it takes.
LEMMA PlaceSays ==
  ASSUME NEW c, Command(c)
  PROVE /\ at[c] = "lock" => Lock(c) \/ LockExpires(c)
        /\ at[c] = "unlock" => Unlock(c)
        /\ at[c] = "startStatus" => StartStatus(c)
        /\ at[c] = "spawn" => Spawn(c)
        /\ at[c] = "poll" => PollReady(c) \/ PollExpires(c)
        /\ at[c] = "stopStatus" => StopStatus(c)
        /\ at[c] = "killStatus" => KillStatus(c)
        /\ at[c] = "signal" => Signal(c)
        /\ at[c] = "killWait" => KillWait(c) \/ KillExpires(c)
        /\ at[c] = "killRemovePid" => KillRemovePid(c)
        /\ at[c] = "killRemoveState" => KillRemoveState(c)
        /\ at[c] = "outStatus" => OutStatus(c)
        /\ at[c] = "bootout" => Bootout(c)
        /\ at[c] = "outWait" => OutWait(c) \/ OutExpires(c)
        /\ at[c] = "outRemovePid" => OutRemovePid(c)
        /\ at[c] = "outRemoveState" => OutRemoveState(c)
        /\ at[c] = "bootstrap" => Bootstrap(c)
        /\ at[c] = "rebootout" => Rebootout(c)
        /\ at[c] = "rebootstrap" => Rebootstrap(c)
        /\ at[c] = "kickstart" => Kickstart(c)
        /\ at[c] = "await" => AwaitReady(c) \/ AwaitExpires(c)
        /\ at[c] \notin {"new", "done"}
  <1>1. CASE Lock(c)
    BY <1>1, LockMoves DEF Lock, Goto
  <1>2. CASE LockExpires(c)
    BY <1>2 DEF LockExpires, Finish, Fail
  <1>3. CASE Unlock(c)
    BY <1>3 DEF Unlock, Goto
  <1>4. CASE StartStatus(c)
    BY <1>4 DEF StartStatus, Goto, Finish, Succeed, Fail
  <1>5. CASE Spawn(c)
    BY <1>5 DEF Spawn, Goto, Finish, Fail
  <1>6. CASE PollReady(c)
    BY <1>6 DEF PollReady, Finish, Succeed
  <1>7. CASE PollExpires(c)
    BY <1>7 DEF PollExpires, Finish, Fail
  <1>8. CASE StopStatus(c)
    BY <1>8 DEF StopStatus, Goto
  <1>9. CASE RestartStatus(c)
    BY <1>9 DEF RestartStatus, Goto
  <1>10. CASE KillStatus(c)
    BY <1>10, AfterKillMoves DEF KillStatus, Goto, Finish, Succeed
  <1>11. CASE Signal(c)
    BY <1>11 DEF Signal, Goto, Finish, Fail
  <1>12. CASE KillWait(c)
    BY <1>12 DEF KillWait, Goto
  <1>13. CASE KillExpires(c)
    BY <1>13 DEF KillExpires, Finish, Fail
  <1>14. CASE KillRemovePid(c)
    BY <1>14 DEF KillRemovePid, Goto
  <1>15. CASE KillRemoveState(c)
    BY <1>15, AfterKillMoves DEF KillRemoveState, Goto, Finish, Succeed
  <1>16. CASE OutStatus(c)
    BY <1>16, AfterOutMoves DEF OutStatus, Goto, Finish, Succeed
  <1>17. CASE Bootout(c)
    BY <1>17, AfterOutMoves DEF Bootout, Goto, Finish, Succeed, Fail
  <1>18. CASE OutWait(c)
    BY <1>18 DEF OutWait, Goto
  <1>19. CASE OutExpires(c)
    BY <1>19 DEF OutExpires, Finish, Fail
  <1>20. CASE OutRemovePid(c)
    BY <1>20 DEF OutRemovePid, Goto
  <1>21. CASE OutRemoveState(c)
    BY <1>21, AfterOutMoves DEF OutRemoveState, Goto, Finish, Succeed
  <1>22. CASE RemoveAgent(c)
    BY <1>22 DEF RemoveAgent, Finish, Succeed, Fail
  <1>23. CASE InstallStatus(c)
    BY <1>23 DEF InstallStatus, Goto
  <1>24. CASE WritePlist(c)
    BY <1>24 DEF WritePlist, Goto
  <1>25. CASE PlistFails(c)
    BY <1>25 DEF PlistFails, Finish, Fail
  <1>26. CASE Bootstrap(c)
    BY <1>26 DEF Bootstrap, Goto, Finish, Fail
  <1>27. CASE Rebootout(c)
    BY <1>27 DEF Rebootout, Goto
  <1>28. CASE Rebootstrap(c)
    BY <1>28 DEF Rebootstrap, Goto, Finish, Fail
  <1>29. CASE Kickstart(c)
    BY <1>29 DEF Kickstart, Goto, Finish, Succeed, Fail
  <1>30. CASE AwaitReady(c)
    BY <1>30 DEF AwaitReady, Finish, Succeed
  <1>31. CASE AwaitExpires(c)
    BY <1>31 DEF AwaitExpires, Finish, Fail
  <1> QED
    BY <1>1, <1>2, <1>3, <1>4, <1>5, <1>6, <1>7, <1>8, <1>9, <1>10, <1>11, <1>12, <1>13,
       <1>14, <1>15, <1>16, <1>17, <1>18, <1>19, <1>20, <1>21, <1>22, <1>23, <1>24, <1>25,
       <1>26, <1>27, <1>28, <1>29, <1>30, <1>31 DEF Command

\* The status of a command is that of the record.
LEMMA StatusIsRecorded ==
  ASSUME NEW c
  PROVE Status(c).pid = RecordedPid /\ (Running(c) <=> Alive(RecordedPid)) /\ (Stale(c) => ~Alive(RecordedPid))
  BY DEF Status, Running, Stale, RecordedPid

\* Nobody but the start that waits is under way,
LEMMA NobodyWaits ==
  ASSUME OneAtATime, NEW c \in Cmds, ~Idle(c), at[c] # "poll"
  PROVE \A d \in Daemons : ~Awaited(d)
  BY DEF OneAtATime, Idle, Awaited

\* and so the record names the process that launchd does not look after.
LEMMA RecordedIsAlive ==
  ASSUME RecordsFollow, NEW d \in Daemons, Alive(d), d # job, ~Awaited(d)
  PROVE RecordedPid = d
  BY DEF RecordsFollow, RecordedPid

\* What a serve process does by itself, or is done to it: nobody comes alive,
LEMMA ServeMoves ==
  ASSUME TypeOK, NEW d \in Daemons, Serve(d) \/ CrashServe(d)
  PROVE /\ \A e \in Daemons : e # d => pc'[e] = pc[e]
        /\ Alive(d)
        /\ pc'[d] # "new"
        /\ UNCHANGED <<profile, program, at, op, prof, exec, ok, child, target, was, agent, loaded,
                       service, job>>
  <1> USE DEF TypeOK, Alive
  <1>1. CASE Boot(d)
    BY <1>1 DEF Boot, Move, ServeOnly, cmdVars, launchd, files
  <1>2. CASE WritePid(d)
    BY <1>2 DEF WritePid, Move, ServeOnly, cmdVars, launchd
  <1>3. CASE WriteState(d)
    BY <1>3 DEF WriteState, Move, ServeOnly, cmdVars, launchd
  <1>4. CASE Bind(d)
    BY <1>4 DEF Bind, Move, ServeOnly, cmdVars, launchd, files
  <1>5. CASE Confirm(d)
    BY <1>5 DEF Confirm, Move, ServeOnly, cmdVars, launchd, files
  <1>6. CASE StopServing(d)
    BY <1>6 DEF StopServing, Move, ServeOnly, cmdVars, launchd, files
  <1>7. CASE CloseServer(d)
    BY <1>7 DEF CloseServer, Move, ServeOnly, cmdVars, launchd, files
  <1>8. CASE CheckRecord(d)
    BY <1>8 DEF CheckRecord, Move, ServeOnly, cmdVars, launchd, files
  <1>9. CASE RemovePid(d)
    BY <1>9 DEF RemovePid, Move, ServeOnly, cmdVars, launchd
  <1>10. CASE RemoveState(d)
    BY <1>10 DEF RemoveState, Move, ServeOnly, cmdVars, launchd
  <1>11. CASE CrashServe(d)
    BY <1>11 DEF CrashServe, ServeOnly, cmdVars, launchd, files
  <1> QED
    BY <1>1, <1>2, <1>3, <1>4, <1>5, <1>6, <1>7, <1>8, <1>9, <1>10, <1>11 DEF Serve

\* and a process that is on record, or about to be forgotten, stays so until it is gone.
LEMMA ServeRecorded ==
  ASSUME TypeOK, OneDaemon, RecordsFollow, NEW d \in Daemons, Serve(d) \/ CrashServe(d)
  PROVE /\ RecordsFollow'
        /\ OnlyAlive(Dying \cup {RecordedPid}) => OnlyAlive(Dying \cup {RecordedPid})'
        /\ OnlyAlive(Dying) => OnlyAlive(Dying)' /\ (pidFile = None => pidFile' = None)
        /\ Emptied => Emptied'
  <1> USE DEF TypeOK, OneDaemon, RecordsFollow, OnlyAlive, Dying, RecordedPid, Emptied, Alive, Awaited, NoState
  <1>1. CASE Boot(d)
    BY <1>1 DEF Boot, Move, ServeOnly, cmdVars, launchd, files
  <1>2. CASE WritePid(d)
    BY <1>2 DEF WritePid, Move, ServeOnly, cmdVars, launchd
  <1>3. CASE WriteState(d)
    BY <1>3 DEF WriteState, Move, ServeOnly, cmdVars, launchd
  <1>4. CASE Bind(d)
    BY <1>4 DEF Bind, Move, ServeOnly, cmdVars, launchd, files
  <1>5. CASE Confirm(d)
    BY <1>5 DEF Confirm, Move, ServeOnly, cmdVars, launchd, files
  <1>6. CASE StopServing(d)
    BY <1>6 DEF StopServing, Move, ServeOnly, cmdVars, launchd, files
  <1>7. CASE CloseServer(d)
    BY <1>7 DEF CloseServer, Move, ServeOnly, cmdVars, launchd, files
  <1>8. CASE CheckRecord(d)
    BY <1>8 DEF CheckRecord, Move, ServeOnly, cmdVars, launchd, files
  <1>9. CASE RemovePid(d)
    BY <1>9 DEF RemovePid, Move, ServeOnly, cmdVars, launchd
  <1>10. CASE RemoveState(d)
    BY <1>10 DEF RemoveState, Move, ServeOnly, cmdVars, launchd
  <1>11. CASE CrashServe(d)
    BY <1>11 DEF CrashServe, ServeOnly, cmdVars, launchd, files
  <1> QED
    BY <1>1, <1>2, <1>3, <1>4, <1>5, <1>6, <1>7, <1>8, <1>9, <1>10, <1>11 DEF Serve

\* Processes and launchd keep what the records and the commands say,
LEMMA WorldRecords ==
  ASSUME TypeOK, OneDaemon, OneDaemon', RecordsFollow, CommandsInv,
         \/ \E d \in Daemons : Serve(d) \/ CrashServe(d) \/ Respawn(d)
         \/ \E p \in Profiles, v \in Versions : EditProfile(p, v)
         \/ \E q \in Ports : Outsider(q)
  PROVE RecordsFollow' /\ CommandsInv'
  <1>1. ASSUME NEW d \in Daemons, Serve(d) \/ CrashServe(d) PROVE RecordsFollow' /\ CommandsInv'
    <2>1. RecordsFollow'
      BY <1>1, ServeRecorded
    <2>2. UNCHANGED <<at, child, target, job>> /\ \A e \in Daemons : Alive(e)' => Alive(e)
      BY <1>1, ServeMoves DEF Alive
    <2>3. CommandsInv'
      BY <2>2 DEF CommandsInv, OnlyAlive
    <2> QED
      BY <2>1, <2>3
  <1>2. ASSUME NEW d \in Daemons, Respawn(d) PROVE RecordsFollow' /\ CommandsInv'
    <2>1. /\ pc' = [pc EXCEPT ![d] = "boot"] /\ pc[d] = "new" /\ job' = d /\ ~JobAlive
          /\ UNCHANGED <<at, child, target, pidFile, stateFile>>
      BY <1>2 DEF Respawn, Move, cmdVars, files
    <2>2. Alive(d)' /\ \A e \in Daemons : Alive(e)' => e = d
      BY <2>1 DEF OneDaemon, Alive, TypeOK
    <2>3. RecordsFollow'
      BY <2>1, <2>2 DEF RecordsFollow, TypeOK
    <2>4. CommandsInv'
      BY <2>1, <2>2 DEF CommandsInv, OnlyAlive
    <2> QED
      BY <2>3, <2>4
  <1>3. CASE \/ \E p \in Profiles, v \in Versions : EditProfile(p, v)
             \/ \E q \in Ports : Outsider(q)
    <2>1. UNCHANGED <<pc, at, child, target, pidFile, stateFile, job>>
      BY <1>3 DEF EditProfile, Outsider, serveVars, cmdVars, files, launchd
    <2> QED
      BY <2>1 DEF RecordsFollow, CommandsInv, OnlyAlive, Alive, Awaited
  <1> QED
    BY <1>1, <1>2, <1>3

\* and so do the commands.
LEMMA CommandRecords ==
  ASSUME Calm, TypeOK, Profiled, UnloadInv, OneDaemon, OneDaemon', RecordsFollow, CommandsInv,
         NEW c \in Cmds, Command(c)
  PROVE RecordsFollow' /\ CommandsInv'
  <1> USE DEF TypeOK, Alive
  <1>a. ~Idle(c) /\ \A other \in Cmds : other # c => Idle(other) /\ at'[other] = at[other]
    BY CommandUnloads DEF UnloadInv, OneAtATime
  <1>b. at[c] # "poll" => \A d \in Daemons : ~Awaited(d)
    BY <1>a, NobodyWaits DEF UnloadInv
  <1>c. at[c] # "poll" => OnlyAlive({job, RecordedPid})
    BY <1>b, RecordedIsAlive DEF OnlyAlive
  <1>d. ASSUME /\ at'[c] \in {"bootout", "outWait"} => OnlyAlive({job, target[c]})'
               /\ at'[c] \in {"outRemovePid", "outRemoveState", "killRemovePid", "killRemoveState"} => OnlyAlive({job})'
               /\ at'[c] = "poll" => child'[c] # None
        PROVE CommandsInv'
    BY <1>a, <1>d DEF CommandsInv, Idle
  <1>1. CASE Lock(c)
    <2>1. RecordsFollow'
      BY <1>a, <1>b, <1>c, <1>1, LockMoves DEF Lock, Goto, World, files, launchd,
       RecordsFollow, Awaited, OnlyAlive, CommandsInv, RecordedPid
    <2>2. CommandsInv'
      BY <1>a, <1>b, <1>c, <1>1, LockMoves, <1>d DEF Lock, Goto, World, files, launchd,
       CommandsInv, OnlyAlive
    <2> QED
      BY <2>1, <2>2
  <1>2. CASE LockExpires(c)
    <2>1. RecordsFollow'
      BY <1>a, <1>b, <1>c, <1>2 DEF LockExpires, Finish, Fail, World, OnlyPlace, files,
       launchd, RecordsFollow, Awaited, OnlyAlive, CommandsInv, RecordedPid
    <2>2. CommandsInv'
      BY <1>a, <1>b, <1>c, <1>2, <1>d DEF LockExpires, Finish, Fail, World, OnlyPlace,
       files, launchd, CommandsInv, OnlyAlive
    <2> QED
      BY <2>1, <2>2
  <1>3. CASE Unlock(c)
    <2>1. RecordsFollow'
      BY <1>a, <1>b, <1>c, <1>3 DEF Unlock, Goto, World, files, launchd, RecordsFollow,
       Awaited, OnlyAlive, CommandsInv, RecordedPid
    <2>2. CommandsInv'
      BY <1>a, <1>b, <1>c, <1>3, <1>d DEF Unlock, Goto, World, files, launchd, CommandsInv,
       OnlyAlive
    <2> QED
      BY <2>1, <2>2
  <1>4. CASE StartStatus(c)
    <2>1. RecordsFollow'
      BY <1>a, <1>b, <1>c, <1>4, StatusIsRecorded DEF StartStatus, Goto, Finish, Succeed,
       Fail, World, OnlyPlace, files, launchd, RecordsFollow, Awaited, OnlyAlive,
       CommandsInv, RecordedPid
    <2>2. CommandsInv'
      BY <1>a, <1>b, <1>c, <1>4, StatusIsRecorded, <1>d DEF StartStatus, Goto, Finish,
       Succeed, Fail, World, OnlyPlace, files, launchd, CommandsInv, OnlyAlive
    <2> QED
      BY <2>1, <2>2
  <1>5. CASE Spawn(c)
    <2>1. RecordsFollow'
      BY <1>a, <1>b, <1>c, <1>5 DEF Spawn, Goto, Finish, Fail, files, launchd,
       RecordsFollow, Awaited, OnlyAlive, CommandsInv, RecordedPid
    <2>2. CommandsInv'
      BY <1>a, <1>b, <1>c, <1>5, <1>d DEF Spawn, Goto, Finish, Fail, files, launchd,
       CommandsInv, OnlyAlive
    <2> QED
      BY <2>1, <2>2
  <1>6. CASE PollReady(c)
    <2>1. Alive(RecordedPid) /\ UNCHANGED <<pc, pidFile, stateFile, job>>
      BY <1>6, StatusIsRecorded DEF PollReady, OnlyPlace, files, launchd
    <2>2. \A d \in Daemons : Alive(d) => d = RecordedPid
      BY <2>1 DEF OneDaemon, RecordedPid, NoState
    <2>3. RecordsFollow'
      BY <2>1, <2>2 DEF RecordsFollow, RecordedPid, NoState
    <2>4. CommandsInv'
      BY <1>a, <1>b, <1>c, <1>6, StatusIsRecorded, <1>d DEF PollReady, Finish, Succeed,
       World, OnlyPlace, files, launchd, CommandsInv, OnlyAlive
    <2> QED
      BY <2>3, <2>4
  <1>7. CASE PollExpires(c)
    <2>1. RecordsFollow'
      BY <1>a, <1>b, <1>c, <1>7 DEF PollExpires, Finish, Fail, World, files, launchd,
       Terminate, RecordsFollow, Awaited, OnlyAlive, CommandsInv, RecordedPid
    <2>2. CommandsInv'
      BY <1>a, <1>b, <1>c, <1>7, <1>d DEF PollExpires, Finish, Fail, World, files, launchd,
       Terminate, CommandsInv, OnlyAlive
    <2> QED
      BY <2>1, <2>2
  <1>8. CASE StopStatus(c)
    <2>1. RecordsFollow'
      BY <1>a, <1>b, <1>c, <1>8, StatusIsRecorded DEF StopStatus, Goto, World, files,
       launchd, RecordsFollow, Awaited, OnlyAlive, CommandsInv, RecordedPid
    <2>2. CommandsInv'
      BY <1>a, <1>b, <1>c, <1>8, StatusIsRecorded, <1>d DEF StopStatus, Goto, World, files,
       launchd, CommandsInv, OnlyAlive
    <2> QED
      BY <2>1, <2>2
  <1>9. CASE RestartStatus(c)
    <2>1. RecordsFollow'
      BY <1>a, <1>b, <1>c, <1>9 DEF RestartStatus, Goto, World, OnlyPlace, files, launchd,
       RecordsFollow, Awaited, OnlyAlive, CommandsInv, RecordedPid
    <2>2. CommandsInv'
      BY <1>a, <1>b, <1>c, <1>9, <1>d DEF RestartStatus, Goto, World, OnlyPlace, files,
       launchd, CommandsInv, OnlyAlive
    <2> QED
      BY <2>1, <2>2
  <1>10. CASE KillStatus(c)
    <2>1. RecordsFollow'
      BY <1>a, <1>b, <1>c, <1>10, AfterKillMoves, StatusIsRecorded DEF KillStatus, Goto,
       Finish, Succeed, World, files, launchd, RecordsFollow, Awaited, OnlyAlive,
       CommandsInv, RecordedPid
    <2>2. CommandsInv'
      BY <1>a, <1>b, <1>c, <1>10, AfterKillMoves, StatusIsRecorded, <1>d DEF KillStatus,
       Goto, Finish, Succeed, World, files, launchd, CommandsInv, OnlyAlive
    <2> QED
      BY <2>1, <2>2
  <1>11. CASE Signal(c)
    <2>1. RecordsFollow'
      BY <1>a, <1>b, <1>c, <1>11 DEF Signal, Goto, Finish, Fail, World, files, launchd, Terminate,
       RecordsFollow, Awaited, OnlyAlive, CommandsInv, RecordedPid
    <2>2. CommandsInv'
      BY <1>a, <1>b, <1>c, <1>11, <1>d DEF Signal, Goto, Finish, Fail, World, files, launchd, Terminate,
       CommandsInv, OnlyAlive
    <2> QED
      BY <2>1, <2>2
  <1>12. CASE KillWait(c)
    <2>1. RecordsFollow'
      BY <1>a, <1>b, <1>c, <1>12, StatusIsRecorded DEF KillWait, Goto, World, OnlyPlace,
       files, launchd, RecordsFollow, Awaited, OnlyAlive, CommandsInv, RecordedPid
    <2>2. CommandsInv'
      BY <1>a, <1>b, <1>c, <1>12, StatusIsRecorded, <1>d DEF KillWait, Goto, World,
       OnlyPlace, files, launchd, CommandsInv, OnlyAlive
    <2> QED
      BY <2>1, <2>2
  <1>13. CASE KillExpires(c)
    <2>1. RecordsFollow'
      BY <1>a, <1>b, <1>c, <1>13 DEF KillExpires, Finish, Fail, World, OnlyPlace, files,
       launchd, RecordsFollow, Awaited, OnlyAlive, CommandsInv, RecordedPid
    <2>2. CommandsInv'
      BY <1>a, <1>b, <1>c, <1>13, <1>d DEF KillExpires, Finish, Fail, World, OnlyPlace,
       files, launchd, CommandsInv, OnlyAlive
    <2> QED
      BY <2>1, <2>2
  <1>14. CASE KillRemovePid(c)
    <2>1. RecordsFollow'
      BY <1>a, <1>b, <1>c, <1>14 DEF KillRemovePid, Goto, World, launchd, RecordsFollow,
       Awaited, OnlyAlive, CommandsInv, RecordedPid
    <2>2. CommandsInv'
      BY <1>a, <1>b, <1>c, <1>14, <1>d DEF KillRemovePid, Goto, World, launchd, CommandsInv,
       OnlyAlive
    <2> QED
      BY <2>1, <2>2
  <1>15. CASE KillRemoveState(c)
    <2>1. RecordsFollow'
      BY <1>a, <1>b, <1>c, <1>15, AfterKillMoves DEF KillRemoveState, Goto, Finish, Succeed,
       World, launchd, RecordsFollow, Awaited, OnlyAlive, CommandsInv, RecordedPid, NoState
    <2>2. CommandsInv'
      BY <1>a, <1>b, <1>c, <1>15, AfterKillMoves, <1>d DEF KillRemoveState, Goto, Finish,
       Succeed, World, launchd, CommandsInv, OnlyAlive
    <2> QED
      BY <2>1, <2>2
  <1>16. CASE OutStatus(c)
    <2>1. RecordsFollow'
      BY <1>a, <1>b, <1>c, <1>16, AfterOutMoves, StatusIsRecorded DEF OutStatus, Goto,
       Finish, Succeed, World, files, launchd, RecordsFollow, Awaited, OnlyAlive,
       CommandsInv, RecordedPid
    <2>2. CommandsInv'
      BY <1>a, <1>b, <1>c, <1>16, AfterOutMoves, StatusIsRecorded, <1>d DEF OutStatus, Goto,
       Finish, Succeed, World, files, launchd, CommandsInv, OnlyAlive
    <2> QED
      BY <2>1, <2>2
  <1>17. CASE Bootout(c)
    <2>1. RecordsFollow'
      BY <1>a, <1>b, <1>c, <1>17, AfterOutMoves DEF Bootout, Goto, Finish, Succeed, Fail,
       World, files, launchd, Unload, RecordsFollow, Awaited, OnlyAlive, CommandsInv,
       RecordedPid
    <2>2. CommandsInv'
      BY <1>a, <1>b, <1>c, <1>17, AfterOutMoves, <1>d DEF Bootout, Goto, Finish, Succeed,
       Fail, World, files, launchd, Unload, CommandsInv, OnlyAlive
    <2> QED
      BY <2>1, <2>2
  <1>18. CASE OutWait(c)
    <2>1. RecordsFollow'
      BY <1>a, <1>b, <1>c, <1>18 DEF OutWait, Goto, World, OnlyPlace, files, launchd,
       RecordsFollow, Awaited, OnlyAlive, CommandsInv, RecordedPid
    <2>2. CommandsInv'
      BY <1>a, <1>b, <1>c, <1>18, <1>d DEF OutWait, Goto, World, OnlyPlace, files, launchd,
       CommandsInv, OnlyAlive
    <2> QED
      BY <2>1, <2>2
  <1>19. CASE OutExpires(c)
    <2>1. RecordsFollow'
      BY <1>a, <1>b, <1>c, <1>19 DEF OutExpires, Finish, Fail, World, OnlyPlace, files,
       launchd, RecordsFollow, Awaited, OnlyAlive, CommandsInv, RecordedPid
    <2>2. CommandsInv'
      BY <1>a, <1>b, <1>c, <1>19, <1>d DEF OutExpires, Finish, Fail, World, OnlyPlace,
       files, launchd, CommandsInv, OnlyAlive
    <2> QED
      BY <2>1, <2>2
  <1>20. CASE OutRemovePid(c)
    <2>1. RecordsFollow'
      BY <1>a, <1>b, <1>c, <1>20 DEF OutRemovePid, Goto, World, launchd, RecordsFollow,
       Awaited, OnlyAlive, CommandsInv, RecordedPid
    <2>2. CommandsInv'
      BY <1>a, <1>b, <1>c, <1>20, <1>d DEF OutRemovePid, Goto, World, launchd, CommandsInv,
       OnlyAlive
    <2> QED
      BY <2>1, <2>2
  <1>21. CASE OutRemoveState(c)
    <2>1. RecordsFollow'
      BY <1>a, <1>b, <1>c, <1>21, AfterOutMoves DEF OutRemoveState, Goto, Finish, Succeed,
       World, launchd, RecordsFollow, Awaited, OnlyAlive, CommandsInv, RecordedPid, NoState
    <2>2. CommandsInv'
      BY <1>a, <1>b, <1>c, <1>21, AfterOutMoves, <1>d DEF OutRemoveState, Goto, Finish,
       Succeed, World, launchd, CommandsInv, OnlyAlive
    <2> QED
      BY <2>1, <2>2
  <1>22. CASE RemoveAgent(c)
    <2>1. RecordsFollow'
      BY <1>a, <1>b, <1>c, <1>22 DEF RemoveAgent, Finish, Succeed, Fail, World, files, launchd,
       RecordsFollow, Awaited, OnlyAlive, CommandsInv, RecordedPid
    <2>2. CommandsInv'
      BY <1>a, <1>b, <1>c, <1>22, <1>d DEF RemoveAgent, Finish, Succeed, Fail, World, files,
       launchd, CommandsInv, OnlyAlive
    <2> QED
      BY <2>1, <2>2
  <1>23. CASE InstallStatus(c)
    <2>1. RecordsFollow'
      BY <1>a, <1>b, <1>c, <1>23, StatusIsRecorded DEF InstallStatus, Goto, World,
       OnlyPlace, files, launchd, RecordsFollow, Awaited, OnlyAlive, CommandsInv,
       RecordedPid
    <2>2. CommandsInv'
      BY <1>a, <1>b, <1>c, <1>23, StatusIsRecorded, <1>d DEF InstallStatus, Goto, World,
       OnlyPlace, files, launchd, CommandsInv, OnlyAlive
    <2> QED
      BY <2>1, <2>2
  <1>24. CASE WritePlist(c)
    <2>1. RecordsFollow'
      BY <1>a, <1>b, <1>c, <1>24 DEF WritePlist, Goto, World, files, launchd, RecordsFollow,
       Awaited, OnlyAlive, CommandsInv, RecordedPid
    <2>2. CommandsInv'
      BY <1>a, <1>b, <1>c, <1>24, <1>d DEF WritePlist, Goto, World, files, launchd,
       CommandsInv, OnlyAlive
    <2> QED
      BY <2>1, <2>2
  <1>25. CASE PlistFails(c)
    <2>1. RecordsFollow'
      BY <1>a, <1>b, <1>c, <1>25 DEF PlistFails, Finish, Fail, World, OnlyPlace, files,
       launchd, RecordsFollow, Awaited, OnlyAlive, CommandsInv, RecordedPid
    <2>2. CommandsInv'
      BY <1>a, <1>b, <1>c, <1>25, <1>d DEF PlistFails, Finish, Fail, World, OnlyPlace,
       files, launchd, CommandsInv, OnlyAlive
    <2> QED
      BY <2>1, <2>2
  <1>26. CASE Bootstrap(c)
    <2>1. RecordsFollow'
      BY <1>a, <1>b, <1>c, <1>26 DEF Bootstrap, Goto, Finish, Fail, World, files, launchd,
       Load, CanLoad, RecordsFollow, Awaited, OnlyAlive, CommandsInv, RecordedPid, JobAlive
    <2>2. CommandsInv'
      BY <1>a, <1>b, <1>c, <1>26, <1>d DEF Bootstrap, Goto, Finish, Fail, World, files,
       launchd, Load, CanLoad, CommandsInv, OnlyAlive
    <2> QED
      BY <2>1, <2>2
  <1>27. CASE Rebootout(c)
    <2>1. RecordsFollow'
      BY <1>a, <1>b, <1>c, <1>27 DEF Rebootout, Goto, World, files, launchd, Unload, RecordsFollow,
       Awaited, OnlyAlive, CommandsInv, RecordedPid
    <2>2. CommandsInv'
      BY <1>a, <1>b, <1>c, <1>27, <1>d DEF Rebootout, Goto, World, files, launchd, Unload,
       CommandsInv, OnlyAlive
    <2> QED
      BY <2>1, <2>2
  <1>28. CASE Rebootstrap(c)
    <2>1. RecordsFollow'
      BY <1>a, <1>b, <1>c, <1>28 DEF Rebootstrap, Goto, Finish, Fail, World, files, launchd,
       Load, CanLoad, RecordsFollow, Awaited, OnlyAlive, CommandsInv, RecordedPid, JobAlive
    <2>2. CommandsInv'
      BY <1>a, <1>b, <1>c, <1>28, <1>d DEF Rebootstrap, Goto, Finish, Fail, World, files,
       launchd, Load, CanLoad, CommandsInv, OnlyAlive
    <2> QED
      BY <2>1, <2>2
  <1>29. CASE Kickstart(c)
    <2>1. RecordsFollow'
      BY <1>a, <1>b, <1>c, <1>29 DEF Kickstart, Goto, Finish, Succeed, Fail, World, files,
       launchd, RecordsFollow, Awaited, OnlyAlive, CommandsInv, RecordedPid
    <2>2. CommandsInv'
      BY <1>a, <1>b, <1>c, <1>29, <1>d DEF Kickstart, Goto, Finish, Succeed, Fail, World,
       files, launchd, CommandsInv, OnlyAlive
    <2> QED
      BY <2>1, <2>2
  <1>30. CASE AwaitReady(c)
    <2>1. RecordsFollow'
      BY <1>a, <1>b, <1>c, <1>30 DEF AwaitReady, Finish, Succeed, World, OnlyPlace, files,
       launchd, RecordsFollow, Awaited, OnlyAlive, CommandsInv, RecordedPid
    <2>2. CommandsInv'
      BY <1>a, <1>b, <1>c, <1>30, <1>d DEF AwaitReady, Finish, Succeed, World, OnlyPlace,
       files, launchd, CommandsInv, OnlyAlive
    <2> QED
      BY <2>1, <2>2
  <1>31. CASE AwaitExpires(c)
    <2>1. RecordsFollow'
      BY <1>a, <1>b, <1>c, <1>31 DEF AwaitExpires, Finish, Fail, World, OnlyPlace, files,
       launchd, RecordsFollow, Awaited, OnlyAlive, CommandsInv, RecordedPid
    <2>2. CommandsInv'
      BY <1>a, <1>b, <1>c, <1>31, <1>d DEF AwaitExpires, Finish, Fail, World, OnlyPlace,
       files, launchd, CommandsInv, OnlyAlive
    <2> QED
      BY <2>1, <2>2
  <1> QED
    BY <1>1, <1>2, <1>3, <1>4, <1>5, <1>6, <1>7, <1>8, <1>9, <1>10, <1>11, <1>12, <1>13,
       <1>14, <1>15, <1>16, <1>17, <1>18, <1>19, <1>20, <1>21, <1>22, <1>23, <1>24, <1>25,
       <1>26, <1>27, <1>28, <1>29, <1>30, <1>31 DEF Command

\* Beginning a command, or a call of the upgrade, changes nothing else.
LEMMA BeginRecords ==
  ASSUME TypeOK, RecordsFollow, CommandsInv, NEW c \in Cmds, Idle(c),
         NEW place1 \in {"installStatus", "outStatus", "bootstrap", "lock"},
         at' = [at EXCEPT ![c] = place1],
         \A other \in Cmds : other # c => child'[other] = child[other] /\ target'[other] = target[other],
         UNCHANGED <<pc, pidFile, stateFile, job>>
  PROVE RecordsFollow' /\ CommandsInv'
  <1>1. \A d \in Daemons : Awaited(d) => Awaited(d)'
    BY DEF Awaited, Idle, TypeOK
  <1>2. RecordsFollow'
    BY <1>1 DEF RecordsFollow, Alive
  <1>3. CommandsInv'
    BY DEF CommandsInv, OnlyAlive, Alive, TypeOK
  <1> QED
    BY <1>2, <1>3

\* So the records follow the processes, whatever step is taken.
LEMMA RecordsStep ==
  ASSUME Calm, ~Overlap, UTypeOK, Profiled, UnloadInv, OneDaemon, OneDaemon', RecordsFollow,
     CommandsInv,
         Environment \/ Verified \/ UpgradeStep
  PROVE RecordsFollow' /\ CommandsInv'
  <1> USE DEF UTypeOK
  <1>1. ASSUME UNCHANGED vars PROVE RecordsFollow' /\ CommandsInv'
    BY <1>1 DEF vars, serveVars, cmdVars, files, launchd, RecordsFollow, CommandsInv, OnlyAlive,
       Alive, Awaited
  <1>2. CASE Environment
    <2>1. ASSUME NEW c \in Cmds, Begin(c) PROVE RecordsFollow' /\ CommandsInv'
      <3>1. /\ Idle(c) /\ at' = [at EXCEPT ![c] = Entry(op[c])]
            /\ UNCHANGED <<pc, pidFile, stateFile, job, child, target>>
        BY <2>1 DEF Begin, Goto, OnlyPlace, files, launchd, Idle
      <3>2. Entry(op[c]) \in {"installStatus", "outStatus", "bootstrap", "lock"}
        BY DEF Entry
      <3> QED
        BY <3>1, <3>2, BeginRecords
    <2>2. ASSUME NEW c \in Cmds, Command(c) PROVE RecordsFollow' /\ CommandsInv'
      BY <2>2, CommandRecords
    <2>3. \A c \in Cmds : ~Interrupt(c)
      BY DEF Interrupt
    <2> QED
      BY <1>2, <2>1, <2>2, <2>3, WorldRecords DEF Environment, DaemonStep, Next
  <1>3. ASSUME NEW o \in {"stop", "start", "unload", "load"}, NEW p, Call(o, p), Idle(Inner)
        PROVE RecordsFollow' /\ CommandsInv'
    <2>1. /\ at' = [at EXCEPT ![Inner] = Entry(o)]
          /\ \A other \in Cmds : other # Inner => child'[other] = child[other] /\ target'[other] = target[other]
          /\ UNCHANGED <<pc, pidFile, stateFile, job>>
      BY <1>3 DEF Call, TypeOK, serveVars, files, launchd
    <2>2. Entry(o) \in {"installStatus", "outStatus", "bootstrap", "lock"}
      BY DEF Entry
    <2> QED
      BY <1>3, <2>1, <2>2, BeginRecords
  <1>4. place \in {"status", "start"} => Idle(Inner)
    BY DEF UnloadInv, OneAtATime
  <1> QED
    BY <1>1, <1>2, <1>3, <1>4 DEF Verified, UpgradeStep, StopDaemon, Stopped, Installed,
       InstallFails,
       StartDaemon, Restarted, Move1

\* During an upgrade, and without deadlines that expire early, only its own call moves
\* besides the processes, launchd and the users' editors.
LEMMA OnlyInner ==
  ASSUME Calm, ~Overlap, UTypeOK, UnloadInv, Environment, InProgress
  PROVE \/ \E d \in Daemons : Serve(d) \/ CrashServe(d) \/ Respawn(d)
        \/ \E p \in Profiles, v \in Versions : EditProfile(p, v)
        \/ \E q \in Ports : Outsider(q)
        \/ Command(Inner)
  <1>1. ASSUME NEW c \in Cmds, Begin(c) PROVE FALSE
    <2>1. Entry(op[c]) # "new"
      BY DEF Entry
    <2>2. UserBegins(c)
      BY <1>1, <2>1 DEF Begin, Goto, UserBegins, UTypeOK, TypeOK
    <2> QED
      BY <2>2 DEF Environment
  <1>2. ASSUME NEW c \in Cmds, Command(c) PROVE c = Inner
    <2>1. ~Idle(c)
      BY <1>2, PlaceSays DEF Idle
    <2> QED
      BY <2>1 DEF UnloadInv, OneAtATime
  <1>3. \A c \in Cmds : ~Interrupt(c)
    BY DEF Interrupt
  <1> QED
    BY <1>1, <1>2, <1>3 DEF Environment, DaemonStep, Next

\* Processes and launchd leave the upgrade on its way,
LEMMA WorldReplaces ==
  ASSUME UTypeOK, OneDaemon, RecordsFollow, Replaces, place \in {"stopping", "install", "start",
     "starting"},
         Exec, UNCHANGED <<place, previous, binary>>,
         \/ \E d \in Daemons : Serve(d) \/ CrashServe(d) \/ Respawn(d)
         \/ \E p \in Profiles, v \in Versions : EditProfile(p, v)
         \/ \E q \in Ports : Outsider(q)
  PROVE Replaces'
  <1> USE DEF UTypeOK
  <1>1. ASSUME NEW d \in Daemons, Serve(d) \/ CrashServe(d) PROVE Replaces'
    <2>1. /\ UNCHANGED <<profile, program, at, op, prof, exec, ok, child, target, was, agent, loaded, service, job>>
          /\ \A e \in Daemons : Alive(e)' => Alive(e)
          /\ \A e \in Daemons : exe'[e] = exe[e]
      BY <1>1, ServeMoves DEF Alive, Exec
    <2>2. /\ OnlyAlive(Dying \cup {RecordedPid}) => OnlyAlive(Dying \cup {RecordedPid})'
          /\ OnlyAlive(Dying) => OnlyAlive(Dying)' /\ (pidFile = None => pidFile' = None)
          /\ Emptied => Emptied'
      BY <1>1, ServeRecorded
    <2>3. (JobOnly => JobOnly') /\ (AllRun(agent.program) => AllRun(agent.program)')
      BY <2>1 DEF JobOnly, OnlyAlive, AllRun, Runs
    <2>4. \A e \in Daemons : /\ OnlyAlive({e}) => OnlyAlive({e})'
                             /\ Runs(e, TargetPath) => Runs(e, TargetPath)'
      BY <2>1 DEF OnlyAlive, Runs
    <2>5. Unloads => Unloads'
      BY <2>1, <2>3 DEF Unloads, Ended
    <2>6. Stops => Stops'
      BY <2>1, <2>2 DEF Stops, Ended
    <2>7. Loads => Loads'
      BY <2>1, <2>3 DEF Loads, Ended
    <2>8. Starts => Starts'
      BY <2>1, <2>2, <2>4 DEF Starts, Ended
    <2> QED
      BY <2>1, <2>2, <2>3, <2>5, <2>6, <2>7, <2>8 DEF Replaces
  <1>2. ASSUME NEW d \in Daemons, Respawn(d) PROVE Replaces'
    <2>1. /\ loaded /\ pc[d] = "new" /\ pc' = [pc EXCEPT ![d] = "boot"]
          /\ program' = [program EXCEPT ![d] = service.program]
          /\ UNCHANGED <<at, op, prof, exec, ok, child, target, was, agent, loaded, service>>
      BY <1>2 DEF Respawn, Move, cmdVars
    <2>2. service = agent /\ AllRun(agent.program) => AllRun(agent.program)'
      BY <2>1 DEF AllRun, Runs, Exec, Alive, TypeOK
    <2> QED
      BY <2>1, <2>2 DEF Replaces, Unloads, Stops, Loads, Starts, JobOnly, Emptied, Ended
  <1>3. CASE \/ \E p \in Profiles, v \in Versions : EditProfile(p, v)
             \/ \E q \in Ports : Outsider(q)
    <2>1. UNCHANGED <<pc, profile, program, at, op, prof, exec, ok, child, was, agent, loaded, service, job,
                      pidFile, stateFile>>
      BY <1>3 DEF EditProfile, Outsider, serveVars, cmdVars, files, launchd
    <2>2. UNCHANGED exe
      BY <2>1 DEF Exec
    <2> QED
      BY <2>1, <2>2 DEF Replaces, Unloads, Stops, Loads, Starts, JobOnly, Emptied, Ended, OnlyAlive,
         AllRun, Runs,
         Dying, RecordedPid, Alive
  <1> QED
    BY <1>1, <1>2, <1>3

\* the unloading of the service leaves at most its process, which launchd has told to
\* end,
LEMMA UnloadsStep ==
  ASSUME Calm, TypeOK, CommandsInv, agent # None, Unloads, Command(Inner)
  PROVE Unloads' /\ UNCHANGED agent
  <1> USE DEF TypeOK, Unloads, Ended, Goto, Finish, Succeed, Fail, World, OnlyPlace, files, launchd
  <1>1. CASE at[Inner] = "outStatus"
    BY <1>1, PlaceSays DEF OutStatus
  <1>2. CASE at[Inner] = "bootout"
    <2>1. Bootout(Inner) /\ OnlyAlive({job, target[Inner]})
      BY <1>2, PlaceSays DEF CommandsInv
    <2>2. CASE target[Inner] = None
      <3>1. OnlyAlive({job})
        BY <2>1, <2>2 DEF OnlyAlive
      <3> QED
        BY <2>1, <2>2, <3>1, AfterOutMoves DEF Bootout, AfterOut, Unload, JobOnly, OnlyAlive, Alive
    <2>3. CASE target[Inner] # None
      BY <2>1, <2>3 DEF Bootout, Unload
    <2> QED
      BY <2>2, <2>3
  <1>3. CASE at[Inner] \in {"outWait", "outRemovePid"}
    BY <1>3, PlaceSays DEF OutWait, OutExpires, OutRemovePid
  <1>4. CASE at[Inner] = "outRemoveState"
    <2>1. OutRemoveState(Inner) /\ OnlyAlive({job})
      BY <1>4, PlaceSays DEF CommandsInv
    <2> QED
      BY <2>1, <1>4 DEF OutRemoveState, AfterOut, JobOnly, OnlyAlive, Alive
  <1>5. CASE at[Inner] = "unlock"
    BY <1>5, PlaceSays DEF Unlock, JobOnly, OnlyAlive, Alive
  <1> QED
    BY <1>1, <1>2, <1>3, <1>4, <1>5, PlaceSays DEF Unloads, Ended

\* the stop of a manual daemon leaves no process and no record of one,
LEMMA StopsStep ==
  ASSUME Calm, TypeOK, agent = None, Stops, Command(Inner)
  PROVE Stops' /\ UNCHANGED agent
  <1> USE DEF TypeOK, Stops, Ended, Goto, Finish, Succeed, Fail, World, OnlyPlace, files, launchd
  <1> USE DEF OnlyAlive, Dying, RecordedPid, Alive
  <1>1. CASE at[Inner] = "lock"
    BY <1>1, PlaceSays, LockMoves DEF Lock, LockExpires
  <1>2. CASE at[Inner] = "stopStatus"
    BY <1>2, PlaceSays DEF StopStatus
  <1>3. CASE at[Inner] = "killStatus"
    BY <1>3, PlaceSays, StatusIsRecorded, AfterKillMoves DEF KillStatus, Emptied
  <1>4. CASE at[Inner] = "signal"
    BY <1>4, PlaceSays DEF Signal
  <1>5. CASE at[Inner] = "killWait"
    BY <1>5, PlaceSays, StatusIsRecorded DEF KillWait, KillExpires
  <1>6. CASE at[Inner] = "killRemovePid"
    BY <1>6, PlaceSays DEF KillRemovePid
  <1>7. CASE at[Inner] = "killRemoveState"
    BY <1>7, PlaceSays, AfterKillMoves DEF KillRemoveState, Emptied, NoState
  <1>8. CASE at[Inner] = "unlock"
    BY <1>8, PlaceSays DEF Unlock, Emptied
  <1> QED
    BY <1>1, <1>2, <1>3, <1>4, <1>5, <1>6, <1>7, <1>8, PlaceSays DEF Stops, Ended

\* the service is loaded when its old process is gone,
LEMMA LoadsStep ==
  ASSUME Calm, TypeOK, Loads, Command(Inner), Exec, UNCHANGED binary
  PROVE Loads' /\ UNCHANGED agent
  <1> USE DEF TypeOK, Loads, Ended, Goto, Finish, Succeed, Fail, World, OnlyPlace, files, launchd
  <1>a. UNCHANGED <<pc, job>> /\ JobOnly => (loaded' = FALSE => JobOnly')
    BY DEF JobOnly, OnlyAlive, Alive
  <1>b. UNCHANGED <<pc, program, agent>> /\ AllRun(agent.program) => AllRun(agent.program)'
    BY DEF AllRun, Runs, Alive, Exec
  <1>c. UNCHANGED <<pc, agent>> /\ JobOnly /\ CanLoad => AllRun(agent.program)'
    BY DEF JobOnly, OnlyAlive, CanLoad, JobAlive, AllRun, Alive
  <1>1. CASE at[Inner] = "bootstrap"
    <2>1. Bootstrap(Inner) /\ JobOnly /\ ~loaded
      BY <1>1, PlaceSays DEF JobOnly
    <2>2. CASE Goto(Inner, "bootstrap", "kickstart") /\ CanLoad /\ Load
      BY <2>1, <2>2, <1>c DEF Bootstrap, Load
    <2>3. CASE Goto(Inner, "bootstrap", "rebootout") /\ UNCHANGED launchd
      BY <2>1, <2>3, <1>a DEF Bootstrap
    <2>4. CASE Fail(Inner, "bootstrap")
      BY <2>1, <2>4 DEF Bootstrap
    <2> QED
      BY <2>1, <2>2, <2>3, <2>4 DEF Bootstrap
  <1>2. CASE at[Inner] = "rebootout"
    BY <1>2, <1>a, PlaceSays DEF Rebootout, Unload, JobOnly
  <1>3. CASE at[Inner] = "rebootstrap"
    <2>1. Rebootstrap(Inner) /\ JobOnly
      BY <1>3, PlaceSays
    <2>2. CASE Goto(Inner, "rebootstrap", "kickstart") /\ CanLoad /\ Load
      BY <2>1, <2>2, <1>c DEF Rebootstrap, Load
    <2>3. CASE Fail(Inner, "rebootstrap")
      BY <2>1, <2>3 DEF Rebootstrap
    <2> QED
      BY <2>1, <2>2, <2>3 DEF Rebootstrap
  <1>4. CASE at[Inner] = "kickstart"
    BY <1>4, <1>b, PlaceSays DEF Kickstart
  <1>5. CASE at[Inner] = "await"
    BY <1>5, <1>b, PlaceSays DEF AwaitReady, AwaitExpires
  <1>6. CASE at[Inner] = "unlock"
    BY <1>6, <1>b, PlaceSays DEF Unlock
  <1> QED
    BY <1>1, <1>2, <1>3, <1>4, <1>5, <1>6, PlaceSays DEF Loads, Ended

\* and the start of a manual daemon launches a process from the path that was replaced.
LEMMA StartsStep ==
  ASSUME Calm, TypeOK, OneDaemon', agent = None, Starts, Command(Inner), Exec,
     UNCHANGED <<previous, binary>>
  PROVE Starts' /\ UNCHANGED agent
  <1> USE DEF TypeOK, Starts, Ended, Goto, Finish, Succeed, Fail, World, OnlyPlace, files, launchd
  <1>1. CASE at[Inner] = "lock"
    BY <1>1, PlaceSays, LockMoves DEF Lock, LockExpires, Emptied, OnlyAlive, Dying, RecordedPid,
       Alive
  <1>2. CASE at[Inner] = "startStatus"
    <2>1. StartStatus(Inner) /\ ~Running(Inner)
      BY <1>2, PlaceSays, StatusIsRecorded DEF Emptied, Alive
    <2> QED
      BY <2>1, <1>2 DEF StartStatus, Emptied, OnlyAlive, Dying, RecordedPid, Alive
  <1>3. CASE at[Inner] = "spawn"
    <2>1. Spawn(Inner) /\ ~loaded
      BY <1>3, PlaceSays DEF Emptied
    <2>2. CASE Fail(Inner, "spawn")
      BY <2>1, <2>2 DEF Spawn
    <2>3. ASSUME NEW d \in Daemons, pc[d] = "new", pc' = [pc EXCEPT ![d] = "boot"],
                 profile' = [profile EXCEPT ![d] = prof[Inner]], child' = [child EXCEPT ![Inner] = d],
                 program' = [program EXCEPT ![d] = exec[Inner]],
                 Goto(Inner, "spawn", "poll")
          PROVE Starts'
      <3>1. Alive(d)' /\ Runs(d, TargetPath)' /\ profile'[d] = previous.profile
        BY <2>3 DEF Alive, Exec, Runs
      <3>2. \A e \in Daemons : Alive(e)' => e = d
        BY <3>1 DEF OneDaemon
      <3> QED
        BY <2>1, <2>3, <3>1, <3>2 DEF Spawn, OnlyAlive
    <2> QED
      BY <2>1, <2>2, <2>3 DEF Spawn
  <1>4. CASE at[Inner] = "poll"
    BY <1>4, PlaceSays DEF PollReady, PollExpires, OnlyAlive, Alive, Exec, Runs
  <1>5. CASE at[Inner] = "unlock"
    BY <1>5, PlaceSays DEF Unlock, OnlyAlive, Alive, Exec, Runs
  <1> QED
    BY <1>1, <1>2, <1>3, <1>4, <1>5, PlaceSays DEF Starts, Ended

\* So every step of an upgrade of a daemon that runs goes on with it: the upgrade's own
\* steps find what the calls have left.
LEMMA ReplacesStep ==
  ASSUME Calm, ~Overlap, UTypeOK, UnloadInv, OneDaemon, OneDaemon', RecordsFollow, CommandsInv,
         previous.running /\ place \in {"stopping", "install", "start", "starting"} => Replaces,
         Environment \/ Verified \/ UpgradeStep,
         previous'.running, place' \in {"stopping", "install", "start", "starting"}
  PROVE Replaces'
  <1> USE DEF UTypeOK
  <1>1. CASE Environment
    <2>1. /\ Replaces /\ Exec /\ UNCHANGED <<place, previous, binary>> /\ InProgress
          /\ place \in {"stopping", "install", "start", "starting"}
      BY <1>1 DEF Environment, DaemonStep, upgradeVars, InProgress
    <2>2. ASSUME Command(Inner) PROVE Replaces'
      <3>1. place \in {"stopping", "starting"}
        BY <2>1, <2>2, PlaceSays DEF UnloadInv, OneAtATime, Idle
      <3>2. CASE place = "stopping" /\ previous.agent
        BY <2>1, <2>2, <3>2, UnloadsStep DEF Replaces
      <3>3. CASE place = "stopping" /\ ~previous.agent
        BY <2>1, <2>2, <3>3, StopsStep DEF Replaces
      <3>4. CASE place = "starting" /\ previous.agent
        BY <2>1, <2>2, <3>4, LoadsStep DEF Replaces
      <3>5. CASE place = "starting" /\ ~previous.agent
        BY <2>1, <2>2, <3>5, StartsStep DEF Replaces
      <3> QED
        BY <3>1, <3>2, <3>3, <3>4, <3>5
    <2> QED
      BY <1>1, <2>1, <2>2, OnlyInner, WorldReplaces
  <1>2. CASE Verified
    BY <1>2 DEF Verified, Move1
  <1>3. CASE StopDaemon
    <2>1. previous' = Recorded /\ Alive(RecordedPid) /\ place' = "stopping"
      BY <1>3 DEF StopDaemon, Move1, Recorded
    <2>2. OnlyAlive(Dying \cup {RecordedPid})
      BY <2>1 DEF OneDaemon, OnlyAlive, RecordedPid, TypeOK, NoState, Alive
    <2>3. CASE agent # None
      <3>1. Call("unload", None)
        BY <1>3, <2>1, <2>3 DEF StopDaemon, Move1, Recorded
      <3>2. Unloads'
        BY <3>1 DEF Call, Entry, Unloads, TypeOK
      <3> QED
        BY <2>1, <2>3, <3>1, <3>2 DEF Replaces, Recorded, Call
    <2>4. CASE agent = None
      <3>1. Call("stop", None) /\ ~loaded
        BY <1>3, <2>1, <2>4 DEF StopDaemon, Move1, Recorded, UnloadInv, LoadedHasPlist
      <3>2. Stops'
        BY <2>2, <3>1 DEF Call, Entry, Stops, OnlyAlive, Dying, RecordedPid, Alive, serveVars,
           files, launchd, TypeOK
      <3> QED
        BY <2>1, <2>4, <3>1, <3>2 DEF Replaces, Recorded, Call
    <2> QED
      BY <2>3, <2>4
  <1>4. CASE Stopped
    <2>1. /\ Replaces /\ place = "stopping" /\ place' = "install" /\ Ended(TRUE)
          /\ UNCHANGED <<vars, previous>>
      BY <1>4 DEF Stopped, Move1, Ended, TypeOK
    <2>2. IF previous.agent THEN JobOnly ELSE Emptied
      BY <2>1 DEF Replaces, Unloads, Stops, Ended
    <2> QED
      BY <2>1, <2>2 DEF Replaces, vars, serveVars, files, launchd, JobOnly, Emptied, OnlyAlive,
         Dying, RecordedPid, Alive
  <1>5. CASE Installed
    <2>1. /\ Replaces /\ place = "install" /\ place' = "start" /\ binary'[TargetPath] = "new"
          /\ UNCHANGED <<vars, previous>>
      BY <1>5 DEF Installed, Move1
    <2> QED
      BY <2>1 DEF Replaces, vars, serveVars, files, launchd, JobOnly, Emptied, OnlyAlive, Dying,
         RecordedPid, Alive
  <1>6. CASE InstallFails
    BY <1>6 DEF InstallFails, Move1
  <1>7. CASE StartDaemon
    <2>1. /\ Replaces /\ place = "start" /\ place' = "starting"
          /\ UNCHANGED <<previous, binary, exe>>
          /\ IF previous.agent THEN Call("load", previous.profile) ELSE Call("start", previous.profile)
      BY <1>7 DEF StartDaemon, Move1
    <2>2. CASE previous.agent
      BY <2>1, <2>2 DEF Replaces, Loads, Call, Entry, serveVars, files, launchd, JobOnly, OnlyAlive,
         Alive, TypeOK
    <2>3. CASE ~previous.agent
      <3>1. Call("start", previous.profile) /\ Emptied
        BY <2>1, <2>3 DEF Replaces
      <3>2. Emptied'
        BY <3>1 DEF Call, serveVars, files, launchd, Emptied, OnlyAlive, Dying, RecordedPid, Alive
      <3>3. /\ at'[Inner] = "lock" /\ op'[Inner] = "start" /\ prof'[Inner] = previous.profile
            /\ exec'[Inner] = TargetPath
        BY <3>1 DEF Call, Entry, TypeOK
      <3> QED
        BY <2>1, <2>3, <3>1, <3>2, <3>3 DEF Replaces, Starts, Call
    <2> QED
      BY <2>2, <2>3
  <1>8. CASE Restarted
    BY <1>8 DEF Restarted, Move1
  <1> QED
    BY <1>1, <1>2, <1>3, <1>4, <1>5, <1>6, <1>7, <1>8 DEF UpgradeStep

\* As long as no two processes have been alive together, the records follow them and
\* an upgrade that has not failed is on its way, whoever crashes and is respawned.
THEOREM ReplaceInvariance == ASSUME Calm, ~Overlap PROVE USpec => []UpgradeInv
  <1>1. UInit => ReplaceInv
    BY DEF UInit, Init, ReplaceInv, OneDaemon, Alive, RecordsFollow, CommandsInv, NoState
  <1>2. UTypeOK /\ Profiled /\ UnloadInv /\ ReplaceInv /\ [UNext]_uvars => ReplaceInv'
    <2> SUFFICES ASSUME UTypeOK, Profiled, UnloadInv, ReplaceInv, [UNext]_uvars PROVE ReplaceInv'
      OBVIOUS
    <2>1. CASE UNCHANGED uvars
      BY <2>1 DEF uvars, upgradeVars, vars, serveVars, cmdVars, files, launchd, ReplaceInv,
         OneDaemon, RecordsFollow,
         CommandsInv, Replaces, Unloads, Stops, Loads, Starts, JobOnly, Emptied, AllRun, Runs, OnlyAlive,
            Ended, Dying,
         RecordedPid, Alive, Awaited
    <2>2. CASE UNext
      <3>1. CASE crowded' \/ place' = "failed"
        BY <3>1 DEF ReplaceInv
      <3>2. CASE ~crowded' /\ place' # "failed"
        <4>1. ~crowded /\ OneDaemon'
          BY <2>2, <3>2 DEF UNext
        <4>2. Environment \/ Verified \/ UpgradeStep
          BY <2>2, <3>2 DEF UNext, InterruptUpgrade
        <4>3. place # "failed"
          BY <4>2, <3>2 DEF Environment, DaemonStep, upgradeVars, Verified, UpgradeStep, StopDaemon,
             Stopped, Installed,
             InstallFails, StartDaemon, Restarted, Move1
        <4>4. /\ OneDaemon /\ RecordsFollow /\ CommandsInv
              /\ previous.running /\ place \in {"stopping", "install", "start", "starting"} => Replaces
          BY <4>1, <4>3 DEF ReplaceInv
        <4>5. RecordsFollow' /\ CommandsInv'
          BY <4>1, <4>2, <4>4, RecordsStep
        <4>6. previous'.running /\ place' \in {"stopping", "install", "start", "starting"} => Replaces'
          BY <4>1, <4>2, <4>4, ReplacesStep
        <4> QED
          BY <4>1, <4>5, <4>6 DEF ReplaceInv
      <3> QED
        BY <3>1, <3>2
    <2> QED
      BY <2>1, <2>2
  <1> QED
    BY <1>1, <1>2, UTyped, UnloadInvariance, InstallInvariance, PTL DEF USpec, UpgradeInv

\* An upgrade succeeds with its last call, if it found a daemon running.
LEMMA SucceedsWith ==
  ASSUME UTypeOK, UNext, Succeeds, previous.running
  PROVE place = "starting" /\ Ended(TRUE)
  BY DEF Succeeds, UNext, Environment, DaemonStep, upgradeVars, Verified, UpgradeStep, StopDaemon,
     Stopped, Installed,
     InstallFails, StartDaemon, Restarted, InterruptUpgrade, Move1, Ended, UTypeOK, TypeOK

\* When an upgrade that found a daemon running reports success, every process that is
\* alive runs what is now at its path: the one that was replaced, or the one in the plist.
THEOREM NoDaemonFromOldBinary == ASSUME Calm, ~Overlap PROVE USpec => NoOldDaemon
  <1> DEFINE Renewed == /\ binary[TargetPath] = "new"
                        /\ AllRun(IF previous.agent THEN agent.program ELSE TargetPath)
  <1>1. UTypeOK /\ ReplaceInv /\ [UNext]_uvars => [Succeeds /\ previous.running /\ ~crowded => Renewed]_uvars
    <2> SUFFICES ASSUME UTypeOK, ReplaceInv, UNext, Succeeds, previous.running, ~crowded PROVE Renewed
      OBVIOUS
    <2>1. place = "starting" /\ Ended(TRUE)
      BY SucceedsWith
    <2>2. /\ binary[TargetPath] = "new"
          /\ IF previous.agent THEN Loads ELSE Starts
      BY <2>1 DEF ReplaceInv, Replaces
    <2> QED
      BY <2>1, <2>2 DEF Loads, Starts, Ended, OnlyAlive, AllRun
  <1> QED
    BY <1>1, UTyped, ReplaceInvariance, PTL DEF NoOldDaemon, USpec, UpgradeInv

\* and the daemon is back: launchd has the service of the plist if it had it before,
\* and otherwise a process was started from the replaced path for the same profile.
THEOREM DaemonReturns == ASSUME Calm, ~Overlap PROVE USpec => DaemonIsBack
  <1>1. UTypeOK /\ ReplaceInv /\ [UNext]_uvars => [Succeeds /\ previous.running /\ ~crowded => Restored]_uvars
    <2> SUFFICES ASSUME UTypeOK, ReplaceInv, UNext, Succeeds, previous.running, ~crowded PROVE Restored
      OBVIOUS
    <2>1. place = "starting" /\ Ended(TRUE)
      BY SucceedsWith
    <2>2. /\ binary[TargetPath] = "new"
          /\ IF previous.agent THEN Loads ELSE Starts
      BY <2>1 DEF ReplaceInv, Replaces
    <2> QED
      BY <2>1, <2>2 DEF Restored, Loads, Starts, Ended, Runs
  <1> QED
    BY <1>1, UTyped, ReplaceInvariance, PTL DEF DaemonIsBack, USpec, UpgradeInv
=============================================================================
