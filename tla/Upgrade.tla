------------------------------- MODULE Upgrade -------------------------------
(***************************************************************************)
(* `xcore-bridge upgrade` and the daemon: the upgrade stops the daemon,    *)
(* replaces a binary and starts the daemon again, each with the calls the  *)
(* other commands use, which are commands of Daemon here.  It runs among   *)
(* the user's commands; Releases says which release it installs.           *)
(*                                                                         *)
(* There may be several binaries: the upgrade replaces one, a start runs   *)
(* its ExecPath, and launchd the path that `daemon install' has written    *)
(* into the plist.                                                         *)
(***************************************************************************)
EXTENDS Daemon

CONSTANTS Inner,      \* the command that stands for the upgrade's calls, one after the other
          TargetPath  \* the binary to replace

ASSUME UpgradeConstants == Inner \in Cmds /\ TargetPath \in Programs

VARIABLES place,     \* where the upgrade is
          previous,  \* the daemon.Status that stopDaemonForUpgrade returns
          binary,    \* what is at each path: the old binary, or the new one
          exe,       \* what was at its path when each serve process was started
          crowded    \* history: two serve processes have been alive together

upgradeVars == <<place, previous>>
uvars == <<vars, upgradeVars, binary, exe, crowded>>

Nothing == [running |-> FALSE, agent |-> FALSE, profile |-> None]

UInit == /\ Init
         /\ op[Inner] = "stop"
         /\ place = "idle" /\ previous = Nothing
         /\ binary = [x \in Programs |-> "old"] /\ exe = [d \in Daemons |-> "none"]
         /\ crowded = FALSE

InProgress == place \notin {"idle", "done", "failed"}

\* exec.Command and launchd read the file that is at the path at that moment; a
\* process that runs keeps the one it has.
Exec == exe' = [d \in Daemons |-> IF pc[d] = "new" /\ pc'[d] # "new" THEN binary[program'[d]] ELSE exe[d]]

\* What Daemon does meanwhile.
DaemonStep == Next /\ Exec /\ UNCHANGED <<upgradeVars, binary>>
UserBegins(c) == at[c] = "new" /\ at'[c] # "new"
Environment == /\ DaemonStep
               /\ \A c \in Cmds : UserBegins(c) => c # Inner /\ (Overlap \/ ~InProgress)

(***************************************************************************)
(* The upgrade                                                             *)
(***************************************************************************)

Move1(from, to) == place = from /\ place' = to

\* A call is a command with its own options; only Start gets a path.
Call(o, p) == /\ at' = [at EXCEPT ![Inner] = Entry(o)]
              /\ op' = [op EXCEPT ![Inner] = o]
              /\ prof' = [prof EXCEPT ![Inner] = p]
              /\ exec' = [exec EXCEPT ![Inner] = IF o = "start" THEN TargetPath ELSE None]
              /\ ok' = [ok EXCEPT ![Inner] = FALSE]
              /\ child' = [child EXCEPT ![Inner] = None]
              /\ target' = [target EXCEPT ![Inner] = None]
              /\ was' = [was EXCEPT ![Inner] = FALSE]
              /\ UNCHANGED <<serveVars, lock, files, port, content, agent, launchd>>

\* The archive is there and verified.
Verified == /\ Move1("idle", "status")
            /\ Overlap \/ \A c \in Cmds : Idle(c)
            /\ UNCHANGED <<vars, previous, binary, exe>>

\* GetStatus without a profile.
RecordedPid == IF stateFile.pid # None THEN stateFile.pid ELSE pidFile
Recorded == [running |-> Alive(RecordedPid), agent |-> agent # None, profile |-> stateFile.profile]

\* MUTANT: the daemon keeps running while its binary is replaced.
StopNothing == /\ previous' = Recorded
               /\ Move1("status", "install") /\ UNCHANGED vars
               /\ UNCHANGED <<binary, exe>>

\* stopDaemonForUpgrade: the service that runs is unloaded, a manual daemon and a
\* stale record go through Stop.
StopDaemon ==
  /\ previous' = Recorded
  /\ \/ Move1("status", "stopping") /\ agent # None /\ Recorded.running /\ Call("unload", None)
     \/ Move1("status", "stopping") /\ agent = None /\ RecordedPid # None /\ Call("stop", None)
     \/ Move1("status", "install") /\ ~Recorded.running /\ (agent # None \/ RecordedPid = None)
        /\ UNCHANGED vars
  /\ UNCHANGED <<binary, exe>>

Stopped == /\ at[Inner] = "done"
           /\ Move1("stopping", IF ok[Inner] THEN "install" ELSE "failed")
           /\ UNCHANGED <<vars, previous, binary, exe>>

\* MUTANT: the daemon is not started again.
InstalledOnly == /\ Move1("install", "done")
                 /\ binary' = [binary EXCEPT ![TargetPath] = "new"]
                 /\ UNCHANGED <<vars, previous, exe>>

\* upgradeInstall.  Only a daemon that ran is started again.
Installed == /\ Move1("install", IF previous.running THEN "start" ELSE "done")
             /\ binary' = [binary EXCEPT ![TargetPath] = "new"]
             /\ UNCHANGED <<vars, previous, exe>>

InstallFails == /\ Move1("install", "failed")
                /\ UNCHANGED <<vars, previous, binary, exe>>

\* startDaemonAfterUpgrade; Start refuses an empty profile.
StartDaemon ==
  /\ \/ Move1("start", "starting") /\ previous.agent /\ Call("load", previous.profile)
     \/ /\ Move1("start", "starting") /\ ~previous.agent /\ previous.profile # None
        /\ Call("start", previous.profile)
     \/ Move1("start", "failed") /\ ~previous.agent /\ previous.profile = None /\ UNCHANGED vars
  /\ UNCHANGED <<previous, binary, exe>>

Restarted == /\ at[Inner] = "done"
             /\ Move1("starting", IF ok[Inner] THEN "done" ELSE "failed")
             /\ UNCHANGED <<vars, previous, binary, exe>>

\* Ctrl-C ends the upgrade and the call it is in.
InterruptUpgrade ==
  /\ InProgress
  /\ place' = "failed"
  /\ at' = IF Idle(Inner) THEN at ELSE [at EXCEPT ![Inner] = "done"]
  /\ ok' = [ok EXCEPT ![Inner] = FALSE]
  /\ lock' = IF lock = Inner THEN None ELSE lock
  /\ UNCHANGED <<serveVars, op, prof, exec, child, target, was, files, port, content, agent, launchd, previous, binary, exe>>

UpgradeStep == \/ StopDaemon \/ Stopped \/ Installed \/ InstallFails
               \/ StartDaemon \/ Restarted

UNext == /\ Environment \/ Verified \/ UpgradeStep \/ InterruptUpgrade
         /\ crowded' = (crowded \/ ~OneDaemon')

USpec == UInit /\ [][UNext]_uvars

-----------------------------------------------------------------------------
(***************************************************************************)
(* Properties                                                              *)
(***************************************************************************)

\* The values the variables take.
UTypeOK == /\ TypeOK
           /\ place \in {"idle", "status", "stopping", "install", "start", "starting", "done", "failed"}
           /\ previous \in [running : BOOLEAN, agent : BOOLEAN, profile : Profiles \cup {None}]
           /\ binary \in [Programs -> {"old", "new"}]
           /\ exe \in [Daemons -> {"none", "old", "new"}]
           /\ crowded \in BOOLEAN

\* What the proofs rest on, for any commands and deadlines: commands and the upgrade
\* run one at a time, so that what is between the begin and the end of one of them is
\* not seen by another;
OneAtATime == /\ \A c, other \in Cmds : ~Idle(c) /\ ~Idle(other) => c = other
              /\ InProgress => \A c \in Cmds \ {Inner} : Idle(c)
              /\ place \notin {"stopping", "starting"} => Idle(Inner)

\* and where a command has unloaded the service, or found it unloaded, it stays so.
\* That a stop got there is all that its result says.
Unloading == {"outWait", "outRemovePid", "outRemoveState", "removeAgent"}
Killing == {"killStatus", "signal", "killWait", "killRemovePid", "killRemoveState"}
Stopping == Killing \cup (Unloading \ {"removeAgent"})
              \cup {"new", "lock", "stopStatus", "outStatus", "bootout", "unlock", "done"}
Unloaded(c) == \/ at[c] \in Unloading
               \/ op[c] = "stop" /\ (at[c] \in Killing \/ (at[c] = "unlock" /\ ok[c]))
UnloadInv == /\ OneAtATime /\ LoadedHasPlist
             /\ \A c \in Cmds :
                  /\ Unloaded(c) => ~loaded
                  /\ op[c] = "stop" => at[c] \in Stopping /\ (ok[c] => at[c] \in {"unlock", "done"})

\* An install has its plist in place from the moment it has written it, and the service
\* of that plist once it has loaded it.  Of its steps only those of Stop, which it calls
\* in between, run under the lock.
BeforePlist == {"new", "installStatus", "plistThenStop", "plist"}
OfStop == Killing \cup {"stopStatus", "outStatus", "bootout", "outWait", "outRemovePid", "outRemoveState"}
LoadPlaces == {"bootstrap", "rebootout", "rebootstrap", "kickstart", "await"}
Installing(c) ==
  LET succeeds == at[c] = "unlock" /\ ok[c] IN
  /\ at[c] \in BeforePlist \cup OfStop \cup LoadPlaces \cup {"lock", "unlock", "done"}
  /\ at[c] \in OfStop => lock = c
  /\ at[c] \in BeforePlist \cup LoadPlaces \cup {"lock"} => lock # c
  /\ at[c] \in OfStop \cup LoadPlaces \cup {"lock"} \/ succeeds =>
       agent = [profile |-> prof[c], program |-> exec[c]]
  /\ at[c] \in {"kickstart", "await"} \/ (succeeds /\ lock # c) => loaded /\ service = agent
InstallInv == \A c \in Cmds : op[c] = "install" => Installing(c)

\* For commands that are not cut short, as long as no two serve processes have been
\* alive together: a process that launchd does not look after is on record, or the
\* start that launched it still waits for it;
RecordsFollow ==
  \A d \in Daemons :
    /\ pidFile = d => pc[d] \notin {"new", "boot", "writePid"}
    /\ stateFile.pid = d => pc[d] \notin {"new", "boot", "writePid", "writeState"}
    /\ Alive(d) /\ d # job =>
         \/ stateFile.pid = d
         \/ pc[d] \in {"boot", "writePid"} /\ Awaited(d)
         \/ /\ pc[d] = "writeState" /\ pidFile = d
            /\ stateFile.pid = None \/ (~Alive(stateFile.pid) /\ Awaited(d))

\* where a command waits for a process, or removes a record, nobody else is alive,
\* except the process of the service;
OnlyAlive(S) == \A d \in Daemons : Alive(d) => d \in S
CommandsInv ==
  \A c \in Cmds :
    /\ at[c] \in {"bootout", "outWait"} => OnlyAlive({job, target[c]})
    /\ at[c] \in {"outRemovePid", "outRemoveState", "killRemovePid", "killRemoveState"} => OnlyAlive({job})
    /\ at[c] = "poll" => child[c] # None

\* and the upgrade of a daemon that runs is on its way from the old process to the new
\* one.  A process that removes its state file has forgotten that it exists.
Dying == {d \in Daemons : pc[d] = "removeState"}
Emptied == ~loaded /\ RecordedPid = None /\ OnlyAlive(Dying)
JobOnly == ~loaded /\ OnlyAlive({job})
Runs(d, path) == program[d] = path /\ exe[d] = binary[path]
AllRun(path) == \A d \in Daemons : Alive(d) => Runs(d, path)
Ended(result) == at[Inner] \in {"unlock", "done"} /\ ok[Inner] = result

Unloads == /\ op[Inner] = "unload" /\ ~was[Inner]
           /\ \/ at[Inner] \in {"outStatus", "bootout"}
              \/ at[Inner] \in {"outWait", "outRemovePid", "outRemoveState"} /\ ~loaded
              \/ Ended(TRUE) /\ JobOnly
              \/ Ended(FALSE)
Stops == /\ op[Inner] = "stop" /\ ~loaded
         /\ \/ /\ at[Inner] \in {"lock", "stopStatus", "killStatus", "signal", "killWait"}
               /\ OnlyAlive(Dying \cup {RecordedPid})
            \/ at[Inner] = "killRemovePid" /\ OnlyAlive(Dying)
            \/ at[Inner] = "killRemoveState" /\ OnlyAlive(Dying) /\ pidFile = None
            \/ Ended(TRUE) /\ Emptied
            \/ Ended(FALSE)
Loads == /\ op[Inner] = "load"
         /\ \/ at[Inner] \in {"bootstrap", "rebootout", "rebootstrap"} /\ JobOnly
            \/ /\ at[Inner] \in {"kickstart", "await"} \/ Ended(TRUE)
               /\ loaded /\ service = agent
               /\ AllRun(agent.program)
            \/ Ended(FALSE)
Starts == /\ op[Inner] = "start" /\ prof[Inner] = previous.profile /\ exec[Inner] = TargetPath
          /\ \/ at[Inner] \in {"lock", "startStatus", "spawn"} /\ Emptied
             \/ /\ at[Inner] = "poll" \/ Ended(TRUE)
                /\ child[Inner] \in Daemons /\ OnlyAlive({child[Inner]})
                /\ Runs(child[Inner], TargetPath) /\ profile[child[Inner]] = previous.profile
                /\ ~loaded
             \/ Ended(FALSE)
Replaces == /\ previous.agent <=> agent # None
            /\ place \in {"start", "starting"} => binary[TargetPath] = "new"
            /\ place = "stopping" => IF previous.agent THEN Unloads ELSE Stops
            /\ place \in {"install", "start"} => IF previous.agent THEN JobOnly ELSE Emptied
            /\ place = "starting" => IF previous.agent THEN Loads ELSE Starts
ReplaceInv == \/ crowded \/ place = "failed"
              \/ /\ OneDaemon /\ RecordsFollow /\ CommandsInv
                 /\ previous.running /\ place \in {"stopping", "install", "start", "starting"} => Replaces

\* Together: what the proofs about commands and upgrades one at a time rest on
\* (stopDaemonForUpgrade, startDaemonAfterUpgrade, InstallLaunchAgent, StopLaunchAgent).
UpgradeInv == UnloadInv /\ InstallInv /\ ReplaceInv

Succeeds == place' = "done" /\ place # "done"

\* When an upgrade that found a daemon running reports success, no process runs a
\* binary that has been replaced under it: a manual daemon runs the new binary, and
\* that of launchd what is at the path in its plist, which is the new binary if the
\* upgrade replaced that path, and otherwise one the upgrade has nothing to do with.
\* The upgrade stops the process on record, or the service: the property is about
\* histories in which no two processes were alive together, as they are after an
\* install that failed over a manual daemon, whose plist a later start loads.
NoOldDaemon ==
  [][Succeeds /\ previous.running /\ ~crowded =>
       /\ binary[TargetPath] = "new"
       /\ AllRun(IF previous.agent THEN agent.program ELSE TargetPath)]_uvars

\* and the daemon is back the way it was: launchd has the service of the plist again,
\* or a process has been started from the new binary for the same profile.
Restored == IF previous.agent THEN loaded /\ service = agent
            ELSE \E d \in Daemons : /\ program[d] = TargetPath /\ exe[d] = "new"
                                    /\ profile[d] = previous.profile
DaemonIsBack == [][Succeeds /\ previous.running /\ ~crowded => Restored]_uvars
==============================================================================
