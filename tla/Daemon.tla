-------------------------------- MODULE Daemon --------------------------------
(***************************************************************************)
(* The manual daemon: `daemon serve` processes, the control commands that  *)
(* start, stop and register them, and the three things they share - the    *)
(* PID file, the state file and the control lock.  launchd and the ports   *)
(* are the environment.                                                    *)
(*                                                                         *)
(* A profile's listeners are opened and closed together (StartMulti), so a *)
(* profile has one port here.  os.WriteFile of a record is one step.       *)
(***************************************************************************)
EXTENDS Naturals

CONSTANTS Daemons,   \* process ids of `daemon serve`, each launched at most once
          Cmds,      \* invocations of the control commands
          Ops,       \* the commands that may be given
          Profiles,  \* Surge profiles
          Programs,  \* paths of binaries the commands may be given
          Ports,     \* listening addresses
          Versions,  \* what the managed block of a profile may hold
          PortOf,    \* the port a profile's policies listen on
          None,      \* no process, no file, no policies
          Other,     \* a listener that is not a serve process
          Calm,      \* no deadline expires while what it waits for is under way,
                     \* no command is interrupted, nothing fails without a cause
          Crashes,   \* serve processes may be killed
          Overlap    \* a command may begin while another one runs

AllOps == {"start", "stop", "restart", "ensure", "install", "uninstall"}

\* Those that leave launchd alone.
ManualOps == {"start", "stop", "restart", "ensure"}

\* StopLaunchAgent and StartLaunchAgent on their own, as `upgrade` calls them.
Calls == {"unload", "load"}

\* ProgramArguments of the plist.
Service == [profile : Profiles, program : Programs]

ASSUME DaemonConstants == /\ None \notin Daemons \cup Profiles \cup Programs \cup Versions \cup Cmds
                          /\ None \notin Service
                          /\ Other \notin Daemons \cup {None}
                          /\ Ops \subseteq AllOps
                          /\ PortOf \in [Profiles -> Ports]
                          /\ {Calm, Crashes, Overlap} \subseteq BOOLEAN

VARIABLES
  pc, profile, serves, stop,           \* serve processes
  program,                             \* the path each of them was started from
  at, op, prof, ok, child, target, was,\* commands
  exec,                                \* their ExecPath: --exec, or the path they run from
  lock,                                \* holder of the flock on daemon.lock
  pidFile, stateFile,                  \* daemon.pid, daemon.json
  port,                                \* who listens on each port
  content,                             \* the managed block of each profile
  agent,                               \* what the LaunchAgent plist starts, or None
  loaded, service, job                 \* launchd: the plist it has loaded, its process

serveVars == <<pc, profile, program, serves, stop>>
cmdVars == <<op, prof, exec, ok, child, target, was>>
files == <<pidFile, stateFile>>
launchd == <<loaded, service, job>>
vars == <<serveVars, at, cmdVars, lock, files, port, content, agent, launchd>>

\* stop and uninstall start nothing: they have no --exec.
NoExec == {"stop", "uninstall"}

NoState == [pid |-> None, profile |-> None, policies |-> None]

Alive(d) == d # None /\ pc[d] \notin {"new", "gone"}
JobAlive == job # None /\ Alive(job)
Idle(c) == at[c] \in {"new", "done"}

Init == /\ pc = [d \in Daemons |-> "new"]
        /\ profile = [d \in Daemons |-> None]
        /\ program = [d \in Daemons |-> None]
        /\ serves = [d \in Daemons |-> None]
        /\ stop = [d \in Daemons |-> FALSE]
        /\ at = [c \in Cmds |-> "new"]
        /\ op \in [Cmds -> Ops]
        /\ prof \in [Cmds -> Profiles]
        /\ exec \in [Cmds -> Programs \cup {None}]
        /\ \A c \in Cmds : exec[c] = None <=> op[c] \in NoExec
        /\ ok = [c \in Cmds |-> FALSE]
        /\ child = [c \in Cmds |-> None]
        /\ target = [c \in Cmds |-> None]
        /\ was = [c \in Cmds |-> FALSE]
        /\ lock = None
        /\ pidFile = None
        /\ stateFile = NoState
        /\ port = [q \in Ports |-> None]
        /\ content \in [Profiles -> Versions]
        /\ agent = None
        /\ loaded = FALSE /\ service = None /\ job = None

(***************************************************************************)
(* A serve process                                                         *)
(***************************************************************************)

Move(d, from, to) == pc[d] = from /\ pc' = [pc EXCEPT ![d] = to]
ServeOnly == UNCHANGED <<program, at, cmdVars, lock, content, agent, launchd>>

\* MUTANT: the policies never reach the record.
BootWithoutPolicies(d) == /\ Move(d, "boot", "writePid")
                          /\ UNCHANGED <<profile, serves, stop, files, port>> /\ ServeOnly

\* The process reads the profile, or finds it unusable and ends.  A SIGTERM that
\* is older than the signal handler ends it as well.
Boot(d) == /\ \/ Move(d, "boot", "writePid") /\ serves' = [serves EXCEPT ![d] = content[profile[d]]]
              \/ Move(d, "boot", "gone") /\ (stop[d] \/ ~Calm) /\ UNCHANGED serves
           /\ UNCHANGED <<profile, stop, files, port>> /\ ServeOnly

\* MUTANT: the state file is left as it is.
WritePidOnly(d) == /\ Move(d, "writePid", "bind") /\ pidFile' = d
                   /\ UNCHANGED <<profile, serves, stop, stateFile, port>> /\ ServeOnly

\* writeState writes the PID file first.  Its error ends the process before the
\* cleanup is deferred.
WritePid(d) == /\ \/ Move(d, "writePid", "writeState") /\ pidFile' = d
                  \/ Move(d, "writePid", "gone") /\ ~Calm /\ UNCHANGED pidFile
               /\ UNCHANGED <<profile, serves, stop, stateFile, port>> /\ ServeOnly

WriteState(d) ==
  /\ \/ /\ Move(d, "writeState", "bind")
        /\ stateFile' = [pid |-> d, profile |-> profile[d], policies |-> serves[d]]
     \/ Move(d, "writeState", "gone") /\ ~Calm /\ UNCHANGED stateFile
  /\ UNCHANGED <<profile, serves, stop, pidFile, port>> /\ ServeOnly

\* StartMulti opens the listeners, all or none.
Bind(d) ==
  LET q == PortOf[profile[d]] IN
  /\ \/ Move(d, "bind", "confirm") /\ port[q] = None /\ port' = [port EXCEPT ![q] = d]
     \/ Move(d, "bind", "check") /\ port[q] # None /\ UNCHANGED port
  /\ UNCHANGED <<profile, serves, stop, files>> /\ ServeOnly

\* and waits for their greeting, or gives up and closes them.
Confirm(d) == /\ \/ Move(d, "confirm", "serving") /\ ~stop[d]
                 \/ Move(d, "confirm", "close") /\ (stop[d] \/ ~Calm)
              /\ UNCHANGED <<profile, serves, stop, files, port>> /\ ServeOnly

\* MUTANT: the record is removed, and the process ended, without server.Close.
StopWithoutClose(d) == /\ Move(d, "serving", "check")
                       /\ stop[d]
                       /\ UNCHANGED <<profile, serves, stop, files, port>> /\ ServeOnly

StopServing(d) == /\ Move(d, "serving", "close")
                  /\ stop[d]
                  /\ UNCHANGED <<profile, serves, stop, files, port>> /\ ServeOnly

\* MUTANT: the listeners are not closed.
CloseServerLeaks(d) == /\ Move(d, "close", "check")
                       /\ UNCHANGED <<profile, serves, stop, files, port>> /\ ServeOnly

\* Deferred calls, last first: server.Close, then cleanupState.
CloseServer(d) == /\ Move(d, "close", "check")
                  /\ port' = [port EXCEPT ![PortOf[profile[d]]] = None]
                  /\ UNCHANGED <<profile, serves, stop, files>> /\ ServeOnly

\* cleanupState removes both files if the PID file is its own, or missing.
CheckRecord(d) == /\ \/ Move(d, "check", "removePid") /\ pidFile \in {None, d}
                     \/ Move(d, "check", "gone") /\ pidFile \notin {None, d}
                  /\ UNCHANGED <<profile, serves, stop, files, port>> /\ ServeOnly

RemovePid(d) == /\ Move(d, "removePid", "removeState")
                /\ pidFile' = None
                /\ UNCHANGED <<profile, serves, stop, stateFile, port>> /\ ServeOnly

RemoveState(d) == /\ Move(d, "removeState", "gone")
                  /\ stateFile' = NoState
                  /\ UNCHANGED <<profile, serves, stop, pidFile, port>> /\ ServeOnly

\* SIGKILL or a panic: the record stays, the kernel closes the listeners.
CrashServe(d) == /\ Crashes /\ Alive(d)
                 /\ pc' = [pc EXCEPT ![d] = "gone"]
                 /\ port' = [q \in Ports |-> IF port[q] = d THEN None ELSE port[q]]
                 /\ UNCHANGED <<profile, serves, stop, files>> /\ ServeOnly

Serve(d) == \/ Boot(d) \/ WritePid(d) \/ WriteState(d) \/ Bind(d) \/ Confirm(d)
            \/ StopServing(d) \/ CloseServer(d)
            \/ CheckRecord(d) \/ RemovePid(d) \/ RemoveState(d)

(***************************************************************************)
(* What a command reads                                                    *)
(***************************************************************************)

\* GetStatus: the state file, and without one the PID file and the profile the
\* command was given.
Status(c) ==
  LET pid == IF stateFile.pid # None THEN stateFile.pid ELSE pidFile
  IN [pid |-> pid,
      profile |-> IF stateFile.pid # None THEN stateFile.profile ELSE prof[c],
      policies |-> stateFile.policies,
      running |-> Alive(pid)]

Running(c) == Status(c).running
Stale(c) == Status(c).pid # None /\ ~Running(c)

\* Whoever listens answers the probe; no policies, nothing to probe.
Answered(c) == Status(c).policies = None \/ port[PortOf[Status(c).profile]] # None

\* policyReady: the recorded policies are those the profile holds now.
PolicyReady(c) == /\ Status(c).profile = prof[c]
                  /\ Status(c).policies = content[prof[c]]
                  /\ Answered(c)

(***************************************************************************)
(* The control lock                                                        *)
(***************************************************************************)

\* A step of a command; most steps change nothing but the command's place.
Goto(c, from, to) == at[c] = from /\ at' = [at EXCEPT ![c] = to] /\ UNCHANGED ok
Finish(c, from, result) == /\ at[c] = from
                           /\ at' = [at EXCEPT ![c] = "unlock"]
                           /\ ok' = [ok EXCEPT ![c] = result]
Succeed(c, from) == Finish(c, from, TRUE)
Fail(c, from) == Finish(c, from, FALSE)

World == UNCHANGED <<profile, program, serves, op, prof, exec, port, content>>
OnlyPlace == UNCHANGED <<pc, stop, child, target, was, lock, files, agent, launchd>> /\ World

\* The LaunchAgent commands start without the lock.
Entry(o) == CASE o = "install" -> "installStatus"
              [] o \in {"uninstall", "unload"} -> "outStatus"
              [] o = "load" -> "bootstrap"
              [] OTHER -> "lock"

Begin(c) == /\ Goto(c, "new", Entry(op[c]))
            /\ Overlap \/ \A other \in Cmds : Idle(other)
            /\ OnlyPlace

\* MUTANT: a shared flock.
LockShared(c) == /\ Goto(c, "lock", CASE op[c] \in {"stop", "install"} -> "stopStatus"
                                      [] op[c] = "restart" -> "restartStatus"
                                      [] OTHER -> "startStatus")
                 /\ lock' = c
                 /\ UNCHANGED <<pc, stop, child, target, was, files, agent, launchd>> /\ World

Lock(c) == /\ Goto(c, "lock", CASE op[c] \in {"stop", "install"} -> "stopStatus"
                                [] op[c] = "restart" -> "restartStatus"
                                [] OTHER -> "startStatus")
           /\ lock = None
           /\ lock' = c
           /\ UNCHANGED <<pc, stop, child, target, was, files, agent, launchd>> /\ World

LockExpires(c) == Fail(c, "lock") /\ lock # None /\ ~Calm /\ OnlyPlace

\* MUTANT: a command that fails keeps the lock.
UnlockOnSuccess(c) ==
  /\ Goto(c, "unlock", IF op[c] = "install" /\ lock = c /\ ok[c] THEN "bootstrap" ELSE "done")
  /\ lock' = IF lock = c /\ ok[c] THEN None ELSE lock
  /\ UNCHANGED <<pc, stop, child, target, was, files, agent, launchd>> /\ World

\* The deferred LOCK_UN, if the command has the lock.  The only part of an
\* install that runs under the lock is its call of Stop.
Unlock(c) ==
  /\ Goto(c, "unlock", IF op[c] = "install" /\ lock = c /\ ok[c] THEN "bootstrap" ELSE "done")
  /\ lock' = IF lock = c THEN None ELSE lock
  /\ UNCHANGED <<pc, stop, child, target, was, files, agent, launchd>> /\ World

(***************************************************************************)
(* startLocked, ensureLocked, startFresh                                   *)
(***************************************************************************)

\* startLocked and ensureLocked decide on one GetStatus and one probe, which may
\* go unanswered in its 100 ms.
StartStatus(c) ==
  /\ at[c] = "startStatus"
  /\ \/ Succeed(c, "startStatus") /\ Running(c) /\ PolicyReady(c)
     \/ /\ ~Calm \/ ~Running(c) \/ ~PolicyReady(c)
        /\ IF op[c] = "ensure"
             THEN Goto(c, "startStatus", IF Running(c) THEN "killStatus" ELSE "spawn")
             ELSE \/ Goto(c, "startStatus", "bootstrap") /\ agent # None
                  \/ Goto(c, "startStatus", "spawn") /\ agent = None /\ ~Running(c)
                  \/ Fail(c, "startStatus") /\ agent = None /\ Running(c)
  /\ OnlyPlace

\* cmd.Start of the ExecPath; the process table of the model is finite.
Spawn(c) ==
  /\ \/ /\ Goto(c, "spawn", "poll")
        /\ \E d \in Daemons : /\ pc[d] = "new"
                              /\ pc' = [pc EXCEPT ![d] = "boot"]
                              /\ profile' = [profile EXCEPT ![d] = prof[c]]
                              /\ program' = [program EXCEPT ![d] = exec[c]]
                              /\ child' = [child EXCEPT ![c] = d]
     \/ /\ Fail(c, "spawn")
        /\ ~Calm \/ \A d \in Daemons : pc[d] # "new"
        /\ UNCHANGED <<pc, profile, program, child>>
  /\ UNCHANGED <<serves, stop, op, prof, exec, target, was, lock, files, port, content, agent, launchd>>

\* The loop of startFresh looks at the record, whoever wrote it.
PollReady(c) == /\ Succeed(c, "poll")
                /\ Running(c) /\ Status(c).profile = prof[c] /\ Answered(c)
                /\ OnlyPlace

Terminate(d) == stop' = [stop EXCEPT ![d] = TRUE]

\* Out of time: SIGTERM for the child, which is not waited for.
PollExpires(c) == /\ Fail(c, "poll")
                  /\ ~Calm \/ ~Alive(child[c])
                  /\ Terminate(child[c])
                  /\ UNCHANGED <<pc, child, target, was, lock, files, agent, launchd>> /\ World

(***************************************************************************)
(* Stop, stopLocked, Restart                                               *)
(***************************************************************************)

\* MUTANT: stop signals the process and forgets that launchd keeps it alive.
StopStatusManual(c) == /\ Goto(c, "stopStatus", "killStatus")
                       /\ was' = [was EXCEPT ![c] = Running(c)]
                       /\ UNCHANGED <<pc, stop, child, target, lock, files, agent, launchd>> /\ World

StopStatus(c) == /\ Goto(c, "stopStatus", IF agent # None THEN "outStatus" ELSE "killStatus")
                 /\ was' = [was EXCEPT ![c] = Running(c)]
                 /\ UNCHANGED <<pc, stop, child, target, lock, files, agent, launchd>> /\ World

\* MUTANT: restart leaves a daemon that runs alone.
RestartReuses(c) == Goto(c, "restartStatus", "startStatus") /\ OnlyPlace

RestartStatus(c) ==
  Goto(c, "restartStatus", IF agent # None THEN "outStatus" ELSE "killStatus") /\ OnlyPlace

\* What follows stopLocked in each of its callers.
AfterKill(c, from) == CASE op[c] = "restart" -> Goto(c, from, "startStatus")
                        [] op[c] = "ensure" -> Goto(c, from, "spawn")
                        [] OTHER -> Succeed(c, from)

KillStatus(c) ==
  /\ \/ Goto(c, "killStatus", "signal") /\ Running(c)
     \/ Goto(c, "killStatus", "killRemovePid") /\ Stale(c)
     \/ AfterKill(c, "killStatus") /\ Status(c).pid = None
  /\ target' = [target EXCEPT ![c] = Status(c).pid]
  /\ UNCHANGED <<pc, stop, child, was, lock, files, agent, launchd>> /\ World

\* SIGTERM; a process that is gone already is no error, other errors are.
Signal(c) == /\ \/ Goto(c, "signal", "killWait") /\ Terminate(target[c])
                \/ Fail(c, "signal") /\ ~Calm /\ UNCHANGED stop
             /\ UNCHANGED <<pc, child, target, was, lock, files, agent, launchd>> /\ World

\* MUTANT: the record is removed as soon as the signal is sent.
KillAtOnce(c) == Goto(c, "killWait", "killRemovePid") /\ OnlyPlace

\* The wait is for the record to name no running process.
KillWait(c) == Goto(c, "killWait", "killRemovePid") /\ ~Running(c) /\ OnlyPlace

KillExpires(c) == /\ Fail(c, "killWait")
                  /\ ~Calm \/ (Running(c) /\ ~stop[Status(c).pid])
                  /\ OnlyPlace

\* removeRuntimeFiles.
KillRemovePid(c) == /\ Goto(c, "killRemovePid", "killRemoveState")
                    /\ pidFile' = None
                    /\ UNCHANGED <<pc, stop, child, target, was, lock, stateFile, agent, launchd>>
                    /\ World

KillRemoveState(c) == /\ AfterKill(c, "killRemoveState")
                      /\ stateFile' = NoState
                      /\ UNCHANGED <<pc, stop, child, target, was, lock, pidFile, agent, launchd>>
                      /\ World

(***************************************************************************)
(* StopLaunchAgent and its callers                                         *)
(***************************************************************************)

\* Stop goes on to stopLocked if its own status said that a daemon runs.
AfterOut(c, from) == CASE op[c] = "restart" -> Goto(c, from, "bootstrap")
                       [] op[c] = "uninstall" -> Goto(c, from, "removeAgent")
                       [] OTHER -> IF was[c] THEN Goto(c, from, "killStatus") ELSE Succeed(c, from)

\* MUTANT: without a running daemon there seems nothing to unload.
OutStatusShort(c) ==
  /\ IF agent # None /\ Running(c) THEN Goto(c, "outStatus", "bootout") ELSE AfterOut(c, "outStatus")
  /\ target' = [target EXCEPT ![c] = IF Running(c) THEN Status(c).pid ELSE None]
  /\ UNCHANGED <<pc, stop, child, was, lock, files, agent, launchd>> /\ World

OutStatus(c) == /\ IF agent # None THEN Goto(c, "outStatus", "bootout") ELSE AfterOut(c, "outStatus")
                /\ target' = [target EXCEPT ![c] = IF Running(c) THEN Status(c).pid ELSE None]
                /\ UNCHANGED <<pc, stop, child, was, lock, files, agent, launchd>> /\ World

\* launchctl bootout: the service is unloaded and its process gets SIGTERM.
Unload == /\ loaded' = FALSE
          /\ stop' = IF loaded /\ JobAlive THEN [stop EXCEPT ![job] = TRUE] ELSE stop
          /\ UNCHANGED <<service, job>>

\* "No such process" and "could not find service" are no errors.
Bootout(c) ==
  /\ \/ /\ IF target[c] # None THEN Goto(c, "bootout", "outWait") ELSE AfterOut(c, "bootout")
        /\ Unload
     \/ Fail(c, "bootout") /\ ~Calm /\ UNCHANGED <<stop, launchd>>
  /\ UNCHANGED <<pc, child, target, was, lock, files, agent>> /\ World

OutWait(c) == Goto(c, "outWait", "outRemovePid") /\ ~Alive(target[c]) /\ OnlyPlace

\* MUTANT: waitForStopped has no deadline for a process nobody has signalled.
OutExpiresNever(c) == /\ Fail(c, "outWait")
                      /\ Alive(target[c]) /\ stop[target[c]]
                      /\ OnlyPlace

OutExpires(c) == /\ Fail(c, "outWait")
                 /\ Alive(target[c]) /\ (~Calm \/ ~stop[target[c]])
                 /\ OnlyPlace

OutRemovePid(c) == /\ Goto(c, "outRemovePid", "outRemoveState")
                   /\ pidFile' = None
                   /\ UNCHANGED <<pc, stop, child, target, was, lock, stateFile, agent, launchd>>
                   /\ World

OutRemoveState(c) == /\ AfterOut(c, "outRemoveState")
                     /\ stateFile' = NoState
                     /\ UNCHANGED <<pc, stop, child, target, was, lock, pidFile, agent, launchd>>
                     /\ World

RemoveAgent(c) == /\ \/ Succeed(c, "removeAgent") /\ agent' = None
                     \/ Fail(c, "removeAgent") /\ ~Calm /\ UNCHANGED agent
                  /\ UNCHANGED <<pc, stop, child, target, was, lock, files, launchd>> /\ World

(***************************************************************************)
(* InstallLaunchAgent and StartLaunchAgent                                 *)
(***************************************************************************)

InstallStatus(c) ==
  /\ Goto(c, "installStatus", IF Running(c) /\ agent = None THEN "plistThenStop" ELSE "plist")
  /\ OnlyPlace

\* The plist, with the profile and the ExecPath of the command, is in place before
\* the manual daemon is stopped.
WritePlist(c) ==
  /\ \/ Goto(c, "plistThenStop", "lock") \/ Goto(c, "plist", "bootstrap")
  /\ agent' = [profile |-> prof[c], program |-> exec[c]]
  /\ UNCHANGED <<pc, stop, child, target, was, lock, files, launchd>> /\ World

PlistFails(c) == /\ Fail(c, "plistThenStop") \/ Fail(c, "plist")
                 /\ ~Calm
                 /\ OnlyPlace

\* launchd takes a plist that is there, for a service that is neither loaded nor
\* still on its way out; from then on the file may change.
CanLoad == agent # None /\ ~loaded /\ ~JobAlive
Load == loaded' = TRUE /\ service' = agent /\ job' = None

\* MUTANT: a service that is loaded already is good enough.
BootstrapOnce(c) ==
  /\ \/ Fail(c, "bootstrap") /\ agent = None /\ UNCHANGED launchd
     \/ Goto(c, "bootstrap", "kickstart") /\ ((CanLoad /\ Load) \/ (loaded /\ UNCHANGED launchd))
     \/ Goto(c, "bootstrap", "rebootout") /\ agent # None /\ (~CanLoad \/ ~Calm) /\ UNCHANGED launchd
  /\ UNCHANGED <<pc, stop, child, target, was, lock, files, agent>> /\ World

Bootstrap(c) ==
  /\ \/ Fail(c, "bootstrap") /\ agent = None /\ UNCHANGED launchd
     \/ Goto(c, "bootstrap", "kickstart") /\ CanLoad /\ Load
     \/ Goto(c, "bootstrap", "rebootout") /\ agent # None /\ (~CanLoad \/ ~Calm) /\ UNCHANGED launchd
  /\ UNCHANGED <<pc, stop, child, target, was, lock, files, agent>> /\ World

\* One bootout, its error ignored, and one more try.
Rebootout(c) == /\ Goto(c, "rebootout", "rebootstrap")
                /\ Unload \/ (~Calm /\ UNCHANGED <<stop, launchd>>)
                /\ UNCHANGED <<pc, child, target, was, lock, files, agent>> /\ World

Rebootstrap(c) ==
  /\ \/ Goto(c, "rebootstrap", "kickstart") /\ CanLoad /\ Load
     \/ Fail(c, "rebootstrap") /\ (~CanLoad \/ ~Calm) /\ UNCHANGED launchd
  /\ UNCHANGED <<pc, stop, child, target, was, lock, files, agent>> /\ World

\* kickstart -k ends the running instance; launchd starts the next one.  Without
\* a profile there is nothing to wait for.
Kickstart(c) ==
  /\ \/ /\ IF prof[c] = None THEN Succeed(c, "kickstart") ELSE Goto(c, "kickstart", "await")
        /\ loaded
        /\ stop' = IF JobAlive THEN [stop EXCEPT ![job] = TRUE] ELSE stop
     \/ Fail(c, "kickstart") /\ (~loaded \/ ~Calm) /\ UNCHANGED stop
  /\ UNCHANGED <<pc, child, target, was, lock, files, agent, launchd>> /\ World

AwaitReady(c) == Succeed(c, "await") /\ Running(c) /\ PolicyReady(c) /\ OnlyPlace

\* Nothing is on its way to become the daemon that is waited for.
Hopeless == /\ \A d \in Daemons : pc[d] \in {"new", "serving", "gone"}
            /\ loaded => JobAlive \/ \A d \in Daemons : pc[d] # "new"

AwaitExpires(c) == Fail(c, "await") /\ (~Calm \/ Hopeless) /\ OnlyPlace

(***************************************************************************)
(* The environment                                                         *)
(***************************************************************************)

\* RunAtLoad and KeepAlive of the plist that was loaded.
Respawn(d) == /\ loaded /\ ~JobAlive
              /\ Move(d, "new", "boot")
              /\ profile' = [profile EXCEPT ![d] = service.profile]
              /\ program' = [program EXCEPT ![d] = service.program]
              /\ job' = d
              /\ UNCHANGED <<serves, stop, at, cmdVars, lock, files, port, content, agent, loaded, service>>

\* Ctrl-C on a command: its lock goes with it, its child does not.
Interrupt(c) == /\ ~Calm /\ ~Idle(c)
                /\ at' = [at EXCEPT ![c] = "done"]
                /\ ok' = [ok EXCEPT ![c] = FALSE]
                /\ lock' = IF lock = c THEN None ELSE lock
                /\ UNCHANGED <<pc, stop, child, target, was, files, agent, launchd>> /\ World

EditProfile(p, v) == /\ content[p] # v
                     /\ content' = [content EXCEPT ![p] = v]
                     /\ UNCHANGED <<serveVars, at, cmdVars, lock, files, port, agent, launchd>>

Outsider(q) == /\ \/ port[q] = None /\ port' = [port EXCEPT ![q] = Other]
                  \/ port[q] = Other /\ port' = [port EXCEPT ![q] = None]
               /\ UNCHANGED <<serveVars, at, cmdVars, lock, files, content, agent, launchd>>

Command(c) ==
  \/ Lock(c) \/ LockExpires(c) \/ Unlock(c)
  \/ StartStatus(c) \/ Spawn(c) \/ PollReady(c) \/ PollExpires(c)
  \/ StopStatus(c) \/ RestartStatus(c) \/ KillStatus(c) \/ Signal(c)
  \/ KillWait(c) \/ KillExpires(c) \/ KillRemovePid(c) \/ KillRemoveState(c)
  \/ OutStatus(c) \/ Bootout(c) \/ OutWait(c) \/ OutExpires(c)
  \/ OutRemovePid(c) \/ OutRemoveState(c) \/ RemoveAgent(c)
  \/ InstallStatus(c) \/ WritePlist(c) \/ PlistFails(c)
  \/ Bootstrap(c) \/ Rebootout(c) \/ Rebootstrap(c) \/ Kickstart(c)
  \/ AwaitReady(c) \/ AwaitExpires(c)

Next == \/ \E d \in Daemons : Serve(d) \/ CrashServe(d) \/ Respawn(d)
        \/ \E c \in Cmds : Begin(c) \/ Command(c) \/ Interrupt(c)
        \/ \E p \in Profiles, v \in Versions : EditProfile(p, v)
        \/ \E q \in Ports : Outsider(q)

Spec == Init /\ [][Next]_vars

\* Serve processes and commands are scheduled; launchd starts what it should.
FairSpec == /\ Spec
            /\ \A d \in Daemons : WF_vars(Serve(d)) /\ WF_vars(Respawn(d))
            /\ \A c \in Cmds : WF_vars(Command(c))

-----------------------------------------------------------------------------
(***************************************************************************)
(* Properties                                                              *)
(***************************************************************************)

Starting == {"boot", "writePid", "writeState", "bind", "confirm"}
Ending == {"close", "check", "removePid", "removeState"}
Stages == Starting \cup {"serving"} \cup Ending \cup {"new", "gone"}

\* The steps of a command that run under the control lock.
Locked == {"startStatus", "spawn", "poll", "stopStatus", "restartStatus", "killStatus",
           "signal", "killWait", "killRemovePid", "killRemoveState"}
Places == Locked \cup {"new", "lock", "unlock", "done", "outStatus", "bootout", "outWait",
                       "outRemovePid", "outRemoveState", "removeAgent", "installStatus",
                       "plistThenStop", "plist", "bootstrap", "rebootout", "rebootstrap",
                       "kickstart", "await"}

\* The values the variables take.
TypeOK == /\ pc \in [Daemons -> Stages]
          /\ profile \in [Daemons -> Profiles \cup {None}]
          /\ program \in [Daemons -> Programs \cup {None}]
          /\ serves \in [Daemons -> Versions \cup {None}]
          /\ stop \in [Daemons -> BOOLEAN]
          /\ at \in [Cmds -> Places]
          /\ op \in [Cmds -> AllOps \cup Calls]
          /\ prof \in [Cmds -> Profiles \cup {None}]
          /\ exec \in [Cmds -> Programs \cup {None}]
          /\ ok \in [Cmds -> BOOLEAN]
          /\ child \in [Cmds -> Daemons \cup {None}]
          /\ target \in [Cmds -> Daemons \cup {None}]
          /\ was \in [Cmds -> BOOLEAN]
          /\ lock \in Cmds \cup {None}
          /\ pidFile \in Daemons \cup {None}
          /\ stateFile \in [pid : Daemons, profile : Profiles, policies : Versions] \cup {NoState}
          /\ port \in [Ports -> Daemons \cup {None, Other}]
          /\ content \in [Profiles -> Versions]
          /\ agent \in Service \cup {None}
          /\ loaded \in BOOLEAN
          /\ service \in Service \cup {None}
          /\ job \in Daemons \cup {None}

\* Serve processes take no lock of their own: it is the commands, each reading
\* records that processes write and remove without the lock, that keep two of
\* them from being alive together.
OneDaemon == \A d, e \in Daemons : Alive(d) /\ Alive(e) => d = e

\* A serve process that may have a listener open is the one both files name, so
\* that status, stop and the run command find it.
ListenerRecorded == \A d \in Daemons : pc[d] \in {"bind", "confirm", "serving", "close"} =>
                                         pidFile = d /\ stateFile.pid = d

\* What the proofs rest on, for any commands and deadlines: whoever needs a profile
\* and a program has them.
Profiled == /\ \A d \in Daemons : /\ Alive(d) => profile[d] \in Profiles /\ program[d] \in Programs
                                  /\ pc[d] \notin {"new", "boot", "gone"} => serves[d] \in Versions
            /\ loaded => service \in Service
            /\ \A c \in Cmds : prof[c] = None \/ exec[c] = None =>
                 /\ op[c] = "stop" \/ (op[c] \in Calls \cup NoExec /\ at[c] # "lock")
                 /\ at[c] \notin {"startStatus", "spawn", "restartStatus", "installStatus", "plistThenStop", "plist"}

\* and for a daemon that is started and stopped by hand, by commands that are not
\* cut short:
ByHand == /\ agent = None /\ ~loaded
          /\ \A c \in Cmds : /\ op[c] \in ManualOps
                             /\ at[c] \in Locked \cup {"new", "lock", "unlock", "done"}
                             /\ lock = c <=> at[c] \in Locked \cup {"unlock"}
                             /\ op[c] = "stop" => at[c] \notin {"startStatus", "spawn", "poll", "restartStatus"}

\* where a serve process is says what the files hold, and the start that launched it
\* waits until it is on record;
Awaited(d) == \E c \in Cmds : at[c] = "poll" /\ child[c] = d
FilesFollowServe ==
  \A d \in Daemons :
    /\ pc[d] \in {"new", "boot", "writePid"} => pidFile # d /\ stateFile.pid # d
    /\ pc[d] \in {"boot", "writePid"} => Awaited(d)
    /\ pc[d] = "writeState" => /\ pidFile = d
                               /\ stateFile.pid = None \/ (~Alive(stateFile.pid) /\ Awaited(d))
    /\ pc[d] \in {"bind", "confirm", "serving", "close", "check", "removePid"} =>
         pidFile = d /\ stateFile.pid = d
    /\ pc[d] = "removeState" => pidFile = None /\ stateFile.pid = d

\* a process listens from StartMulti to Close;
PortsFollowServe == \A d \in Daemons, q \in Ports :
                      port[q] = d <=> pc[d] \in {"confirm", "serving", "close"} /\ q = PortOf[profile[d]]

\* and where a command is says who may be alive.
NobodyAlive == \A d \in Daemons : ~Alive(d)
CommandsFollowServe ==
  \A c \in Cmds :
    /\ at[c] = "poll" => child[c] # None /\ \A d \in Daemons : Alive(d) => d = child[c]
    /\ at[c] \in {"spawn", "killRemovePid", "killRemoveState"} => NobodyAlive
    /\ at[c] = "killRemoveState" => pidFile = None
    /\ op[c] = "restart" /\ at[c] = "startStatus" => NobodyAlive
    /\ op[c] = "restart" /\ at[c] = "unlock" /\ ok[c] => child[c] # None
    /\ op[c] = "stop" /\ at[c] = "unlock" /\ ok[c] => NobodyAlive

ManualInv == /\ TypeOK /\ Profiled /\ ByHand
             /\ FilesFollowServe /\ PortsFollowServe /\ CommandsFollowServe

\* Of all the processes, commands and the lock, what is left for somebody who looks
\* at one port and asks for the status: the processes that have begun to write
\* their record, and the record.
Stage(p) == CASE p \in {"new", "boot", "writePid"} -> "new"
              [] p = "writeState" -> "pid"
              [] p = "bind" -> "recorded"
              [] p \in {"confirm", "serving", "close"} -> "up"
              [] p \in {"check", "removePid", "removeState"} -> "closed"
              [] OTHER -> "gone"
Seen(d) == Stage(pc[d]) \notin {"new", "gone"}
OnPort(q, p, policies) == IF p # None /\ PortOf[p] = q THEN policies ELSE None
StageOf == [d \in Daemons |-> Stage(pc[d])]
ProfileOf == [d \in Daemons |-> IF Seen(d) THEN profile[d] ELSE None]
ServesOn(q) == [d \in Daemons |-> IF Seen(d) THEN OnPort(q, profile[d], serves[d]) ELSE None]
RecordOn(q) == [pid |-> IF stateFile.pid # None THEN stateFile.pid ELSE pidFile,
                profile |-> stateFile.profile,
                link |-> OnPort(q, stateFile.profile, stateFile.policies)]
Record(q) == INSTANCE DaemonRecord
               WITH Links <- Versions, Killed <- {}, listener <- port[q], stage <- StageOf,
                    profile <- ProfileOf, serves <- ServesOn(q), record <- RecordOn(q)

\* On every port the daemon keeps the promise that the run command builds on: one
\* process at a time, which alone writes the record, and a command clears the
\* record only when nobody is alive.
KeepsPromise == /\ \A q \in Ports : Record(q)!Init
                /\ [][\A q \in Ports : UNCHANGED Record(q)!vars \/ Record(q)!Next]_vars

\* The step with which a command ends and reports success.
Reports(c, o) == op[c] = o /\ ok[c] /\ ok'[c] /\ at[c] # "done" /\ at'[c] = "done"

\* When `daemon stop` reports success no serve process has a port any more: its
\* wait looks at the record, not at the process it signalled.
StopFreesPorts ==
  [][\A c \in Cmds : Reports(c, "stop") => \A q \in Ports : port[q] \notin Daemons]_vars

\* When `daemon restart` reports success the record is that of the process it
\* started, which has read the profile after the restart began.
RestartReplaces ==
  [][\A c \in Cmds : Reports(c, "restart") =>
       child[c] # None /\ (Alive(child[c]) => pidFile \in {child[c], None})]_vars

\* `daemon stop` finds that there is nothing to stop only when nobody serves, or
\* only somebody who has been told to end.
StopSeesWhoServes ==
  [][\A c \in Cmds : op[c] = "stop" /\ at[c] = "killStatus" /\ at'[c] = "unlock" =>
       \A d \in Daemons : pc[d] = "serving" => stop[d]]_vars

\* A `daemon install` that ends has registered the daemon with launchd.
InstallRegisters == \A c \in Cmds : op[c] = "install" /\ at[c] = "done" => loaded

\* Commands that do not overlap never leave a loaded service behind whose plist
\* is gone, which no later command would unload.
LoadedHasPlist == loaded => agent # None

\* When `daemon stop` reports success launchd will not start the daemon again,
\* although the service is kept alive and its plist stays.
StopUnloads == [][\A c \in Cmds : Reports(c, "stop") => ~loaded]_vars

\* When `daemon install` reports success launchd has the profile and the program of
\* that install, although an earlier service may be loaded, or on its way out,
\* whose plist the command has overwritten under it.
InstallTakesEffect ==
  [][\A c \in Cmds : Reports(c, "install") =>
       loaded /\ service = [profile |-> prof[c], program |-> exec[c]]]_vars

\* Every command ends: each of its loops has a deadline, and every path from the
\* control lock gives it back.
CommandsFinish == \A c \in Cmds : ~Idle(c) ~> at[c] = "done" /\ lock # c

\* A serve process that was told to stop ends, at whatever stage it was, and
\* its port with it.
SignalledDaemonEnds ==
  \A d \in Daemons : Alive(d) /\ stop[d] ~> pc[d] = "gone" /\ \A q \in Ports : port[q] # d
===============================================================================
