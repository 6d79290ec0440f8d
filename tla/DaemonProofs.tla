---------------------------- MODULE DaemonProofs ----------------------------
(***************************************************************************)
(* Proofs about Daemon, for any processes, commands, profiles and ports.   *)
(*                                                                         *)
(* The types hold whatever is given and whatever expires.  The rest is     *)
(* about commands that leave launchd alone and are not cut short (Calm,    *)
(* Ops \subseteq ManualOps); without that TLC shows how two processes come *)
(* to be alive together.  The argument is ManualInv: a command acts on the *)
(* daemon only while it holds the lock (ByHand); where a process is says   *)
(* what the files hold, and until it is on record the start that launched  *)
(* it waits (FilesFollowServe); so a command that holds the lock and waits *)
(* for nobody finds whoever is alive (OnRecord), launches a process only   *)
(* when nobody is, and removes a record only then (CommandsFollowServe).   *)
(***************************************************************************)
EXTENDS Daemon, TLAPS

USE DaemonConstants

\* The lock goes to a command that then looks at the daemon.
LEMMA LockMoves ==
  ASSUME NEW c, Lock(c)
  PROVE /\ op[c] \in {"stop", "install"} => Goto(c, "lock", "stopStatus")
        /\ op[c] = "restart" => Goto(c, "lock", "restartStatus")
        /\ op[c] \notin {"stop", "install", "restart"} => Goto(c, "lock", "startStatus")
  BY DEF Lock

\* What follows stopLocked, caller by caller.
LEMMA AfterKillMoves ==
  ASSUME NEW c, NEW from, AfterKill(c, from)
  PROVE /\ op[c] = "restart" => Goto(c, from, "startStatus")
        /\ op[c] = "ensure" => Goto(c, from, "spawn")
        /\ op[c] \notin {"restart", "ensure"} => Succeed(c, from)
  BY DEF AfterKill

\* What follows StopLaunchAgent, caller by caller.
LEMMA AfterOutMoves ==
  ASSUME NEW c, NEW from, AfterOut(c, from)
  PROVE /\ op[c] = "restart" => Goto(c, from, "bootstrap")
        /\ op[c] = "uninstall" => Goto(c, from, "removeAgent")
        /\ op[c] \notin {"restart", "uninstall"} => Goto(c, from, "killStatus") \/ Succeed(c, from)
  BY DEF AfterOut

\* A command that moves on has a place to go.
LEMMA GotoTypes ==
  ASSUME TypeOK, NEW c \in Cmds, NEW from, NEW to \in Places, Goto(c, from, to)
  PROVE at' \in [Cmds -> Places] /\ ok' \in [Cmds -> BOOLEAN]
  BY DEF TypeOK, Goto

\* So it does when it ends.
LEMMA FinishTypes ==
  ASSUME TypeOK, NEW c \in Cmds, NEW from, NEW result \in BOOLEAN, Finish(c, from, result)
  PROVE at' \in [Cmds -> Places] /\ ok' \in [Cmds -> BOOLEAN]
  BY DEF TypeOK, Finish, Places

\* Each step keeps the types, as long as whoever needs a profile has one,
LEMMA TypeStep == TypeOK /\ Profiled /\ [Next]_vars => TypeOK'
  <1> SUFFICES ASSUME TypeOK, Profiled, [Next]_vars PROVE TypeOK'
    OBVIOUS
  <1> USE DEF TypeOK, Profiled, Stages, Starting, Ending, Places, Locked, AllOps, Calls, NoExec, Service, Alive,
     NoState
  <1>1. ASSUME NEW d \in Daemons, Boot(d) PROVE TypeOK'
    BY <1>1 DEF Boot, Move, ServeOnly, cmdVars, launchd, files
  <1>2. ASSUME NEW d \in Daemons, WritePid(d) PROVE TypeOK'
    BY <1>2 DEF WritePid, Move, ServeOnly, cmdVars, launchd
  <1>3. ASSUME NEW d \in Daemons, WriteState(d) PROVE TypeOK'
    BY <1>3 DEF WriteState, Move, ServeOnly, cmdVars, launchd
  <1>4. ASSUME NEW d \in Daemons, Bind(d) PROVE TypeOK'
    BY <1>4 DEF Bind, Move, ServeOnly, cmdVars, launchd, files
  <1>5. ASSUME NEW d \in Daemons, Confirm(d) PROVE TypeOK'
    BY <1>5 DEF Confirm, Move, ServeOnly, cmdVars, launchd, files
  <1>6. ASSUME NEW d \in Daemons, StopServing(d) PROVE TypeOK'
    BY <1>6 DEF StopServing, Move, ServeOnly, cmdVars, launchd, files
  <1>7. ASSUME NEW d \in Daemons, CloseServer(d) PROVE TypeOK'
    BY <1>7 DEF CloseServer, Move, ServeOnly, cmdVars, launchd, files
  <1>8. ASSUME NEW d \in Daemons, CheckRecord(d) PROVE TypeOK'
    BY <1>8 DEF CheckRecord, Move, ServeOnly, cmdVars, launchd, files
  <1>9. ASSUME NEW d \in Daemons, RemovePid(d) PROVE TypeOK'
    BY <1>9 DEF RemovePid, Move, ServeOnly, cmdVars, launchd
  <1>10. ASSUME NEW d \in Daemons, RemoveState(d) PROVE TypeOK'
    BY <1>10 DEF RemoveState, Move, ServeOnly, cmdVars, launchd
  <1>11. ASSUME NEW d \in Daemons, CrashServe(d) PROVE TypeOK'
    BY <1>11 DEF CrashServe, ServeOnly, cmdVars, launchd, files
  <1>12. ASSUME NEW d \in Daemons, Respawn(d) PROVE TypeOK'
    BY <1>12 DEF Respawn, Move, cmdVars, files
  <1>13. ASSUME NEW c \in Cmds, Begin(c) PROVE TypeOK'
    BY <1>13 DEF Begin, Goto, World, OnlyPlace, files, launchd, Entry
  <1>14. ASSUME NEW c \in Cmds, Lock(c) PROVE TypeOK'
    BY <1>14 DEF Lock, Goto, World, files, launchd
  <1>15. ASSUME NEW c \in Cmds, LockExpires(c) PROVE TypeOK'
    BY <1>15 DEF LockExpires, Finish, Fail, World, OnlyPlace, files, launchd
  <1>16. ASSUME NEW c \in Cmds, Unlock(c) PROVE TypeOK'
    BY <1>16 DEF Unlock, Goto, World, files, launchd
  <1>17. ASSUME NEW c \in Cmds, StartStatus(c) PROVE TypeOK'
    <2>1. at' \in [Cmds -> Places] /\ ok' \in [Cmds -> BOOLEAN]
      BY <1>17, GotoTypes, FinishTypes DEF StartStatus, Succeed, Fail
    <2> QED
      BY <1>17, <2>1 DEF StartStatus, OnlyPlace, World, files, launchd
  <1>18. ASSUME NEW c \in Cmds, Spawn(c) PROVE TypeOK'
    <2>1. at' \in [Cmds -> Places] /\ ok' \in [Cmds -> BOOLEAN]
      BY <1>18, GotoTypes, FinishTypes DEF Spawn, Succeed, Fail
    <2>2. pc' \in [Daemons -> Stages] /\ profile' \in [Daemons -> Profiles \cup {None}]
      BY <1>18 DEF Spawn
    <2>3. child' \in [Cmds -> Daemons \cup {None}]
      BY <1>18 DEF Spawn
    <2> QED
      BY <1>18, <2>1, <2>2, <2>3 DEF Spawn, OnlyPlace, World, files, launchd
  <1>19. ASSUME NEW c \in Cmds, PollReady(c) PROVE TypeOK'
    BY <1>19 DEF PollReady, Finish, Succeed, World, OnlyPlace, files, launchd
  <1>20. ASSUME NEW c \in Cmds, PollExpires(c) PROVE TypeOK'
    BY <1>20 DEF PollExpires, Finish, Fail, World, files, launchd, Terminate
  <1>21. ASSUME NEW c \in Cmds, StopStatus(c) PROVE TypeOK'
    <2>1. at' \in [Cmds -> Places] /\ ok' \in [Cmds -> BOOLEAN]
      BY <1>21, GotoTypes, FinishTypes DEF StopStatus, Succeed, Fail
    <2>2. was' \in [Cmds -> BOOLEAN]
      BY <1>21 DEF StopStatus, Running, Status, Alive
    <2> QED
      BY <1>21, <2>1, <2>2 DEF StopStatus, OnlyPlace, World, files, launchd
  <1>22. ASSUME NEW c \in Cmds, RestartStatus(c) PROVE TypeOK'
    BY <1>22 DEF RestartStatus, Goto, World, OnlyPlace, files, launchd
  <1>23. ASSUME NEW c \in Cmds, KillStatus(c) PROVE TypeOK'
    <2>1. at' \in [Cmds -> Places] /\ ok' \in [Cmds -> BOOLEAN]
      BY <1>23, GotoTypes, FinishTypes, AfterKillMoves DEF KillStatus, Succeed, Fail
    <2>2. target' \in [Cmds -> Daemons \cup {None}]
      BY <1>23 DEF KillStatus, Status, NoState
    <2> QED
      BY <1>23, <2>1, <2>2 DEF KillStatus, OnlyPlace, World, files, launchd
  <1>24. ASSUME NEW c \in Cmds, Signal(c) PROVE TypeOK'
    BY <1>24 DEF Signal, Goto, Finish, Fail, World, files, launchd, Terminate
  <1>25. ASSUME NEW c \in Cmds, KillWait(c) PROVE TypeOK'
    BY <1>25 DEF KillWait, Goto, World, OnlyPlace, files, launchd
  <1>26. ASSUME NEW c \in Cmds, KillExpires(c) PROVE TypeOK'
    BY <1>26 DEF KillExpires, Finish, Fail, World, OnlyPlace, files, launchd
  <1>27. ASSUME NEW c \in Cmds, KillRemovePid(c) PROVE TypeOK'
    BY <1>27 DEF KillRemovePid, Goto, World, launchd
  <1>28. ASSUME NEW c \in Cmds, KillRemoveState(c) PROVE TypeOK'
    <2>1. at' \in [Cmds -> Places] /\ ok' \in [Cmds -> BOOLEAN]
      BY <1>28, GotoTypes, FinishTypes, AfterKillMoves DEF KillRemoveState, Succeed, Fail
    <2> QED
      BY <1>28, <2>1 DEF KillRemoveState, OnlyPlace, World, files, launchd
  <1>29. ASSUME NEW c \in Cmds, OutStatus(c) PROVE TypeOK'
    <2>1. at' \in [Cmds -> Places] /\ ok' \in [Cmds -> BOOLEAN]
      BY <1>29, GotoTypes, FinishTypes, AfterOutMoves DEF OutStatus, Succeed, Fail
    <2>2. target' \in [Cmds -> Daemons \cup {None}]
      BY <1>29 DEF OutStatus, Status, NoState
    <2> QED
      BY <1>29, <2>1, <2>2 DEF OutStatus, OnlyPlace, World, files, launchd
  <1>30. ASSUME NEW c \in Cmds, Bootout(c) PROVE TypeOK'
    <2>1. at' \in [Cmds -> Places] /\ ok' \in [Cmds -> BOOLEAN]
      BY <1>30, GotoTypes, FinishTypes, AfterOutMoves DEF Bootout, Succeed, Fail
    <2>2. stop' \in [Daemons -> BOOLEAN] /\ loaded' \in BOOLEAN
      BY <1>30 DEF Bootout, Unload, launchd
    <2> QED
      BY <1>30, <2>1, <2>2 DEF Bootout, OnlyPlace, World, files, launchd, Unload
  <1>31. ASSUME NEW c \in Cmds, OutWait(c) PROVE TypeOK'
    BY <1>31 DEF OutWait, Goto, World, OnlyPlace, files, launchd
  <1>32. ASSUME NEW c \in Cmds, OutExpires(c) PROVE TypeOK'
    BY <1>32 DEF OutExpires, Finish, Fail, World, OnlyPlace, files, launchd
  <1>33. ASSUME NEW c \in Cmds, OutRemovePid(c) PROVE TypeOK'
    BY <1>33 DEF OutRemovePid, Goto, World, launchd
  <1>34. ASSUME NEW c \in Cmds, OutRemoveState(c) PROVE TypeOK'
    <2>1. at' \in [Cmds -> Places] /\ ok' \in [Cmds -> BOOLEAN]
      BY <1>34, GotoTypes, FinishTypes, AfterOutMoves DEF OutRemoveState, Succeed, Fail
    <2> QED
      BY <1>34, <2>1 DEF OutRemoveState, OnlyPlace, World, files, launchd
  <1>35. ASSUME NEW c \in Cmds, RemoveAgent(c) PROVE TypeOK'
    BY <1>35 DEF RemoveAgent, Finish, Succeed, Fail, World, files, launchd
  <1>36. ASSUME NEW c \in Cmds, InstallStatus(c) PROVE TypeOK'
    BY <1>36 DEF InstallStatus, Goto, World, OnlyPlace, files, launchd
  <1>37. ASSUME NEW c \in Cmds, WritePlist(c) PROVE TypeOK'
    BY <1>37 DEF WritePlist, Goto, World, files, launchd
  <1>38. ASSUME NEW c \in Cmds, PlistFails(c) PROVE TypeOK'
    BY <1>38 DEF PlistFails, Finish, Fail, World, OnlyPlace, files, launchd
  <1>39. ASSUME NEW c \in Cmds, Bootstrap(c) PROVE TypeOK'
    BY <1>39 DEF Bootstrap, Goto, Finish, Fail, World, files, launchd, Load, CanLoad
  <1>40. ASSUME NEW c \in Cmds, Rebootout(c) PROVE TypeOK'
    BY <1>40 DEF Rebootout, Goto, World, files, launchd, Unload
  <1>41. ASSUME NEW c \in Cmds, Rebootstrap(c) PROVE TypeOK'
    BY <1>41 DEF Rebootstrap, Goto, Finish, Fail, World, files, launchd, Load, CanLoad
  <1>42. ASSUME NEW c \in Cmds, Kickstart(c) PROVE TypeOK'
    <2>1. at' \in [Cmds -> Places] /\ ok' \in [Cmds -> BOOLEAN]
      BY <1>42, GotoTypes, FinishTypes DEF Kickstart, Succeed, Fail
    <2>2. stop' \in [Daemons -> BOOLEAN]
      BY <1>42 DEF Kickstart
    <2> QED
      BY <1>42, <2>1, <2>2 DEF Kickstart, OnlyPlace, World, files, launchd
  <1>43. ASSUME NEW c \in Cmds, AwaitReady(c) PROVE TypeOK'
    BY <1>43 DEF AwaitReady, Finish, Succeed, World, OnlyPlace, files, launchd
  <1>44. ASSUME NEW c \in Cmds, AwaitExpires(c) PROVE TypeOK'
    BY <1>44 DEF AwaitExpires, Finish, Fail, World, OnlyPlace, files, launchd
  <1>45. ASSUME NEW c \in Cmds, Interrupt(c) PROVE TypeOK'
    BY <1>45 DEF Interrupt, World, files, launchd, Idle
  <1>46. ASSUME NEW p \in Profiles, NEW v \in Versions, EditProfile(p, v) PROVE TypeOK'
    BY <1>46 DEF EditProfile, serveVars, cmdVars, files, launchd
  <1>47. ASSUME NEW q \in Ports, Outsider(q) PROVE TypeOK'
    BY <1>47 DEF Outsider, serveVars, cmdVars, files, launchd
  <1>48. CASE UNCHANGED vars
    BY <1>48 DEF vars, serveVars, cmdVars, files, launchd
  <1> HIDE DEF TypeOK, Profiled
  <1> QED
    BY <1>1, <1>2, <1>3, <1>4, <1>5, <1>6, <1>7, <1>8, <1>9, <1>10, <1>11, <1>12, <1>13, <1>14,
       <1>15, <1>16, <1>17, <1>18, <1>19, <1>20, <1>21, <1>22, <1>23, <1>24, <1>25, <1>26,
       <1>27, <1>28, <1>29, <1>30, <1>31, <1>32, <1>33, <1>34, <1>35, <1>36, <1>37, <1>38,
       <1>39, <1>40, <1>41, <1>42, <1>43, <1>44, <1>45, <1>46, <1>47, <1>48
    DEF Next, Serve, Command

\* which each step keeps up.
LEMMA ProfiledStep == TypeOK /\ Profiled /\ TypeOK' /\ [Next]_vars => Profiled'
  <1> SUFFICES ASSUME TypeOK, Profiled, TypeOK', [Next]_vars PROVE Profiled'
    OBVIOUS
  <1> USE DEF TypeOK, Profiled, Stages, Starting, Ending, Places, Locked, AllOps, Calls, NoExec, Service, Alive
  <1>1. ASSUME NEW d \in Daemons, Boot(d) PROVE Profiled'
    BY <1>1 DEF Boot, Move, ServeOnly, cmdVars, launchd, files
  <1>2. ASSUME NEW d \in Daemons, WritePid(d) PROVE Profiled'
    BY <1>2 DEF WritePid, Move, ServeOnly, cmdVars, launchd
  <1>3. ASSUME NEW d \in Daemons, WriteState(d) PROVE Profiled'
    BY <1>3 DEF WriteState, Move, ServeOnly, cmdVars, launchd
  <1>4. ASSUME NEW d \in Daemons, Bind(d) PROVE Profiled'
    BY <1>4 DEF Bind, Move, ServeOnly, cmdVars, launchd, files
  <1>5. ASSUME NEW d \in Daemons, Confirm(d) PROVE Profiled'
    BY <1>5 DEF Confirm, Move, ServeOnly, cmdVars, launchd, files
  <1>6. ASSUME NEW d \in Daemons, StopServing(d) PROVE Profiled'
    BY <1>6 DEF StopServing, Move, ServeOnly, cmdVars, launchd, files
  <1>7. ASSUME NEW d \in Daemons, CloseServer(d) PROVE Profiled'
    BY <1>7 DEF CloseServer, Move, ServeOnly, cmdVars, launchd, files
  <1>8. ASSUME NEW d \in Daemons, CheckRecord(d) PROVE Profiled'
    BY <1>8 DEF CheckRecord, Move, ServeOnly, cmdVars, launchd, files
  <1>9. ASSUME NEW d \in Daemons, RemovePid(d) PROVE Profiled'
    BY <1>9 DEF RemovePid, Move, ServeOnly, cmdVars, launchd
  <1>10. ASSUME NEW d \in Daemons, RemoveState(d) PROVE Profiled'
    BY <1>10 DEF RemoveState, Move, ServeOnly, cmdVars, launchd
  <1>11. ASSUME NEW d \in Daemons, CrashServe(d) PROVE Profiled'
    BY <1>11 DEF CrashServe, ServeOnly, cmdVars, launchd, files
  <1>12. ASSUME NEW d \in Daemons, Respawn(d) PROVE Profiled'
    BY <1>12 DEF Respawn, Move, cmdVars, files
  <1>13. ASSUME NEW c \in Cmds, Begin(c) PROVE Profiled'
    BY <1>13 DEF Begin, Goto, World, OnlyPlace, files, launchd, Entry
  <1>14. ASSUME NEW c \in Cmds, Lock(c) PROVE Profiled'
    <2>1. op[c] = "stop" => Goto(c, "lock", "stopStatus")
      BY <1>14, LockMoves
    <2>2. at[c] = "lock"
      BY <1>14 DEF Lock, Goto
    <2> QED
      BY <1>14, <2>1, <2>2 DEF Lock, Goto, World, files, launchd
  <1>15. ASSUME NEW c \in Cmds, LockExpires(c) PROVE Profiled'
    BY <1>15 DEF LockExpires, Finish, Fail, World, OnlyPlace, files, launchd
  <1>16. ASSUME NEW c \in Cmds, Unlock(c) PROVE Profiled'
    BY <1>16 DEF Unlock, Goto, World, files, launchd
  <1>17. ASSUME NEW c \in Cmds, StartStatus(c) PROVE Profiled'
    BY <1>17 DEF StartStatus, Goto, Finish, Succeed, Fail, World, OnlyPlace, files, launchd
  <1>18. ASSUME NEW c \in Cmds, Spawn(c) PROVE Profiled'
    BY <1>18 DEF Spawn, Goto, Finish, Fail, files, launchd
  <1>19. ASSUME NEW c \in Cmds, PollReady(c) PROVE Profiled'
    BY <1>19 DEF PollReady, Finish, Succeed, World, OnlyPlace, files, launchd
  <1>20. ASSUME NEW c \in Cmds, PollExpires(c) PROVE Profiled'
    BY <1>20 DEF PollExpires, Finish, Fail, World, files, launchd, Terminate
  <1>21. ASSUME NEW c \in Cmds, StopStatus(c) PROVE Profiled'
    BY <1>21 DEF StopStatus, Goto, World, files, launchd
  <1>22. ASSUME NEW c \in Cmds, RestartStatus(c) PROVE Profiled'
    BY <1>22 DEF RestartStatus, Goto, World, OnlyPlace, files, launchd
  <1>23. ASSUME NEW c \in Cmds, KillStatus(c) PROVE Profiled'
    BY <1>23 DEF KillStatus, Goto, Finish, Succeed, World, files, launchd, AfterKill, Status
  <1>24. ASSUME NEW c \in Cmds, Signal(c) PROVE Profiled'
    BY <1>24 DEF Signal, Goto, Finish, Fail, World, files, launchd, Terminate
  <1>25. ASSUME NEW c \in Cmds, KillWait(c) PROVE Profiled'
    BY <1>25 DEF KillWait, Goto, World, OnlyPlace, files, launchd
  <1>26. ASSUME NEW c \in Cmds, KillExpires(c) PROVE Profiled'
    BY <1>26 DEF KillExpires, Finish, Fail, World, OnlyPlace, files, launchd
  <1>27. ASSUME NEW c \in Cmds, KillRemovePid(c) PROVE Profiled'
    BY <1>27 DEF KillRemovePid, Goto, World, launchd
  <1>28. ASSUME NEW c \in Cmds, KillRemoveState(c) PROVE Profiled'
    BY <1>28 DEF KillRemoveState, Goto, Finish, Succeed, World, launchd, AfterKill
  <1>29. ASSUME NEW c \in Cmds, OutStatus(c) PROVE Profiled'
    BY <1>29 DEF OutStatus, Goto, Finish, Succeed, World, files, launchd, AfterOut, Status,
       Running, Alive
  <1>30. ASSUME NEW c \in Cmds, Bootout(c) PROVE Profiled'
    BY <1>30 DEF Bootout, Goto, Finish, Succeed, Fail, World, files, launchd, AfterOut, Unload
  <1>31. ASSUME NEW c \in Cmds, OutWait(c) PROVE Profiled'
    BY <1>31 DEF OutWait, Goto, World, OnlyPlace, files, launchd
  <1>32. ASSUME NEW c \in Cmds, OutExpires(c) PROVE Profiled'
    BY <1>32 DEF OutExpires, Finish, Fail, World, OnlyPlace, files, launchd
  <1>33. ASSUME NEW c \in Cmds, OutRemovePid(c) PROVE Profiled'
    BY <1>33 DEF OutRemovePid, Goto, World, launchd
  <1>34. ASSUME NEW c \in Cmds, OutRemoveState(c) PROVE Profiled'
    BY <1>34 DEF OutRemoveState, Goto, Finish, Succeed, World, launchd, AfterOut
  <1>35. ASSUME NEW c \in Cmds, RemoveAgent(c) PROVE Profiled'
    BY <1>35 DEF RemoveAgent, Finish, Succeed, Fail, World, files, launchd
  <1>36. ASSUME NEW c \in Cmds, InstallStatus(c) PROVE Profiled'
    BY <1>36 DEF InstallStatus, Goto, World, OnlyPlace, files, launchd
  <1>37. ASSUME NEW c \in Cmds, WritePlist(c) PROVE Profiled'
    BY <1>37 DEF WritePlist, Goto, World, files, launchd
  <1>38. ASSUME NEW c \in Cmds, PlistFails(c) PROVE Profiled'
    BY <1>38 DEF PlistFails, Finish, Fail, World, OnlyPlace, files, launchd
  <1>39. ASSUME NEW c \in Cmds, Bootstrap(c) PROVE Profiled'
    BY <1>39 DEF Bootstrap, Goto, Finish, Fail, World, files, launchd, Load, CanLoad
  <1>40. ASSUME NEW c \in Cmds, Rebootout(c) PROVE Profiled'
    BY <1>40 DEF Rebootout, Goto, World, files, launchd, Unload
  <1>41. ASSUME NEW c \in Cmds, Rebootstrap(c) PROVE Profiled'
    BY <1>41 DEF Rebootstrap, Goto, Finish, Fail, World, files, launchd, Load, CanLoad
  <1>42. ASSUME NEW c \in Cmds, Kickstart(c) PROVE Profiled'
    BY <1>42 DEF Kickstart, Goto, Finish, Succeed, Fail, World, files, launchd
  <1>43. ASSUME NEW c \in Cmds, AwaitReady(c) PROVE Profiled'
    BY <1>43 DEF AwaitReady, Finish, Succeed, World, OnlyPlace, files, launchd
  <1>44. ASSUME NEW c \in Cmds, AwaitExpires(c) PROVE Profiled'
    BY <1>44 DEF AwaitExpires, Finish, Fail, World, OnlyPlace, files, launchd
  <1>45. ASSUME NEW c \in Cmds, Interrupt(c) PROVE Profiled'
    BY <1>45 DEF Interrupt, World, files, launchd, Idle
  <1>46. ASSUME NEW p \in Profiles, NEW v \in Versions, EditProfile(p, v) PROVE Profiled'
    BY <1>46 DEF EditProfile, serveVars, cmdVars, files, launchd
  <1>47. ASSUME NEW q \in Ports, Outsider(q) PROVE Profiled'
    BY <1>47 DEF Outsider, serveVars, cmdVars, files, launchd
  <1>48. CASE UNCHANGED vars
    BY <1>48 DEF vars, serveVars, cmdVars, files, launchd
  <1> HIDE DEF TypeOK, Profiled
  <1> QED
    BY <1>1, <1>2, <1>3, <1>4, <1>5, <1>6, <1>7, <1>8, <1>9, <1>10, <1>11, <1>12, <1>13, <1>14,
       <1>15, <1>16, <1>17, <1>18, <1>19, <1>20, <1>21, <1>22, <1>23, <1>24, <1>25, <1>26,
       <1>27, <1>28, <1>29, <1>30, <1>31, <1>32, <1>33, <1>34, <1>35, <1>36, <1>37, <1>38,
       <1>39, <1>40, <1>41, <1>42, <1>43, <1>44, <1>45, <1>46, <1>47, <1>48
    DEF Next, Serve, Command

\* Commands that are not cut short leave a manual daemon to those that hold the lock.
LEMMA ByHandStep == Calm /\ TypeOK /\ TypeOK' /\ ByHand /\ [Next]_vars => ByHand'
  <1> SUFFICES ASSUME Calm, TypeOK, TypeOK', ByHand, [Next]_vars PROVE ByHand'
    OBVIOUS
  <1> USE DEF TypeOK, ByHand, Locked, ManualOps
  <1>1. ASSUME NEW d \in Daemons, Boot(d) PROVE ByHand'
    BY <1>1 DEF Boot, Move, ServeOnly, cmdVars, launchd, files
  <1>2. ASSUME NEW d \in Daemons, WritePid(d) PROVE ByHand'
    BY <1>2 DEF WritePid, Move, ServeOnly, cmdVars, launchd
  <1>3. ASSUME NEW d \in Daemons, WriteState(d) PROVE ByHand'
    BY <1>3 DEF WriteState, Move, ServeOnly, cmdVars, launchd
  <1>4. ASSUME NEW d \in Daemons, Bind(d) PROVE ByHand'
    BY <1>4 DEF Bind, Move, ServeOnly, cmdVars, launchd, files
  <1>5. ASSUME NEW d \in Daemons, Confirm(d) PROVE ByHand'
    BY <1>5 DEF Confirm, Move, ServeOnly, cmdVars, launchd, files
  <1>6. ASSUME NEW d \in Daemons, StopServing(d) PROVE ByHand'
    BY <1>6 DEF StopServing, Move, ServeOnly, cmdVars, launchd, files
  <1>7. ASSUME NEW d \in Daemons, CloseServer(d) PROVE ByHand'
    BY <1>7 DEF CloseServer, Move, ServeOnly, cmdVars, launchd, files
  <1>8. ASSUME NEW d \in Daemons, CheckRecord(d) PROVE ByHand'
    BY <1>8 DEF CheckRecord, Move, ServeOnly, cmdVars, launchd, files
  <1>9. ASSUME NEW d \in Daemons, RemovePid(d) PROVE ByHand'
    BY <1>9 DEF RemovePid, Move, ServeOnly, cmdVars, launchd
  <1>10. ASSUME NEW d \in Daemons, RemoveState(d) PROVE ByHand'
    BY <1>10 DEF RemoveState, Move, ServeOnly, cmdVars, launchd
  <1>11. ASSUME NEW d \in Daemons, CrashServe(d) PROVE ByHand'
    BY <1>11 DEF CrashServe, ServeOnly, cmdVars, launchd, files
  <1>12. ASSUME NEW d \in Daemons, Respawn(d) PROVE ByHand'
    BY <1>12 DEF Respawn, Move, cmdVars, files
  <1>13. ASSUME NEW c \in Cmds, Begin(c) PROVE ByHand'
    BY <1>13 DEF Begin, Goto, World, OnlyPlace, files, launchd, Entry
  <1>14. ASSUME NEW c \in Cmds, Lock(c) PROVE ByHand'
    <2>1. op[c] \in ManualOps
      OBVIOUS
    <2> QED
      BY <1>14, <2>1, LockMoves DEF Lock, Goto, Finish, Succeed, World, files, launchd
  <1>15. ASSUME NEW c \in Cmds, LockExpires(c) PROVE ByHand'
    BY <1>15 DEF LockExpires, Finish, Fail, World, OnlyPlace, files, launchd
  <1>16. ASSUME NEW c \in Cmds, Unlock(c) PROVE ByHand'
    BY <1>16 DEF Unlock, Goto, World, files, launchd
  <1>17. ASSUME NEW c \in Cmds, StartStatus(c) PROVE ByHand'
    BY <1>17 DEF StartStatus, Goto, Finish, Succeed, Fail, World, OnlyPlace, files, launchd
  <1>18. ASSUME NEW c \in Cmds, Spawn(c) PROVE ByHand'
    BY <1>18 DEF Spawn, Goto, Finish, Fail, files, launchd
  <1>19. ASSUME NEW c \in Cmds, PollReady(c) PROVE ByHand'
    BY <1>19 DEF PollReady, Finish, Succeed, World, OnlyPlace, files, launchd
  <1>20. ASSUME NEW c \in Cmds, PollExpires(c) PROVE ByHand'
    BY <1>20 DEF PollExpires, Finish, Fail, World, files, launchd, Terminate
  <1>21. ASSUME NEW c \in Cmds, StopStatus(c) PROVE ByHand'
    BY <1>21 DEF StopStatus, Goto, World, files, launchd
  <1>22. ASSUME NEW c \in Cmds, RestartStatus(c) PROVE ByHand'
    BY <1>22 DEF RestartStatus, Goto, World, OnlyPlace, files, launchd
  <1>23. ASSUME NEW c \in Cmds, KillStatus(c) PROVE ByHand'
    <2>1. op[c] \in ManualOps
      OBVIOUS
    <2> QED
      BY <1>23, <2>1, AfterKillMoves DEF KillStatus, Goto, Finish, Succeed, World, files, launchd
  <1>24. ASSUME NEW c \in Cmds, Signal(c) PROVE ByHand'
    BY <1>24 DEF Signal, Goto, Finish, Fail, World, files, launchd, Terminate
  <1>25. ASSUME NEW c \in Cmds, KillWait(c) PROVE ByHand'
    BY <1>25 DEF KillWait, Goto, World, OnlyPlace, files, launchd
  <1>26. ASSUME NEW c \in Cmds, KillExpires(c) PROVE ByHand'
    BY <1>26 DEF KillExpires, Finish, Fail, World, OnlyPlace, files, launchd
  <1>27. ASSUME NEW c \in Cmds, KillRemovePid(c) PROVE ByHand'
    BY <1>27 DEF KillRemovePid, Goto, World, launchd
  <1>28. ASSUME NEW c \in Cmds, KillRemoveState(c) PROVE ByHand'
    <2>1. op[c] \in ManualOps
      OBVIOUS
    <2> QED
      BY <1>28, <2>1, AfterKillMoves DEF KillRemoveState, Goto, Finish, Succeed, World, files,
         launchd
  <1>29. ASSUME NEW c \in Cmds, OutStatus(c) PROVE ByHand'
    BY <1>29 DEF OutStatus, Goto, Finish, Succeed, World, files, launchd, AfterOut, Status,
       Running, Alive
  <1>30. ASSUME NEW c \in Cmds, Bootout(c) PROVE ByHand'
    BY <1>30 DEF Bootout, Goto, Finish, Succeed, Fail, World, files, launchd, AfterOut, Unload
  <1>31. ASSUME NEW c \in Cmds, OutWait(c) PROVE ByHand'
    BY <1>31 DEF OutWait, Goto, World, OnlyPlace, files, launchd
  <1>32. ASSUME NEW c \in Cmds, OutExpires(c) PROVE ByHand'
    BY <1>32 DEF OutExpires, Finish, Fail, World, OnlyPlace, files, launchd
  <1>33. ASSUME NEW c \in Cmds, OutRemovePid(c) PROVE ByHand'
    BY <1>33 DEF OutRemovePid, Goto, World, launchd
  <1>34. ASSUME NEW c \in Cmds, OutRemoveState(c) PROVE ByHand'
    BY <1>34 DEF OutRemoveState, Goto, Finish, Succeed, World, launchd, AfterOut
  <1>35. ASSUME NEW c \in Cmds, RemoveAgent(c) PROVE ByHand'
    BY <1>35 DEF RemoveAgent, Finish, Succeed, Fail, World, files, launchd
  <1>36. ASSUME NEW c \in Cmds, InstallStatus(c) PROVE ByHand'
    BY <1>36 DEF InstallStatus, Goto, World, OnlyPlace, files, launchd
  <1>37. ASSUME NEW c \in Cmds, WritePlist(c) PROVE ByHand'
    BY <1>37 DEF WritePlist, Goto, World, files, launchd
  <1>38. ASSUME NEW c \in Cmds, PlistFails(c) PROVE ByHand'
    BY <1>38 DEF PlistFails, Finish, Fail, World, OnlyPlace, files, launchd
  <1>39. ASSUME NEW c \in Cmds, Bootstrap(c) PROVE ByHand'
    BY <1>39 DEF Bootstrap, Goto, Finish, Fail, World, files, launchd, Load, CanLoad
  <1>40. ASSUME NEW c \in Cmds, Rebootout(c) PROVE ByHand'
    BY <1>40 DEF Rebootout, Goto, World, files, launchd, Unload
  <1>41. ASSUME NEW c \in Cmds, Rebootstrap(c) PROVE ByHand'
    BY <1>41 DEF Rebootstrap, Goto, Finish, Fail, World, files, launchd, Load, CanLoad
  <1>42. ASSUME NEW c \in Cmds, Kickstart(c) PROVE ByHand'
    BY <1>42 DEF Kickstart, Goto, Finish, Succeed, Fail, World, files, launchd
  <1>43. ASSUME NEW c \in Cmds, AwaitReady(c) PROVE ByHand'
    BY <1>43 DEF AwaitReady, Finish, Succeed, World, OnlyPlace, files, launchd
  <1>44. ASSUME NEW c \in Cmds, AwaitExpires(c) PROVE ByHand'
    BY <1>44 DEF AwaitExpires, Finish, Fail, World, OnlyPlace, files, launchd
  <1>45. ASSUME NEW c \in Cmds, Interrupt(c) PROVE ByHand'
    BY <1>45 DEF Interrupt, World, files, launchd, Idle
  <1>46. ASSUME NEW p \in Profiles, NEW v \in Versions, EditProfile(p, v) PROVE ByHand'
    BY <1>46 DEF EditProfile, serveVars, cmdVars, files, launchd
  <1>47. ASSUME NEW q \in Ports, Outsider(q) PROVE ByHand'
    BY <1>47 DEF Outsider, serveVars, cmdVars, files, launchd
  <1>48. CASE UNCHANGED vars
    BY <1>48 DEF vars, serveVars, cmdVars, files, launchd
  <1> HIDE DEF TypeOK, ByHand
  <1> QED
    BY <1>1, <1>2, <1>3, <1>4, <1>5, <1>6, <1>7, <1>8, <1>9, <1>10, <1>11, <1>12, <1>13, <1>14,
       <1>15, <1>16, <1>17, <1>18, <1>19, <1>20, <1>21, <1>22, <1>23, <1>24, <1>25, <1>26,
       <1>27, <1>28, <1>29, <1>30, <1>31, <1>32, <1>33, <1>34, <1>35, <1>36, <1>37, <1>38,
       <1>39, <1>40, <1>41, <1>42, <1>43, <1>44, <1>45, <1>46, <1>47, <1>48
    DEF Next, Serve, Command

\* What is left of Next when nobody is cut short and launchd is not involved.
HandStep(c) == \/ Lock(c) \/ Unlock(c) \/ StartStatus(c) \/ Spawn(c) \/ PollReady(c) \/ PollExpires(c)
               \/ StopStatus(c) \/ RestartStatus(c) \/ KillStatus(c) \/ Signal(c)
               \/ KillWait(c) \/ KillExpires(c) \/ KillRemovePid(c) \/ KillRemoveState(c)
HandNext == \/ \E d \in Daemons : Serve(d) \/ CrashServe(d)
            \/ \E c \in Cmds : Begin(c) \/ HandStep(c)
            \/ \E p \in Profiles, v \in Versions : EditProfile(p, v)
            \/ \E q \in Ports : Outsider(q)
            \/ UNCHANGED vars

\* The other actions are disabled.
LEMMA HandSteps == Calm /\ ByHand /\ [Next]_vars => HandNext
  <1> SUFFICES ASSUME Calm, ByHand, [Next]_vars PROVE HandNext
    OBVIOUS
  <1>1. \A d \in Daemons : ~Respawn(d)
    BY DEF Respawn, ByHand
  <1>2. \A c \in Cmds : ~Interrupt(c) /\ ~LockExpires(c)
    BY DEF Interrupt, LockExpires
  <1>3. \A c \in Cmds : ~OutStatus(c) /\ ~OutRemoveState(c)
    BY AfterOutMoves DEF OutStatus, OutRemoveState, ByHand, Goto, Succeed, Finish, Locked
  <1>4. \A c \in Cmds : /\ ~Bootout(c) /\ ~OutWait(c) /\ ~OutExpires(c) /\ ~OutRemovePid(c)
                       /\ ~RemoveAgent(c) /\ ~InstallStatus(c) /\ ~WritePlist(c) /\ ~PlistFails(c)
                       /\ ~Bootstrap(c) /\ ~Rebootout(c) /\ ~Rebootstrap(c) /\ ~Kickstart(c)
                       /\ ~AwaitReady(c) /\ ~AwaitExpires(c)
    BY AfterOutMoves DEF Bootout, OutWait, OutExpires, OutRemovePid, RemoveAgent, InstallStatus,
       WritePlist, PlistFails, Bootstrap, Rebootout, Rebootstrap, Kickstart, AwaitReady,
       AwaitExpires, ByHand, Goto, Succeed, Fail, Finish, Locked
  <1> QED
    BY <1>1, <1>2, <1>3, <1>4 DEF Next, Command, HandNext, HandStep

\* A command that has the lock and awaits nobody finds every live process on record.
LEMMA OnRecord ==
  ASSUME TypeOK, ByHand, FilesFollowServe, NEW c \in Cmds, NEW d \in Daemons, Alive(d),
         at[c] \in (Locked \ {"poll"}) \cup {"unlock"}
  PROVE Status(c).pid = d /\ Running(c)
  <1>1. \A e \in Daemons : ~Awaited(e)
    BY DEF Awaited, ByHand, Locked
  <1>2. pc[d] \in Stages \ {"new", "boot", "writePid", "gone"}
    BY <1>1 DEF FilesFollowServe, Alive, TypeOK, Stages, Starting, Ending
  <1>3. stateFile.pid = d \/ (stateFile.pid = None /\ pidFile = d)
    BY <1>1, <1>2 DEF FilesFollowServe, Stages, Starting, Ending
  <1> QED
    BY <1>3 DEF Status, Running, Alive

\* Two processes are never alive together, whatever the commands do.
LEMMA Alone == TypeOK /\ FilesFollowServe /\ CommandsFollowServe => OneDaemon
  <1> SUFFICES ASSUME TypeOK, FilesFollowServe, CommandsFollowServe,
                      NEW d \in Daemons, NEW e \in Daemons, Alive(d), Alive(e)
               PROVE d = e
    BY DEF OneDaemon
  <1>1. ASSUME NEW x \in Daemons, Alive(x), ~Awaited(x)
        PROVE /\ pc[x] = "writeState" => pidFile = x /\ stateFile.pid = None
              /\ pc[x] = "removeState" => pidFile = None /\ stateFile.pid = x
              /\ pc[x] \notin {"writeState", "removeState"} => pidFile = x /\ stateFile.pid = x
    BY <1>1 DEF TypeOK, FilesFollowServe, Alive, Stages, Starting, Ending
  <1>2. CASE Awaited(d) \/ Awaited(e)
    BY <1>2 DEF Awaited, CommandsFollowServe
  <1> QED
    BY <1>1, <1>2

\* A port is opened and closed by the process that listens on it.
LEMMA PortsStep ==
  ASSUME TypeOK, TypeOK', Profiled, ByHand, PortsFollowServe, Calm, [Next]_vars
  PROVE PortsFollowServe'
  <1> USE DEF TypeOK, Profiled, PortsFollowServe
  <1>1. ASSUME NEW d \in Daemons, Boot(d) PROVE PortsFollowServe'
    BY <1>1 DEF Boot, Move, ServeOnly, cmdVars, launchd, files
  <1>2. ASSUME NEW d \in Daemons, WritePid(d) PROVE PortsFollowServe'
    BY <1>2 DEF WritePid, Move, ServeOnly, cmdVars, launchd
  <1>3. ASSUME NEW d \in Daemons, WriteState(d) PROVE PortsFollowServe'
    BY <1>3 DEF WriteState, Move, ServeOnly, cmdVars, launchd
  <1>4. ASSUME NEW d \in Daemons, Bind(d) PROVE PortsFollowServe'
    BY <1>4 DEF Bind, Move, ServeOnly, cmdVars, launchd, files, Alive
  <1>5. ASSUME NEW d \in Daemons, Confirm(d) PROVE PortsFollowServe'
    BY <1>5 DEF Confirm, Move, ServeOnly, cmdVars, launchd, files
  <1>6. ASSUME NEW d \in Daemons, StopServing(d) PROVE PortsFollowServe'
    BY <1>6 DEF StopServing, Move, ServeOnly, cmdVars, launchd, files
  <1>7. ASSUME NEW d \in Daemons, CloseServer(d) PROVE PortsFollowServe'
    BY <1>7 DEF CloseServer, Move, ServeOnly, cmdVars, launchd, files, Alive
  <1>8. ASSUME NEW d \in Daemons, CheckRecord(d) PROVE PortsFollowServe'
    BY <1>8 DEF CheckRecord, Move, ServeOnly, cmdVars, launchd, files
  <1>9. ASSUME NEW d \in Daemons, RemovePid(d) PROVE PortsFollowServe'
    BY <1>9 DEF RemovePid, Move, ServeOnly, cmdVars, launchd
  <1>10. ASSUME NEW d \in Daemons, RemoveState(d) PROVE PortsFollowServe'
    BY <1>10 DEF RemoveState, Move, ServeOnly, cmdVars, launchd
  <1>11. ASSUME NEW d \in Daemons, CrashServe(d) PROVE PortsFollowServe'
    BY <1>11 DEF CrashServe, ServeOnly, cmdVars, launchd, files, Alive
  <1>12. ASSUME NEW c \in Cmds, Begin(c) PROVE PortsFollowServe'
    BY <1>12 DEF Begin, Goto, World, OnlyPlace, files, launchd
  <1>13. ASSUME NEW c \in Cmds, Lock(c) PROVE PortsFollowServe'
    BY <1>13 DEF Lock, Goto, World, files, launchd
  <1>14. ASSUME NEW c \in Cmds, Unlock(c) PROVE PortsFollowServe'
    BY <1>14 DEF Unlock, Goto, World, files, launchd
  <1>15. ASSUME NEW c \in Cmds, StartStatus(c) PROVE PortsFollowServe'
    BY <1>15 DEF StartStatus, Goto, Finish, Succeed, Fail, World, OnlyPlace, files, launchd
  <1>16. ASSUME NEW c \in Cmds, Spawn(c) PROVE PortsFollowServe'
    BY <1>16 DEF Spawn, Goto, Finish, Fail, files, launchd
  <1>17. ASSUME NEW c \in Cmds, PollReady(c) PROVE PortsFollowServe'
    BY <1>17 DEF PollReady, Finish, Succeed, World, OnlyPlace, files, launchd
  <1>18. ASSUME NEW c \in Cmds, PollExpires(c) PROVE PortsFollowServe'
    BY <1>18 DEF PollExpires, Finish, Fail, World, files, launchd, Terminate
  <1>19. ASSUME NEW c \in Cmds, StopStatus(c) PROVE PortsFollowServe'
    BY <1>19 DEF StopStatus, Goto, World, files, launchd
  <1>20. ASSUME NEW c \in Cmds, RestartStatus(c) PROVE PortsFollowServe'
    BY <1>20 DEF RestartStatus, Goto, World, OnlyPlace, files, launchd
  <1>21. ASSUME NEW c \in Cmds, KillStatus(c) PROVE PortsFollowServe'
    BY <1>21 DEF KillStatus, Goto, Finish, Succeed, World, files, launchd, AfterKill, Status
  <1>22. ASSUME NEW c \in Cmds, Signal(c) PROVE PortsFollowServe'
    BY <1>22 DEF Signal, Goto, Finish, Fail, World, files, launchd, Terminate
  <1>23. ASSUME NEW c \in Cmds, KillWait(c) PROVE PortsFollowServe'
    BY <1>23 DEF KillWait, Goto, World, OnlyPlace, files, launchd
  <1>24. ASSUME NEW c \in Cmds, KillExpires(c) PROVE PortsFollowServe'
    BY <1>24 DEF KillExpires, Finish, Fail, World, OnlyPlace, files, launchd
  <1>25. ASSUME NEW c \in Cmds, KillRemovePid(c) PROVE PortsFollowServe'
    BY <1>25 DEF KillRemovePid, Goto, World, launchd
  <1>26. ASSUME NEW c \in Cmds, KillRemoveState(c) PROVE PortsFollowServe'
    BY <1>26 DEF KillRemoveState, Goto, Finish, Succeed, World, launchd, AfterKill
  <1>27. ASSUME NEW p \in Profiles, NEW v \in Versions, EditProfile(p, v) PROVE PortsFollowServe'
    BY <1>27 DEF EditProfile, serveVars, cmdVars, files, launchd
  <1>28. ASSUME NEW q \in Ports, Outsider(q) PROVE PortsFollowServe'
    BY <1>28 DEF Outsider, serveVars, cmdVars, files, launchd
  <1>29. CASE UNCHANGED vars
    BY <1>29 DEF vars, serveVars, cmdVars, files, launchd
  <1> HIDE DEF TypeOK, Profiled, PortsFollowServe
  <1> QED
    BY HandSteps, <1>1, <1>2, <1>3, <1>4, <1>5, <1>6, <1>7, <1>8, <1>9, <1>10, <1>11, <1>12,
       <1>13, <1>14,
       <1>15, <1>16, <1>17, <1>18, <1>19, <1>20, <1>21, <1>22, <1>23, <1>24, <1>25, <1>26,
       <1>27, <1>28, <1>29
    DEF HandNext, Serve, HandStep

\* A process alone writes the files while it is alive, and a start waits for them.
LEMMA FilesStep ==
  ASSUME TypeOK, TypeOK', ByHand, FilesFollowServe, CommandsFollowServe, Calm, [Next]_vars
  PROVE FilesFollowServe'
  <1> USE DEF TypeOK, ByHand, FilesFollowServe, CommandsFollowServe, Awaited, Alive, NobodyAlive
  <1>1. ASSUME NEW d \in Daemons, Boot(d) PROVE FilesFollowServe'
    BY <1>1 DEF Boot, Move, ServeOnly, cmdVars, launchd, files
  <1>2. ASSUME NEW d \in Daemons, WritePid(d) PROVE FilesFollowServe'
    <2>1. pc[d] = "writePid" /\ pc' = [pc EXCEPT ![d] = "writeState"] /\ pidFile' = d
      BY <1>2 DEF WritePid, Move
    <2>2. Awaited(d) /\ stateFile.pid # d /\ \A e \in Daemons : Alive(e) => e = d
      BY <2>1
    <2>3. stateFile.pid \in Daemons \cup {None}
      BY DEF NoState
    <2>4. stateFile.pid # None => ~Alive(stateFile.pid)'
      BY <1>2, <2>1, <2>2, <2>3 DEF WritePid
    <2> QED
      BY <1>2, <2>1, <2>2, <2>4 DEF WritePid, ServeOnly, cmdVars
  <1>3. ASSUME NEW d \in Daemons, WriteState(d) PROVE FilesFollowServe'
    BY <1>3 DEF WriteState, Move, ServeOnly, cmdVars, launchd
  <1>4. ASSUME NEW d \in Daemons, Bind(d) PROVE FilesFollowServe'
    BY <1>4 DEF Bind, Move, ServeOnly, cmdVars, launchd, files
  <1>5. ASSUME NEW d \in Daemons, Confirm(d) PROVE FilesFollowServe'
    BY <1>5 DEF Confirm, Move, ServeOnly, cmdVars, launchd, files
  <1>6. ASSUME NEW d \in Daemons, StopServing(d) PROVE FilesFollowServe'
    BY <1>6 DEF StopServing, Move, ServeOnly, cmdVars, launchd, files
  <1>7. ASSUME NEW d \in Daemons, CloseServer(d) PROVE FilesFollowServe'
    BY <1>7 DEF CloseServer, Move, ServeOnly, cmdVars, launchd, files
  <1>8. ASSUME NEW d \in Daemons, CheckRecord(d) PROVE FilesFollowServe'
    BY <1>8 DEF CheckRecord, Move, ServeOnly, cmdVars, launchd, files
  <1>9. ASSUME NEW d \in Daemons, RemovePid(d) PROVE FilesFollowServe'
    BY <1>9 DEF RemovePid, Move, ServeOnly, cmdVars, launchd
  <1>10. ASSUME NEW d \in Daemons, RemoveState(d) PROVE FilesFollowServe'
    BY <1>10 DEF RemoveState, Move, ServeOnly, cmdVars, launchd, NoState
  <1>11. ASSUME NEW d \in Daemons, CrashServe(d) PROVE FilesFollowServe'
    BY <1>11 DEF CrashServe, ServeOnly, cmdVars, launchd, files
  <1>12. ASSUME NEW c \in Cmds, Begin(c) PROVE FilesFollowServe'
    BY <1>12 DEF Begin, Goto, World, OnlyPlace, files, launchd
  <1>13. ASSUME NEW c \in Cmds, Lock(c) PROVE FilesFollowServe'
    BY <1>13 DEF Lock, Goto, World, files, launchd
  <1>14. ASSUME NEW c \in Cmds, Unlock(c) PROVE FilesFollowServe'
    BY <1>14 DEF Unlock, Goto, World, files, launchd
  <1>15. ASSUME NEW c \in Cmds, StartStatus(c) PROVE FilesFollowServe'
    BY <1>15 DEF StartStatus, Goto, Finish, Succeed, Fail, World, OnlyPlace, files, launchd
  <1>16. ASSUME NEW c \in Cmds, Spawn(c) PROVE FilesFollowServe'
    BY <1>16 DEF Spawn, Goto, Finish, Fail, files, launchd
  <1>17. ASSUME NEW c \in Cmds, PollReady(c) PROVE FilesFollowServe'
    <2>1. at[c] = "poll" /\ \A d \in Daemons : Awaited(d) => d = child[c]
      BY <1>17 DEF PollReady, Succeed, Finish, Locked
    <2>2. \A d \in Daemons : pc[d] \notin {"boot", "writePid"}
      BY <1>17, <2>1 DEF PollReady, Running, Status, NoState
    <2>3. \A d \in Daemons : pc[d] = "writeState" => stateFile.pid = None
      BY <1>17, <2>1 DEF PollReady, Running, Status, NoState
    <2> QED
      BY <1>17, <2>1, <2>2, <2>3 DEF PollReady, Succeed, Finish, OnlyPlace, World, files
  <1>18. ASSUME NEW c \in Cmds, PollExpires(c) PROVE FilesFollowServe'
    BY <1>18 DEF PollExpires, Finish, Fail, World, files, launchd, Terminate, Locked
  <1>19. ASSUME NEW c \in Cmds, StopStatus(c) PROVE FilesFollowServe'
    BY <1>19 DEF StopStatus, Goto, World, files, launchd
  <1>20. ASSUME NEW c \in Cmds, RestartStatus(c) PROVE FilesFollowServe'
    BY <1>20 DEF RestartStatus, Goto, World, OnlyPlace, files, launchd
  <1>21. ASSUME NEW c \in Cmds, KillStatus(c) PROVE FilesFollowServe'
    BY <1>21 DEF KillStatus, Goto, Finish, Succeed, World, files, launchd, AfterKill, Status,
       Locked
  <1>22. ASSUME NEW c \in Cmds, Signal(c) PROVE FilesFollowServe'
    BY <1>22 DEF Signal, Goto, Finish, Fail, World, files, launchd, Terminate
  <1>23. ASSUME NEW c \in Cmds, KillWait(c) PROVE FilesFollowServe'
    BY <1>23 DEF KillWait, Goto, World, OnlyPlace, files, launchd
  <1>24. ASSUME NEW c \in Cmds, KillExpires(c) PROVE FilesFollowServe'
    BY <1>24 DEF KillExpires, Finish, Fail, World, OnlyPlace, files, launchd
  <1>25. ASSUME NEW c \in Cmds, KillRemovePid(c) PROVE FilesFollowServe'
    BY <1>25 DEF KillRemovePid, Goto, World, launchd
  <1>26. ASSUME NEW c \in Cmds, KillRemoveState(c) PROVE FilesFollowServe'
    BY <1>26 DEF KillRemoveState, Goto, Finish, Succeed, World, launchd, AfterKill, NoState
  <1>27. ASSUME NEW p \in Profiles, NEW v \in Versions, EditProfile(p, v) PROVE FilesFollowServe'
    BY <1>27 DEF EditProfile, serveVars, cmdVars, files, launchd
  <1>28. ASSUME NEW q \in Ports, Outsider(q) PROVE FilesFollowServe'
    BY <1>28 DEF Outsider, serveVars, cmdVars, files, launchd
  <1>29. CASE UNCHANGED vars
    BY <1>29 DEF vars, serveVars, cmdVars, files, launchd
  <1> HIDE DEF TypeOK, ByHand, FilesFollowServe, CommandsFollowServe, Awaited, Alive, NobodyAlive
  <1> QED
    BY HandSteps, <1>1, <1>2, <1>3, <1>4, <1>5, <1>6, <1>7, <1>8, <1>9, <1>10, <1>11, <1>12,
       <1>13, <1>14,
       <1>15, <1>16, <1>17, <1>18, <1>19, <1>20, <1>21, <1>22, <1>23, <1>24, <1>25, <1>26,
       <1>27, <1>28, <1>29
    DEF HandNext, Serve, HandStep

\* A status that says running is about somebody alive.
LEMMA RunningAlive ==
  ASSUME TypeOK, NEW c \in Cmds, Running(c)
  PROVE ~NobodyAlive
  <1>1. Status(c).pid \in Daemons \cup {None}
    BY DEF TypeOK, Status, NoState
  <1> QED
    BY <1>1 DEF Running, Status, NobodyAlive, Alive

\* A command acts on the daemon under the lock, so nobody else changes who is alive.
LEMMA CommandsStep ==
  ASSUME TypeOK, TypeOK', ByHand, FilesFollowServe, CommandsFollowServe, Calm, [Next]_vars
  PROVE CommandsFollowServe'
  <1> USE DEF TypeOK, ByHand, CommandsFollowServe, Alive, NobodyAlive
  <1>1. ASSUME NEW d \in Daemons, Boot(d) PROVE CommandsFollowServe'
    BY <1>1 DEF Boot, Move, ServeOnly, cmdVars, launchd, files
  <1>2. ASSUME NEW d \in Daemons, WritePid(d) PROVE CommandsFollowServe'
    BY <1>2 DEF WritePid, Move, ServeOnly, cmdVars, launchd
  <1>3. ASSUME NEW d \in Daemons, WriteState(d) PROVE CommandsFollowServe'
    BY <1>3 DEF WriteState, Move, ServeOnly, cmdVars, launchd
  <1>4. ASSUME NEW d \in Daemons, Bind(d) PROVE CommandsFollowServe'
    BY <1>4 DEF Bind, Move, ServeOnly, cmdVars, launchd, files
  <1>5. ASSUME NEW d \in Daemons, Confirm(d) PROVE CommandsFollowServe'
    BY <1>5 DEF Confirm, Move, ServeOnly, cmdVars, launchd, files
  <1>6. ASSUME NEW d \in Daemons, StopServing(d) PROVE CommandsFollowServe'
    BY <1>6 DEF StopServing, Move, ServeOnly, cmdVars, launchd, files
  <1>7. ASSUME NEW d \in Daemons, CloseServer(d) PROVE CommandsFollowServe'
    BY <1>7 DEF CloseServer, Move, ServeOnly, cmdVars, launchd, files
  <1>8. ASSUME NEW d \in Daemons, CheckRecord(d) PROVE CommandsFollowServe'
    BY <1>8 DEF CheckRecord, Move, ServeOnly, cmdVars, launchd, files
  <1>9. ASSUME NEW d \in Daemons, RemovePid(d) PROVE CommandsFollowServe'
    BY <1>9 DEF RemovePid, Move, ServeOnly, cmdVars, launchd
  <1>10. ASSUME NEW d \in Daemons, RemoveState(d) PROVE CommandsFollowServe'
    BY <1>10 DEF RemoveState, Move, ServeOnly, cmdVars, launchd
  <1>11. ASSUME NEW d \in Daemons, CrashServe(d) PROVE CommandsFollowServe'
    BY <1>11 DEF CrashServe, ServeOnly, cmdVars, launchd, files
  <1>12. ASSUME NEW c \in Cmds, Begin(c) PROVE CommandsFollowServe'
    BY <1>12 DEF Begin, Goto, World, OnlyPlace, files, launchd, Entry
  <1>13. ASSUME NEW c \in Cmds, Lock(c) PROVE CommandsFollowServe'
    BY <1>13 DEF Lock, Goto, World, files, launchd
  <1>14. ASSUME NEW c \in Cmds, Unlock(c) PROVE CommandsFollowServe'
    BY <1>14 DEF Unlock, Goto, World, files, launchd
  <1>15. ASSUME NEW c \in Cmds, StartStatus(c) PROVE CommandsFollowServe'
    <2>1. at[c] = "startStatus" /\ op[c] # "stop" /\ pc' = pc /\ op' = op /\ child' = child
      BY <1>15 DEF StartStatus, OnlyPlace, World
    <2>2. ~Running(c) => NobodyAlive
      BY <2>1, OnRecord DEF Locked
    <2>3. CASE Running(c)
      BY <1>15, <2>1, <2>3, RunningAlive DEF StartStatus, Succeed, Fail, Finish, Goto
    <2>4. CASE ~Running(c)
      BY <1>15, <2>1, <2>2, <2>4 DEF StartStatus, Succeed, Fail, Finish, Goto
    <2> QED
      BY <2>3, <2>4
  <1>16. ASSUME NEW c \in Cmds, Spawn(c) PROVE CommandsFollowServe'
    BY <1>16 DEF Spawn, Goto, Finish, Fail, files, launchd
  <1>17. ASSUME NEW c \in Cmds, PollReady(c) PROVE CommandsFollowServe'
    BY <1>17 DEF PollReady, Finish, Succeed, World, OnlyPlace, files, launchd
  <1>18. ASSUME NEW c \in Cmds, PollExpires(c) PROVE CommandsFollowServe'
    BY <1>18 DEF PollExpires, Finish, Fail, World, files, launchd, Terminate, Locked
  <1>19. ASSUME NEW c \in Cmds, StopStatus(c) PROVE CommandsFollowServe'
    BY <1>19 DEF StopStatus, Goto, World, files, launchd
  <1>20. ASSUME NEW c \in Cmds, RestartStatus(c) PROVE CommandsFollowServe'
    BY <1>20 DEF RestartStatus, Goto, World, OnlyPlace, files, launchd
  <1>21. ASSUME NEW c \in Cmds, KillStatus(c) PROVE CommandsFollowServe'
    <2>1. at[c] = "killStatus" /\ pc' = pc /\ op' = op /\ child' = child
      BY <1>21, AfterKillMoves DEF KillStatus, World, Goto, Succeed, Finish
    <2>2. ~Running(c) => NobodyAlive
      BY <2>1, OnRecord DEF Locked
    <2>3. CASE Goto(c, "killStatus", "signal")
      BY <2>1, <2>3 DEF Goto
    <2>4. CASE Goto(c, "killStatus", "killRemovePid") /\ Stale(c)
      BY <2>1, <2>2, <2>4 DEF Goto, Stale
    <2>5. CASE AfterKill(c, "killStatus") /\ Status(c).pid = None
      <3>1. NobodyAlive
        BY <2>2, <2>5 DEF Running, Status
      <3> QED
        BY <2>1, <2>5, <3>1, AfterKillMoves DEF Goto, Succeed, Finish
    <2> QED
      BY <1>21, <2>3, <2>4, <2>5 DEF KillStatus
  <1>22. ASSUME NEW c \in Cmds, Signal(c) PROVE CommandsFollowServe'
    BY <1>22 DEF Signal, Goto, Finish, Fail, World, files, launchd, Terminate
  <1>23. ASSUME NEW c \in Cmds, KillWait(c) PROVE CommandsFollowServe'
    <2>1. NobodyAlive
      BY <1>23, OnRecord DEF KillWait, Goto, Locked
    <2> QED
      BY <1>23, <2>1 DEF KillWait, Goto, OnlyPlace, World
  <1>24. ASSUME NEW c \in Cmds, KillExpires(c) PROVE CommandsFollowServe'
    BY <1>24 DEF KillExpires, Finish, Fail, World, OnlyPlace, files, launchd
  <1>25. ASSUME NEW c \in Cmds, KillRemovePid(c) PROVE CommandsFollowServe'
    BY <1>25 DEF KillRemovePid, Goto, World, launchd
  <1>26. ASSUME NEW c \in Cmds, KillRemoveState(c) PROVE CommandsFollowServe'
    BY <1>26 DEF KillRemoveState, Goto, Finish, Succeed, World, launchd, AfterKill, Locked
  <1>27. ASSUME NEW p \in Profiles, NEW v \in Versions, EditProfile(p, v) PROVE CommandsFollowServe'
    BY <1>27 DEF EditProfile, serveVars, cmdVars, files, launchd
  <1>28. ASSUME NEW q \in Ports, Outsider(q) PROVE CommandsFollowServe'
    BY <1>28 DEF Outsider, serveVars, cmdVars, files, launchd
  <1>29. CASE UNCHANGED vars
    BY <1>29 DEF vars, serveVars, cmdVars, files, launchd
  <1> HIDE DEF TypeOK, ByHand, CommandsFollowServe, Alive, NobodyAlive
  <1> QED
    BY HandSteps, <1>1, <1>2, <1>3, <1>4, <1>5, <1>6, <1>7, <1>8, <1>9, <1>10, <1>11, <1>12,
       <1>13, <1>14,
       <1>15, <1>16, <1>17, <1>18, <1>19, <1>20, <1>21, <1>22, <1>23, <1>24, <1>25, <1>26,
       <1>27, <1>28, <1>29
    DEF HandNext, Serve, HandStep

\* Nobody runs at the start, and every command has its profile.
LEMMA InitTyped == Init => TypeOK /\ Profiled
  <1> SUFFICES ASSUME Init PROVE TypeOK /\ Profiled
    OBVIOUS
  <1>1. op \in [Cmds -> AllOps \cup Calls] /\ prof \in [Cmds -> Profiles \cup {None}]
    <2>1. op \in [Cmds -> Ops] /\ prof \in [Cmds -> Profiles]
      BY DEF Init
    <2> QED
      BY <2>1
  <1>2. \A c \in Cmds : prof[c] \in Profiles
    BY DEF Init
  <1>3. TypeOK
    BY <1>1 DEF Init, TypeOK, Stages, Places
  <1>4. Profiled
    BY <1>2 DEF Init, Profiled, Alive
  <1> QED
    BY <1>3, <1>4

\* Types hold for every command and deadline.
LEMMA Typed == Spec => [](TypeOK /\ Profiled)
  <1>1. Init => TypeOK /\ Profiled
    BY InitTyped
  <1>2. TypeOK /\ Profiled /\ [Next]_vars => (TypeOK /\ Profiled)'
    BY TypeStep, ProfiledStep
  <1> QED
    BY <1>1, <1>2, PTL DEF Spec

\* Every variable keeps its type, for all commands, deadlines and crashes.
THEOREM DaemonTyped == Spec => []TypeOK
  BY Typed, PTL

\* The invariant of the manual daemon holds at the start and every step keeps it.
THEOREM ManualInvariance ==
  ASSUME Calm, Ops \subseteq ManualOps
  PROVE Spec => []ManualInv
  <1>1. Init => ManualInv
    <2> SUFFICES ASSUME Init PROVE ManualInv
      OBVIOUS
    <2>1. \A c \in Cmds : op[c] \in ManualOps /\ at[c] = "new"
      BY DEF Init
    <2>2. \A d \in Daemons : pc[d] = "new"
      BY DEF Init
    <2>3. ByHand
      BY <2>1 DEF Init, ByHand, Locked
    <2>4. FilesFollowServe /\ PortsFollowServe /\ CommandsFollowServe
      BY <2>1, <2>2 DEF Init, FilesFollowServe, PortsFollowServe, CommandsFollowServe, NoState
    <2> QED
      BY <2>3, <2>4, InitTyped DEF ManualInv
  <1>2. ManualInv /\ [Next]_vars => ManualInv'
    BY TypeStep, ProfiledStep, ByHandStep, FilesStep, PortsStep, CommandsStep DEF ManualInv
  <1> QED
    BY <1>1, <1>2, PTL DEF Spec

\* Two serve processes are never alive together, for any number of commands that
\* overlap, are not cut short and leave launchd alone.
THEOREM OneDaemonOnly ==
  ASSUME Calm, Ops \subseteq ManualOps
  PROVE Spec => []OneDaemon
  <1>1. ManualInv => OneDaemon
    BY Alone DEF ManualInv
  <1> QED
    BY <1>1, ManualInvariance, PTL

\* Under the same commands, a process that may listen is on record in both files.
THEOREM ListenerOnFile ==
  ASSUME Calm, Ops \subseteq ManualOps
  PROVE Spec => []ListenerRecorded
  <1>1. ManualInv => ListenerRecorded
    BY DEF ManualInv, FilesFollowServe, ListenerRecorded
  <1> QED
    BY <1>1, ManualInvariance, PTL

\* A command that ends does so at the unlock.
LEMMA ReportsAtUnlock ==
  ASSUME Calm, ManualInv, [Next]_vars, NEW c \in Cmds, at[c] # "done", at'[c] = "done"
  PROVE at[c] = "unlock" /\ Unlock(c)
  <1> SUFFICES ASSUME at' # at PROVE Unlock(c)
    BY DEF Unlock, Goto
  <1> USE DEF ManualInv, TypeOK, ByHand, Locked
  <1>1. PICK x \in Cmds : Begin(x) \/ HandStep(x)
    BY HandSteps DEF HandNext, Serve, CrashServe, EditProfile, Outsider, vars, Boot, WritePid,
       WriteState, Bind, Confirm, StopServing, CloseServer, CheckRecord, RemovePid, RemoveState,
       ServeOnly
  <1>2. ASSUME ~Unlock(x) PROVE \A y \in Cmds : at'[y] = "done" => at[y] = "done"
    BY <1>1, <1>2, AfterKillMoves, LockMoves DEF HandStep, Begin, Entry, StartStatus, Spawn,
       PollReady,
       PollExpires, StopStatus, RestartStatus, KillStatus, Signal, KillWait, KillExpires,
       KillRemovePid, KillRemoveState, Goto, Succeed, Fail, Finish
  <1> QED
    BY <1>2 DEF Unlock, Goto

\* When stop reports success no serve process listens anywhere: its wait ends only
\* when nobody is on record, and whoever is alive is.
THEOREM StopLeavesNoListener ==
  ASSUME Calm, Ops \subseteq ManualOps
  PROVE Spec => StopFreesPorts
  <1> DEFINE Freed == \A c \in Cmds : Reports(c, "stop") => \A q \in Ports : port[q] \notin Daemons
  <1>1. ManualInv /\ [Next]_vars => Freed
    <2> SUFFICES ASSUME ManualInv, [Next]_vars, NEW c \in Cmds, Reports(c, "stop"), NEW q \in Ports
                 PROVE port[q] \notin Daemons
      OBVIOUS
    <2>1. NobodyAlive
      BY ReportsAtUnlock DEF Reports, ManualInv, CommandsFollowServe
    <2> QED
      BY <2>1 DEF NobodyAlive, Alive, ManualInv, PortsFollowServe
  <1> QED
    BY <1>1, ManualInvariance, PTL DEF Spec, StopFreesPorts

\* When restart reports success its own child is the daemon, as long as it lives.
THEOREM RestartIsNew ==
  ASSUME Calm, Ops \subseteq ManualOps
  PROVE Spec => RestartReplaces
  <1> DEFINE Replaced == \A c \in Cmds : Reports(c, "restart") =>
                           child[c] # None /\ (Alive(child[c]) => pidFile \in {child[c], None})
  <1>1. ManualInv /\ [Next]_vars => Replaced
    <2> SUFFICES ASSUME ManualInv, [Next]_vars, NEW c \in Cmds, Reports(c, "restart")
                 PROVE child[c] # None /\ (Alive(child[c]) => pidFile \in {child[c], None})
      OBVIOUS
    <2>1. at[c] = "unlock" /\ child[c] \in Daemons
      BY ReportsAtUnlock DEF Reports, ManualInv, TypeOK, CommandsFollowServe
    <2>2. \A d \in Daemons : ~Awaited(d)
      BY <2>1 DEF Awaited, ManualInv, ByHand, Locked
    <2>3. ASSUME Alive(child[c]) PROVE pidFile \in {child[c], None}
      BY <2>1, <2>2, <2>3 DEF ManualInv, TypeOK, FilesFollowServe, Alive, Stages, Starting, Ending
    <2> QED
      BY <2>1, <2>3
  <1> QED
    BY <1>1, ManualInvariance, PTL DEF Spec, RestartReplaces

-----------------------------------------------------------------------------
(***************************************************************************)
(* Daemon implements DaemonRecord, action by action.                       *)
(***************************************************************************)

\* The stages, one by one.
LEMMA StageIs ==
  ASSUME NEW p
  PROVE /\ p \in {"new", "boot", "writePid"} => Stage(p) = "new"
        /\ p = "writeState" => Stage(p) = "pid"
        /\ p = "bind" => Stage(p) = "recorded"
        /\ p \in {"confirm", "serving", "close"} => Stage(p) = "up"
        /\ p \in {"check", "removePid", "removeState"} => Stage(p) = "closed"
        /\ p = "gone" => Stage(p) = "gone"
  <1>1. p \in {"new", "boot", "writePid"} => Stage(p) = "new"
    BY Zenon DEF Stage
  <1>2. p = "writeState" => Stage(p) = "pid"
    BY Zenon DEF Stage
  <1>3. p = "bind" => Stage(p) = "recorded"
    BY Zenon DEF Stage
  <1>4. p \in {"confirm", "serving", "close"} => Stage(p) = "up"
    BY Zenon DEF Stage
  <1>5. p \in {"check", "removePid", "removeState"} => Stage(p) = "closed"
    BY Zenon DEF Stage
  <1>6. p = "gone" => Stage(p) = "gone"
    BY Zenon DEF Stage
  <1> QED
    BY <1>1, <1>2, <1>3, <1>4, <1>5, <1>6

\* Who looks at a port sees a process move when its stage changes,
LEMMA SeenMoves ==
  ASSUME pc \in [Daemons -> Stages], NEW d \in Daemons, NEW to, NEW q \in Ports,
         pc' = [pc EXCEPT ![d] = to], UNCHANGED <<profile, serves>>
  PROVE /\ StageOf[d] = Stage(pc[d])
        /\ StageOf' = [StageOf EXCEPT ![d] = Stage(to)]
        /\ Stage(to) = "gone" => /\ ProfileOf' = [ProfileOf EXCEPT ![d] = None]
                                 /\ ServesOn(q)' = [ServesOn(q) EXCEPT ![d] = None]
        /\ Stage(to) \notin {"new", "gone"} =>
             /\ ProfileOf' = [ProfileOf EXCEPT ![d] = profile[d]]
             /\ ServesOn(q)' = [ServesOn(q) EXCEPT ![d] = OnPort(q, profile[d], serves[d])]
  <1>1. StageOf[d] = Stage(pc[d]) /\ StageOf' = [StageOf EXCEPT ![d] = Stage(to)]
    BY DEF StageOf
  <1>2. \A e \in Daemons : Seen(e)' <=> IF e = d THEN Stage(to) \notin {"new", "gone"} ELSE Seen(e)
    BY DEF Seen
  <1>3. CASE Stage(to) = "gone"
    BY <1>1, <1>2, <1>3 DEF ProfileOf, ServesOn
  <1>4. CASE Stage(to) \notin {"new", "gone"}
    BY <1>1, <1>2, <1>4 DEF ProfileOf, ServesOn
  <1> QED
    BY <1>1, <1>3, <1>4

\* and only then: what a process does before it writes its record, and between two
\* stages, is not seen.
LEMMA SeenStays ==
  ASSUME NEW q, \A e \in Daemons : Stage(pc'[e]) = Stage(pc[e]),
         \A e \in Daemons : Seen(e) => profile'[e] = profile[e] /\ serves'[e] = serves[e]
  PROVE UNCHANGED <<StageOf, ProfileOf, ServesOn(q)>>
  <1>1. \A e \in Daemons : Seen(e)' <=> Seen(e)
    BY DEF Seen
  <1> QED
    BY <1>1 DEF StageOf, ProfileOf, ServesOn

\* The record and the listener are what the files and the port say.
LEMMA RecordStays ==
  ASSUME NEW q, UNCHANGED <<stateFile, pidFile>> \/ (UNCHANGED stateFile /\ stateFile.pid # None)
  PROVE UNCHANGED RecordOn(q)
  BY DEF RecordOn

\* At the start nobody has written a record.
LEMMA RecordInit == Init => \A q \in Ports : Record(q)!Init
  <1> SUFFICES ASSUME Init, NEW q \in Ports PROVE Record(q)!Init
    OBVIOUS
  <1>1. \A d \in Daemons : Stage(pc[d]) = "new" /\ ~Seen(d)
    BY StageIs DEF Init, Seen
  <1>2. StageOf = [d \in Daemons |-> "new"] /\ ProfileOf = [d \in Daemons |-> None]
    BY <1>1 DEF StageOf, ProfileOf
  <1>3. ServesOn(q) = [d \in Daemons |-> None]
    BY <1>1 DEF ServesOn
  <1>4. RecordOn(q) = Record(q)!NoRecord
    BY DEF Init, RecordOn, OnPort, NoState, Record!NoRecord
  <1>5. port[q] \notin Daemons
    BY DEF Init
  <1> QED
    BY <1>2, <1>3, <1>4, <1>5 DEF Record!Init

\* What a serve process does, who looks at a port sees as a step of the process there.
LEMMA ServeKeepsPromise ==
  ASSUME Calm, ManualInv, NEW q \in Ports, NEW d \in Daemons, Serve(d) \/ CrashServe(d)
  PROVE Record(q)!Next \/ UNCHANGED Record(q)!vars
  <1> DEFINE Keeps == Record(q)!Next \/ UNCHANGED Record(q)!vars
  <1>1. /\ pc \in [Daemons -> Stages] /\ port \in [Ports -> Daemons \cup {None, Other}]
        /\ stateFile \in [pid : Daemons, profile : Profiles, policies : Versions] \cup {NoState}
        /\ profile \in [Daemons -> Profiles \cup {None}]
        /\ serves \in [Daemons -> Versions \cup {None}]
    BY DEF ManualInv, TypeOK
  <1>2. /\ pc[d] \notin {"new", "gone"} => profile[d] \in Profiles
        /\ pc[d] \notin {"new", "boot", "gone"} => serves[d] \in Versions
    BY DEF ManualInv, Profiled, Alive
  <1>3. /\ pc[d] \in {"check", "removePid"} => pidFile = d /\ stateFile.pid = d
        /\ pc[d] = "removeState" => pidFile = None
    BY DEF ManualInv, FilesFollowServe
  <1>4. port[q] = d <=> pc[d] \in {"confirm", "serving", "close"} /\ q = PortOf[profile[d]]
    BY DEF ManualInv, PortsFollowServe
  <1>5. ASSUME NEW from, NEW to, Move(d, from, to), Stage(from) = Stage(to), UNCHANGED profile,
               Seen(d) => UNCHANGED serves, \A e \in Daemons : e # d => serves'[e] = serves[e],
               UNCHANGED stateFile, pidFile' = pidFile \/ stateFile.pid # None, UNCHANGED port
        PROVE Keeps
    <2>1. \A e \in Daemons : Stage(pc'[e]) = Stage(pc[e])
      BY <1>1, <1>5 DEF Move
    <2>2. \A e \in Daemons : Seen(e) => profile'[e] = profile[e] /\ serves'[e] = serves[e]
      BY <1>5
    <2>3. UNCHANGED <<StageOf, ProfileOf, ServesOn(q)>>
      BY <2>1, <2>2, SeenStays
    <2>4. UNCHANGED RecordOn(q)
      BY <1>5, RecordStays
    <2> QED
      BY <1>5, <2>3, <2>4 DEF Record!vars
  <1>6. ASSUME NEW from, NEW to, Move(d, from, to), UNCHANGED <<profile, serves>>
        PROVE /\ Record(q)!Advance(d, Stage(from), Stage(to))
              /\ Seen(d) /\ Stage(to) \notin {"new", "gone"} => UNCHANGED <<ProfileOf, ServesOn(q)>>
              /\ Stage(to) = "gone" => \A set : Stage(from) \in set => Record(q)!End(d, set)
    <2>1. pc' = [pc EXCEPT ![d] = to] /\ pc[d] = from
      BY <1>6 DEF Move
    <2>2. /\ StageOf[d] = Stage(pc[d])
          /\ StageOf' = [StageOf EXCEPT ![d] = Stage(to)]
          /\ Stage(to) = "gone" => /\ ProfileOf' = [ProfileOf EXCEPT ![d] = None]
                                   /\ ServesOn(q)' = [ServesOn(q) EXCEPT ![d] = None]
          /\ Stage(to) \notin {"new", "gone"} =>
               /\ ProfileOf' = [ProfileOf EXCEPT ![d] = profile[d]]
               /\ ServesOn(q)' = [ServesOn(q) EXCEPT ![d] = OnPort(q, profile[d], serves[d])]
      BY <1>1, <1>6, <2>1, SeenMoves, Zenon
    <2>3. Seen(d) /\ Stage(to) \notin {"new", "gone"} => UNCHANGED <<ProfileOf, ServesOn(q)>>
      BY <2>2 DEF ProfileOf, ServesOn
    <2> QED
      BY <2>1, <2>2, <2>3 DEF Record!Advance, Record!End
  <1>7. ASSUME Boot(d) PROVE Keeps
    <2>1. CASE Move(d, "boot", "writePid") /\ serves' = [serves EXCEPT ![d] = content[profile[d]]]
      <3>1. ~Seen(d)
        BY <2>1, StageIs DEF Move, Seen
      <3>2. \A e \in Daemons : e # d => serves'[e] = serves[e]
        BY <1>1, <2>1
      <3> QED
        BY <1>5, <1>7, <2>1, <3>1, <3>2, StageIs DEF Boot, files
    <2>2. CASE Move(d, "boot", "gone") /\ UNCHANGED serves
      <3>1. Stage("boot") = "new" /\ Stage("gone") = "gone"
        BY StageIs
      <3>2. Record(q)!End(d, {"new"})
        BY <1>6, <1>7, <2>2, <3>1 DEF Boot
      <3>3. Record(q)!Vanish(d)
        BY <1>7, <3>2, RecordStays DEF Boot, files, Record!Vanish
      <3> QED
        BY <3>3 DEF Record!Next
    <2> QED
      BY <1>7, <2>1, <2>2 DEF Boot
  <1>8. ASSUME WritePid(d) PROVE Keeps
    <2>1. /\ Move(d, "writePid", "writeState") /\ pidFile' = d
          /\ UNCHANGED <<profile, serves, stateFile, port>>
      BY <1>8 DEF WritePid
    <2> DEFINE p == profile[d]
               l == OnPort(q, profile[d], serves[d])
    <2>2. p \in Profiles /\ l \in Versions \cup {None}
      BY <1>2, <2>1 DEF Move, OnPort
    <2>3. \A e \in Daemons : e # d => pc[e] \in {"new", "gone"}
      BY <2>1, Alone DEF ManualInv, OneDaemon, Alive, Move
    <2>4. \A e \in Daemons : ~Record(q)!Alive(e)
      BY <2>1, <2>3, StageIs DEF Move, Record!Alive, StageOf
    <2>5. RecordOn(q)' = IF RecordOn(q).profile = None
                           THEN [Record(q)!NoRecord EXCEPT !.pid = d]
                           ELSE RecordOn(q)
      BY <1>1, <2>1 DEF RecordOn, Record!NoRecord, NoState, OnPort
    <2>6. Stage("writePid") = "new" /\ Stage("writeState") = "pid"
      BY StageIs
    <2>7. ProfileOf' = [ProfileOf EXCEPT ![d] = p] /\ ServesOn(q)' = [ServesOn(q) EXCEPT ![d] = l]
      BY <1>1, <2>1, <2>6, SeenMoves DEF Move
    <2>8. Record(q)!Advance(d, "new", "pid")
      BY <1>6, <2>1, <2>6
    <2>9. Record(q)!WritePid(d, p, l)
      BY <2>1, <2>4, <2>5, <2>7, <2>8 DEF Record!WritePid
    <2> QED
      BY <2>2, <2>9 DEF Record!Next
  <1>9. ASSUME WriteState(d) PROVE Keeps
    <2>1. /\ Move(d, "writeState", "bind") /\ UNCHANGED <<profile, serves, port>>
          /\ stateFile' = [pid |-> d, profile |-> profile[d], policies |-> serves[d]]
      BY <1>9 DEF WriteState
    <2>2. Stage("writeState") = "pid" /\ Stage("bind") = "recorded" /\ Seen(d)
      BY <2>1, StageIs DEF Move, Seen
    <2>3. ProfileOf[d] = profile[d] /\ ServesOn(q)[d] = OnPort(q, profile[d], serves[d])
      BY <2>2 DEF ProfileOf, ServesOn
    <2>4. RecordOn(q)' = [pid |-> d, profile |-> ProfileOf[d], link |-> ServesOn(q)[d]]
      BY <2>1, <2>3 DEF RecordOn
    <2>5. Record(q)!Advance(d, "pid", "recorded") /\ UNCHANGED <<ProfileOf, ServesOn(q)>>
      BY <1>6, <2>1, <2>2
    <2>6. Record(q)!WriteState(d)
      BY <2>1, <2>4, <2>5 DEF Record!WriteState
    <2> QED
      BY <2>6 DEF Record!Next
  <1>10. ASSUME Bind(d) PROVE Keeps
    <2>1. /\ UNCHANGED <<profile, serves, stateFile, pidFile>>
          /\ \/ /\ Move(d, "bind", "confirm")
                /\ port[PortOf[profile[d]]] = None
                /\ port' = [port EXCEPT ![PortOf[profile[d]]] = d]
             \/ Move(d, "bind", "check") /\ UNCHANGED port
      BY <1>10 DEF Bind, files
    <2>2. /\ Stage("bind") = "recorded" /\ Stage("confirm") = "up" /\ Stage("check") = "closed"
          /\ Seen(d)
      BY <2>1, StageIs DEF Move, Seen
    <2>3. ServesOn(q)[d] = IF q = PortOf[profile[d]] THEN serves[d] ELSE None
      BY <1>2, <2>1, <2>2 DEF ServesOn, OnPort, Move
    <2>4. /\ UNCHANGED <<ProfileOf, ServesOn(q), RecordOn(q)>>
          /\ \/ Move(d, "bind", "confirm") /\ Record(q)!Advance(d, "recorded", "up")
             \/ Move(d, "bind", "check") /\ Record(q)!Advance(d, "recorded", "closed")
      BY <1>6, <2>1, <2>2, RecordStays
    <2>5. serves[d] # None
      BY <1>2, <2>1 DEF Move
    <2>6. Record(q)!Bind(d)
      BY <1>1, <2>1, <2>3, <2>4, <2>5 DEF Record!Bind, Move
    <2> QED
      BY <2>6 DEF Record!Next
  <1>11. ASSUME Confirm(d) \/ StopServing(d) \/ CheckRecord(d) \/ RemovePid(d) PROVE Keeps
    BY <1>3, <1>5, <1>11, StageIs DEF Confirm, StopServing, CheckRecord, RemovePid, files, Move
  <1>12. ASSUME CloseServer(d) PROVE Keeps
    <2>1. /\ Move(d, "close", "check") /\ UNCHANGED <<profile, serves, stateFile, pidFile>>
          /\ port' = [port EXCEPT ![PortOf[profile[d]]] = None]
      BY <1>12 DEF CloseServer, files
    <2>2. Stage("close") = "up" /\ Stage("check") = "closed" /\ Seen(d)
      BY <2>1, StageIs DEF Move, Seen
    <2>3. port'[q] = IF port[q] = d THEN None ELSE port[q]
      BY <1>1, <1>4, <2>1 DEF Move
    <2>4. Record(q)!Advance(d, "up", "closed") /\ UNCHANGED <<ProfileOf, ServesOn(q), RecordOn(q)>>
      BY <1>6, <2>1, <2>2, RecordStays
    <2>5. Record(q)!Close(d)
      BY <2>3, <2>4 DEF Record!Close, Record!Vacate
    <2> QED
      BY <2>5 DEF Record!Next
  <1>13. ASSUME RemoveState(d) PROVE Keeps
    <2>1. /\ Move(d, "removeState", "gone") /\ UNCHANGED <<profile, serves, pidFile, port>>
          /\ stateFile' = NoState
      BY <1>13 DEF RemoveState
    <2>2. RecordOn(q)' = Record(q)!NoRecord
      BY <1>3, <2>1 DEF RecordOn, Record!NoRecord, NoState, OnPort, Move
    <2>3. Stage("removeState") = "closed" /\ Stage("gone") = "gone"
      BY StageIs
    <2>4. Record(q)!End(d, {"closed"})
      BY <1>6, <2>1, <2>3
    <2>5. Record(q)!Cleanup(d)
      BY <2>1, <2>2, <2>4 DEF Record!Cleanup
    <2> QED
      BY <2>5 DEF Record!Next
  <1>14. ASSUME CrashServe(d) PROVE Keeps
    <2>1. /\ Move(d, pc[d], "gone") /\ UNCHANGED <<profile, serves, stateFile, pidFile>>
          /\ port'[q] = IF port[q] = d THEN None ELSE port[q]
          /\ pc[d] \notin {"new", "gone"}
      BY <1>14 DEF CrashServe, Alive, files, Move
    <2>2. Stage("gone") = "gone" /\ UNCHANGED RecordOn(q)
      BY <2>1, StageIs, RecordStays
    <2>3. CASE pc[d] \in {"boot", "writePid"}
      <3>1. Stage(pc[d]) = "new"
        BY <2>3, StageIs
      <3>2. Record(q)!End(d, {"new"})
        BY <1>6, <2>1, <2>2, <3>1
      <3>3. Record(q)!Vanish(d)
        BY <1>4, <2>1, <2>2, <2>3, <3>2 DEF Record!Vanish
      <3> QED
        BY <3>3 DEF Record!Next
    <2>4. CASE pc[d] \notin {"boot", "writePid"}
      <3>1. Stage(pc[d]) \in {"pid", "recorded", "up", "closed"}
        BY <1>1, <2>1, <2>4, StageIs DEF Stages, Starting, Ending
      <3>2. Record(q)!End(d, {"pid", "recorded", "up", "closed"})
        BY <1>6, <2>1, <2>2, <3>1
      <3>3. Record(q)!Crash(d)
        BY <2>1, <2>2, <3>2 DEF Record!Crash, Record!Vacate
      <3> QED
        BY <3>3 DEF Record!Next
    <2> QED
      BY <2>3, <2>4
  <1> QED
    BY <1>7, <1>8, <1>9, <1>10, <1>11, <1>12, <1>13, <1>14 DEF Serve

\* Of what a command does, only the removal of a stale record is seen, when nobody is
\* alive.
LEMMA CommandKeepsPromise ==
  ASSUME ManualInv, NEW q \in Ports, NEW c \in Cmds, Begin(c) \/ HandStep(c)
  PROVE Record(q)!Next \/ UNCHANGED Record(q)!vars
  <1> DEFINE Keeps == Record(q)!Next \/ UNCHANGED Record(q)!vars
  <1>1. ASSUME UNCHANGED <<pc, profile, serves, port, pidFile, stateFile>> PROVE Keeps
    <2>1. UNCHANGED <<StageOf, ProfileOf, ServesOn(q)>>
      BY <1>1, SeenStays
    <2>2. UNCHANGED RecordOn(q)
      BY <1>1, RecordStays
    <2> QED
      BY <1>1, <2>1, <2>2 DEF Record!vars
  <1>2. ASSUME Spawn(c) PROVE Keeps
    <2>1. /\ UNCHANGED <<serves, port, pidFile, stateFile>>
          /\ \/ UNCHANGED <<pc, profile>>
             \/ \E d \in Daemons : /\ pc[d] = "new"
                                   /\ pc' = [pc EXCEPT ![d] = "boot"]
                                   /\ profile' = [profile EXCEPT ![d] = prof[c]]
      BY <1>2 DEF Spawn, files
    <2>2. ASSUME NEW d \in Daemons, pc[d] = "new", pc' = [pc EXCEPT ![d] = "boot"],
                 profile' = [profile EXCEPT ![d] = prof[c]]
          PROVE Keeps
      <3>1. pc \in [Daemons -> Stages] /\ profile \in [Daemons -> Profiles \cup {None}]
        BY DEF ManualInv, TypeOK
      <3>2. Stage("new") = "new" /\ Stage("boot") = "new"
        BY StageIs
      <3>3. ~Seen(d) /\ \A e \in Daemons : Stage(pc'[e]) = Stage(pc[e])
        BY <2>2, <3>1, <3>2 DEF Seen
      <3>4. \A e \in Daemons : Seen(e) => profile'[e] = profile[e] /\ serves'[e] = serves[e]
        BY <2>1, <2>2, <3>1, <3>3
      <3>5. UNCHANGED <<StageOf, ProfileOf, ServesOn(q)>>
        BY <3>3, <3>4, SeenStays
      <3>6. UNCHANGED RecordOn(q)
        BY <2>1, RecordStays
      <3> QED
        BY <2>1, <3>5, <3>6 DEF Record!vars
    <2> QED
      BY <1>1, <2>1, <2>2
  <1>3. ASSUME KillRemovePid(c) \/ KillRemoveState(c) PROVE Keeps
    <2>1. at[c] \in {"killRemovePid", "killRemoveState"}
      BY <1>3, AfterKillMoves DEF KillRemovePid, KillRemoveState, Goto, Succeed, Finish
    <2>2. \A d \in Daemons : pc[d] \in {"new", "gone"}
      BY <2>1 DEF ManualInv, CommandsFollowServe, NobodyAlive, Alive
    <2>3. \A d \in Daemons : ~Record(q)!Alive(d)
      BY <2>2, StageIs DEF Record!Alive, StageOf
    <2>4. UNCHANGED <<pc, profile, serves, port>>
      BY <1>3 DEF KillRemovePid, KillRemoveState, World
    <2>5. UNCHANGED <<StageOf, ProfileOf, ServesOn(q)>>
      BY <2>4, SeenStays
    <2>6. RecordOn(q)' \in {RecordOn(q), Record(q)!NoRecord}
      <3>1. stateFile \in [pid : Daemons, profile : Profiles, policies : Versions] \cup {NoState}
        BY DEF ManualInv, TypeOK
      <3>2. CASE KillRemovePid(c)
        BY <3>1, <3>2 DEF KillRemovePid, RecordOn, Record!NoRecord, NoState, OnPort
      <3>3. CASE KillRemoveState(c)
        <4>1. pidFile = None
          BY <3>3, AfterKillMoves DEF ManualInv, CommandsFollowServe, KillRemoveState, Goto,
             Succeed, Finish
        <4> QED
          BY <3>3, <4>1 DEF KillRemoveState, RecordOn, Record!NoRecord, NoState, OnPort
      <3> QED
        BY <1>3, <3>2, <3>3
    <2>7. CASE RecordOn(q)' = RecordOn(q)
      BY <2>4, <2>5, <2>7 DEF Record!vars
    <2>8. CASE RecordOn(q)' = Record(q)!NoRecord
      <3>1. Record(q)!Forget
        BY <2>3, <2>4, <2>5, <2>8 DEF Record!Forget
      <3> QED
        BY <3>1 DEF Record!Next
    <2> QED
      BY <2>6, <2>7, <2>8
  <1>4. Spawn(c) \/ KillRemovePid(c) \/ KillRemoveState(c)
          \/ UNCHANGED <<pc, profile, serves, port, pidFile, stateFile>>
    BY DEF Begin, HandStep, files, Lock, Unlock, StartStatus, PollReady, PollExpires, StopStatus,
       RestartStatus, KillStatus, Signal, KillWait, KillExpires, World, OnlyPlace
  <1> QED
    BY <1>1, <1>2, <1>3, <1>4

\* Edits are not seen, and who else opens or closes the port is.
LEMMA WorldKeepsPromise ==
  ASSUME NEW q \in Ports, TypeOK,
         \/ \E p \in Profiles, v \in Versions : EditProfile(p, v)
         \/ \E r \in Ports : Outsider(r)
         \/ UNCHANGED vars
  PROVE Record(q)!Next \/ UNCHANGED Record(q)!vars
  <1>1. UNCHANGED <<pc, profile, serves, pidFile, stateFile>>
    BY DEF EditProfile, Outsider, vars, serveVars, files
  <1>2. UNCHANGED <<StageOf, ProfileOf, ServesOn(q)>>
    BY <1>1, SeenStays
  <1>3. UNCHANGED RecordOn(q)
    BY <1>1, RecordStays
  <1>4. port'[q] = port[q] \/ (port[q] \notin Daemons /\ port'[q] \notin Daemons)
    <2>1. port \in [Ports -> Daemons \cup {None, Other}]
      BY DEF TypeOK
    <2>2. port' = port \/ \E r \in Ports, x \in {None, Other} :
                            port[r] \in {None, Other} /\ port' = [port EXCEPT ![r] = x]
      BY DEF EditProfile, Outsider, vars
    <2> QED
      BY <2>1, <2>2
  <1>5. Record(q)!Others \/ UNCHANGED Record(q)!vars
    BY <1>2, <1>3, <1>4 DEF Record!Others, Record!vars
  <1> QED
    BY <1>5 DEF Record!Next

\* On every port the manual daemon implements DaemonRecord, which the run command
\* builds on.
THEOREM DaemonKeepsPromise ==
  ASSUME Calm, Ops \subseteq ManualOps
  PROVE Spec => KeepsPromise
  <1> DEFINE Kept == \A q \in Ports : UNCHANGED Record(q)!vars \/ Record(q)!Next
  <1>1. ManualInv /\ [Next]_vars => Kept
    <2> SUFFICES ASSUME ManualInv, [Next]_vars, NEW q \in Ports
                 PROVE Record(q)!Next \/ UNCHANGED Record(q)!vars
      OBVIOUS
    <2>1. ByHand /\ TypeOK
      BY DEF ManualInv
    <2> QED
      BY <2>1, HandSteps, ServeKeepsPromise, CommandKeepsPromise, WorldKeepsPromise DEF HandNext
  <1>2. ManualInv /\ [Next]_vars => [Kept]_vars
    BY <1>1
  <1> HIDE DEF Kept
  <1>3. Spec => [][Kept]_vars
    BY <1>2, ManualInvariance, PTL DEF Spec
  <1> QED
    BY <1>3, RecordInit DEF Spec, KeepsPromise, Kept
=============================================================================
