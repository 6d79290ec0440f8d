# xcore-bridge in TLA+

xcore-bridge adds VLESS links to a Surge profile as External Proxy policies.
Surge starts one `xcore-bridge run` process per active policy; each serves a
local SOCKS5 port with an embedded xray-core. Optionally one daemon serves all
policies of a profile, started by hand or by launchd.

This directory models the parts of the program that share state between
processes, the edits of the profile, the configuration that is made from it and
the upgrade; it checks them with TLC and proves with TLAPS what holds for every
instance.

## The system

| Component | State | Operations | Talks to |
| --- | --- | --- | --- |
| foreground run (`cmd/xcore-bridge/policy_runtime.go`, `internal/bridge/run.go`) | a lock file per profile and address (flock, owner record), the listener | acquire, record, serve, stand by, take over, stop | siblings through the lock file; Surge through signals |
| run command (`cmd/xcore-bridge/bridge_commands.go`) | none of its own | verify the target, read the daemon's status, reuse / refuse / go to the foreground | profile, daemon record, foreground run |
| daemon serve (`internal/daemon/daemon.go`, `Serve`) | `daemon.pid`, `daemon.json`, the listeners | write record, listen, clean up | commands through the record and signals |
| daemon commands (`internal/daemon/daemon.go`) | `daemon.lock` | start, stop, restart, ensure, status | serve processes, launchd, profile |
| LaunchAgent (`internal/daemon/daemon.go`) | the plist (which program, which profile), launchd's service | install, uninstall, bootstrap, bootout, kickstart | launchd, which restarts the process |
| profile editing (`internal/surge`) | the profile, its backup | add, install, remove, rename, replace | Surge and the user, who edit the same file |
| upgrade (`cmd/xcore-bridge/upgrade.go`) | the binary at its target path | resolve, download, verify, stop daemon, install, start daemon | daemon commands, release server |
| bridge configuration (`internal/bridge/config.go`) | none | MultiJSONConfig: the parts of each policy, tags, levels, errors | profile, xray-core |
| VLESS parser (`internal/vless/parser.go`) | none | Parse, Validate | edits, configuration |
| discovery, logs, terminal output | none | a directory walk, text | |

What makes each of them correct, and what is hard about it:

* **Foreground run.** Processes come in any number and die at any point. Only
  the flock orders them; the record in the lock file is not cleared and is
  rewritten in two steps; a standby reads it without the lock and then probes an
  address, not a process. Correct means: turns are taken, a successor finds the
  address free, whoever listens is on record, waiting children are served, a
  signal ends a process wherever it is.
* **Run command.** One status read decides what a process does for the rest of
  its life. Correct means that it relies only on a daemon with its own link, and
  that its choice never leaves it waiting for nothing.
* **Daemon.** Serve processes take no lock. They write two files on the way up
  and remove them on the way down; the commands, under a lock that serve does
  not know, poll those files. Deadlines and Ctrl-C can end a command while its
  child is still coming up. Correct means: one daemon, always on record, a
  reported stop that is one, a restart that replaces, and no command that hangs.
* **LaunchAgent.** launchd restarts what it keeps alive, from the plist it has loaded and not
  from the file. Correct means that plist, loaded service and reported result agree.
* **Profile editing.** Nothing locks the profile. Correct means: names and ports
  unique, the user's lines untouched, other policies' command lines still
  accepted by `run`, fresh ports, consent to the first edit, and a backup of exactly
  what was replaced.
* **Bridge configuration.** The daemon puts all policies into one xray-core. Correct
  means: whatever the edits left behind can be served, and each policy is served
  as its own foreground child would serve it.
* **Upgrade.** Releases are published in any order under tags of any form, requests
  fail, downloads are cut short. Correct means: the release is the one the channel
  promises, only what was verified is installed, and a daemon that was stopped for it
  is back afterwards, with no process left on a binary that was replaced under it.

`PROJECT.json` lists the hazards one by one, each at its line and with the
properties that would catch it.

## Plan

1. `PolicyLock`, `PolicyRuntime`, their proofs: the heart of the default mode. **done**
2. `Daemon`: record, control lock, LaunchAgent, with proofs for the manual daemon. **done**
3. `SurgeProfile`: the edits, alone and overlapping, with proofs, those about what each edit
   makes of the lines included. **done**
4. `DaemonRecord`, which `Daemon` implements, and `ManagedRun`, which composes it with the
   foreground's promise; proofs of both. **done**
5. `Releases` and its proofs: the order on tags and the choice of a release; `Upgrade`:
   stop, install and start among the daemon's commands, with proofs. **done**
6. `ShareLink`, `BridgeConfig`, `ServedProfile`: from a link to what the daemon serves,
   behind the edits. **done**
7. Left: `Upgrade` on top of `DaemonRecord`.

Abstract specifications: `PolicyLock` (children take turns), which `PolicyRuntime`
implements; `DaemonRecord` (daemons take turns, and keep the record), which `Daemon`
implements (`ManagedRun` is built from both); the precedence of semantic versions
(`Precedes`), with which the order of the code is proved to agree; and a child's own
configuration, against which the daemon's is held (`SameService`).

## Modules

**`PolicyRuntime`** has a program counter per process. The places are those of
`runForegroundManagedPolicy` and `runOwnedManagedPolicy`: `acquire` (flock),
`truncate` and `write` (the record), `bind` and `confirm` (core.Start and the
readiness wait in StartMulti), `serving`, `close` and `unlock` (the deferred calls), and
for a standby `owner` (matchingOwner), `probe` and `wait` (the 25 ms select). A
signal sets `stop`; the places that look at the context react to it. `Kill` runs
no deferred call, and the kernel then drops lock and listener in either order.
One address is modelled, with several lock keys (profiles) on it. The link is
what the profile held at launch; `Replace` changes the profile at any time.

**`PolicyLock`** is the promise: one owner per key, only the owner listens, a live owner
closes before it lets go. `PolicyRuntime` maps `holder`, `port` and its killed
processes to it.

**`ManagedRun`** puts `runManagedPolicy` before `PolicyLock`: its foreground steps
*are* the actions of `PolicyLock` (`Foreground!Acquire` and so on), so it builds on what
`PolicyRuntime` is proved to implement. Its daemon steps are the actions of `DaemonRecord`
(`Record!WritePid` and so on). The PID file appears before the state file, which makes a child in
between refuse to start; a state file that a killed daemon left hides the PID file of
the next one, and a child in between goes on in the foreground. A daemon serves one of the versions the
profile has had, not always the last one (`Start`): it may have read the profile before an edit.
Children that are killed are left to `PolicyRuntime`.

**`DaemonRecord`** is what is left of `Daemon` for somebody who looks at one address and asks
for the status: serve processes from the moment they begin to write their record, one
at a time, the record, and who listens. A start may fail although the port is free,
because another address of its profile is taken, or the core does not come up (`Bind`). `KeepsPromise` says that every step of `Daemon`, on every
port, is a step of it or none; it holds when `Calm` (a start that is cut short leaves two
processes, see `daemon_late`), so `ManagedRun` speaks of daemons whose commands were not cut short.

**`Daemon`** has a program counter for serve processes and one for commands. Each file write
or removal is a step; `GetStatus` is one step, as is one round of a polling
loop. `op` and `prof` are the command line; `Begin`, `Lock` and `Unlock`
frame what runs under `withControlLock`; `StartStatus` is the decision of
startLocked and ensureLocked, `Spawn` to `PollExpires` is startFresh, `StopStatus`
to `KillRemoveState` are Stop and stopLocked, `OutStatus` to `OutRemoveState`
StopLaunchAgent, `Bootstrap` to `AwaitExpires` StartLaunchAgent. A profile's listeners are opened and closed
together and are one port. Process ids are not reused, and a process that has ended is gone at once: a dead child that its start has not reaped yet, which processRunning takes for running, is not told apart. `Calm` says that no
deadline passes while what is waited for is under way, that commands are not interrupted
and that nothing fails without a cause; with `Calm` false a deadline may pass at any
round and any command may be interrupted. launchd is external: it starts a loaded service
whose process is gone. A command has an ExecPath (`exec`), from which `Spawn` starts its child and which
`WritePlist` puts into the plist: `agent` is the profile and the program that the file names, `service` what
launchd has loaded of it, `program` the path a process was started from. `ManualInv` is the invariant that the proofs about the manual daemon rest on; a
run checks it.

**`SurgeProfile`** works on sequences of lines. A line is a record of its kind, policy
name, local port and share link (none for a line that is not an xcore-bridge run
line: the outcome of managedPolicy's parse). The operators carry the names of the functions they model.
RemoveManagedProxyBlock is stated as the union of all complete blocks, which is
what the scan in the code leaves out. Blank lines are dropped, so what the
code does with them is not covered: reading it shows that every edit of a
profile with a block leaves one more blank line behind the block. A command starts
(and `add` looks whether to ask for consent), reads, renders, writes the backup and
saves in separate steps; it may end at any of them
(dry run, error, crash), and files are replaced whole because they are renamed into place.
A policy is a line of `[Proxy]`: what looks like one in another section is text to the code, and to the
model. `EditInputs` is the assumption on the starting profiles, the requests and the lines the user
writes. Such a profile is `Tidy`: its policies and markers are in `[Proxy]`, no two policies have a name or
a port in common, and it has one complete block with something in it or no marker; links in the block came there
with an edit. `EditInv` is the invariant that the proofs rest on; a run checks it, and with it that every
profile the edits leave behind is `Tidy` again.
`Overlapping` names the commands that others of that set, and the user, may overlap; nothing
overlaps the rest, and the properties that need that are about them. The default base port, quoting and
the sanitising of names are left out: names are taken as sanitised.

**`ShareLink`** holds what a link says as a record: whether it parses, and the parameters
that Validate and the configuration look at. Everything that is copied into the
configuration as it is (host, port, UUID, path, keys) is one value, `server`.

**`BridgeConfig`** is MultiJSONConfig: inbounds, outbounds and rules with their tags, the
levels with the long timeouts, or `Invalid`. A tag is the triple of its prefix, port and place.
`Served` is external: the settings of the outbounds that the rules may take a connection to.

**`ServedProfile`** puts ConfigFromProfile behind the edits of `SurgeProfile`, and compares
with JSONConfig, the configuration of a foreground child.

**`Releases`** is the upgrade up to the installed file. A tag is the list of its
identifiers; `Below` is compareUpgradeTags with its parts. There are several binaries: the one that
runs the upgrade (`program`, built with the version `current`) and the one that is replaced (`target`), which are
the same unless `--target` or `--bindir` says otherwise. Each request, each round of the loop over the
page, each check and the installation is a step that may fail. Releases are published and
promoted at any moment. An archive is right or wrong, and installs the chosen tag only when right.

**`Upgrade`** extends `Daemon`: the calls the upgrade makes to the daemon are one more
command, `Inner`, that runs once to stop and once to start. `binary` says what is at each path, and `exe` what
was at its path when a process was started. The upgrade replaces the binary at `TargetPath` and starts a manual
daemon from there, whatever path it ran from before; launchd goes on with the path in the plist. The
history variable `crowded` says whether two serve processes have
ever been alive together, which the commands the upgrade calls do not expect. What is installed is just `new`: which it is, is `Releases`.

## Runs

| Run | Instance | Question |
| --- | --- | --- |
| `policy_safety` | 3 processes, 2 lock keys, 2 links | invariant of the proofs; nobody in the way at bind; listener on record; a standby's probe finds its link; only the holder writes the record; the protocol implements `PolicyLock` |
| `policy_live` | 3 processes of one policy, fair scheduling | waiting children are served or take over; a signal ends a process |
| `daemon_manual` | 2 serve processes, 2 overlapping commands, 2 profiles with a port each, edits, crashes, `Calm` | invariant of the proofs; one daemon, on record, stop frees the port, restart replaces; the daemon implements `DaemonRecord` |
| `daemon_live` | 1 serve process, 2 of all commands, deadlines and Ctrl-C | commands end and give the lock back; a signalled daemon ends |
| `daemon_install` | manual daemon, then install | *violation*: see findings |
| `daemon_late` | two starts, one interrupted, then stop | *violation*: see findings |
| `upgrade` | 2 serve processes, 2 commands and an upgrade in turn, 2 binaries, launchd, crashes, Ctrl-C | invariants of the proofs; a loaded service has its plist; a reported stop is not undone by launchd; a reported install is what launchd runs; no process is left on a binary that was replaced; the daemon is back |
| `profile` | 1 edit alone and 2 that may overlap, the user, a contested port | invariant of the proofs; uniqueness, manual lines, surviving command lines, fresh ports, consent, backup; what the edits leave can be served, each policy as by its own child |
| `release` | 3 of 5 tags, published and promoted in any order, 2 binaries of either version | the highest beta; no downgrade by `--version`; only what was verified is installed |
| `release_auto` | the same, auto channel | *violation*: see findings |
| `run_modes` | 2 children, 1 daemon beside the record of a killed one, 2 links, fair | invariant of the proofs; the daemon relied on serves the link; a signal ends every mode; every child decides |
| `run_return` | 1 child, 1 daemon | *violation*: see findings |

**Bounds.** Two processes make every hand-over, three add a second standby and a
standby that meets a third one's record; two keys make the clash of two profiles; two links
the stale command line. In `daemon_manual` two commands overlap at every step, one process is
left over by a crash or a stop and the next one takes its place, and of two profiles with
a port each one can be started for the other. Each process and command is used once: long histories are
covered as far as those numbers go, and beyond them by the theorems, which
have no bound on either. Instances that take too long for the runs were checked once: `daemon_manual`
with three commands and one version (814,248 states); `upgrade`
with `restart` and `ensure` (2,326,919 states), and its invariants and properties that need no `Calm`,
with `Calm` false and one process (407,610).
In `upgrade` two profiles share one port, so that a start for
the wrong one shows; `start`, `stop`, `install` and `uninstall` are the users' commands
(`restart` and `ensure` are in `daemon_manual`). An install may name the path that the upgrade replaces or the other
one; a start of the user's names the other one (`UserPaths`), so that a manual daemon has to change its path.
Outsiders take the port only while the upgrade starts the daemon (`LateOther`), and an upgrade that fails has stopped a
daemon first (`LateFailure`): without one it has changed nothing. A respawn or the start afterwards takes the second process. Two
processes alive together take three commands of the users' before the upgrade, so that `crowded` stays
false in this instance and the two properties hold without exception; the theorems have any number of commands.
`MaxPort` is 5 where the code has 65535: starts at 1 and 3 with one or two links reach
occupied ports, gaps and the end of the range. The starting profiles have no
`[Proxy]` section; a manual policy with a clashing name and port; blocks of one and two
policies with lines behind them; a block with a foreign line. The links are two that work,
one of an unsupported transport and one whose level is not a number. The tags are a version, its
betas `beta`, `beta.2` and `beta.10`, and a word; `MaxReleases` and `PageSize` are 3, so that
a page holds all releases (the theorem has any `PageSize`). Two binaries, each a word or a beta (`Built`), are replaced by
themselves or by each other; an upgrade starts from binaries that none has replaced before (`FirstUpgrade`), and nothing is
published between its last request and its end (`EarlyReleases`), when no step reads the list. The theorems have neither. Symmetry is used only
in runs without liveness.

**Deadlock** is checked except in the three daemon runs `daemon_install`, `daemon_late`
and `daemon_live`, and in `upgrade`, in which all commands may be
over with nothing left to happen; their configurations say so.

**Fairness.** `policy_live`, `run_modes` and `run_return`: a process that
can take its next step takes it (the Go scheduler and the timers of the loops), and the
kernel finishes an exit. Nothing obliges Surge or a user to start or stop
anything. `daemon_live`: the same for serve processes and
commands, and launchd starts a loaded service. Fairness is weak throughout; it is put on
a process as a whole, so that a choice between two outcomes (a probe that is answered
or times out) is never forced.

## Findings

* `daemon_install`: installing the LaunchAgent while the manual daemon runs
  fails. `InstallLaunchAgent` writes the plist and then calls `Stop`, which sees
  the plist, boots out a service that is not loaded, and waits for a process
  nobody has signalled.
* `daemon_late`: after an interrupted start the child keeps coming up; the
  child of the next start overwrites the record, fails to bind, and removes the record. The
  first child serves, and `daemon stop` finds nothing to stop.
* `release_auto`: on the auto channel any failure of the request for the stable release,
  a timeout too, sends the upgrade on to the prereleases.
* `run_return`: a child that reuses the daemon waits only for its own
  signal. After `daemon stop` it holds its place with nobody listening.

## Proofs

`PolicyRuntimeProofs` (every number of processes, keys and links; the only
assumption is `ConstantsDistinct`, that the two special values are not
processes). The properties are not inductive: that nobody is in the way at bind
depends on where the lock's former holder is. `IInv` adds what each place of the
program implies: `LockFollowsProgram` (between flock and LOCK_UN the process has the
lock, and a lock is held by such a process or a killed one), `PortFollowsProgram` (a listener is
open from core.Start to Close), `RecordFollowsProgram` (from the write to the
unlock the file names the owner), `SeenMatches` (what a standby acts on matched its
link). Each conjunct has a lemma with one step per action; `Inductive` joins them. The safety
theorems follow from `IInv`, the action property from `IInv` and one step,
and `Refinement` from a lemma that maps each action to a step or a stutter of `PolicyLock`.

`ProfileLinesProofs` has the facts about the operators of the edits, for profiles, blocks and lists of links
of any length (assumptions `EditInputs` and `LinkConstants`). Two are about what is given out: the port an edit
takes is the first free one at or above where it starts, and the search fails only when there is none
(`FirstFreePort`); the name it makes is not taken, because it may try one number more than there are names
(`UniqueNameIsFree`). The rest are lemmas about lines. The loops of the code are recursive functions here, and
what they compute is shown by induction on the least step at which it fails (`LeastMember`, `Induction`):

* `Keep` gives the lines at a set of places in their order. There is only one list of those places
  (`OneEnumeration`), so `KeepIs` reads the result off any such list.
* `Spliced(out, s, at, t)` says that `out` is `s` with `t` put in at a place: what the rendering of a block does, and,
  read the other way, what cutting it out does. `KeepSpliced` and `ApartSpliced` carry facts over.
* `ProxyAt` says where a section begins and ends; it only grows and shrinks with the block in it.
* `TakenApart`: a tidy profile is a `Clean` one, without a block, and a block that `Fits` it, and the user's lines are
  those of the clean one. `Rendered`: a clean profile and a block that fits give a tidy profile with that block.
  `SectionInserted` and `LineWritten` do the same for a new `[Proxy]` and for a line of the user's.
* `LinesMade`: each of the lines made for a list of links has a name that is new to the profile and to the
  lines before it, and such a port or none.

`SurgeProfileProofs` (any profiles, requests, commands and overlaps; assumptions `EditInputs` and
`OverlappingCommands`). `EditRight` says what an edit owes: a tidy profile, the same lines of the user,
and the same children let through. `AddRight`, `RemoveRight`, `RenameRight` and `ReplaceRight` show it of
each edit, by what it does to the block: the new block fits. `WellFormed` alone is not inductive: a begin marker
without its end, or a marker outside of `[Proxy]`, is only found to be one too many after the next edit, which is why
`Tidy` says where the markers and policies are. `EditInv` says that the profile is tidy, that so is what a command
has read or is to write, and that the two are related as `EditRight` says; since it speaks of
what was read and not of the profile now, it does not matter what comes in between. `EditsRight`
is its invariance; `ProfilesWellFormed`, `ManualLinesKept`, `RunningTargetsKept` and `PortsGivenFresh` follow.

For a command that nothing overlaps, `Serial` says that it is the only one at
work, that the profile is still what it read, and that before it saves the backup is that
profile. `BackupOfLastEdit` follows, and, with what `Start` saw of the profile,
`FirstEditAsked`.

`ServedProfileProofs` (any profile and links): tags are the same only for the same prefix,
port and place, and a valid configuration has no port twice; so one inbound, one rule and
one outbound belong to a port (`ServedByOwnLink`). The parts of a policy do not depend on
the others, so a child's own configuration is valid when the daemon's is (`OwnConfig`).
`ServedAsAlone` joins them: it holds in every state, whatever the profile is. `DaemonServesEdits` builds on
`EditInv`: in a block that edits left no port is there twice and every link was accepted, so
only the parameters that no edit looks at can make the configuration fail.

`ReleasesProofs` (any tags, pages and histories; assumption `ReleaseConstants`):
`BelowIrreflexive` and `BelowTransitive`, part by part, make the code's comparison an
order; `BelowIsPrecedence` says that on versions it is the precedence of semver.org. `UpgradeInv`
adds to the types what the loop has seen so far (`LoopInv`: the candidate kept is the highest of the part
of the page that was read; this needs transitivity) and what the checks have
established at each place, `RunsInv` that the version a running program was built with is that of its binary
until the upgrade replaces it. `ReleasesTyped`, `HighestBeta` and `NoExactDowngrade` follow.

`DaemonProofs` (any processes, commands, profiles, ports and versions; assumption
`DaemonConstants`). `DaemonTyped` holds with every command, deadline and interruption; a state file or
a command names a profile only when `Profiled` says so, so the two are one induction. The other theorems
have the hypotheses `Calm` and `Ops \subseteq ManualOps`: without the first a start that is cut short leaves two
processes (`daemon_late`), and without the second an install that fails over a manual daemon
(`daemon_install`) leaves a plist behind, with which a later start has launchd run a second one.
That nobody else is alive when a start launches its child depends on what the
lock's last owner left: `ManualInv` says what each place of a command knows (`CommandsFollowServe`:
who may be alive), what each place of a serve process means for the files
(`FilesFollowServe`: until it is on record, the start that launched it waits) and for
the ports (`PortsFollowServe`), and that the lock is with a command between lock and unlock (`ByHand`).
Each part has a lemma with one step per action. `OneDaemonOnly`, `ListenerOnFile`, `StopLeavesNoListener` and
`RestartIsNew` follow. `DaemonKeepsPromise` is the refinement: the processes that have begun their record (`Seen`), their
`Stage` and the record are what `DaemonRecord` sees, and each action is shown to be one of its steps or a stutter.

`ManagedRunProofs` (any children, processes and links; assumption `RunConstants`). A child that reuses
the daemon looked once at a record that may be stale. `IInv` adds that what it
has seen is a process that has started, whose link does not change any more, that a state file says what its process
serves, and that the owner's listener is open from `Bind` to `Close`. `RelyOnOwnLink` is a
part of it. That the foreground children take turns is not stated here: their steps are those of
`PolicyLock`, and what the address is to them is `ListenerFollowsProgram`, a part of `IInv`.

`UpgradeProofs` (any processes, profiles, users' commands and crashes). `UpgradeTyped` needs nothing more. `UnloadInv`
holds for commands and upgrades one at a time (`~Overlap`), with any deadlines and
interruptions: at most one command is under way, and from bootout to its
end a stop has launchd's service unloaded. `ServiceHasPlist` and `StopUnloadsService` follow. `InstallInv`, for the same
commands, says which plist is in place and loaded at each place of an install, and which of its steps run under the
lock (only then does the unlock lead on to bootstrap); `InstallLoadsIt` follows. `ReplaceInv` is for
`Calm` besides: whoever is alive and not launchd's is on record or still awaited (`RecordsFollow`), where a command waits or
removes a record nobody else is alive (`CommandsInv`), and each place of an upgrade says which of the old
and the new process there can be, and what it runs (`Replaces`). `NoDaemonFromOldBinary` and `DaemonReturns` follow. The proof
found what the run had been too small for: start, a failed install over the manual daemon, and
start again leave a manual process beside launchd's, and the upgrade stops only one of them. Hence `crowded`
in the two properties.

Three mistakes of the models were found in preparing these proofs and are corrected: the one above, and the
two steps of `DaemonRecord` and `ManagedRun` that are described with the modules.

Every invariant and every action property of the passing runs is stated by a theorem. Model-checked only:

* all liveness (`Decides`, `EndsOnSignal` and the properties of `policy_live` and `daemon_live`), which needs
  ENABLED and is outside the prover's reach;
* the daemon under launchd while commands overlap or are cut short, and the daemon when `Calm` does not
  hold, where the properties fail or say less.

## Exceptions

Some properties are stated for less than everything, because the code promises no more:

* `EditsServe` excepts links whose level, heartbeat or extra is malformed: Validate
  does not look at them, so `add` accepts such a link and the daemon then has no
  configuration for any policy.
* `WellFormed` and `EditsServe` hold under overlap; that no edit is lost does not.
* What is said of the edits is said of profiles that start `Tidy`. One in which markers were damaged or a block was pasted
  by hand, or in which two policies of the user's own share a name or a port, is outside of it: the
  code does not repair such a profile.
* `NoOldDaemon` and `DaemonIsBack` are checked and proved for commands that do not overlap the
  upgrade, which holds no lock across stop, install and start, and as long as no two serve
  processes have been alive together: the upgrade stops the one on record or launchd's. After an upgrade that fails, the
  daemon may stay stopped.
* An upgrade of one path says nothing about a service whose plist names another: it is restarted from that
  other path, whose binary the upgrade has not touched. `NoOldDaemon` says just that no process runs what was
  replaced under it.
* `ExactNeverDowngrades` is about the program that runs the upgrade, whose version is all that
  validateExactUpgradeVersion looks at. With `--target` or `--bindir` the version of the binary that is replaced is never
  looked at, and it may be a newer one.
* `LoadedHasPlist`, `StopUnloads` and `InstallTakesEffect` are checked and proved for commands one at a time: install and
  uninstall take no lock.
* `BetaIsHighest` is about the page the API returned; the code asks for no second one.
* What no property says of a stale read (a probe after the record was read, consent asked for before the profile is
  read for the edit, a port probed before it is used) is noted at the hazard in `PROJECT.json`.

## Not modelled

Profile discovery (a directory walk and a sort), logs, terminal output, usage, version and
flag parsing (text without state that another part reads), the installation scripts and
release workflows (outside the program). The text of URLs, the JSON of the configuration,
archive formats and `sudo` are abstracted to whether they are right. xray-core, Surge, launchd, GitHub
and the kernel are environment, modelled by what the code relies on.
