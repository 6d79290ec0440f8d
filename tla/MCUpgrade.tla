------------------------------- MODULE MCUpgrade -------------------------------
(***************************************************************************)
(* Instances of Upgrade for TLC.                                           *)
(***************************************************************************)
EXTENDS Upgrade, TLC

CONSTANTS A, B, q1, c1, c2

\* ensure starts a manual daemon the way start and restart do.
UserOps == {"start", "stop", "install", "uninstall"}

\* An outsider takes the port while the upgrade starts the daemon again, and is gone
\* when the upgrade is over: at other times, MCDaemon has them.
LateOther == port'[q1] = Other => place' = "starting"

\* The user starts a manual daemon from another path than the upgrade does: it has
\* to come back from TargetPath.
UserPaths == \A c \in Cmds \ {Inner} : op[c] = "start" => exec[c] # TargetPath

\* An upgrade that fails before it has touched a daemon might as well not have begun.
LateFailure == place \in {"status", "install"} /\ place' = "failed" => place = "install" /\ previous.running

OnePort == [p \in Profiles |-> q1]
Symmetries == Permutations(Daemons) \cup Permutations({c1, c2}) \cup Permutations(Profiles)
================================================================================
