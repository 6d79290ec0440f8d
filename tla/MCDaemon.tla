------------------------------- MODULE MCDaemon -------------------------------
(***************************************************************************)
(* Instances of Daemon for TLC.                                            *)
(***************************************************************************)
EXTENDS Daemon, TLC

CONSTANTS A, B, q1, q2

\* One profile, or two with a port each.
OnePort == [p \in Profiles |-> q1]
TwoPorts == (A :> q1) @@ (B :> q2)

\* The profiles change places together with their ports.
Swap == [x \in {A, B, q1, q2} |-> CASE x = A -> B [] x = B -> A [] x = q1 -> q2 [] OTHER -> q1]
Symmetries == Permutations(Daemons) \cup Permutations(Cmds) \cup Permutations(Versions) \cup {Swap}
===============================================================================
