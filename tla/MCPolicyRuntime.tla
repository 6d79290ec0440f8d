--------------------------- MODULE MCPolicyRuntime ---------------------------
(***************************************************************************)
(* Instances of PolicyRuntime for TLC.                                     *)
(***************************************************************************)
EXTENDS PolicyRuntime, TLC

\* Processes, keys and links are interchangeable; no temporal property is
\* checked in a run that uses this.
Symmetries == Permutations(Procs) \cup Permutations(Keys) \cup Permutations(Links)
===============================================================================
