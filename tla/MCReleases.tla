------------------------------ MODULE MCReleases ------------------------------
(***************************************************************************)
(* Instances of Releases for TLC: a development build, a release and three  *)
(* of its prereleases, whose order as strings is not that of versions.     *)
(***************************************************************************)
EXTENDS Releases, TLC

CONSTANTS dev, v1, v1beta, v1beta2, v1beta10, here, there

N(n) == [kind |-> "number", value |-> n]
W(n) == [kind |-> "word", value |-> n]
V1 == <<N(1), N(0), N(0)>>

\* "dev", "v1.0.0" and the prereleases beta, beta.2 and beta.10.
SomeText == (dev :> [core |-> <<W(2)>>, pre |-> <<>>])
         @@ (v1 :> [core |-> V1, pre |-> <<>>])
         @@ (v1beta :> [core |-> V1, pre |-> <<W(1)>>])
         @@ (v1beta2 :> [core |-> V1, pre |-> <<W(1), N(2)>>])
         @@ (v1beta10 :> [core |-> V1, pre |-> <<W(1), N(10)>>])
SomeRank == (dev :> 1) @@ (v1 :> 2) @@ (v1beta :> 3) @@ (v1beta10 :> 4) @@ (v1beta2 :> 5)
TheText == [t \in Tags |-> SomeText[t]]
TheRank == [t \in Tags |-> SomeRank[t]]

\* While an upgrade looks at what it was told, nothing is published; and an upgrade
\* starts from binaries that no other has replaced, which are any of Built.
EarlyReleases == UNCHANGED github \/ at \in {"idle", "stable", "beta"}
FirstUpgrade == at = "idle" /\ at' # "idle" => installed \in [Programs -> Built]

Symmetries == Permutations(Programs)
===============================================================================
