------------------------------ MODULE ServedProfile ------------------------------
(***************************************************************************)
(* A profile as the daemon serves it: ConfigFromProfile on what the edits  *)
(* of SurgeProfile leave behind, beside the configuration a foreground     *)
(* child makes from the command line of its policy.                        *)
(***************************************************************************)
EXTENDS SurgeProfile, BridgeConfig

\* The daemon's configuration, or Invalid, and nothing is served.
ConfigFromProfile(lines) ==
  IF /\ ManagedPoliciesOK(lines)
     /\ \A l \in ToSet(ManagedProxyBlock(lines)) : Parse(l.link)
    THEN MultiJSONConfig(ManagedProxyBlock(lines))
    ELSE Invalid

\* What Validate leaves to the configuration to find out.
Usable(n) == VlessSettingsOK(n) /\ StreamSettingsOK(n)

\* Whatever edits there were, and however they overlapped, the daemon can make a
\* configuration of a block of run policies: no edit lets a link in that is not
\* supported, or gives two policies one listener.  Parameters that Validate does
\* not look at are the exception (policyConfigParts, seenPorts).
EditsServe ==
  /\ ManagedPoliciesOK(profile)
  /\ \A l \in ToSet(ManagedProxyBlock(profile)) : Usable(Node[l.link])
  => ConfigFromProfile(profile) # Invalid

\* A configuration serves a policy as the policy's own child would, to the same
\* server in the same way and with the long timeouts.
ServesAs(config, own, port) == /\ own # Invalid
                               /\ Served(config, port) = Served(own, port)
                               /\ own.levels \subseteq config.levels

\* The daemon serves each policy as its own foreground child would, though all
\* policies share one xray-core: a child may rely on the daemon's listener instead.
SameService ==
  LET policies == ManagedProxyBlock(profile)
      config == ConfigFromProfile(profile)
  IN config # Invalid => \A l \in ToSet(policies) : ServesAs(config, JSONConfig(l), l.port)
==================================================================================
