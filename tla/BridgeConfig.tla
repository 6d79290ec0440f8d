------------------------------ MODULE BridgeConfig ------------------------------
(***************************************************************************)
(* The configuration of xray-core for a list of policies: one SOCKS5       *)
(* inbound, one VLESS outbound and one routing rule for each, tied by tags, *)
(* and the timeouts of the user levels (bridge.MultiJSONConfig).           *)
(*                                                                         *)
(* A policy is a record with the fields port and link.  Every listener is  *)
(* on the loopback address.                                                *)
(***************************************************************************)
EXTENDS ShareLink

\* An error instead of a configuration.
Invalid == [inbounds |-> <<>>, outbounds |-> <<>>, rules |-> <<>>, levels |-> {}]

\* MUTANT: tags do not tell policies apart.
TaggedByPrefix(prefix, port, index) == <<prefix>>

TaggedName(prefix, port, index) == <<prefix, port, index>>

UserLevel(n) == IF n.level = None THEN 0 ELSE n.level

\* The parameters that only the configuration reads: the level, and those of the
\* transport.
VlessSettingsOK(n) == n.level # Malformed
StreamSettingsOK(n) == /\ Network(n) = "ws" => n.heartbeat # Malformed
                       /\ Network(n) = "splithttp" => n.extra # Malformed

\* Where the outbound connects to, and how.
VlessSettings(n) == [server |-> n.server, level |-> UserLevel(n)]
StreamSettings(n) ==
  [network |-> Network(n),
   security |-> IF n.security = "" THEN "none" ELSE n.security,
   heartbeat |-> IF Network(n) = "ws" THEN n.heartbeat ELSE None,
   extra |-> IF Network(n) = "splithttp" THEN n.extra ELSE None]
Settings(n) == <<VlessSettings(n), StreamSettings(n)>>

\* policyConfigParts
PartsOK(policy) == LET n == Node[policy.link] IN
  Validate(n) /\ policy.port \in 1..MaxPort /\ VlessSettingsOK(n) /\ StreamSettingsOK(n)
Inbound(policy, i) == [tag |-> TaggedName("surge-in", policy.port, i), port |-> policy.port, level |-> 0]
Outbound(policy, i) == [tag |-> TaggedName("vless-out", policy.port, i), settings |-> Settings(Node[policy.link])]
Rule(policy, i) == [inboundTag |-> TaggedName("surge-in", policy.port, i),
                    outboundTag |-> TaggedName("vless-out", policy.port, i)]

\* The levels with the long timeouts.
PolicyLevels(policies) == {UserLevel(Node[policies[i].link]) : i \in DOMAIN policies}

MultiJSONConfig(policies) ==
  IF /\ policies # <<>>
     /\ \A i \in DOMAIN policies : PartsOK(policies[i])
     /\ \A i, j \in DOMAIN policies : policies[i].port = policies[j].port => i = j
    THEN [inbounds |-> [i \in DOMAIN policies |-> Inbound(policies[i], i)],
          outbounds |-> [i \in DOMAIN policies |-> Outbound(policies[i], i)],
          rules |-> [i \in DOMAIN policies |-> Rule(policies[i], i)],
          levels |-> PolicyLevels(policies)]
    ELSE Invalid

\* The configuration of a foreground child.
JSONConfig(policy) == MultiJSONConfig(<<policy>>)

\* xray-core: what may serve a connection to a port.  The rules that name the tag
\* of an inbound on it may match, and the outbounds with their tags be taken.
Served(config, port) ==
  LET entered == {config.inbounds[i].tag : i \in {i \in DOMAIN config.inbounds : config.inbounds[i].port = port}}
      routed == {config.rules[k].outboundTag : k \in {k \in DOMAIN config.rules : config.rules[k].inboundTag \in entered}}
  IN {config.outbounds[j].settings : j \in {j \in DOMAIN config.outbounds : config.outbounds[j].tag \in routed}}
=================================================================================
