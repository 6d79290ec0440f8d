------------------------------- MODULE ShareLink -------------------------------
(***************************************************************************)
(* VLESS share links as vless.Parse and Node.Validate see them.  What a    *)
(* link says is the record Node[l]; parameters that are only copied into   *)
(* the configuration of xray-core are part of its server.                  *)
(***************************************************************************)
EXTENDS Naturals

CONSTANTS Links,     \* share links
          Node,      \* what each of them says
          None,      \* a parameter that is not there; no link
          Malformed, \* a parameter that does not parse
          MaxPort    \* 65535 in the code

\* Of the REALITY parameters only the faulty ones matter.
RealityParams == {"sni", "fp", "pbk", "sid", "spx"}

ASSUME LinkConstants ==
  /\ None \notin Links /\ None \notin Nat /\ Malformed \notin Nat \cup {None}
  /\ MaxPort \in Nat
  /\ DOMAIN Node = Links
  /\ \A l \in Links :
       /\ {"wellFormed", "server", "encryption", "security", "type",
           "faults", "level", "heartbeat", "extra"} = DOMAIN Node[l]
       /\ Node[l].wellFormed \in BOOLEAN /\ Node[l].faults \subseteq RealityParams
       /\ Node[l].level \in Nat \cup {None, Malformed}

\* A URL of the vless scheme with a UUID, a host, and a port if any.
Parse(l) == Node[l].wellFormed

\* Node.Network
Network(n) == CASE n.type \in {"", "tcp", "raw"} -> "tcp"
                [] n.type \in {"xhttp", "splithttp"} -> "splithttp"
                [] n.type \in {"ws", "websocket"} -> "ws"
                [] n.type \in {"httpupgrade", "http-upgrade"} -> "httpupgrade"
                [] OTHER -> n.type

Validate(n) == /\ n.encryption \in {"", "none"}
               /\ n.security \in {"", "none", "tls", "reality"}
               /\ Network(n) \in {"tcp", "ws", "grpc", "httpupgrade", "splithttp"}
               /\ n.security = "reality" => n.faults = {}
=================================================================================
