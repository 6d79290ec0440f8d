---------------------------- MODULE MCSurgeProfile ----------------------------
(***************************************************************************)
(* Instances of ServedProfile for TLC.                                     *)
(***************************************************************************)
EXTENDS ServedProfile, TLC

CONSTANTS K, L,     \* links that are served
          Foreign,  \* a link of a transport that is not supported
          Odd,      \* a link whose user level is not a number
          single, c2, c3

n1 == <<"N">>
n2 == <<"N", 2>>
m == <<"M">>

Plainly == [wellFormed |-> TRUE, server |-> "s", encryption |-> "none", security |-> "tls",
            type |-> "", faults |-> {}, level |-> None, heartbeat |-> None, extra |-> None]
TheNodes == (K :> [Plainly EXCEPT !.security = "reality", !.level = 7])
         @@ (L :> [Plainly EXCEPT !.server = "t", !.type = "websocket"])
         @@ (Foreign :> [Plainly EXCEPT !.type = "quic"])
         @@ (Odd :> [Plainly EXCEPT !.level = Malformed])

\* A profile without [Proxy]; one whose manual policy takes a name and a port;
\* blocks of one policy and of two, with lines behind them; and a block with a
\* line that is not a run policy.
SomeStarts ==
  LET head == <<Plain("[general]"), Plain("text")>>
      rule == <<Plain("[rule]"), Plain("text")>>
      other == ProxyLine(m, 2, None)
  IN {head \o rule,
      <<Plain("[proxy]"), ProxyLine(n1, 1, None)>>,
      head \o <<Plain("[proxy]"), Begin, ProxyLine(n1, 1, K), End, other>> \o rule,
      <<Plain("[proxy]"), other, Begin, ProxyLine(n1, 1, K), ProxyLine(n2, 3, L), End>> \o rule,
      <<Plain("[proxy]"), Begin, ProxyLine(n1, 0, None), ProxyLine(n2, 3, K), End>> \o rule}

Named(n, l) == [name |-> n, link |-> l]

SomeRequests ==
  {[op |-> o, nodes |-> <<Named(n1, L), Named(m, K)>>, base |-> 1] : o \in {"add", "install"}}
  \cup {[op |-> "add", nodes |-> <<Named(n1, l)>>, base |-> 3] : l \in {K, Odd}}
  \cup {[op |-> "add", nodes |-> <<Named(m, K), Named(n1, Foreign)>>, base |-> 1]}
  \cup {[op |-> "remove", names |-> {n1}],
        [op |-> "rename", from |-> n2, to |-> n1],
        [op |-> "replace", name |-> n2, link |-> L]}

SomeUserLines == {ProxyLine(m, 4, None)}

Symmetries == Permutations({c2, c3})
===============================================================================
