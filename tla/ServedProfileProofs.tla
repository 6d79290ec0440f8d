-------------------------- MODULE ServedProfileProofs --------------------------
(***************************************************************************)
(* What is proved of ServedProfile: for every profile, whatever is in it,  *)
(* the daemon serves each policy as the policy's own child would; and it   *)
(* serves what the edits leave behind.                                     *)
(***************************************************************************)
EXTENDS ServedProfile, SurgeProfileProofs

\* Tags are the same only for the same prefix, port and place.
LEMMA TagsTellApart ==
  ASSUME NEW p, NEW q, NEW a, NEW b, NEW i, NEW j, TaggedName(p, a, i) = TaggedName(q, b, j)
  PROVE  p = q /\ a = b /\ i = j
  BY DEF TaggedName

\* A configuration that is valid is made of all the parts of its policies.
LEMMA PartsOfConfig ==
  ASSUME NEW ps, MultiJSONConfig(ps) # Invalid
  PROVE  /\ \A i \in DOMAIN ps : PartsOK(ps[i])
         /\ \A i, j \in DOMAIN ps : ps[i].port = ps[j].port => i = j
         /\ MultiJSONConfig(ps) = [inbounds |-> [i \in DOMAIN ps |-> Inbound(ps[i], i)],
                                   outbounds |-> [i \in DOMAIN ps |-> Outbound(ps[i], i)],
                                   rules |-> [i \in DOMAIN ps |-> Rule(ps[i], i)],
                                   levels |-> PolicyLevels(ps)]
  BY DEF MultiJSONConfig

\* A connection to the port of a policy goes to that policy's server, as its link
\* says, and nowhere else.
LEMMA ServedByOwnLink ==
  ASSUME NEW ps, MultiJSONConfig(ps) # Invalid, NEW i \in DOMAIN ps
  PROVE  Served(MultiJSONConfig(ps), ps[i].port) = {Settings(Node[ps[i].link])}
  <1> DEFINE C == MultiJSONConfig(ps)
  <1>1. /\ C.inbounds = [j \in DOMAIN ps |-> Inbound(ps[j], j)]
        /\ C.outbounds = [j \in DOMAIN ps |-> Outbound(ps[j], j)]
        /\ C.rules = [j \in DOMAIN ps |-> Rule(ps[j], j)]
    BY PartsOfConfig
  <1>2. /\ \A j \in DOMAIN ps : C.inbounds[j].port = ps[j].port
        /\ \A j \in DOMAIN ps : C.inbounds[j].tag = TaggedName("surge-in", ps[j].port, j)
        /\ \A j \in DOMAIN ps : C.outbounds[j].tag = TaggedName("vless-out", ps[j].port, j)
        /\ \A j \in DOMAIN ps : C.outbounds[j].settings = Settings(Node[ps[j].link])
        /\ \A j \in DOMAIN ps : C.rules[j].inboundTag = TaggedName("surge-in", ps[j].port, j)
        /\ \A j \in DOMAIN ps : C.rules[j].outboundTag = TaggedName("vless-out", ps[j].port, j)
        /\ DOMAIN C.inbounds = DOMAIN ps /\ DOMAIN C.outbounds = DOMAIN ps /\ DOMAIN C.rules = DOMAIN ps
    BY <1>1 DEF Inbound, Outbound, Rule
  <1>3. \A j \in DOMAIN ps : ps[j].port = ps[i].port => j = i
    BY PartsOfConfig
  <1> HIDE DEF C
  <1> DEFINE entered == {C.inbounds[j].tag : j \in {j \in DOMAIN C.inbounds : C.inbounds[j].port = ps[i].port}}
             routed == {C.rules[k].outboundTag : k \in {k \in DOMAIN C.rules : C.rules[k].inboundTag \in entered}}
             taken == {j \in DOMAIN C.outbounds : C.outbounds[j].tag \in routed}
  <1>4. entered = {TaggedName("surge-in", ps[i].port, i)}
    <2>1. {j \in DOMAIN C.inbounds : C.inbounds[j].port = ps[i].port} = {i}
      BY <1>2, <1>3
    <2> QED
      BY <1>2, <2>1
  <1> HIDE DEF entered
  <1>5. routed = {TaggedName("vless-out", ps[i].port, i)}
    <2>1. {k \in DOMAIN C.rules : C.rules[k].inboundTag \in entered} = {i}
      BY <1>2, <1>4, TagsTellApart
    <2> QED
      BY <1>2, <2>1
  <1> HIDE DEF routed
  <1>6. taken = {i}
    BY <1>2, <1>5, TagsTellApart
  <1>7. Served(C, ps[i].port) = {C.outbounds[j].settings : j \in taken}
    BY Zenon DEF Served, entered, routed
  <1> HIDE DEF taken
  <1> QED
    BY <1>2, <1>6, <1>7 DEF C

\* What is valid for the daemon is valid for each child: the parts of a policy do
\* not depend on the others.
LEMMA OwnConfig ==
  ASSUME NEW ps, MultiJSONConfig(ps) # Invalid, NEW i \in DOMAIN ps
  PROVE  /\ JSONConfig(ps[i]) # Invalid
         /\ JSONConfig(ps[i]).levels = {UserLevel(Node[ps[i].link])}
  <1> DEFINE One == <<ps[i]>>
  <1>1. DOMAIN One = {1} /\ One[1] = ps[i] /\ One # <<>>
    OBVIOUS
  <1>2. PartsOK(ps[i])
    BY PartsOfConfig
  <1> HIDE DEF One
  <1>3. MultiJSONConfig(One).levels = {UserLevel(Node[ps[i].link])}
    BY <1>1, <1>2 DEF MultiJSONConfig, PolicyLevels
  <1>4. Invalid.levels = {}
    BY DEF Invalid
  <1> QED
    BY <1>3, <1>4 DEF JSONConfig, One

\* For every profile the daemon accepts, each of its policies is served as its
\* own foreground child would serve it, and keeps the long timeouts.
THEOREM ServedAsAlone == Spec => []SameService
  <1>1. SameService
    <2> DEFINE ps == ManagedProxyBlock(profile)
    <2> SUFFICES ASSUME ConfigFromProfile(profile) # Invalid, NEW i \in DOMAIN ps
                 PROVE  ServesAs(ConfigFromProfile(profile), JSONConfig(ps[i]), ps[i].port)
      BY DEF SameService, ToSet
    <2>1. ConfigFromProfile(profile) = MultiJSONConfig(ps) /\ MultiJSONConfig(ps) # Invalid
      BY DEF ConfigFromProfile
    <2> HIDE DEF ps
    <2>2. JSONConfig(ps[i]) # Invalid /\ JSONConfig(ps[i]).levels = {UserLevel(Node[ps[i].link])}
      BY <2>1, OwnConfig
    <2>3. Served(MultiJSONConfig(ps), ps[i].port) = {Settings(Node[ps[i].link])}
      BY <2>1, ServedByOwnLink
    <2>4. Served(JSONConfig(ps[i]), ps[i].port) = {Settings(Node[ps[i].link])}
      <3> DEFINE One == <<ps[i]>>
      <3>1. 1 \in DOMAIN One /\ One[1] = ps[i]
        OBVIOUS
      <3> HIDE DEF One
      <3>2. MultiJSONConfig(One) # Invalid
        BY <2>2 DEF JSONConfig, One
      <3>3. Served(MultiJSONConfig(One), One[1].port) = {Settings(Node[One[1].link])}
        BY <3>1, <3>2, ServedByOwnLink
      <3> QED
        BY <3>1, <3>3 DEF JSONConfig, One
    <2>5. UserLevel(Node[ps[i].link]) \in MultiJSONConfig(ps).levels
      <3>1. MultiJSONConfig(ps).levels = PolicyLevels(ps)
        BY <2>1, PartsOfConfig
      <3> QED
        BY <3>1 DEF PolicyLevels
    <2> QED
      BY <2>1, <2>2, <2>3, <2>4, <2>5 DEF ServesAs
  <1> QED
    BY <1>1, PTL

\* What an edit leaves in the block is fit for the configuration, as far as the
\* edits look at it.
LEMMA BlockServes ==
  ASSUME NEW lines, Tidy(lines), ManagedPoliciesOK(lines),
         \A l \in ToSet(ManagedProxyBlock(lines)) : Usable(Node[l.link])
  PROVE  ConfigFromProfile(lines) # Invalid
  <1> DEFINE ps == ManagedProxyBlock(lines)
  <1>1. ps # <<>> /\ \A l \in ToSet(ps) : IsCurrent(l) /\ Usable(Node[l.link])
    BY DEF ManagedPoliciesOK
  <1>2. SectionStart(lines, "[proxy]") # 0
    BY <1>1, NoBlock
  <1>3. IsSequence(ps) /\ Apart(ps) /\ \A i \in 1 .. Len(ps) : InBlock(ps[i])
    BY <1>2, TakenApart DEF Fits
  <1>4. ConfigFromProfile(lines) = IF \A l \in ToSet(ps) : Parse(l.link) THEN MultiJSONConfig(ps) ELSE Invalid
    BY DEF ConfigFromProfile
  <1> HIDE DEF ps
  <1>5. DOMAIN ps = 1 .. Len(ps) /\ Len(ps) \in Nat /\ Len(ps) # 0 /\ ToSet(ps) = {ps[i] : i \in 1 .. Len(ps)}
    BY <1>1, <1>3, Domain, NonEmpty, MemberOf
  <1>6. ASSUME NEW i \in 1 .. Len(ps)
        PROVE  Parse(ps[i].link) /\ PartsOK(ps[i]) /\ IsProxy(ps[i]) /\ ps[i].port # 0
    <2>1. IsCurrent(ps[i]) /\ Usable(Node[ps[i].link]) /\ InBlock(ps[i])
      BY <1>1, <1>3, <1>5
    <2>2. Parse(ps[i].link) /\ Validate(Node[ps[i].link])
      BY <2>1 DEF IsCurrent, InBlock, Accepted
    <2>3. ps[i].port \in 1 .. MaxPort /\ ps[i].port # 0 /\ IsProxy(ps[i])
      BY <2>1, LinkConstants DEF IsCurrent, InBlock, LineOK
    <2> QED
      BY <2>1, <2>2, <2>3 DEF PartsOK, Usable
  <1>7. \A i, j \in 1 .. Len(ps) : ps[i].port = ps[j].port => i = j
    <2> SUFFICES ASSUME NEW i \in 1 .. Len(ps), NEW j \in 1 .. Len(ps), ps[i].port = ps[j].port, i # j
                 PROVE  FALSE
      OBVIOUS
    <2>1. ~Clash(ps[i], ps[j])
      BY <1>3 DEF Apart
    <2> QED
      BY <1>6, <2>1 DEF Clash
  <1>8. MultiJSONConfig(ps).levels = PolicyLevels(ps)
    BY <1>1, <1>5, <1>6, <1>7 DEF MultiJSONConfig
  <1>9. UserLevel(Node[ps[1].link]) \in PolicyLevels(ps)
    BY <1>5 DEF PolicyLevels
  <1>10. Invalid.levels = {}
    BY DEF Invalid
  <1>11. ConfigFromProfile(lines) = MultiJSONConfig(ps)
    BY <1>4, <1>5, <1>6
  <1> QED
    BY <1>8, <1>9, <1>10, <1>11

\* Whatever edits there were, and however they overlapped, the daemon can make a
\* configuration of a block of run policies whose links have no parameter that only
\* the configuration looks at and refuses.
THEOREM DaemonServesEdits == Spec => []EditsServe
  <1>1. EditIInv => EditsServe
    BY BlockServes DEF EditIInv, EditInv, EditsServe
  <1> QED
    BY <1>1, EditInvariance, PTL
================================================================================
