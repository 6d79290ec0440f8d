-------------------------- MODULE SurgeProfileProofs --------------------------
(***************************************************************************)
(* What is proved of SurgeProfile for every set of commands, requests and  *)
(* profiles: that each edit is right, that profiles stay well formed       *)
(* however commands overlap, and what a command may rely on that no other  *)
(* overlaps.                                                               *)
(***************************************************************************)
EXTENDS ProfileLinesProofs

(***************************************************************************)
(* The edits                                                               *)
(***************************************************************************)

\* A block fits when each of its lines does.
LEMMA FitsByLine ==
  ASSUME NEW managed, IsSequence(managed), NEW clean, IsSequence(clean)
  PROVE  Fits(managed, clean) <=>
           /\ Apart(managed)
           /\ \A l \in ToSet(managed) : InBlock(l)
           /\ \A l \in ToSet(clean), k \in ToSet(managed) : ~Clash(l, k)
  <1>1. ToSet(managed) = {managed[i] : i \in 1 .. Len(managed)} /\ ToSet(clean) = {clean[i] : i \in 1 .. Len(clean)}
    BY MemberOf
  <1>2. (\A l \in ToSet(managed) : InBlock(l)) <=> \A k \in 1 .. Len(managed) : InBlock(managed[k])
    BY <1>1
  <1>3. (\A l \in ToSet(clean), k \in ToSet(managed) : ~Clash(l, k))
          <=> \A i \in 1 .. Len(clean), k \in 1 .. Len(managed) : ~Clash(clean[i], managed[k])
    BY <1>1
  <1> QED
    BY <1>2, <1>3 DEF Fits

\* An empty block fits anywhere.
LEMMA NothingFits ==
  ASSUME NEW clean
  PROVE  Fits(<<>>, clean) /\ ToSet(<<>>) = {}
  <1>1. IsSequence(<<>>) /\ Len(<<>>) = 0 /\ 1 .. 0 = {}
    BY Empty
  <1> QED
    BY <1>1, MemberOf DEF Fits, Apart

\* An edit that is written leaves a tidy profile, keeps what the user wrote, and
\* does not turn a child away.
EditRight(r, lines, out) == Tidy(out) /\ Manual(out) = Manual(lines) /\ TargetsKept(r, lines, out)

\* Without [Proxy] there is no block.
LEMMA NoBlock ==
  ASSUME NEW lines, SectionStart(lines, "[proxy]") = 0
  PROVE  ManagedProxyBlock(lines) = <<>>
  BY DEF ManagedProxyBlock

\* removePolicies: the policies that stay fit where the block was.
LEMMA RemoveRight ==
  ASSUME NEW lines, Tidy(lines), NEW r, r.op = "remove", RemovePolicies(lines, r) # Refused
  PROVE  EditRight(r, lines, RemovePolicies(lines, r))
  <1> DEFINE managed == ManagedProxyBlock(lines)
             clean == RemoveManagedProxyBlock(lines)
             S == {i \in DOMAIN managed : ~(IsProxy(managed[i]) /\ managed[i].name \in r.names)}
             next == Keep(managed, S)
             block == IF ProxyNames(next) = {} THEN <<>> ELSE next
             out == RemovePolicies(lines, r)
  <1>1. next # managed /\ out = RenderManagedProxyBlock(clean, block)
    BY DEF RemovePolicies
  <1>2. SectionStart(lines, "[proxy]") # 0
    <2> SUFFICES ASSUME SectionStart(lines, "[proxy]") = 0 PROVE next = managed
      BY <1>1
    <2>1. managed = <<>>
      BY NoBlock
    <2>2. IsSequence(managed) /\ Len(managed) = 0 /\ DOMAIN managed = 1 .. 0
      BY <2>1, Empty, Domain
    <2>3. S = 1 .. 0
      BY <2>2
    <2> HIDE DEF managed, S
    <2> QED
      BY <2>2, <2>3, KeepAll
  <1>3. Clean(clean) /\ Fits(managed, clean) /\ Manual(lines) = Headless(clean)
    BY <1>2, TakenApart
  <1> HIDE DEF managed, clean, out
  <1>4. IsSequence(managed) /\ IsSequence(clean) /\ DOMAIN managed = 1 .. Len(managed)
    BY <1>3, Domain DEF Fits, Clean
  <1>5. S \in SUBSET (1 .. Len(managed))
    BY <1>4
  <1>6. IsSequence(next) /\ ToSet(next) = {managed[i] : i \in S} /\ Apart(next)
    <2>1. Apart(managed)
      BY <1>3 DEF Fits
    <2> HIDE DEF S
    <2> QED
      BY <1>4, <1>5, <2>1, KeptLines, KeptApart
  <1>7. ToSet(managed) = {managed[i] : i \in 1 .. Len(managed)}
    BY <1>4, MemberOf
  <1>8. ToSet(next) \subseteq ToSet(managed)
    BY <1>5, <1>6, <1>7
  <1>9. \A l \in ToSet(managed) : IsProxy(l) /\ l.name \notin r.names => l \in ToSet(next)
    BY <1>4, <1>6, <1>7
  <1> HIDE DEF S, next
  <1>10. Fits(next, clean)
    BY <1>3, <1>4, <1>6, <1>8, FitsByLine
  <1>11. Fits(block, clean)
    BY <1>10, NothingFits
  <1>12. Tidy(out) /\ ManagedProxyBlock(out) = block /\ Manual(out) = Manual(lines)
    <2> HIDE DEF block
    <2> QED
      BY <1>1, <1>3, <1>11, Rendered
  <1>13. TargetsKept(r, lines, out)
    <2> SUFFICES ASSUME ManagedPoliciesOK(lines), NEW l \in ToSet(managed), l.name \notin r.names
                 PROVE  VerifyManagedRunTarget(out, l.link, l.port)
      BY DEF TargetsKept, Touched, managed
    <2>1. \A k \in ToSet(managed) : IsCurrent(k)
      BY DEF ManagedPoliciesOK, managed
    <2>2. l \in ToSet(next) /\ IsProxy(l)
      BY <1>9, <2>1 DEF IsCurrent
    <2>3. ProxyNames(next) # {}
      BY <2>2 DEF ProxyNames
    <2>4. next # <<>>
      BY <2>2, NothingFits
    <2> QED
      BY <1>8, <1>12, <2>1, <2>2, <2>3, <2>4 DEF VerifyManagedRunTarget, ManagedPoliciesOK
  <1> QED
    BY <1>12, <1>13 DEF EditRight, out

\* A block in which one name is changed to one that nobody else has, and links.
NameChanged(next, managed, from, new) ==
  /\ IsSequence(next) /\ Len(next) = Len(managed)
  /\ \A k \in 1 .. Len(managed) :
       /\ InBlock(next[k]) /\ next[k].port = managed[k].port
       /\ IsProxy(next[k]) => IsProxy(managed[k])
       /\ next[k].name = IF managed[k].name = from THEN new ELSE managed[k].name
       /\ IsProxy(managed[k]) /\ managed[k].name # from => managed[k].name # new

\* It fits where the block did.
LEMMA ChangedFits ==
  ASSUME NEW managed, NEW clean, Fits(managed, clean), IsSequence(clean),
         NEW next, NEW from, NEW new, NameChanged(next, managed, from, new),
         new \notin ProxyNames(clean)
  PROVE  Fits(next, clean)
  <1>1. ASSUME NEW j \in 1 .. Len(managed), NEW k \in 1 .. Len(managed), j # k
        PROVE  ~Clash(next[j], next[k])
    <2>1. ~Clash(managed[j], managed[k])
      BY <1>1 DEF Fits, Apart
    <2> QED
      BY <1>1, <2>1 DEF Clash, NameChanged
  <1>2. ASSUME NEW i \in 1 .. Len(clean), NEW k \in 1 .. Len(managed)
        PROVE  ~Clash(clean[i], next[k])
    <2>1. ~Clash(clean[i], managed[k])
      BY DEF Fits
    <2>2. IsProxy(clean[i]) => clean[i].name # new
      <3>1. clean[i] \in ToSet(clean)
        BY MemberOf
      <3> QED
        BY <3>1 DEF ProxyNames
    <2> QED
      BY <2>1, <2>2 DEF Clash, NameChanged
  <1> QED
    BY <1>1, <1>2 DEF Fits, Apart, NameChanged

\* renamePolicy
LEMMA RenameRight ==
  ASSUME NEW lines, Tidy(lines), NEW r, r.op = "rename", IsName(r.to), RenamePolicy(lines, r) # Refused
  PROVE  EditRight(r, lines, RenamePolicy(lines, r))
  <1> DEFINE managed == ManagedProxyBlock(lines)
             clean == RemoveManagedProxyBlock(lines)
             taken == ProxyNames(Section(clean)) \cup (ProxyNames(managed) \ {r.from})
             new == UniqueName(taken, r.to)
             Renamed(l) == IF l.name = r.from THEN [l EXCEPT !.name = new] ELSE l
             next == [i \in DOMAIN managed |-> Renamed(managed[i])]
             out == RenamePolicy(lines, r)
  <1>1. r.from \in ProxyNames(managed) /\ out = RenderManagedProxyBlock(clean, next)
    BY DEF RenamePolicy
  <1>2. SectionStart(lines, "[proxy]") # 0
    <2>1. managed # <<>>
      BY <1>1, NothingFits DEF ProxyNames
    <2> QED
      BY <2>1, NoBlock
  <1>3. Clean(clean) /\ Fits(managed, clean) /\ Manual(lines) = Headless(clean)
    BY <1>2, TakenApart
  <1> HIDE DEF managed, clean, out
  <1>4. IsSequence(managed) /\ IsSequence(clean) /\ Len(managed) \in Nat /\ DOMAIN managed = 1 .. Len(managed)
    BY <1>3, Domain DEF Fits, Clean
  <1>5. ProxyNames(Section(clean)) = ProxyNames(clean)
    BY <1>3, SectionPolicies DEF Clean
  <1>6. new \notin taken /\ IsName(new)
    <2>1. IsFiniteSet(ProxyNames(clean)) /\ IsFiniteSet(ProxyNames(managed))
      BY <1>4, FinitelyManyNames
    <2>2. IsFiniteSet(ProxyNames(managed) \ {r.from})
      BY <2>1, FS_Subset
    <2>3. IsFiniteSet(taken)
      BY <1>5, <2>1, <2>2, FS_Union
    <2> HIDE DEF taken
    <2> QED
      BY <2>3, FreeName
  <1>7. new \notin ProxyNames(clean) /\ (new \in ProxyNames(managed) => new = r.from)
    BY <1>5, <1>6
  <1> HIDE DEF taken, new
  <1>8. ToSet(managed) = {managed[i] : i \in 1 .. Len(managed)}
    BY <1>4, MemberOf
  <1>9. \A k \in 1 .. Len(managed) : InBlock(managed[k])
    BY <1>3 DEF Fits
  <1>10. ASSUME NEW k \in 1 .. Len(managed), managed[k].name = r.from PROVE IsProxy(managed[k])
    <2>1. PICK j \in 1 .. Len(managed) : IsProxy(managed[j]) /\ managed[j].name = r.from
      BY <1>1, <1>8 DEF ProxyNames
    <2>2. IsName(r.from)
      BY <1>9, <2>1 DEF InBlock, LineOK
    <2> QED
      BY <1>9, <1>10, <2>2 DEF InBlock, LineOK, IsName
  <1>11. next = [i \in 1 .. Len(managed) |-> next[i]] /\ \A k \in 1 .. Len(managed) : next[k] = Renamed(managed[k])
    BY <1>4
  <1> HIDE DEF next
  <1>12. IsSequence(next) /\ Len(next) = Len(managed)
    BY <1>4, <1>11, Given
  <1>13. ASSUME NEW k \in 1 .. Len(managed)
         PROVE  /\ next[k].kind = managed[k].kind /\ next[k].port = managed[k].port /\ next[k].link = managed[k].link
                /\ next[k].name = IF managed[k].name = r.from THEN new ELSE managed[k].name
                /\ LineOK(next[k])
    <2>1. LineOK(managed[k])
      BY <1>9 DEF InBlock
    <2> DEFINE l == managed[k]
    <2>2. CASE l.name # r.from
      BY <1>11, <2>1, <2>2
    <2>3. CASE l.name = r.from
      <3>1. l = [kind |-> l.kind, name |-> l.name, port |-> l.port, link |-> l.link]
        BY <2>1 DEF LineOK
      <3>2. next[k] = [l EXCEPT !.name = new]
        BY <1>11, <2>3
      <3>3. next[k] = [kind |-> l.kind, name |-> new, port |-> l.port, link |-> l.link]
        <4> HIDE DEF l
        <4> QED
          BY <3>1, <3>2
      <3>4. IsProxy(l)
        BY <1>10, <2>3
      <3>5. next[k].kind = l.kind /\ next[k].port = l.port /\ next[k].link = l.link /\ next[k].name = new
        BY <3>3
      <3> HIDE DEF l
      <3> QED
        BY <1>6, <2>1, <2>3, <3>3, <3>4, <3>5 DEF LineOK, IsProxy, l
    <2> QED
      BY <2>2, <2>3
  <1>14. \A k \in 1 .. Len(managed) :
           /\ InBlock(next[k]) /\ next[k].port = managed[k].port
           /\ IsProxy(next[k]) => IsProxy(managed[k])
           /\ next[k].name = IF managed[k].name = r.from THEN new ELSE managed[k].name
           /\ IsProxy(managed[k]) /\ managed[k].name # r.from => managed[k].name # new
    <2> SUFFICES ASSUME NEW k \in 1 .. Len(managed)
                 PROVE  /\ InBlock(next[k]) /\ next[k].port = managed[k].port
                        /\ IsProxy(next[k]) => IsProxy(managed[k])
                        /\ next[k].name = IF managed[k].name = r.from THEN new ELSE managed[k].name
                        /\ IsProxy(managed[k]) /\ managed[k].name # r.from => managed[k].name # new
      OBVIOUS
    <2>1. InBlock(next[k])
      <3>1. next[k].kind = managed[k].kind /\ next[k].link = managed[k].link /\ LineOK(next[k])
        BY <1>13
      <3>2. InBlock(managed[k])
        BY <1>9
      <3>3. ~IsHeader(next[k]) /\ (next[k].link # None => Accepted(next[k].link))
        BY <3>1, <3>2 DEF InBlock, IsHeader
      <3>4. ~IsMarker(next[k])
        <4>1. CASE managed[k].name # r.from
          BY <1>9, <1>11, <4>1 DEF InBlock
        <4>2. CASE managed[k].name = r.from
          BY <1>10, <3>1, <4>2, MarkerKinds DEF IsProxy
        <4> QED
          BY <4>1, <4>2
      <3> QED
        BY <3>1, <3>3, <3>4 DEF InBlock
    <2>2. IsProxy(managed[k]) => managed[k].name \in ProxyNames(managed)
      BY <1>8 DEF ProxyNames
    <2>3. /\ next[k].port = managed[k].port /\ next[k].kind = managed[k].kind
          /\ next[k].name = IF managed[k].name = r.from THEN new ELSE managed[k].name
      BY <1>13
    <2>4. IsProxy(next[k]) => IsProxy(managed[k])
      BY <2>3 DEF IsProxy
    <2>5. IsProxy(managed[k]) /\ managed[k].name # r.from => managed[k].name # new
      BY <1>7, <2>2
    <2> QED
      BY ONLY <2>1, <2>3, <2>4, <2>5, Zenon
  <1>15. Fits(next, clean)
    <2> DEFINE from == r.from
    <2>1. NameChanged(next, managed, from, new)
      BY <1>12, <1>14 DEF NameChanged
    <2> HIDE DEF from
    <2> QED
      BY <1>3, <1>4, <1>7, <2>1, ChangedFits
  <1>16. Tidy(out) /\ ManagedProxyBlock(out) = next /\ Manual(out) = Manual(lines)
    BY <1>1, <1>3, <1>15, Rendered
  <1>17. TargetsKept(r, lines, out)
    <2> SUFFICES ASSUME ManagedPoliciesOK(lines), NEW l \in ToSet(managed)
                 PROVE  VerifyManagedRunTarget(out, l.link, l.port)
      BY DEF TargetsKept, managed
    <2>1. \A k \in ToSet(managed) : IsCurrent(k)
      BY DEF ManagedPoliciesOK, managed
    <2>2. PICK k \in 1 .. Len(managed) : l = managed[k]
      BY <1>8
    <2>3. ToSet(next) = {next[i] : i \in 1 .. Len(managed)}
      BY <1>12, MemberOf
    <2>4. \A m \in ToSet(next) : IsCurrent(m)
      BY <1>8, <1>13, <2>1, <2>3 DEF IsCurrent, IsProxy
    <2>5. next[k] \in ToSet(next) /\ next[k].link = l.link /\ next[k].port = l.port
      BY <1>13, <2>2, <2>3
    <2>6. next # <<>>
      BY <2>5, NothingFits
    <2> QED
      BY <1>16, <2>4, <2>5, <2>6 DEF VerifyManagedRunTarget, ManagedPoliciesOK
  <1> QED
    BY <1>16, <1>17 DEF EditRight, out

\* replacePolicy
LEMMA ReplaceRight ==
  ASSUME NEW lines, Tidy(lines), NEW r, r.op = "replace", r.link \in Links, ReplacePolicy(lines, r) # Refused
  PROVE  EditRight(r, lines, ReplacePolicy(lines, r))
  <1> DEFINE managed == ManagedProxyBlock(lines)
             clean == RemoveManagedProxyBlock(lines)
             Replaced(l) == IF l.name = r.name THEN ProxyLine(l.name, l.port, r.link) ELSE l
             next == [i \in DOMAIN managed |-> Replaced(managed[i])]
             out == ReplacePolicy(lines, r)
  <1>1. /\ Accepted(r.link) /\ r.name \in ProxyNames(managed)
        /\ \A l \in ToSet(managed) : IsCurrent(l)
        /\ out = RenderManagedProxyBlock(clean, next)
    BY DEF ReplacePolicy
  <1>2. SectionStart(lines, "[proxy]") # 0
    <2>1. managed # <<>>
      BY <1>1, NothingFits DEF ProxyNames
    <2> QED
      BY <2>1, NoBlock
  <1>3. Clean(clean) /\ Fits(managed, clean) /\ Manual(lines) = Headless(clean)
    BY <1>2, TakenApart
  <1> HIDE DEF managed, clean, out
  <1>4. IsSequence(managed) /\ IsSequence(clean) /\ Len(managed) \in Nat /\ DOMAIN managed = 1 .. Len(managed)
    BY <1>3, Domain DEF Fits, Clean
  <1>5. ToSet(managed) = {managed[i] : i \in 1 .. Len(managed)} /\ ToSet(clean) = {clean[i] : i \in 1 .. Len(clean)}
    BY <1>4, MemberOf
  <1>6. \A k \in 1 .. Len(managed) : InBlock(managed[k]) /\ IsCurrent(managed[k])
    BY <1>1, <1>3, <1>5 DEF Fits
  <1>7. r.name \notin ProxyNames(clean)
    <2>1. PICK j \in 1 .. Len(managed) : IsProxy(managed[j]) /\ managed[j].name = r.name
      BY <1>1, <1>5 DEF ProxyNames
    <2>2. \A i \in 1 .. Len(clean) : IsProxy(clean[i]) => clean[i].name # r.name
      BY <1>3, <2>1 DEF Fits, Clash
    <2> QED
      BY <1>5, <2>2 DEF ProxyNames
  <1>8. next = [i \in 1 .. Len(managed) |-> next[i]] /\ \A k \in 1 .. Len(managed) : next[k] = Replaced(managed[k])
    BY <1>4
  <1> HIDE DEF next
  <1>9. IsSequence(next) /\ Len(next) = Len(managed)
    BY <1>4, <1>8, Given
  <1>10. ASSUME NEW k \in 1 .. Len(managed)
         PROVE  /\ next[k].name = managed[k].name /\ next[k].port = managed[k].port
                /\ next[k].link = IF managed[k].name = r.name THEN r.link ELSE managed[k].link
                /\ IsProxy(next[k]) /\ InBlock(next[k])
    <2> DEFINE l == managed[k]
    <2>1. InBlock(l) /\ IsCurrent(l)
      BY <1>6
    <2>2. CASE l.name # r.name
      BY <1>8, <2>1, <2>2 DEF IsCurrent
    <2>3. CASE l.name = r.name
      <3> DEFINE m == next[k]
      <3>1. m = ProxyLine(l.name, l.port, r.link)
        BY <1>8, <2>3
      <3> HIDE DEF l, m
      <3>2. /\ m = [kind |-> m.kind, name |-> m.name, port |-> m.port, link |-> m.link]
            /\ m.kind = "policy" /\ m.name = l.name /\ m.port = l.port /\ m.link = r.link
        BY <3>1 DEF ProxyLine
      <3>3. IsProxy(m) /\ ~IsHeader(m) /\ ~IsMarker(m)
        BY <3>2, MarkerKinds DEF IsProxy, IsHeader
      <3>4. IsName(l.name) /\ l.port \in 0 .. MaxPort
        BY <2>1 DEF InBlock, IsCurrent, LineOK
      <3>5. LineOK(m)
        BY <3>2, <3>3, <3>4 DEF LineOK
      <3>6. InBlock(m)
        BY <1>1, <3>2, <3>3, <3>5 DEF InBlock
      <3> QED
        BY <2>3, <3>2, <3>3, <3>6 DEF l, m
    <2> QED
      BY <2>2, <2>3
  <1>11. \A k \in 1 .. Len(managed) :
           /\ InBlock(next[k]) /\ next[k].port = managed[k].port
           /\ IsProxy(next[k]) => IsProxy(managed[k])
           /\ next[k].name = IF managed[k].name = r.name THEN r.name ELSE managed[k].name
           /\ IsProxy(managed[k]) /\ managed[k].name # r.name => managed[k].name # r.name
    BY <1>6, <1>10 DEF IsCurrent
  <1>12. Fits(next, clean)
    <2> DEFINE name == r.name
    <2>1. NameChanged(next, managed, name, name)
      BY <1>9, <1>11 DEF NameChanged
    <2>2. name \notin ProxyNames(clean)
      BY <1>7
    <2> HIDE DEF name
    <2> QED
      BY <1>3, <1>4, <2>1, <2>2, ChangedFits
  <1>13. Tidy(out) /\ ManagedProxyBlock(out) = next /\ Manual(out) = Manual(lines)
    BY <1>1, <1>3, <1>12, Rendered
  <1>14. TargetsKept(r, lines, out)
    <2> SUFFICES ASSUME NEW l \in ToSet(managed), l.name # r.name
                 PROVE  VerifyManagedRunTarget(out, l.link, l.port)
      BY DEF TargetsKept, managed, Touched
    <2>1. PICK k \in 1 .. Len(managed) : l = managed[k]
      BY <1>5
    <2>2. ToSet(next) = {next[i] : i \in 1 .. Len(managed)}
      BY <1>9, MemberOf
    <2>3. \A m \in ToSet(next) : IsCurrent(m)
      <3>1. ASSUME NEW i \in 1 .. Len(managed) PROVE IsCurrent(next[i])
        <4>1. IsCurrent(managed[i]) /\ r.link # None
          BY <1>6, LinkConstants
        <4> QED
          BY <1>10, <4>1 DEF IsCurrent
      <3> QED
        BY <2>2, <3>1
    <2>4. next[k] \in ToSet(next) /\ next[k].link = l.link /\ next[k].port = l.port
      BY <1>10, <2>1, <2>2
    <2>5. next # <<>>
      BY <2>4, NothingFits
    <2> QED
      BY <1>13, <2>3, <2>4, <2>5 DEF VerifyManagedRunTarget, ManagedPoliciesOK
  <1> QED
    BY <1>13, <1>14 DEF EditRight, out

\* One block behind the other.
LEMMA Behind ==
  ASSUME NEW s, NEW t, IsSequence(s), IsSequence(t)
  PROVE  Spliced(s \o t, s, Len(s) + 1, t)
  <1> DEFINE out == s \o t
             at == Len(s) + 1
  <1>1. Len(s) \in Nat /\ Len(t) \in Nat
    BY Domain
  <1>2. /\ IsSequence(out) /\ Len(out) = Len(s) + Len(t)
        /\ \A i \in 1 .. Len(s) : out[i] = s[i]
        /\ \A i \in Len(s) + 1 .. Len(s) + Len(t) : out[i] = t[i - Len(s)]
    BY Concat
  <1> HIDE DEF out
  <1>3. \A i \in 1 .. at - 1 : out[i] = s[i]
    <2>1. at - 1 = Len(s)
      BY <1>1
    <2> QED
      BY <1>2, <2>1
  <1>4. ASSUME NEW i \in 1 .. Len(t) PROVE out[at + i - 1] = t[i]
    <2>1. at + i - 1 \in Len(s) + 1 .. Len(s) + Len(t) /\ (at + i - 1) - Len(s) = i
      BY <1>1
    <2> HIDE DEF at
    <2> QED
      BY <1>2, <2>1
  <1>5. at .. Len(s) = {} /\ at \in 1 .. Len(s) + 1
    BY <1>1
  <1> HIDE DEF at
  <1>6. Spliced(out, s, at, t)
    BY <1>2, <1>3, <1>4, <1>5 DEF Spliced
  <1> QED
    BY <1>6 DEF out, at

\* Two blocks that fit and do not clash fit one behind the other.
LEMMA BothFit ==
  ASSUME NEW clean, IsSequence(clean), NEW s, Fits(s, clean), NEW t, Fits(t, clean),
         \A l \in ToSet(s), k \in ToSet(t) : ~Clash(l, k)
  PROVE  Fits(s \o t, clean) /\ ToSet(s \o t) = ToSet(s) \cup ToSet(t)
  <1> DEFINE out == s \o t
             at == Len(s) + 1
  <1>1. IsSequence(s) /\ IsSequence(t)
    BY DEF Fits
  <1>2. Spliced(out, s, at, t)
    BY <1>1, Behind, Domain
  <1> HIDE DEF out, at
  <1>3. ToSet(out) = ToSet(s) \cup ToSet(t) /\ IsSequence(out)
    <2>1. ToSet(out) = ToSet(s) \cup ToSet(t)
      BY <1>2, Members
    <2>2. IsSequence(out)
      BY <1>2 DEF Spliced
    <2> QED
      BY <2>1, <2>2
  <1>4. Apart(out)
    <2>1. \A i \in 1 .. Len(s), j \in 1 .. Len(t) : ~Clash(s[i], t[j])
      BY <1>1, MemberOf
    <2>2. Apart(s) /\ Apart(t)
      BY DEF Fits
    <2> QED
      BY <1>2, <2>1, <2>2, ApartSpliced
  <1>5. /\ \A l \in ToSet(s) \cup ToSet(t) : InBlock(l)
        /\ \A l \in ToSet(clean), k \in ToSet(s) \cup ToSet(t) : ~Clash(l, k)
    BY <1>1, FitsByLine
  <1>6. Fits(out, clean)
    BY <1>3, <1>4, <1>5, FitsByLine
  <1> QED
    BY <1>3, <1>6 DEF out

\* What add and install find: the lines of the profile, with a [Proxy] in any case,
\* and the block apart.
LEMMA Prepared ==
  ASSUME NEW lines, Tidy(lines)
  PROVE  LET with == IF SectionStart(lines, "[proxy]") # 0 THEN lines ELSE InsertProxySection(lines)
             clean == RemoveManagedProxyBlock(with)
             block == ManagedProxyBlock(with)
         IN  /\ Clean(clean) /\ Fits(block, clean)
             /\ Manual(lines) = Headless(clean)
             /\ block = ManagedProxyBlock(lines)
             /\ LocalPorts(Section(with)) \subseteq LocalPorts(clean) \cup LocalPorts(block)
  <1> DEFINE with == IF SectionStart(lines, "[proxy]") # 0 THEN lines ELSE InsertProxySection(lines)
             clean == RemoveManagedProxyBlock(with)
             block == ManagedProxyBlock(with)
  <1>1. CASE SectionStart(lines, "[proxy]") # 0
    <2>1. with = lines
      BY <1>1
    <2> HIDE DEF with
    <2>2. /\ Clean(clean) /\ Fits(block, clean) /\ Manual(lines) = Headless(clean)
          /\ ToSet(lines) \subseteq ToSet(clean) \cup ToSet(block) \cup {Begin, End}
      BY <1>1, <2>1, TakenApart
    <2>3. LocalPorts(Section(lines)) = LocalPorts(lines)
      <3>1. IsSequence(lines) /\ \A i \in 1 .. Len(lines) : IsProxy(lines[i]) => i \in InProxy(lines)
        BY Domain DEF Tidy
      <3> QED
        BY <1>1, <3>1, SectionPolicies
    <2>4. ~IsProxy(Begin) /\ ~IsProxy(End)
      BY MarkerKinds DEF IsMarker, IsBegin, IsEnd
    <2> HIDE DEF clean, block
    <2>5. LocalPorts(lines) \subseteq LocalPorts(clean) \cup LocalPorts(block)
      BY <2>2, <2>4 DEF LocalPorts
    <2> QED
      BY <2>1, <2>2, <2>3, <2>5 DEF clean, block, with
  <1>2. CASE SectionStart(lines, "[proxy]") = 0
    <2>1. with = InsertProxySection(lines)
      BY <1>2
    <2> HIDE DEF with
    <2>2. /\ Clean(with) /\ Headless(with) = Manual(lines) /\ block = <<>> /\ clean = with
          /\ LocalPorts(with) = {}
      BY <1>2, <2>1, SectionInserted
    <2>3. ManagedProxyBlock(lines) = <<>>
      BY <1>2, NoBlock
    <2>4. LocalPorts(Section(with)) = LocalPorts(with)
      BY <2>2, SectionPolicies DEF Clean
    <2> QED
      BY <2>2, <2>3, <2>4, NothingFits DEF with
  <1> QED
    BY <1>1, <1>2 DEF with

\* The ports that an add or install gives out: what PortsFresh says of one edit.
FreshPorts(r, lines, out) ==
  \A l \in ToSet(ManagedProxyBlock(out)) \ ToSet(ManagedProxyBlock(lines)) :
    /\ l.port \notin LocalPorts(Manual(lines))
    /\ l.port \in busy => r.op = "install" /\ l.port \in LocalPorts(ManagedProxyBlock(lines))

\* addPolicies, and Install: the lines made fit between those that stay.
LEMMA AddRight ==
  ASSUME NEW lines, Tidy(lines), NEW r, r.op \in {"add", "install"}, RequestOK(r),
         AddPolicies(lines, r) # Refused
  PROVE  EditRight(r, lines, AddPolicies(lines, r)) /\ FreshPorts(r, lines, AddPolicies(lines, r))
  <1> DEFINE with == IF SectionStart(lines, "[proxy]") # 0 THEN lines ELSE InsertProxySection(lines)
             block == ManagedProxyBlock(with)
             clean == RemoveManagedProxyBlock(with)
             kept == IF r.op = "install" THEN <<>> ELSE block
             used == LocalPorts(Section(clean)) \cup LocalPorts(kept)
             reusable == LocalPorts(Section(with)) \ used
             names == Taken(clean, kept)
             added == NewLines(r.nodes, r.base, names, used, reusable)
             managed == kept \o added
             out == AddPolicies(lines, r)
  <1>1. /\ AllAccepted(r.nodes)
        /\ \A l \in ToSet(kept) : IsCurrent(l)
        /\ \A l \in ToSet(added) : l.port # 0
        /\ out = RenderManagedProxyBlock(clean, managed)
    BY DEF AddPolicies
  <1>2. /\ Clean(clean) /\ Fits(block, clean) /\ Manual(lines) = Headless(clean)
        /\ block = ManagedProxyBlock(lines)
        /\ LocalPorts(Section(with)) \subseteq LocalPorts(clean) \cup LocalPorts(block)
    BY Prepared
  <1>3. /\ IsSequence(r.nodes) /\ r.base \in 1 .. MaxPort
        /\ \A i \in 1 .. Len(r.nodes) : IsName(r.nodes[i].name) /\ r.nodes[i].link \in Links
    <2>1. /\ IsSequence(r.nodes) /\ r.base \in 1 .. MaxPort
          /\ \A i \in DOMAIN r.nodes : IsName(r.nodes[i].name) /\ r.nodes[i].link \in Links
      BY DEF RequestOK
    <2> QED
      BY <2>1, Domain
  <1>4. reusable \subseteq LocalPorts(block) \ used
    <2>1. LocalPorts(Section(clean)) = LocalPorts(clean)
      BY <1>2, SectionPolicies DEF Clean
    <2> HIDE DEF with, block, clean, kept
    <2> QED
      BY <1>2, <2>1
  <1>5. kept = IF r.op = "install" THEN <<>> ELSE block
    OBVIOUS
  <1>6. /\ used = LocalPorts(clean) \cup LocalPorts(kept)
        /\ names = ProxyNames(clean) \cup ProxyNames(kept)
    BY <1>2, SectionPolicies DEF Clean, Taken
  <1> HIDE DEF with, block, clean, kept, used, names, reusable, out
  <1>7. Fits(kept, clean) /\ ToSet(kept) \subseteq ToSet(block)
    BY <1>2, <1>5, NothingFits
  <1>8. IsFiniteSet(names)
    <2>1. IsFiniteSet(ProxyNames(clean)) /\ IsFiniteSet(ProxyNames(kept))
      BY <1>2, <1>7, FinitelyManyNames DEF Clean, Fits
    <2> QED
      BY <1>6, <2>1, FS_Union
  <1>9. /\ IsSequence(added) /\ Len(added) = Len(r.nodes) /\ Apart(added)
        /\ \A k \in 1 .. Len(added) :
             LET l == added[k]
             IN  /\ l = ProxyLine(l.name, l.port, r.nodes[k].link)
                 /\ IsName(l.name) /\ l.name \notin names
                 /\ l.port \in 0 .. MaxPort
                 /\ l.port # 0 => l.port \notin used /\ (l.port \in reusable \/ l.port \notin busy)
    <2> DEFINE nodes == r.nodes
               base == r.base
    <2>1. /\ IsSequence(nodes) /\ base \in 1 .. MaxPort /\ IsFiniteSet(names)
          /\ \A i \in 1 .. Len(nodes) : IsName(nodes[i].name)
      BY <1>3, <1>8
    <2>2. added = NewLines(nodes, base, names, used, reusable)
      OBVIOUS
    <2> HIDE DEF nodes, base, added
    <2>3. /\ IsSequence(added) /\ Len(added) = Len(nodes) /\ Apart(added)
          /\ \A k \in 1 .. Len(added) :
               LET l == added[k]
               IN  /\ l = ProxyLine(l.name, l.port, nodes[k].link)
                   /\ IsName(l.name) /\ l.name \notin names
                   /\ l.port \in 0 .. MaxPort
                   /\ l.port # 0 => l.port \notin used /\ (l.port \in reusable \/ l.port \notin busy)
      BY <2>1, <2>2, LinesMade
    <2> QED
      BY <2>3 DEF nodes
  <1> HIDE DEF added
  <1>10. ToSet(added) = {added[k] : k \in 1 .. Len(added)}
    BY <1>9, MemberOf
  <1>11. ASSUME NEW l \in ToSet(added)
         PROVE  /\ InBlock(l) /\ IsCurrent(l) /\ l.name \notin names
                /\ l.port # 0 /\ l.port \notin used /\ (l.port \in reusable \/ l.port \notin busy)
    <2>1. PICK k \in 1 .. Len(added) : l = added[k]
      BY <1>10
    <2> DEFINE link == r.nodes[k].link
    <2>2. /\ l = ProxyLine(l.name, l.port, link)
          /\ IsName(l.name) /\ l.name \notin names /\ l.port \in 0 .. MaxPort
          /\ l.port # 0 => l.port \notin used /\ (l.port \in reusable \/ l.port \notin busy)
      BY <1>9, <2>1
    <2>3. l.port # 0
      BY <1>1
    <2>4. link \in Links /\ Accepted(link)
      <3>1. k \in 1 .. Len(r.nodes) /\ DOMAIN r.nodes = 1 .. Len(r.nodes)
        BY <1>3, <1>9, <2>1, Domain
      <3> QED
        BY <1>1, <1>3, <3>1 DEF AllAccepted
    <2> HIDE DEF link
    <2>5. link # None /\ MaxPort \in Nat
      BY <2>4, LinkConstants
    <2>6. /\ l = [kind |-> l.kind, name |-> l.name, port |-> l.port, link |-> l.link]
          /\ l.kind = "policy" /\ l.link = link
      BY <2>2 DEF ProxyLine
    <2>7. IsProxy(l) /\ ~IsHeader(l) /\ ~IsMarker(l)
      BY <2>6, MarkerKinds DEF IsProxy, IsHeader
    <2>8. InBlock(l)
      BY <2>2, <2>4, <2>6, <2>7 DEF InBlock, LineOK
    <2>9. IsCurrent(l)
      BY <2>2, <2>3, <2>5, <2>6, <2>7 DEF IsCurrent
    <2> QED
      BY <2>2, <2>3, <2>8, <2>9
  <1>12. ASSUME NEW l \in ToSet(clean) \cup ToSet(kept), NEW k \in ToSet(added) PROVE ~Clash(l, k)
    <2>1. k.name \notin names /\ k.port # 0 /\ k.port \notin used
      BY <1>11
    <2>2. IsProxy(l) => l.name \in names
      BY <1>6 DEF ProxyNames
    <2>3. IsProxy(l) /\ l.port # 0 => l.port \in used
      BY <1>6 DEF LocalPorts
    <2> QED
      BY <2>1, <2>2, <2>3 DEF Clash
  <1>13. IsSequence(clean)
    BY <1>2 DEF Clean
  <1>14. Fits(added, clean)
    BY <1>9, <1>11, <1>12, <1>13, FitsByLine
  <1>15. Fits(managed, clean) /\ ToSet(managed) = ToSet(kept) \cup ToSet(added)
    BY <1>7, <1>12, <1>13, <1>14, BothFit
  <1> HIDE DEF managed
  <1>16. Tidy(out) /\ ManagedProxyBlock(out) = managed /\ Manual(out) = Manual(lines)
    BY <1>1, <1>2, <1>15, Rendered
  <1>17. TargetsKept(r, lines, out)
    <2> SUFFICES ASSUME r.op # "install", NEW l \in ToSet(block)
                 PROVE  VerifyManagedRunTarget(out, l.link, l.port)
      BY <1>2 DEF TargetsKept
    <2>1. l \in ToSet(managed)
      BY <1>5, <1>15
    <2>2. \A k \in ToSet(managed) : IsCurrent(k)
      BY <1>1, <1>11, <1>15
    <2>3. managed # <<>>
      BY <2>1, NothingFits
    <2> QED
      BY <1>16, <2>1, <2>2, <2>3 DEF VerifyManagedRunTarget, ManagedPoliciesOK
  <1>18. FreshPorts(r, lines, out)
    <2> SUFFICES ASSUME NEW l \in ToSet(managed), l \notin ToSet(block)
                 PROVE  /\ l.port \notin LocalPorts(Manual(lines))
                        /\ l.port \in busy => r.op = "install" /\ l.port \in LocalPorts(block)
      BY <1>2, <1>16 DEF FreshPorts
    <2>1. l \in ToSet(added)
      BY <1>7, <1>15
    <2>2. l.port \notin used /\ (l.port \in reusable \/ l.port \notin busy)
      BY <1>11, <2>1
    <2>3. LocalPorts(Manual(lines)) \subseteq LocalPorts(clean)
      <3> DEFINE S == {i \in 1 .. Len(clean) : clean[i] # Plain("[proxy]")}
      <3>1. ToSet(Keep(clean, S)) = {clean[i] : i \in S} /\ ToSet(clean) = {clean[i] : i \in 1 .. Len(clean)}
        BY <1>13, KeptLines, MemberOf
      <3>2. ToSet(Manual(lines)) \subseteq ToSet(clean)
        BY <1>2, <3>1 DEF Headless
      <3> QED
        BY <3>2 DEF LocalPorts
    <2>4. r.op # "install" => kept = block
      BY <1>5
    <2> QED
      BY <1>4, <1>6, <2>2, <2>3, <2>4
  <1> QED
    BY <1>16, <1>17, <1>18 DEF EditRight, out

\* Every edit: from a tidy profile and a request there may be.
LEMMA EditIsRight ==
  ASSUME NEW lines, Tidy(lines), NEW r, RequestOK(r), Edit(lines, r) # Refused
  PROVE  /\ EditRight(r, lines, Edit(lines, r))
         /\ r.op \in {"add", "install"} => FreshPorts(r, lines, Edit(lines, r))
  <1>1. CASE r.op \in {"add", "install"}
    <2>1. Edit(lines, r) = AddPolicies(lines, r)
      BY <1>1 DEF Edit
    <2> QED
      BY <1>1, <2>1, AddRight
  <1>2. CASE r.op = "remove"
    <2>1. Edit(lines, r) = RemovePolicies(lines, r)
      BY <1>2 DEF Edit
    <2> QED
      BY <1>2, <2>1, RemoveRight
  <1>3. CASE r.op = "rename"
    <2>1. Edit(lines, r) = RenamePolicy(lines, r)
      BY <1>3 DEF Edit
    <2>2. IsName(r.to)
      BY <1>3 DEF RequestOK
    <2> QED
      BY <1>3, <2>1, <2>2, RenameRight
  <1>4. CASE r.op = "replace"
    <2>1. Edit(lines, r) = ReplacePolicy(lines, r)
      BY <1>4 DEF Edit
    <2>2. r.link \in Links
      BY <1>4 DEF RequestOK
    <2> QED
      BY <1>4, <2>1, <2>2, ReplaceRight
  <1> QED
    BY <1>1, <1>2, <1>3, <1>4 DEF RequestOK

(***************************************************************************)
(* The commands                                                            *)
(***************************************************************************)

\* What is held for each command is a function on Cmds.
ForCommands == /\ original = [c \in Cmds |-> original[c]]
               /\ rendered = [c \in Cmds |-> rendered[c]]

EditIInv == EditInv /\ ForCommands

\* What EditInv says of one command.
CommandOK(c) ==
  /\ pc[c] \in {"read", "edit", "backup", "save"} => request[c] \in Requests
  /\ pc[c] \in {"edit", "backup", "save"} => Tidy(original[c])
  /\ pc[c] \in {"backup", "save"} => /\ Tidy(rendered[c])
                                     /\ Manual(rendered[c]) = Manual(original[c])
                                     /\ TargetsKept(request[c], original[c], rendered[c])

\* No tidy profile is empty.
LEMMA TidyIsSomething ==
  ASSUME NEW lines, Tidy(lines)
  PROVE  lines # <<>>
  BY DEF Tidy

\* A command that goes from one place to the next leaves the others alone.
LEMMA OthersKeep ==
  ASSUME EditIInv, NEW c \in Cmds, NEW to, pc' = [pc EXCEPT ![c] = to],
         \A d \in Cmds \ {c} : /\ request'[d] = request[d] /\ original'[d] = original[d]
                               /\ rendered'[d] = rendered[d]
  PROVE  \A d \in Cmds \ {c} : CommandOK(d)' /\ pc'[d] = pc[d]
  <1> SUFFICES ASSUME NEW d \in Cmds \ {c} PROVE CommandOK(d)' /\ pc'[d] = pc[d]
    OBVIOUS
  <1>1. pc'[d] = pc[d]
    BY DEF EditIInv, EditInv, TypeOK
  <1>2. CommandOK(d)
    BY DEF EditIInv, EditInv, CommandOK
  <1> QED
    BY <1>1, <1>2 DEF CommandOK

\* Every profile is tidy, and what a command is about to write is right.
LEMMA EditInvariance == Spec => []EditIInv
  <1>1. Init => EditIInv
    <2> SUFFICES ASSUME Init PROVE EditIInv
      OBVIOUS
    <2>1. Tidy(profile)
      BY EditInputs DEF Init
    <2>2. TypeOK
      BY <2>1, TidyIsSomething DEF Init, TypeOK
    <2>3. ForCommands
      BY DEF Init, ForCommands
    <2>4. \A c \in Cmds : pc[c] = "new"
      BY DEF Init
    <2> QED
      BY <2>1, <2>2, <2>3, <2>4 DEF EditIInv, EditInv
  <1>2. EditIInv /\ [Next]_vars => EditIInv'
    <2> SUFFICES ASSUME EditIInv, [Next]_vars PROVE EditIInv'
      OBVIOUS
    <2> DEFINE Holds == TypeOK /\ Tidy(profile) /\ ForCommands /\ \A c \in Cmds : CommandOK(c)
    <2>0. Holds /\ (Holds' => EditIInv')
      BY DEF EditIInv, EditInv, CommandOK
    <2>1. ASSUME NEW c \in Cmds, NEW r \in Requests, Start(c, r) PROVE Holds'
      <3>1. TypeOK' /\ ForCommands'
        BY <2>0, <2>1 DEF Start, Goto, TypeOK, ForCommands
      <3>2. pc'[c] = "read" /\ request'[c] = r
        BY <2>0, <2>1 DEF Start, Goto, TypeOK
      <3>3. \A d \in Cmds \ {c} : CommandOK(d)'
        BY <2>0, <2>1, OthersKeep DEF Start, Goto, TypeOK
      <3>4. CommandOK(c)'
        BY <3>2 DEF CommandOK
      <3>5. Tidy(profile)'
        BY <2>0, <2>1 DEF Start
      <3> QED
        BY <3>1, <3>3, <3>4, <3>5
    <2>2. ASSUME NEW c \in Cmds, Read(c) PROVE Holds'
      <3>1. TypeOK' /\ ForCommands'
        BY <2>0, <2>2 DEF Read, Goto, TypeOK, ForCommands
      <3>2. pc[c] = "read" /\ pc'[c] = "edit" /\ request'[c] = request[c] /\ original'[c] = profile
        BY <2>0, <2>2 DEF Read, Goto, TypeOK, ForCommands
      <3>3. \A d \in Cmds \ {c} : CommandOK(d)'
        BY <2>0, <2>2, OthersKeep DEF Read, Goto, ForCommands
      <3>4. CommandOK(c)'
        BY <2>0, <3>2 DEF CommandOK
      <3>5. Tidy(profile)'
        BY <2>0, <2>2 DEF Read
      <3> QED
        BY <3>1, <3>3, <3>4, <3>5
    <2>3. ASSUME NEW c \in Cmds, Render(c) PROVE Holds'
      <3>1. /\ pc[c] = "edit" /\ pc'[c] = "backup" /\ request'[c] = request[c] /\ original'[c] = original[c]
            /\ rendered'[c] = Edit(original[c], request[c]) /\ rendered'[c] # Refused
        BY <2>0, <2>3 DEF Render, Goto, TypeOK, ForCommands
      <3>2. request[c] \in Requests /\ Tidy(original[c])
        BY <2>0, <3>1 DEF CommandOK
      <3>3. EditRight(request[c], original[c], rendered'[c])
        <4>1. RequestOK(request[c])
          BY <3>2, EditInputs
        <4> QED
          BY <3>1, <3>2, <4>1, EditIsRight
      <3>4. CommandOK(c)'
        BY <3>1, <3>2, <3>3 DEF CommandOK, EditRight
      <3>5. \A d \in Cmds \ {c} : CommandOK(d)' /\ pc'[d] = pc[d] /\ original'[d] = original[d] /\ rendered'[d] = rendered[d]
        BY <2>0, <2>3, OthersKeep DEF Render, Goto, ForCommands
      <3>6. TypeOK'
        <4>1. \A d \in Cmds : pc'[d] \in {"backup", "save"} => original'[d] # <<>> /\ rendered'[d] # Refused
          BY <3>1, <3>2, <3>5, <2>0, TidyIsSomething DEF TypeOK
        <4> QED
          BY <2>0, <2>3, <4>1 DEF Render, Goto, TypeOK
      <3>7. ForCommands' /\ Tidy(profile)'
        BY <2>0, <2>3 DEF Render, ForCommands
      <3> QED
        BY <3>4, <3>5, <3>6, <3>7
    <2>4. ASSUME NEW c \in Cmds, WriteBackup(c) PROVE Holds'
      <3>1. TypeOK' /\ ForCommands' /\ Tidy(profile)'
        BY <2>0, <2>4 DEF WriteBackup, Goto, TypeOK, ForCommands
      <3>2. pc[c] = "backup" /\ pc'[c] = "save" /\ UNCHANGED <<request, original, rendered>>
        BY <2>0, <2>4 DEF WriteBackup, Goto, TypeOK
      <3>3. \A d \in Cmds \ {c} : CommandOK(d)'
        BY <2>0, <2>4, <3>2, OthersKeep DEF WriteBackup, Goto
      <3>4. CommandOK(c)'
        BY <2>0, <3>2 DEF CommandOK
      <3> QED
        BY <3>1, <3>3, <3>4
    <2>5. ASSUME NEW c \in Cmds, Save(c) \/ Abandon(c) PROVE Holds'
      <3>1. Finish(c) /\ pc'[c] = "gone"
        BY <2>0, <2>5 DEF Save, Abandon, Finish, TypeOK
      <3>2. Tidy(profile)'
        <4>1. CASE Save(c)
          <5>1. Tidy(rendered[c]) /\ profile' = rendered[c]
            BY <2>0, <4>1 DEF Save, CommandOK
          <5> QED
            BY <5>1
        <4>2. CASE Abandon(c)
          BY <2>0, <4>2 DEF Abandon
        <4> QED
          BY <2>5, <4>1, <4>2
      <3>3. ForCommands' /\ UNCHANGED busy
        BY <2>0, <2>5, <3>1 DEF Save, Abandon, Finish, ForCommands
      <3>4. \A d \in Cmds \ {c} : CommandOK(d)'
        BY <2>0, <3>1, OthersKeep DEF Finish, TypeOK, ForCommands
      <3>5. CommandOK(c)'
        BY <3>1 DEF CommandOK
      <3>6. TypeOK'
        <4>1. \A d \in Cmds : pc'[d] \in {"backup", "save"} => original'[d] # <<>> /\ rendered'[d] # Refused
          BY <2>0, <3>1 DEF Finish, TypeOK, ForCommands
        <4>2. profile' # <<>>
          BY <3>2, TidyIsSomething
        <4> QED
          BY <2>0, <3>1, <3>3, <4>1, <4>2 DEF Finish, TypeOK
      <3> QED
        BY <3>2, <3>3, <3>4, <3>5, <3>6
    <2>6. CASE UserEdit
      <3>1. Tidy(profile')
        <4>1. PICK l \in UserLines : /\ l.name \notin ProxyNames(Section(profile))
                                     /\ l.port \notin LocalPorts(Section(profile))
                                     /\ profile' = InsertAt(profile, SectionStart(profile, "[proxy]") + 1, l)
          BY <2>6 DEF UserEdit
        <4>2. LineOK(l) /\ IsProxy(l)
          BY EditInputs
        <4> QED
          BY <2>0, <2>6, <4>1, <4>2, LineWritten DEF UserEdit
      <3>2. UNCHANGED <<pc, request, consent, original, rendered, busy>>
        BY <2>6 DEF UserEdit
      <3>3. TypeOK' /\ ForCommands'
        BY <2>0, <3>1, <3>2, TidyIsSomething DEF TypeOK, ForCommands
      <3>4. \A c \in Cmds : CommandOK(c)'
        BY <2>0, <3>2 DEF CommandOK
      <3> QED
        BY <2>0, <3>1, <3>3, <3>4
    <2>7. CASE Outsider
      <3>1. UNCHANGED <<profile, pc, request, consent, original, rendered>> /\ busy' \subseteq Contested
        BY <2>0, <2>7 DEF Outsider, TypeOK
      <3>2. TypeOK' /\ ForCommands' /\ Tidy(profile)'
        BY <2>0, <3>1 DEF TypeOK, ForCommands
      <3>3. \A c \in Cmds : CommandOK(c)'
        BY <2>0, <3>1 DEF CommandOK
      <3> QED
        BY <2>0, <3>2, <3>3
    <2>8. CASE UNCHANGED vars
      <3>1. UNCHANGED <<profile, pc, request, consent, original, rendered, busy>>
        BY <2>8 DEF vars
      <3>2. TypeOK' /\ ForCommands' /\ Tidy(profile)'
        BY <2>0, <3>1 DEF TypeOK, ForCommands
      <3>3. \A c \in Cmds : CommandOK(c)'
        BY <2>0, <3>1 DEF CommandOK
      <3> QED
        BY <2>0, <3>2, <3>3
    <2> HIDE DEF Holds
    <2> QED
      BY <2>0, <2>1, <2>2, <2>3, <2>4, <2>5, <2>6, <2>7, <2>8 DEF Next, Command
  <1> QED
    BY <1>1, <1>2, PTL DEF Spec

\* Whatever the profiles to start from, the requests, the lines the user writes and the
\* interleaving: every profile an edit leaves behind is one that an edit may start from.
THEOREM EditsRight == Spec => []EditInv
  <1>1. EditIInv => EditInv
    BY DEF EditIInv
  <1> QED
    BY <1>1, EditInvariance, PTL

\* A tidy profile is well formed: its markers are those of its one block.
LEMMA TidyIsWellFormed == Tidy(profile) => WellFormed
  <1> SUFFICES ASSUME Tidy(profile) PROVE WellFormed
    OBVIOUS
  <1> DEFINE begins == {i \in DOMAIN profile : IsBegin(profile[i])}
             ends == {i \in DOMAIN profile : IsEnd(profile[i])}
  <1>1. /\ IsSequence(profile) /\ DOMAIN profile = 1 .. Len(profile) /\ Len(profile) \in Nat
        /\ {i \in DOMAIN profile : IsProxy(profile[i]) \/ IsMarker(profile[i])} \subseteq InProxy(profile)
        /\ NoClash(profile) /\ Apart(profile)
    BY Domain, NoClashIsApart DEF Tidy
  <1>2. Begin # End
    BY MarkerKinds
  <1>3. /\ \A i, j \in begins : i = j
        /\ \A i, j \in ends : i = j
        /\ begins = {} <=> Unmarked(profile)
        /\ ends = {} <=> Unmarked(profile)
    <2>1. CASE Unmarked(profile)
      <3>1. begins = {} /\ ends = {}
        BY <1>1, <2>1 DEF Unmarked, IsMarker
      <3> QED
        BY <2>1, <3>1
    <2>2. CASE ~Unmarked(profile)
      <3>1. PICK b \in DOMAIN profile, e \in DOMAIN profile : BlockAt(profile, b, e)
        BY <1>1, <2>2 DEF Unmarked, Tidy
      <3>2. IsBegin(profile[b]) /\ IsEnd(profile[e]) /\ \A i \in DOMAIN profile : IsMarker(profile[i]) => i \in {b, e}
        BY <3>1 DEF BlockAt
      <3>3. begins = {b} /\ ends = {e}
        BY <1>2, <3>2 DEF IsMarker, IsBegin, IsEnd
      <3> HIDE DEF begins, ends
      <3> QED
        BY <2>2, <3>3
    <2> QED
      BY <2>1, <2>2
  <1>4. NoClash(Section(profile)) /\ (ManagedProxyBlock(profile) = <<>> <=> Unmarked(profile))
    <2>1. CASE SectionStart(profile, "[proxy]") # 0
      <3>1. IsSequence(Section(profile)) /\ Apart(Section(profile))
        BY <1>1, <2>1, SectionPolicies
      <3>2. ManagedProxyBlock(profile) = <<>> <=> Unmarked(profile)
        BY <2>1, TakenApart
      <3> QED
        BY <3>1, <3>2, NoClashIsApart
    <2>2. CASE SectionStart(profile, "[proxy]") = 0
      <3>1. \A i \in 1 .. Len(profile) : ~IsProxy(profile[i]) /\ ~IsMarker(profile[i])
        BY <1>1, <2>2 DEF InProxy
      <3>2. Unmarked(profile) /\ ManagedProxyBlock(profile) = <<>>
        BY <2>2, <3>1, NoBlock DEF Unmarked
      <3>3. NoClash(Section(profile))
        <4> DEFINE z == SectionEnd(profile, "[proxy]")
        <4>1. Section(profile) = SubSeq(profile, 1, z - 1)
          <5> DEFINE p == SectionStart(profile, "[proxy]")
          <5>1. Section(profile) = SubSeq(profile, p + 1, z - 1)
            BY DEF Section
          <5>2. p = 0
            BY <2>2
          <5> HIDE DEF p, z
          <5>3. p + 1 = 1
            BY <5>2
          <5> QED
            BY <5>1, <5>3
        <4>2. z \in 1 .. Len(profile) + 1
          <5> DEFINE S == {i \in 1 .. Len(profile) : IsHeader(profile[i])} \cup {Len(profile) + 1}
          <5>1. z = Min(S)
            BY <2>2 DEF SectionEnd
          <5>2. S \in SUBSET Nat /\ S # {} /\ S \subseteq 1 .. Len(profile) + 1
            BY <1>1
          <5> HIDE DEF S, z
          <5>3. Min(S) \in S
            BY <5>2, MinMember
          <5> QED
            BY <5>1, <5>2, <5>3
        <4> HIDE DEF z
        <4>3. /\ IsSequence(Section(profile)) /\ Len(Section(profile)) = z - 1
              /\ \A i \in 1 .. z - 1 : Section(profile)[i] = profile[i]
          <5>1. 1 \in 1 .. Len(profile) + 1 /\ z - 1 \in 1 - 1 .. Len(profile) /\ (z - 1) - 1 + 1 = z - 1
            BY <1>1, <4>2
          <5>2. \A i \in 1 .. z - 1 : 1 + i - 1 = i
            BY <4>2
          <5> DEFINE n == z - 1
          <5> HIDE DEF n
          <5>3. n \in 1 - 1 .. Len(profile) /\ n - 1 + 1 = n /\ \A i \in 1 .. n : 1 + i - 1 = i
            BY <5>1, <5>2 DEF n
          <5>4. /\ IsSequence(SubSeq(profile, 1, n)) /\ Len(SubSeq(profile, 1, n)) = n - 1 + 1
                /\ \A i \in 1 .. n - 1 + 1 : SubSeq(profile, 1, n)[i] = profile[1 + i - 1]
            BY <1>1, <5>1, <5>3, Sub
          <5>5. Section(profile) = SubSeq(profile, 1, n)
            BY <4>1 DEF n
          <5> QED
            BY <5>3, <5>4, <5>5 DEF n
        <4>4. \A i \in 1 .. z - 1 : ~IsProxy(Section(profile)[i])
          BY <1>1, <3>1, <4>2, <4>3
        <4>5. DOMAIN Section(profile) = 1 .. z - 1
          BY <4>3, Domain
        <4> QED
          BY <4>4, <4>5 DEF NoClash, Clash
      <3> QED
        BY <3>2, <3>3
    <2> QED
      BY <2>1, <2>2
  <1> QED
    BY <1>3, <1>4 DEF WellFormed

\* For every profile and request, and however edits overlap: no edit ever leaves two
\* policies of one name or port, an empty block or a marker too many behind.
THEOREM ProfilesWellFormed == Spec => []WellFormed
  <1>1. EditIInv => WellFormed
    BY TidyIsWellFormed DEF EditIInv, EditInv
  <1> QED
    BY <1>1, EditInvariance, PTL

\* No edit adds, drops, moves or changes a line outside the managed block of the
\* profile that it read.
THEOREM ManualLinesKept == Spec => ManualKept
  <1>1. EditIInv /\ [Next]_vars => [\A c \in Cmds : Saves(c) => Manual(profile') = Manual(original[c])]_vars
    <2> SUFFICES ASSUME EditIInv, NEW c \in Cmds, Saves(c) PROVE Manual(profile') = Manual(original[c])
      OBVIOUS
    <2>1. Manual(rendered[c]) = Manual(original[c]) /\ profile' = rendered[c]
      BY DEF Saves, EditIInv, EditInv
    <2> QED
      BY <2>1
  <1> QED
    BY <1>1, EditInvariance, PTL DEF Spec, ManualKept

\* No edit turns away a child that runs with the command line of a policy that the
\* edit is not about.
THEOREM RunningTargetsKept == Spec => TargetsSurvive
  <1>1. EditIInv /\ [Next]_vars => [\A c \in Cmds : Saves(c) => TargetsKept(request[c], original[c], profile')]_vars
    <2> SUFFICES ASSUME EditIInv, NEW c \in Cmds, Saves(c) PROVE TargetsKept(request[c], original[c], profile')
      OBVIOUS
    <2>1. TargetsKept(request[c], original[c], rendered[c]) /\ profile' = rendered[c]
      BY DEF Saves, EditIInv, EditInv
    <2> QED
      BY <2>1
  <1> QED
    BY <1>1, EditInvariance, PTL DEF Spec, TargetsSurvive

\* No edit gives a policy a port that another line of the profile takes, or that
\* another program listens on, the ports of the block it replaces apart.
THEOREM PortsGivenFresh == Spec => PortsFresh
  <1> DEFINE Fresh(c) ==
        \A l \in ToSet(ManagedProxyBlock(rendered'[c])) \ ToSet(ManagedProxyBlock(original[c])) :
          /\ l.port \notin LocalPorts(Manual(original[c]))
          /\ l.port \in busy => /\ request[c].op = "install"
                                /\ l.port \in LocalPorts(ManagedProxyBlock(original[c]))
  <1>1. EditIInv /\ [Next]_vars =>
          [\A c \in Cmds : pc[c] = "edit" /\ pc'[c] = "backup" /\ request[c].op \in {"add", "install"} => Fresh(c)]_vars
    <2> SUFFICES ASSUME EditIInv, Next, NEW c \in Cmds, pc[c] = "edit", pc'[c] = "backup",
                        request[c].op \in {"add", "install"}
                 PROVE  Fresh(c)
      BY DEF vars
    <2>1. Render(c)
      <3>1. PICK d \in Cmds : Command(d)
        BY DEF Next, UserEdit, Outsider
      <3>2. d = c
        BY <3>1 DEF Command, Start, Read, Render, WriteBackup, Save, Abandon, Finish, Goto, EditIInv, EditInv, TypeOK
      <3> QED
        BY <3>1, <3>2 DEF Command, Start, Read, WriteBackup, Save, Abandon, Finish, Goto, EditIInv, EditInv, TypeOK
    <2>2. rendered'[c] = Edit(original[c], request[c]) /\ rendered'[c] # Refused
      BY <2>1 DEF Render, EditIInv, ForCommands
    <2>3. Tidy(original[c]) /\ RequestOK(request[c])
      BY EditInputs DEF EditIInv, EditInv
    <2>4. FreshPorts(request[c], original[c], rendered'[c])
      BY <2>2, <2>3, EditIsRight
    <2> QED
      BY <2>4 DEF FreshPorts
  <1> QED
    BY <1>1, EditInvariance, PTL DEF Spec, PortsFresh

(***************************************************************************)
(* Commands that no other overlaps                                         *)
(***************************************************************************)

Working == {"read", "edit", "backup", "save"}

\* The variables that hold a value for each command are functions on Cmds.
Shape == /\ pc \in [Cmds -> {"new", "gone"} \cup Working]
         /\ original = [c \in Cmds |-> original[c]]
         /\ request = [c \in Cmds |-> request[c]]
         /\ consent \in [Cmds -> BOOLEAN]

\* An add that no other command overlaps was agreed to, unless the profile has a
\* block already.
Asked == \A c \in AtWork \cap Alone :
           request[c].op = "add" /\ ~ProfileHasManagedBlock(profile) => consent[c]

IInv == Shape /\ Serial /\ Asked

\* Only the command at work writes the profile or the backup, so what it read
\* is what is there when it saves.
LEMMA Invariance == Spec => []IInv
  <1> USE OverlappingCommands DEF IInv, Shape, Serial, Asked, AtWork, Alone, Working, Goto
  <1>1. Init => IInv
    BY DEF Init
  <1>2. IInv /\ [Next]_vars => IInv'
    <2> SUFFICES ASSUME IInv, [Next]_vars PROVE IInv'
      OBVIOUS
    <2>0. ASSUME NEW c \in Cmds, NEW r \in Requests, Start(c, r) PROVE IInv'
      BY <2>0 DEF Start
    <2>1. ASSUME NEW c \in Cmds, Read(c) PROVE IInv'
      BY <2>1 DEF Read
    <2>2. ASSUME NEW c \in Cmds, Render(c) PROVE IInv'
      BY <2>2 DEF Render
    <2>3. ASSUME NEW c \in Cmds, WriteBackup(c) PROVE IInv'
      BY <2>3 DEF WriteBackup
    <2>4. ASSUME NEW c \in Cmds, Save(c) PROVE IInv'
      <3>1. Shape'
        BY <2>4 DEF Save, Finish
      <3>2. AtWork' = AtWork \ {c} /\ c \in AtWork
        BY <2>4 DEF Save, Finish
      <3>3. (AtWork \cap Alone)' = {}
        <4>1. \A d \in AtWork \cap Alone : AtWork = {d}
          OBVIOUS
        <4> HIDE DEF AtWork, IInv
        <4> QED
          BY <3>2, <4>1
      <3> QED
        BY <3>1, <3>3
    <2>5. ASSUME NEW c \in Cmds, Abandon(c) PROVE IInv'
      BY <2>5 DEF Abandon, Finish
    <2>6. CASE UserEdit
      BY <2>6 DEF UserEdit
    <2>7. CASE Outsider
      BY <2>7 DEF Outsider
    <2>8. CASE UNCHANGED vars
      BY <2>8 DEF vars
    <2> HIDE DEF IInv
    <2> QED
      BY <2>0, <2>1, <2>2, <2>3, <2>4, <2>5, <2>6, <2>7, <2>8 DEF Next, Command
  <1> HIDE DEF IInv
  <1> QED
    BY <1>1, <1>2, PTL DEF Spec

\* A command that no other overlaps leaves behind a backup of exactly the profile
\* it replaces, whatever overlapping commands, the user, other programs and
\* failures did before.
THEOREM BackupOfLastEdit == Spec => BackupIsPrevious
  <1>1. IInv /\ [Next]_vars => [\A c \in Alone : Saves(c) => backup' = profile]_vars
    <2> SUFFICES ASSUME IInv, [Next]_vars, NEW c \in Alone, Saves(c), ~(UNCHANGED vars)
                 PROVE backup' = profile
      BY DEF vars
    <2> USE OverlappingCommands DEF IInv, Shape, Serial, AtWork, Alone, Working, Goto, Saves
    <2>1. backup = profile
      OBVIOUS
    <2>2. ASSUME NEW d \in Cmds, Command(d) PROVE backup' = backup
      BY <2>2 DEF Command, Start, Read, Render, WriteBackup, Save, Abandon, Finish
    <2>3. CASE UserEdit
      BY <2>3 DEF UserEdit
    <2>4. CASE Outsider
      BY <2>4 DEF Outsider
    <2> QED
      BY <2>1, <2>2, <2>3, <2>4 DEF Next
  <1> QED
    BY <1>1, Invariance, PTL DEF Spec, BackupIsPrevious

\* An add that no other command overlaps never gives a profile its first managed
\* block without the user's consent, whatever the requests and profiles are.
THEOREM FirstEditAsked == Spec => FirstEditConfirmed
  <1>1. IInv /\ [Next]_vars =>
          [\A c \in Alone : Saves(c) /\ request[c].op = "add" /\ ~ProfileHasManagedBlock(profile) => consent[c]]_vars
    BY DEF IInv, Asked, AtWork, Alone, Saves
  <1> QED
    BY <1>1, Invariance, PTL DEF Spec, FirstEditConfirmed
===============================================================================
