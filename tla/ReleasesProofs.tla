----------------------------- MODULE ReleasesProofs -----------------------------
(***************************************************************************)
(* Proofs about Releases: the comparison of tags is a strict order, so the *)
(* loop over the releases of a page keeps their maximum, and a version     *)
(* that was found newer stays newer until it is installed.                 *)
(***************************************************************************)
EXTENDS Releases, TLAPS

LEMMA EmptyPage == <<>> \in Seq(Release)
OBVIOUS

LEMMA TagText ==
  ASSUME NEW t \in Tags
  PROVE  Text[t].core \in Seq(Identifier) /\ Text[t].pre \in Seq(Identifier) /\ Rank[t] \in Nat
BY ReleaseConstants

LEMMA CoreNumbers ==
  ASSUME NEW t \in Tags, Parsed(t), NEW i \in 1..3
  PROVE  Text[t].core[i].value \in Nat
<1>1. Text[t].core[i] \in Identifier
  BY TagText DEF Parsed
<1> QED BY <1>1 DEF Identifier

LEMMA IdentifierTransitive ==
  ASSUME NEW x \in Identifier, NEW y \in Identifier, NEW z \in Identifier,
         BelowIdentifier(x, y), BelowIdentifier(y, z)
  PROVE  BelowIdentifier(x, z)
<1>1. x.value \in Nat /\ y.value \in Nat /\ z.value \in Nat
  BY DEF Identifier
<1> QED BY <1>1 DEF BelowIdentifier

LEMMA IdentifierIrreflexive ==
  ASSUME NEW x \in Identifier
  PROVE  ~BelowIdentifier(x, x)
<1>1. x.value \in Nat
  BY DEF Identifier
<1> QED BY <1>1 DEF BelowIdentifier

(***************************************************************************)
(* The order on tags                                                       *)
(***************************************************************************)

\* Prerelease lists: the first difference of a and c is the earlier one of those
\* of a and b and of b and c.
LEMMA PrereleaseTransitive ==
  ASSUME NEW a \in Seq(Identifier), NEW b \in Seq(Identifier), NEW c \in Seq(Identifier),
         BelowPrerelease(a, b), BelowPrerelease(b, c)
  PROVE  BelowPrerelease(a, c)
<1>1. CASE c = <<>>
  BY <1>1 DEF BelowPrerelease
<1>2. CASE c # <<>>
  <2>1. b # <<>> /\ a # <<>>
    BY DEF BelowPrerelease
  <2>2. PICK i \in 1..Len(b) : /\ \A j \in 1..(i - 1) : j <= Len(a) /\ a[j] = b[j]
                               /\ i <= Len(a) => BelowIdentifier(a[i], b[i])
    BY <2>1 DEF BelowPrerelease
  <2>3. PICK k \in 1..Len(c) : /\ \A j \in 1..(k - 1) : j <= Len(b) /\ b[j] = c[j]
                               /\ k <= Len(b) => BelowIdentifier(b[k], c[k])
    BY <1>2 DEF BelowPrerelease
  <2>4. CASE i <= k
    <3>1. i \in 1..Len(c)
      BY <2>4
    <3>2. \A j \in 1..(i - 1) : j <= Len(a) /\ a[j] = c[j]
      BY <2>2, <2>3, <2>4
    <3>3. ASSUME i <= Len(a) PROVE BelowIdentifier(a[i], c[i])
      <4>1. a[i] \in Identifier /\ b[i] \in Identifier /\ c[i] \in Identifier
        BY <3>1, <3>3
      <4>2. BelowIdentifier(a[i], b[i])
        BY <2>2, <3>3
      <4>3. b[i] = c[i] \/ BelowIdentifier(b[i], c[i])
        BY <2>3, <2>4
      <4> QED BY <4>1, <4>2, <4>3, IdentifierTransitive
    <3> QED BY <2>1, <3>1, <3>2, <3>3 DEF BelowPrerelease
  <2>5. CASE k < i
    <3>1. \A j \in 1..(k - 1) : j <= Len(a) /\ a[j] = c[j]
      BY <2>2, <2>3, <2>5
    <3>2. k <= Len(b) /\ a[k] = b[k] /\ BelowIdentifier(b[k], c[k])
      BY <2>2, <2>3, <2>5
    <3> QED BY <2>1, <3>1, <3>2 DEF BelowPrerelease
  <2> QED BY <2>4, <2>5
<1> QED BY <1>1, <1>2

LEMMA PrereleaseIrreflexive ==
  ASSUME NEW a \in Seq(Identifier)
  PROVE  ~BelowPrerelease(a, a)
<1>1. \A i \in 1..Len(a) : a[i] \in Identifier /\ ~BelowIdentifier(a[i], a[i])
  BY IdentifierIrreflexive
<1> QED BY <1>1 DEF BelowPrerelease

\* Versions: three numbers, then the prerelease.
LEMMA VersionTransitive ==
  ASSUME NEW a \in Tags, NEW b \in Tags, NEW c \in Tags,
         Parsed(a), Parsed(b), Parsed(c), BelowVersion(a, b), BelowVersion(b, c)
  PROVE  BelowVersion(a, c)
<1> DEFINE n(t, i) == Text[t].core[i].value
<1>1. \A i \in 1..3 : n(a, i) \in Nat /\ n(b, i) \in Nat /\ n(c, i) \in Nat
  BY CoreNumbers
<1>2. CASE SameCore(a, b) /\ SameCore(b, c)
  <2>1. SameCore(a, c)
    BY <1>2 DEF SameCore
  <2>2. BelowPrerelease(Text[a].pre, Text[b].pre) /\ BelowPrerelease(Text[b].pre, Text[c].pre)
    BY <1>1, <1>2 DEF BelowVersion, SameCore
  <2> QED BY <2>1, <2>2, PrereleaseTransitive, TagText DEF BelowVersion
<1>3. CASE ~SameCore(a, b)
  <2>1. PICK i \in 1..3 : (\A j \in 1..(i - 1) : n(a, j) = n(b, j)) /\ n(a, i) < n(b, i)
    BY <1>3 DEF BelowVersion
  <2>2. CASE SameCore(b, c)
    <3>1. (\A j \in 1..(i - 1) : n(a, j) = n(c, j)) /\ n(a, i) < n(c, i)
      BY <1>1, <2>1, <2>2 DEF SameCore
    <3> QED BY <3>1 DEF BelowVersion
  <2>3. CASE ~SameCore(b, c)
    <3>1. PICK k \in 1..3 : (\A j \in 1..(k - 1) : n(b, j) = n(c, j)) /\ n(b, k) < n(c, k)
      BY <2>3 DEF BelowVersion
    <3>2. CASE i <= k
      <4>1. (\A j \in 1..(i - 1) : n(a, j) = n(c, j)) /\ n(a, i) < n(c, i)
        BY <1>1, <2>1, <3>1, <3>2
      <4> QED BY <4>1 DEF BelowVersion
    <3>3. CASE k < i
      <4>1. (\A j \in 1..(k - 1) : n(a, j) = n(c, j)) /\ n(a, k) < n(c, k)
        BY <1>1, <2>1, <3>1, <3>3
      <4> QED BY <4>1 DEF BelowVersion
    <3> QED BY <3>2, <3>3
  <2> QED BY <2>2, <2>3
<1>4. CASE SameCore(a, b) /\ ~SameCore(b, c)
  <2>1. PICK k \in 1..3 : (\A j \in 1..(k - 1) : n(b, j) = n(c, j)) /\ n(b, k) < n(c, k)
    BY <1>4 DEF BelowVersion
  <2>2. (\A j \in 1..(k - 1) : n(a, j) = n(c, j)) /\ n(a, k) < n(c, k)
    BY <1>1, <1>4, <2>1 DEF SameCore
  <2> QED BY <2>2 DEF BelowVersion
<1> QED BY <1>2, <1>3, <1>4

\* compareUpgradeTags never ranks tags in a circle, whatever their texts.
THEOREM BelowTransitive ==
  ASSUME NEW a \in Tags, NEW b \in Tags, NEW c \in Tags, Below(a, b), Below(b, c)
  PROVE  Below(a, c)
<1>1. CASE Parsed(a) /\ Parsed(b) /\ Parsed(c)
  BY <1>1, VersionTransitive DEF Below
<1>2. CASE ~(Parsed(a) /\ Parsed(b) /\ Parsed(c))
  <2>1. Rank[a] \in Nat /\ Rank[b] \in Nat /\ Rank[c] \in Nat
    BY TagText
  <2> QED BY <1>2, <2>1 DEF Below
<1> QED BY <1>1, <1>2

\* and never ranks a tag below itself.
THEOREM BelowIrreflexive ==
  ASSUME NEW a \in Tags
  PROVE  ~Below(a, a)
<1>1. Rank[a] \in Nat /\ Text[a].pre \in Seq(Identifier)
  BY TagText
<1>2. ASSUME Parsed(a) PROVE ~BelowVersion(a, a)
  <2>1. \A i \in 1..3 : Text[a].core[i].value \in Nat
    BY <1>2, CoreNumbers
  <2> QED BY <1>1, <2>1, PrereleaseIrreflexive DEF BelowVersion
<1> QED BY <1>1, <1>2 DEF Below

(***************************************************************************)
(* The order is the precedence of semantic versions                        *)
(***************************************************************************)

LEMMA KeyOfCore ==
  ASSUME NEW t \in Tags, NEW i \in 1..3
  PROVE  i \in DOMAIN Key(t) /\ Key(t)[i] = <<0, Text[t].core[i].value>>
<1>1. Len(Text[t].pre) \in Nat
  BY TagText
<1> QED BY <1>1 DEF Key

LEMMA KeyOfPrerelease ==
  ASSUME NEW t \in Tags, Text[t].pre # <<>>
  PROVE  /\ DOMAIN Key(t) = 1..(3 + Len(Text[t].pre))
         /\ \A j \in 4..(3 + Len(Text[t].pre)) :
              /\ j - 3 \in 1..Len(Text[t].pre)
              /\ Key(t)[j] = <<Class(Text[t].pre[j - 3]), Text[t].pre[j - 3].value>>
<1>1. Len(Text[t].pre) \in Nat
  BY TagText
<1> QED BY <1>1 DEF Key

LEMMA KeyOfRelease ==
  ASSUME NEW t \in Tags, Text[t].pre = <<>>
  PROVE  DOMAIN Key(t) = 1..4 /\ Key(t)[4] = <<3, 0>>
BY DEF Key

LEMMA NonEmpty ==
  ASSUME NEW s \in Seq(Identifier), s # <<>>
  PROVE  1 \in 1..Len(s) /\ s[1] \in Identifier
OBVIOUS

LEMMA IdentifierPair ==
  ASSUME NEW x \in Identifier, NEW y \in Identifier
  PROVE  /\ BelowIdentifier(x, y) <=> LessPair(<<Class(x), x.value>>, <<Class(y), y.value>>)
         /\ x = y <=> <<Class(x), x.value>> = <<Class(y), y.value>>
         /\ Class(x) \in {1, 2}
<1>1. x.value \in Nat /\ y.value \in Nat /\ x.kind \in {"number", "word"} /\ y.kind \in {"number", "word"}
  BY DEF Identifier
<1>2. x = y <=> x.kind = y.kind /\ x.value = y.value
  BY DEF Identifier
<1> QED BY <1>1, <1>2 DEF BelowIdentifier, LessPair, Class

\* The comparison of the code, part by part, is the precedence of versions.
THEOREM BelowIsPrecedence ==
  ASSUME NEW a \in Tags, NEW b \in Tags, Parsed(a), Parsed(b)
  PROVE  Below(a, b) <=> Precedes(a, b)
<1> DEFINE n(t, i) == Text[t].core[i].value
<1> DEFINE p == Text[a].pre
<1> DEFINE q == Text[b].pre
<1>0. /\ p \in Seq(Identifier) /\ q \in Seq(Identifier)
      /\ \A i \in 1..3 : n(a, i) \in Nat /\ n(b, i) \in Nat
  BY TagText, CoreNumbers
<1>1. ASSUME Below(a, b) PROVE Precedes(a, b)
  <2>1. BelowVersion(a, b)
    BY <1>1 DEF Below
  <2>2. CASE ~SameCore(a, b)
    <3>1. PICK i \in 1..3 : (\A j \in 1..(i - 1) : n(a, j) = n(b, j)) /\ n(a, i) < n(b, i)
      BY <2>1, <2>2 DEF BelowVersion
    <3>2. \A j \in 1..(i - 1) : j \in DOMAIN Key(a) /\ Key(a)[j] = Key(b)[j]
      BY <3>1, KeyOfCore
    <3>3. i \in DOMAIN Key(b) /\ LessPair(Key(a)[i], Key(b)[i])
      BY <3>1, KeyOfCore DEF LessPair
    <3> QED BY <3>2, <3>3 DEF Precedes
  <2>3. CASE SameCore(a, b)
    <3>1. BelowPrerelease(p, q)
      BY <1>0, <2>1, <2>3 DEF BelowVersion, SameCore
    <3>2. \A j \in 1..3 : j \in DOMAIN Key(a) /\ Key(a)[j] = Key(b)[j]
      BY <2>3, KeyOfCore DEF SameCore
    <3>3. p # <<>>
      BY <3>1 DEF BelowPrerelease
    <3>4. CASE q = <<>>
      <4>1. 4 \in DOMAIN Key(b) /\ Key(b)[4] = <<3, 0>>
        BY <3>4, KeyOfRelease
      <4>2. Key(a)[4] = <<Class(p[1]), p[1].value>> /\ Class(p[1]) \in {1, 2}
        <5>1. 1 \in 1..Len(p) /\ p[1] \in Identifier
          BY <1>0, <3>3, NonEmpty
        <5>2. 4 \in 4..(3 + Len(p)) /\ 4 - 3 = 1
          BY <1>0, <5>1
        <5>3. Key(a)[4] = <<Class(p[4 - 3]), p[4 - 3].value>>
          BY <3>3, <5>2, KeyOfPrerelease
        <5> QED BY <5>1, <5>2, <5>3, IdentifierPair
      <4>3. LessPair(Key(a)[4], Key(b)[4])
        BY <4>1, <4>2 DEF LessPair
      <4> QED BY <3>2, <4>1, <4>3 DEF Precedes
    <3>5. CASE q # <<>>
      <4>1. PICK i \in 1..Len(q) : /\ \A j \in 1..(i - 1) : j <= Len(p) /\ p[j] = q[j]
                                   /\ i <= Len(p) => BelowIdentifier(p[i], q[i])
        BY <3>1, <3>5 DEF BelowPrerelease
      <4>2. 3 + i \in DOMAIN Key(b)
        BY <1>0, <3>5, KeyOfPrerelease
      <4>3. ASSUME NEW j \in 1..(3 + i - 1) PROVE j \in DOMAIN Key(a) /\ Key(a)[j] = Key(b)[j]
        <5>1. CASE j <= 3
          BY <3>2, <5>1
        <5>2. CASE j > 3
          <6>1. j - 3 \in 1..(i - 1) /\ j - 3 <= Len(p) /\ p[j - 3] = q[j - 3]
            BY <4>1, <5>2
          <6>2. j \in 4..(3 + Len(p)) /\ j \in 4..(3 + Len(q))
            BY <1>0, <5>2, <6>1
          <6>3. j \in DOMAIN Key(a)
            BY <1>0, <3>3, <6>2, KeyOfPrerelease
          <6>4. /\ Key(a)[j] = <<Class(p[j - 3]), p[j - 3].value>>
                /\ Key(b)[j] = <<Class(q[j - 3]), q[j - 3].value>>
            BY <3>3, <3>5, <6>2, KeyOfPrerelease
          <6> QED BY <6>1, <6>3, <6>4
        <5> QED BY <5>1, <5>2
      <4>4. ASSUME 3 + i \in DOMAIN Key(a) PROVE LessPair(Key(a)[3 + i], Key(b)[3 + i])
        <5>1. i \in 1..Len(p)
          BY <1>0, <3>3, <4>4, KeyOfPrerelease
        <5>2. BelowIdentifier(p[i], q[i]) /\ p[i] \in Identifier /\ q[i] \in Identifier
          BY <1>0, <4>1, <5>1
        <5>3. 3 + i \in 4..(3 + Len(p)) /\ 3 + i \in 4..(3 + Len(q)) /\ (3 + i) - 3 = i
          BY <1>0, <5>1
        <5>4. /\ Key(a)[3 + i] = <<Class(p[i]), p[i].value>>
              /\ Key(b)[3 + i] = <<Class(q[i]), q[i].value>>
          BY <3>3, <3>5, <5>3, KeyOfPrerelease
        <5> QED BY <5>2, <5>4, IdentifierPair
      <4> QED BY <4>2, <4>3, <4>4 DEF Precedes
    <3> QED BY <3>4, <3>5
  <2> QED BY <2>2, <2>3
<1>2. ASSUME Precedes(a, b) PROVE Below(a, b)
  <2>1. PICK i \in DOMAIN Key(b) : /\ \A j \in 1..(i - 1) : j \in DOMAIN Key(a) /\ Key(a)[j] = Key(b)[j]
                                   /\ i \in DOMAIN Key(a) => LessPair(Key(a)[i], Key(b)[i])
    BY <1>2 DEF Precedes
  <2>2. i \in Nat /\ i >= 1
    BY <1>0 DEF Key
  <2>3. CASE i <= 3
    <3>1. i \in 1..3 /\ \A j \in 1..(i - 1) : j \in 1..3
      BY <2>2, <2>3
    <3>2. \A j \in 1..(i - 1) : n(a, j) = n(b, j)
      BY <2>1, <3>1, KeyOfCore
    <3>3. n(a, i) < n(b, i)
      BY <2>1, <3>1, KeyOfCore DEF LessPair
    <3> QED BY <3>1, <3>2, <3>3 DEF Below, BelowVersion
  <2>4. CASE i > 3
    <3>1. SameCore(a, b)
      <4>1. \A j \in 1..3 : Key(a)[j] = Key(b)[j]
        BY <2>1, <2>2, <2>4
      <4> QED BY <4>1, KeyOfCore DEF SameCore
    <3>2. p # <<>>
      <4>1. SUFFICES ASSUME p = <<>> PROVE FALSE
        OBVIOUS
      <4>2. 4 \in DOMAIN Key(a) /\ DOMAIN Key(a) = 1..4 /\ Key(a)[4] = <<3, 0>>
        BY <4>1, KeyOfRelease
      <4>3. CASE q = <<>>
        <5>1. DOMAIN Key(b) = 1..4 /\ Key(b)[4] = <<3, 0>>
          BY <4>3, KeyOfRelease
        <5>2. i = 4
          BY <2>2, <2>4, <5>1
        <5> QED BY <2>1, <4>2, <5>1, <5>2 DEF LessPair
      <4>4. CASE q # <<>>
        <5>1. Key(b)[4] = <<Class(q[1]), q[1].value>> /\ Class(q[1]) \in {1, 2}
          <6>1. 1 \in 1..Len(q) /\ q[1] \in Identifier
            BY <1>0, <4>4, NonEmpty
          <6>2. 4 \in 4..(3 + Len(q)) /\ 4 - 3 = 1
            BY <1>0, <6>1
          <6>3. Key(b)[4] = <<Class(q[4 - 3]), q[4 - 3].value>>
            BY <4>4, <6>2, KeyOfPrerelease
          <6> QED BY <6>1, <6>2, <6>3, IdentifierPair
        <5>2. CASE i = 4
          BY <2>1, <4>2, <5>1, <5>2 DEF LessPair
        <5>3. CASE i > 4
          <6>1. Key(a)[4] = Key(b)[4]
            BY <2>1, <2>2, <5>3
          <6> QED BY <4>2, <5>1, <6>1
        <5> QED BY <2>2, <2>4, <5>2, <5>3
      <4> QED BY <4>3, <4>4
    <3>3. ASSUME q # <<>>
          PROVE  \E k \in 1..Len(q) : /\ \A j \in 1..(k - 1) : j <= Len(p) /\ p[j] = q[j]
                                      /\ k <= Len(p) => BelowIdentifier(p[k], q[k])
      <4> DEFINE k == i - 3
      <4>1. k \in 1..Len(q) /\ 3 + k = i
        BY <1>0, <2>2, <2>4, <3>3, KeyOfPrerelease
      <4>2. ASSUME NEW j \in 1..(k - 1) PROVE j <= Len(p) /\ p[j] = q[j]
        <5>0. j \in Nat /\ Len(q) \in Nat /\ j < k /\ k <= Len(q)
          <6>1. Len(q) \in Nat /\ k \in Int
            BY <1>0, <2>2
          <6> QED BY <4>1, <6>1
        <5>1. 3 + j \in 1..(i - 1) /\ j \in 1..Len(q)
          BY <2>2, <5>0
        <5>2. 3 + j \in DOMAIN Key(a) /\ Key(a)[3 + j] = Key(b)[3 + j]
          BY <2>1, <5>1
        <5>3. j \in 1..Len(p)
          BY <1>0, <3>2, <5>2, KeyOfPrerelease
        <5>4. p[j] \in Identifier /\ q[j] \in Identifier
          BY <1>0, <5>1, <5>3
        <5>5. 3 + j \in 4..(3 + Len(p)) /\ 3 + j \in 4..(3 + Len(q)) /\ (3 + j) - 3 = j
          BY <1>0, <5>1, <5>3
        <5>6. /\ Key(a)[3 + j] = <<Class(p[j]), p[j].value>>
              /\ Key(b)[3 + j] = <<Class(q[j]), q[j].value>>
          BY <3>2, <3>3, <5>5, KeyOfPrerelease
        <5>7. p[j] = q[j]
          BY <5>2, <5>4, <5>6, IdentifierPair
        <5> QED BY <1>0, <5>3, <5>7
      <4>3. ASSUME k <= Len(p) PROVE BelowIdentifier(p[k], q[k])
        <5>1. k \in 1..Len(p)
          BY <1>0, <4>1, <4>3
        <5>2. i \in DOMAIN Key(a)
          BY <1>0, <3>2, <4>1, <5>1, KeyOfPrerelease
        <5>3. p[k] \in Identifier /\ q[k] \in Identifier
          BY <1>0, <4>1, <5>1
        <5>4. i \in 4..(3 + Len(p)) /\ i \in 4..(3 + Len(q))
          BY <1>0, <2>2, <4>1, <5>1
        <5>5. /\ Key(a)[i] = <<Class(p[k]), p[k].value>>
              /\ Key(b)[i] = <<Class(q[k]), q[k].value>>
          BY <3>2, <3>3, <5>4, KeyOfPrerelease
        <5> QED BY <2>1, <5>2, <5>3, <5>5, IdentifierPair
      <4> QED BY <4>1, <4>2, <4>3
    <3>4. BelowPrerelease(p, q)
      BY <3>2, <3>3 DEF BelowPrerelease
    <3> QED BY <3>1, <3>4 DEF Below, BelowVersion
  <2> QED BY <2>2, <2>3, <2>4
<1> QED BY <1>1, <1>2

(***************************************************************************)
(* The upgrade                                                             *)
(***************************************************************************)

\* Only --version goes through the validation, with the tag it was given, and only
\* the right archive is unpacked.
ChosenInv == /\ at = "validate" => chosen # None /\ via = "tag"
             /\ at \in {"extract", "install"} => archive = "right"

\* What the loop knows of the releases it has seen.
Seen == 1..(index - 1)
LoopInv ==
  at = "scan" =>
    /\ index <= Len(page) + 1
    /\ first # None => \E i \in Seen : Candidate(page[i]) /\ page[i].tag = first
    /\ best # None => /\ Parsed(best)
                      /\ \E i \in Seen : Candidate(page[i]) /\ page[i].tag = best
    /\ \A i \in Seen : Candidate(page[i]) /\ Parsed(page[i].tag) =>
                         best # None /\ ~Below(best, page[i].tag)

\* What validateExactUpgradeVersion has established.
ExactInv == Selected /\ via = "tag" /\ Parsed(current) => Below(current, chosen)

\* The binary that runs is still the one the upgrade was started from.
RunsInv == at # "idle" => program \in Programs /\ target \in Programs /\ current = installed[program]

UpgradeInv == TypeOK /\ ChosenInv /\ LoopInv /\ BetaIsHighest /\ ExactInv /\ RunsInv

LEMMA UpgradeInit == Init => UpgradeInv
<1> SUFFICES ASSUME Init PROVE UpgradeInv
  OBVIOUS
<1>1. TypeOK
  <2>1. releases \in Seq(Release) /\ page \in Seq(Release)
    BY EmptyPage DEF Init
  <2>2. /\ latest = None /\ installed \in [Programs -> Built] /\ at = "idle" /\ channel = "auto"
        /\ program = None /\ current = None /\ target = None
        /\ index = 1 /\ first = None /\ best = None /\ chosen = None /\ via = "none"
        /\ archive = "none"
    BY DEF Init
  <2>3. force \in BOOLEAN
    BY DEF Init
  <2> QED BY <2>1, <2>2, <2>3, ReleaseConstants DEF TypeOK, Places, Selected, Fetching
<1>2. at = "idle"
  BY DEF Init
<1> QED BY <1>1, <1>2 DEF UpgradeInv, ChosenInv, LoopInv, BetaIsHighest, ExactInv, RunsInv,
             Selected, Fetching

\* A page is a list of releases.
LEMMA PageOfReleases ==
  ASSUME TypeOK
  PROVE  \A i \in DOMAIN page : page[i].tag \in Tags
<1>1. ASSUME NEW i \in DOMAIN page PROVE page[i] \in Release
  BY <1>1 DEF TypeOK
<1> QED BY <1>1 DEF Release

LEMMA TypeStep == ASSUME UpgradeInv, [Next]_vars PROVE TypeOK'
<1> USE DEF UpgradeInv, TypeOK, Places, Selected, Fetching, ChosenInv
<1>1. ASSUME NEW t \in Tags, NEW k \in Kinds, Publish(t, k) PROVE TypeOK'
  <2>1. [tag |-> t, kind |-> k] \in Release
    BY DEF Release
  <2>2. releases' \in Seq(Release)
    BY <1>1, <2>1 DEF Publish
  <2> QED BY <1>1, <2>2 DEF Publish, request, loop, selection
<1>2. ASSUME NEW i \in DOMAIN releases, Promote(i) PROVE TypeOK'
  <2>1. releases[i] \in Release
    OBVIOUS
  <2>2. [releases[i] EXCEPT !.kind = "stable"] \in Release
    BY <2>1 DEF Release, Kinds
  <2>3. releases' \in Seq(Release)
    BY <1>2, <2>2 DEF Promote
  <2>4. releases[i].tag \in Tags
    BY <2>1 DEF Release
  <2> QED BY <1>2, <2>3, <2>4 DEF Promote, request, loop, selection
<1>3. ASSUME NEW p \in Programs, NEW q \in Programs, NEW ch \in {"auto", "stable", "beta"},
             NEW t \in Tags \cup {None}, NEW f \in BOOLEAN, Start(p, q, ch, t, f)
      PROVE  TypeOK'
  BY <1>3 DEF Start, Goto, github, loop
<1>4. ASSUME NEW p, End(p), UNCHANGED installed PROVE TypeOK'
  <2>1. page' \in Seq(Release)
    BY <1>4, EmptyPage DEF End
  <2>2. /\ releases' = releases /\ latest' = latest /\ at' = "idle" /\ channel' = "auto"
      /\ program' = None /\ current' = None /\ target' = None
      /\ index' = 1 /\ first' = None /\ best' = None /\ chosen' = None
      /\ via' = "none" /\ archive' = "none"
    BY <1>4 DEF End, Goto, github
  <2>3. force' \in BOOLEAN
    BY <1>4 DEF End
  <2> QED BY <1>4, <2>1, <2>2, <2>3
<1>5. CASE StableAnswered
  BY <1>5 DEF StableAnswered, Goto, github, request, loop
<1>6. CASE StableFails
  BY <1>4, <1>6 DEF StableFails, Fail, Goto, github, request, loop, selection
<1>7. CASE BetaAnswered
  <2>1. page' \in Seq(Release)
    BY <1>7, ReleaseConstants DEF BetaAnswered
  <2> QED BY <1>7, <2>1 DEF BetaAnswered, Goto, github, request, selection
<1>8. CASE Scan
  <2>1. page[index].tag \in Tags
    BY <1>8, PageOfReleases DEF Scan
  <2>2. index' \in Nat \ {0}
    BY <1>8 DEF Scan
  <2> QED BY <1>8, <2>1, <2>2 DEF Scan, github, request, selection
<1>9. CASE ScanEnds
  BY <1>4, <1>9 DEF ScanEnds, Fail, Goto, github, request, loop
<1>10. CASE Validate
  BY <1>4, <1>10 DEF Validate, Fail, Goto, github, request, loop, selection
<1>11. CASE Decide
  BY <1>4, <1>11 DEF Decide, Fail, Goto, github, request, loop, selection
<1>12. CASE Download
  BY <1>12 DEF Download, Goto, github, request, loop
<1>13. CASE Install
  <2>1. chosen \in Tags
    BY <1>13 DEF Install, End, Goto, ChosenInv, Selected
  <2>2. page' \in Seq(Release)
    BY <1>13, EmptyPage DEF Install, End
  <2>3. /\ releases' = releases /\ latest' = latest /\ at' = "idle" /\ channel' = "auto"
      /\ program' = None /\ current' = None /\ target' = None
      /\ index' = 1 /\ first' = None /\ best' = None /\ chosen' = None
      /\ via' = "none" /\ archive' = "none"
    BY <1>13 DEF Install, End, Goto, github
  <2>4. force' \in BOOLEAN
    BY <1>13 DEF Install, End
  <2>5. installed' = [installed EXCEPT ![target] = chosen]
    BY <1>13 DEF Install, End, Goto
  <2>6. installed' \in [Programs -> Tags]
    BY <2>1, <2>5
  <2> QED BY <2>2, <2>3, <2>4, <2>6
<1>14. CASE BetaFails \/ DownloadFails \/ VerifyFails \/ ExtractFails \/ InstallFails
  BY <1>4, <1>14 DEF BetaFails, DownloadFails, VerifyFails, ExtractFails, InstallFails, Fail
<1>15. CASE UNCHANGED vars
  BY <1>15 DEF vars, github, request, loop, selection
<1>16. CASE Verify \/ Extract
  BY <1>16 DEF Verify, Extract, Goto, github, request, loop, selection
<1> HIDE DEF UpgradeInv, TypeOK, Places, Selected, Fetching, ChosenInv
<1>17. ASSUME NEW p \in Programs, NEW q \in Programs, NEW ch \in {"auto", "stable", "beta"}, NEW f \in BOOLEAN,
              Start(p, q, ch, None, f)
       PROVE  TypeOK'
  <2>1. None \in Tags \cup {None}
    OBVIOUS
  <2> QED BY <1>3, <1>17, <2>1
<1>18. ASSUME NEW p \in Programs, NEW q \in Programs, NEW t \in Tags, NEW f \in BOOLEAN, Start(p, q, "auto", t, f)
       PROVE  TypeOK'
  <2>1. t \in Tags \cup {None} /\ "auto" \in {"auto", "stable", "beta"}
    OBVIOUS
  <2> QED BY <1>3, <1>18, <2>1
<1> QED BY <1>1, <1>2, <1>17, <1>18, <1>5, <1>6, <1>7, <1>8, <1>9, <1>10, <1>11, <1>12, <1>13, <1>14, <1>15,
          <1>16
        DEF Next

\* The loop keeps a maximum: what the new best is above, the old best was not
\* below.
LEMMA ScanStep == ASSUME UpgradeInv, TypeOK', Scan PROVE LoopInv'
<1> DEFINE t == page[index].tag
<1> USE DEF UpgradeInv
<1>1. /\ at = "scan" /\ index \in Nat \ {0} /\ index \in 1..Len(page) /\ index' = index + 1
      /\ page' = page /\ at' = at
  BY DEF Scan, TypeOK
<1>2. t \in Tags /\ page \in Seq(Release)
  BY <1>1, PageOfReleases DEF TypeOK
<1>3. Seen' = Seen \cup {index}
  BY <1>1 DEF Seen
<1>4. index' <= Len(page') + 1
  BY <1>1, <1>2
<1>5. first' # None => \E i \in Seen' : Candidate(page'[i]) /\ page'[i].tag = first'
  BY <1>1, <1>3 DEF Scan, LoopInv
<1>6. best' # None => /\ Parsed(best')
                      /\ \E i \in Seen' : Candidate(page'[i]) /\ page'[i].tag = best'
  BY <1>1, <1>3 DEF Scan, LoopInv
<1>7. ASSUME NEW i \in Seen', Candidate(page'[i]), Parsed(page'[i].tag)
      PROVE  best' # None /\ ~Below(best', page'[i].tag)
  <2>1. i \in DOMAIN page /\ page[i].tag \in Tags
    BY <1>1, <1>2, <1>3, PageOfReleases DEF Seen
  <2>2. CASE i \in Seen
    <3>1. best # None /\ ~Below(best, page[i].tag) /\ best \in Tags
      BY <1>1, <1>7, <2>2 DEF LoopInv, TypeOK
    <3>2. CASE best' = best
      BY <1>1, <3>1, <3>2
    <3>3. CASE best' # best
      <4>1. best' = t /\ Below(best, t)
        BY <3>1, <3>3 DEF Scan
      <4>2. Below(t, page[i].tag) => Below(best, page[i].tag)
        BY <1>2, <2>1, <3>1, <4>1, BelowTransitive
      <4>3. t # None
        BY <1>2, ReleaseConstants
      <4> QED BY <1>1, <3>1, <4>1, <4>2, <4>3
    <3> QED BY <3>2, <3>3
  <2>3. CASE i = index
    <3>1. Candidate(page[index]) /\ Parsed(t) /\ t # None
      BY <1>1, <1>2, <1>7, <2>3, ReleaseConstants
    <3>2. CASE best = None \/ Below(best, t)
      <4>1. best' = t
        BY <3>1, <3>2 DEF Scan
      <4> QED BY <1>1, <1>2, <2>3, <3>1, <4>1, BelowIrreflexive
    <3>3. CASE ~(best = None \/ Below(best, t))
      <4>1. best' = best
        BY <3>3 DEF Scan
      <4> QED BY <1>1, <2>3, <3>3, <4>1
    <3> QED BY <3>2, <3>3
  <2> QED BY <1>3, <2>2, <2>3
<1> QED BY <1>4, <1>5, <1>6, <1>7 DEF LoopInv

\* What an upgrade knows of the program it runs is right until it ends: nothing but
\* its own last step replaces a binary.
LEMMA RunsStep == ASSUME UpgradeInv, [Next]_vars PROVE RunsInv'
<1> USE DEF RunsInv
<1>1. ASSUME UNCHANGED <<installed, request>>, at # "idle" \/ at' = at PROVE RunsInv'
  BY <1>1 DEF request, UpgradeInv
<1>2. ASSUME NEW p, End(p) PROVE RunsInv'
  BY <1>2 DEF End, Goto
<1>3. ASSUME NEW p \in Programs, NEW q \in Programs, NEW ch, NEW t, NEW f, Start(p, q, ch, t, f)
      PROVE  RunsInv'
  BY <1>3 DEF Start
<1>4. CASE StableAnswered \/ StableFails \/ BetaAnswered \/ BetaFails
  BY <1>1, <1>2, <1>4 DEF StableAnswered, StableFails, BetaAnswered, BetaFails, Fail, Goto
<1>5. CASE Scan \/ ScanEnds
  BY <1>1, <1>2, <1>5 DEF Scan, ScanEnds, Fail, Goto
<1>6. CASE Validate \/ Decide
  BY <1>1, <1>2, <1>6 DEF Validate, Decide, Fail, Goto
<1>7. CASE Download \/ DownloadFails \/ Verify \/ VerifyFails
  BY <1>1, <1>2, <1>7 DEF Download, DownloadFails, Verify, VerifyFails, Fail, Goto
<1>8. CASE Extract \/ ExtractFails \/ Install \/ InstallFails
  BY <1>1, <1>2, <1>8 DEF Extract, ExtractFails, Install, InstallFails, Fail, Goto
<1>9. CASE UNCHANGED vars
  BY <1>1, <1>9 DEF vars
<1> QED BY <1>1, <1>3, <1>4, <1>5, <1>6, <1>7, <1>8, <1>9 DEF Next, Publish, Promote

LEMMA UpgradeStep == UpgradeInv /\ [Next]_vars => UpgradeInv'
<1> SUFFICES ASSUME UpgradeInv, [Next]_vars PROVE UpgradeInv'
  OBVIOUS
<1>0. TypeOK' /\ RunsInv'
  BY TypeStep, RunsStep
<1> DEFINE Rest == ChosenInv /\ LoopInv /\ BetaIsHighest /\ ExactInv
<1> SUFFICES Rest'
  BY <1>0 DEF UpgradeInv
<1>a. Rest
  BY DEF UpgradeInv
<1> USE DEF ChosenInv, LoopInv, BetaIsHighest, ExactInv, Selected, Fetching, Seen
<1>1. ASSUME UNCHANGED <<installed, at, request, loop, selection>> PROVE Rest'
  BY <1>1, <1>a DEF request, loop, selection
<1>2. ASSUME NEW p, End(p) PROVE Rest'
  BY <1>2 DEF End, Goto
<1>3. ASSUME NEW p \in Programs, NEW q \in Programs, NEW ch, NEW t, NEW f, Start(p, q, ch, t, f)
      PROVE  Rest'
  BY <1>3 DEF Start, Goto
<1>4. CASE StableAnswered
  BY <1>4 DEF StableAnswered, Goto
<1>5. CASE StableFails
  BY <1>2, <1>5 DEF StableFails, Fail, Goto
<1>6. CASE BetaAnswered
  <2>1. page' \in Seq(Release)
    BY <1>0 DEF TypeOK
  <2> QED BY <1>6, <2>1 DEF BetaAnswered, Goto
<1>7. CASE Scan
  <2>1. LoopInv'
    BY <1>0, <1>7, ScanStep
  <2> QED BY <1>7, <2>1 DEF Scan, selection
<1>8. CASE ScanEnds
  <2>1. CASE Fail("scan")
    BY <1>2, <2>1 DEF Fail
  <2>2. CASE ~Fail("scan")
    <3>1. /\ at = "scan" /\ at' = "decide" /\ page' = page /\ via' = "beta" /\ first # None
          /\ chosen' = IF best # None THEN best ELSE first
      BY <1>8, <2>2 DEF ScanEnds, Goto, loop
    <3>2. Seen = DOMAIN page
      <4>1. page \in Seq(Release) /\ index \in Nat /\ index <= Len(page) + 1 /\ index > Len(page)
        BY <1>8, <1>a, <3>1 DEF ScanEnds, UpgradeInv, TypeOK
      <4> QED BY <4>1
    <3>3. \E i \in DOMAIN page : Candidate(page[i]) /\ page[i].tag = chosen'
      BY <1>a, <3>1, <3>2
    <3>4. ASSUME NEW i \in DOMAIN page, Candidate(page[i]), Parsed(page[i].tag)
          PROVE  Parsed(chosen') /\ ~Precedes(chosen', page[i].tag)
      <4>1. best # None /\ Parsed(best) /\ ~Below(best, page[i].tag)
        BY <1>a, <3>1, <3>2, <3>4
      <4>2. best \in Tags /\ page[i].tag \in Tags /\ chosen' = best
        BY <3>1, <4>1, PageOfReleases DEF UpgradeInv, TypeOK
      <4> QED BY <3>4, <4>1, <4>2, BelowIsPrecedence
    <3>5. chosen' # None
      BY <3>1
    <3> QED BY <3>1, <3>3, <3>4, <3>5
  <2> QED BY <2>1, <2>2
<1>9. CASE Validate
  <2>1. CASE Fail("validate")
    BY <1>2, <2>1 DEF Fail
  <2>2. CASE ~Fail("validate")
    BY <1>9, <1>a, <2>2 DEF Validate, Goto, request, loop, selection
  <2> QED BY <2>1, <2>2
<1>10. CASE Decide
  <2>1. CASE Fail("decide")
    BY <1>2, <2>1 DEF Fail
  <2>2. CASE ~Fail("decide")
    BY <1>10, <1>a, <2>2 DEF Decide, Goto, request, loop, selection
  <2> QED BY <2>1, <2>2
<1>11. CASE Download \/ Verify \/ Extract
  BY <1>11, <1>a DEF Download, Verify, Extract, Goto, request, loop, selection
<1>12. CASE Install \/ BetaFails \/ DownloadFails \/ VerifyFails \/ ExtractFails \/ InstallFails
  BY <1>2, <1>12 DEF Install, BetaFails, DownloadFails, VerifyFails, ExtractFails, InstallFails, Fail
<1>13. CASE UNCHANGED vars
  BY <1>1, <1>13 DEF vars
<1> QED BY <1>1, <1>3, <1>4, <1>5, <1>6, <1>7, <1>8, <1>9, <1>10, <1>11, <1>12, <1>13
        DEF Next, Publish, Promote

\* At every moment of every behaviour, with any tags, any history of releases and
\* any page size.
LEMMA UpgradeInductive == Spec => []UpgradeInv
BY UpgradeInit, UpgradeStep, PTL DEF Spec

THEOREM ReleasesTyped == Spec => []TypeOK
<1>1. UpgradeInv => TypeOK
  BY DEF UpgradeInv
<1> QED BY <1>1, UpgradeInductive, PTL

\* The beta channel selects a maximum of the prereleases it was shown.
THEOREM HighestBeta == Spec => []BetaIsHighest
<1>1. UpgradeInv => BetaIsHighest
  BY DEF UpgradeInv
<1> QED BY <1>1, UpgradeInductive, PTL

\* An exact version that is installed is strictly above the program that ran, and so
\* above what it replaces when that is the program itself.
THEOREM NoExactDowngrade == Spec => ExactNeverDowngrades
<1>1. ASSUME UpgradeInv, [Next]_vars, installed' # installed, via = "tag"
      PROVE  /\ Parsed(current) => Precedes(current, installed'[target])
             /\ target = program /\ Parsed(installed[target]) =>
                  Precedes(installed[target], installed'[target])
  <2>1. Install
    BY <1>1 DEF Next, vars, Publish, Promote, Start, StableAnswered, StableFails, BetaAnswered,
                BetaFails, Scan, ScanEnds, Validate, Decide, Download, DownloadFails,
                Verify, VerifyFails, Extract, ExtractFails, InstallFails, Fail, selection
  <2>2. /\ at = "install" /\ target \in Programs /\ current = installed[program] /\ program \in Programs
        /\ installed'[target] = chosen /\ current \in Tags /\ chosen \in Tags
    BY <1>1, <2>1 DEF Install, End, Goto, UpgradeInv, RunsInv, ChosenInv, Selected, Fetching, TypeOK
  <2>3. Parsed(current) => Below(current, chosen)
    BY <1>1, <2>2 DEF UpgradeInv, ExactInv, Selected, Fetching
  <2>4. Parsed(current) => Precedes(current, chosen)
    BY <2>2, <2>3, BelowIsPrecedence DEF Below
  <2> QED BY <2>2, <2>4
<1> QED BY <1>1, UpgradeInductive, PTL DEF Spec, ExactNeverDowngrades
===============================================================================
