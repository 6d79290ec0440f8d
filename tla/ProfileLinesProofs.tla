--------------------------- MODULE ProfileLinesProofs ---------------------------
(***************************************************************************)
(* What the operators of SurgeProfile do with the lines of a profile: the  *)
(* names and ports they give out, the lines they keep, the section and the *)
(* block they find, and what taking the block out and putting one in makes *)
(* of a tidy profile.                                                      *)
(*                                                                         *)
(* Sequences are compared by their elements.  Induction is on the least    *)
(* number for which something fails (LeastMember), as the theorems of the  *)
(* library that take a predicate are of no use to the provers.             *)
(***************************************************************************)
EXTENDS SurgeProfile, FiniteSetTheorems, FunctionTheorems, SequenceTheorems,
        WellFoundedInduction, NaturalsInduction, TLAPS

(***************************************************************************)
(* Names and ports                                                         *)
(***************************************************************************)

\* The least number of a set of numbers is one of them.
LEMMA LeastMember ==
  ASSUME NEW S \in SUBSET Nat, S # {}
  PROVE Least(S) \in S /\ \A n \in S : Least(S) <= n
  <1> DEFINE R == {ss \in Nat \X Nat : ss[1] < ss[2]}
  <1>1. IsWellFoundedOn(R, Nat)
    BY NatLessThanWellFounded DEF OpToRel
  <1>2. PICK m \in S : \A n \in S : <<n, m>> \notin R
    <2> HIDE DEF R
    <2> QED
      BY <1>1, WFMin
  <1>3. \A n \in S : <<n, m>> \in R <=> n < m
    OBVIOUS
  <1>4. \A n \in S : m <= n
    <2> HIDE DEF R
    <2>1. \A n \in S : n \in Nat /\ m \in Nat /\ ~(n < m)
      BY <1>2, <1>3
    <2> QED
      BY <2>1
  <1>5. Min(S) \in S /\ \A n \in S : Min(S) <= n
    BY <1>4 DEF Min
  <1> QED
    BY <1>5 DEF Least

\* findAvailablePort: the port it gives is in the range, no line of the profile takes it,
\* and nobody listens on it unless the block that is replaced had it; it is the first
\* such port, and the search fails only when there is none.
THEOREM FirstFreePort ==
  ASSUME NEW start \in Nat \ {0}, NEW used, NEW reusable
  PROVE LET Free(p) == p \notin used /\ (p \in reusable \/ p \notin busy)
            port == FindAvailablePort(start, used, reusable)
        IN  \/ port = 0 /\ \A p \in start .. MaxPort : ~Free(p)
            \/ port \in start .. MaxPort /\ Free(port) /\ \A p \in start .. port - 1 : ~Free(p)
  <1> DEFINE Free(p) == p \notin used /\ (p \in reusable \/ p \notin busy)
             F == {p \in start .. MaxPort : Free(p)}
             port == FindAvailablePort(start, used, reusable)
  <1>1. port = Least(F)
    BY DEF FindAvailablePort
  <1>2. CASE F = {}
    BY <1>1, <1>2 DEF Least
  <1>3. CASE F # {}
    <2>1. F \in SUBSET Nat
      BY LinkConstants
    <2>2. port \in F /\ \A p \in F : port <= p
      <3> HIDE DEF F, port
      <3> QED
        BY <1>1, <1>3, <2>1, LeastMember
    <2>3. port \in start .. MaxPort /\ Free(port)
      <3> HIDE DEF port
      <3> QED
        BY <2>2
    <2>4. ASSUME NEW p \in start .. port - 1, Free(p) PROVE FALSE
      <3>1. p \in F
        <4> HIDE DEF port
        <4> QED
          BY <2>3, <2>4, LinkConstants
      <3> HIDE DEF F, port, Free
      <3> QED
        BY <2>1, <2>2, <3>1, <2>3
    <2> HIDE DEF F
    <2> QED
      BY <2>3, <2>4
  <1> HIDE DEF F
  <1> QED
    BY <1>2, <1>3

\* uniqueName: whatever names are taken, and the name that is asked for is one of them
\* or not, the name it gives is not taken: of the numbered names that it tries one
\* more is there than names are taken.
THEOREM UniqueNameIsFree ==
  ASSUME NEW Name, NEW n \in Seq(Name), NEW taken, IsFiniteSet(taken)
  PROVE UniqueName(taken, n) \notin taken
  <1> DEFINE m == Cardinality(taken) + 2
             Try == 2 .. m
             F == {i \in Try : Append(n, i) \notin taken}
             f == [i \in Try |-> Append(n, i)]
  <1>1. Cardinality(taken) \in Nat
    BY FS_CardinalityType
  <1>2. IsFiniteSet(Try) /\ Cardinality(Try) = Cardinality(taken) + 1
    <2>1. IsFiniteSet(2 .. m) /\ Cardinality(2 .. m) = IF 2 > m THEN 0 ELSE m - 2 + 1
      <3>1. m \in Int
        BY <1>1
      <3> HIDE DEF m
      <3> QED
        BY <3>1, FS_Interval
    <2> QED
      BY <1>1, <2>1
  <1>3. F # {}
    <2> SUFFICES ASSUME F = {} PROVE FALSE
      OBVIOUS
    <2>1. f \in [Try -> taken]
      OBVIOUS
    <2>2. ASSUME NEW i \in Try, NEW j \in Try, Append(n, i) = Append(n, j) PROVE i = j
      <3>1. n \in Seq(Name \cup Int) /\ i \in Name \cup Int /\ j \in Name \cup Int
        BY <1>1
      <3>2. Append(n, i)[Len(n) + 1] = i /\ Append(n, j)[Len(n) + 1] = j
        <4> HIDE DEF Try
        <4> QED
          BY <3>1
      <3> QED
        BY <2>2, <3>2
    <2>3. f \in Injection(Try, taken)
      <3> HIDE DEF Try
      <3> QED
        BY <2>1, <2>2 DEF Injection, IsInjective
    <2> HIDE DEF Try, f
    <2> QED
      BY <1>1, <1>2, <2>3, FS_Injection
  <1>4. F \in SUBSET Nat
    BY <1>1
  <1>5. Append(n, Least(F)) \notin taken
    <2>1. Least(F) \in F
      <3> HIDE DEF F
      <3> QED
        BY <1>3, <1>4, LeastMember
    <2> QED
      BY <2>1
  <1> QED
    BY <1>5 DEF UniqueName

(***************************************************************************)
(* Induction, and sequences by their elements                              *)
(***************************************************************************)

\* A set that has 0, and with a number the next one, has them all.
LEMMA Induction ==
  ASSUME NEW S, 0 \in S, \A n \in Nat : n \in S => n + 1 \in S
  PROVE  Nat \subseteq S
  <1> DEFINE Missing == {n \in Nat : n \notin S}
  <1> SUFFICES ASSUME Missing # {} PROVE FALSE
    OBVIOUS
  <1>1. Least(Missing) \in Missing /\ \A n \in Missing : Least(Missing) <= n
    <2>1. Missing \in SUBSET Nat
      OBVIOUS
    <2> HIDE DEF Missing
    <2> QED
      BY <2>1, LeastMember
  <1> DEFINE m == Least(Missing)
  <1>2. m \in Nat /\ m \notin S
    BY <1>1
  <1>3. m - 1 \in Nat /\ m - 1 \in S
    <2>1. m # 0
      BY <1>2
    <2>2. m - 1 \in Nat
      BY <1>2, <2>1
    <2>3. m - 1 \notin Missing
      <3> HIDE DEF Missing
      <3> QED
        BY <1>1, <1>2, <2>2
    <2> QED
      BY <2>2, <2>3
  <1>4. (m - 1) + 1 \in S
    BY <1>3
  <1>5. (m - 1) + 1 = m
    BY <1>2
  <1> QED
    BY <1>2, <1>4, <1>5

\* The least number of a set is in it; and what is in it and at most all others is it.
LEMMA MinMember ==
  ASSUME NEW S \in SUBSET Nat, S # {}
  PROVE  Min(S) \in S /\ \A n \in S : Min(S) <= n
  BY LeastMember DEF Least

\* The first place at which a test holds.
LEMMA IsMin ==
  ASSUME NEW S \in SUBSET Nat, NEW m \in S, \A n \in S : m <= n
  PROVE  Min(S) = m
  <1>1. Min(S) \in S /\ \A n \in S : Min(S) <= n
    BY MinMember
  <1>2. Min(S) <= m /\ m <= Min(S) /\ m \in Nat /\ Min(S) \in Nat
    BY <1>1
  <1> QED
    BY <1>2

\* A sequence in the sense of IsSequence is one in the sense of Seq.
LEMMA SequenceOfSomething ==
  ASSUME NEW s, IsSequence(s)
  PROVE  \E X : s \in Seq(X)
  <1> DEFINE X == {s[i] : i \in 1 .. Len(s)}
  <1>1. s \in [1 .. Len(s) -> X]
    BY DEF IsSequence
  <1>2. s \in Seq(X)
    <2> HIDE DEF X
    <2> QED
      BY <1>1, SeqDef DEF IsSequence
  <1> QED
    BY <1>2

\* A sequence of Seq is one of IsSequence.
LEMMA SomethingIsSequence ==
  ASSUME NEW X, NEW s \in Seq(X)
  PROVE  IsSequence(s)
  BY LenProperties DEF IsSequence

\* Two sequences can be taken to be over the same set.
LEMMA SequencesOfSomething ==
  ASSUME NEW s, NEW t, IsSequence(s), IsSequence(t)
  PROVE  \E X : s \in Seq(X) /\ t \in Seq(X)
  <1>1. PICK Y : s \in Seq(Y)
    BY SequenceOfSomething
  <1>2. PICK Z : t \in Seq(Z)
    BY SequenceOfSomething
  <1>3. s \in Seq(Y \cup Z) /\ t \in Seq(Y \cup Z)
    BY <1>1, <1>2, SeqMonotonic
  <1> QED
    BY <1>3

\* The places of a sequence.
LEMMA Domain ==
  ASSUME NEW s, IsSequence(s)
  PROVE  Len(s) \in Nat /\ DOMAIN s = 1 .. Len(s)
  BY DEF IsSequence

\* Sequences of the same elements are the same.
LEMMA Equal ==
  ASSUME NEW s, NEW t, IsSequence(s), IsSequence(t), Len(s) = Len(t),
         \A i \in 1 .. Len(s) : s[i] = t[i]
  PROVE  s = t
  <1>1. s = [i \in 1 .. Len(s) |-> s[i]] /\ t = [i \in 1 .. Len(s) |-> t[i]]
    BY DEF IsSequence
  <1> QED
    BY <1>1

\* A sequence of no elements.
LEMMA Empty == IsSequence(<<>>) /\ Len(<<>>) = 0
  <1>1. <<>> \in Seq({})
    OBVIOUS
  <1> QED
    BY <1>1, SomethingIsSequence

\* Only the empty sequence has no elements.
LEMMA NonEmpty ==
  ASSUME NEW s, IsSequence(s)
  PROVE  s = <<>> <=> Len(s) = 0
  <1>1. PICK X : s \in Seq(X)
    BY SequenceOfSomething
  <1> QED
    BY <1>1, EmptySeq

\* A sequence of one element.
LEMMA Single ==
  ASSUME NEW x
  PROVE  IsSequence(<<x>>) /\ Len(<<x>>) = 1 /\ <<x>>[1] = x
  <1>1. <<x>> \in Seq({x})
    OBVIOUS
  <1> QED
    BY <1>1, SomethingIsSequence

\* The elements of one sequence behind another.
LEMMA Concat ==
  ASSUME NEW s, NEW t, IsSequence(s), IsSequence(t)
  PROVE  /\ IsSequence(s \o t)
         /\ Len(s \o t) = Len(s) + Len(t)
         /\ \A i \in 1 .. Len(s) : (s \o t)[i] = s[i]
         /\ \A i \in Len(s) + 1 .. Len(s) + Len(t) : (s \o t)[i] = t[i - Len(s)]
  <1>1. PICK X : s \in Seq(X) /\ t \in Seq(X)
    BY SequencesOfSomething
  <1>2. /\ s \o t \in Seq(X)
        /\ Len(s \o t) = Len(s) + Len(t)
        /\ \A i \in 1 .. Len(s) + Len(t) : (s \o t)[i] = IF i <= Len(s) THEN s[i] ELSE t[i - Len(s)]
    BY <1>1, ConcatProperties
  <1>3. IsSequence(s \o t)
    BY <1>2, SomethingIsSequence
  <1>4. Len(s) \in Nat /\ Len(t) \in Nat
    BY Domain
  <1> QED
    BY <1>2, <1>3, <1>4

\* The elements of a part of a sequence.
LEMMA Sub ==
  ASSUME NEW s, IsSequence(s), NEW m \in 1 .. Len(s) + 1, NEW n \in m - 1 .. Len(s)
  PROVE  /\ IsSequence(SubSeq(s, m, n))
         /\ Len(SubSeq(s, m, n)) = n - m + 1
         /\ \A i \in 1 .. n - m + 1 : SubSeq(s, m, n)[i] = s[m + i - 1]
  <1>1. PICK X : s \in Seq(X)
    BY SequenceOfSomething
  <1>2. Len(s) \in Nat /\ m \in Int /\ n \in Int
    BY Domain
  <1>3. \A i \in m .. n : s[i] \in X
    <2>1. \A i \in m .. n : i \in 1 .. Len(s)
      BY <1>2
    <2> QED
      BY <1>1, <2>1, ElementOfSeq
  <1>4. /\ SubSeq(s, m, n) \in Seq(X)
        /\ Len(SubSeq(s, m, n)) = IF m <= n THEN n - m + 1 ELSE 0
        /\ \A i \in 1 .. n - m + 1 : SubSeq(s, m, n)[i] = s[m + i - 1]
    BY <1>2, <1>3, SubSeqProperties
  <1>5. (IF m <= n THEN n - m + 1 ELSE 0) = n - m + 1
    BY <1>2
  <1>6. IsSequence(SubSeq(s, m, n))
    BY <1>4, SomethingIsSequence
  <1> QED
    BY <1>4, <1>5, <1>6

\* The elements when one is added at the end.
LEMMA Appended ==
  ASSUME NEW s, NEW x, IsSequence(s)
  PROVE  /\ IsSequence(Append(s, x))
         /\ Len(Append(s, x)) = Len(s) + 1
         /\ \A i \in 1 .. Len(s) : Append(s, x)[i] = s[i]
         /\ Append(s, x)[Len(s) + 1] = x
  <1>1. PICK X : s \in Seq(X)
    BY SequenceOfSomething
  <1>2. s \in Seq(X \cup {x})
    BY <1>1, SeqMonotonic
  <1>3. /\ Append(s, x) \in Seq(X \cup {x})
        /\ Len(Append(s, x)) = Len(s) + 1
        /\ \A i \in 1 .. Len(s) : Append(s, x)[i] = s[i]
        /\ Append(s, x)[Len(s) + 1] = x
    BY <1>2, AppendProperties
  <1> QED
    BY <1>3, SomethingIsSequence

\* A sequence given by a function.
LEMMA Given ==
  ASSUME NEW n \in Nat, NEW f, f = [i \in 1 .. n |-> f[i]]
  PROVE  IsSequence(f) /\ Len(f) = n
  <1> DEFINE X == {f[i] : i \in 1 .. n}
  <1>1. f \in [1 .. n -> X]
    OBVIOUS
  <1>2. f \in Seq(X)
    <2> HIDE DEF X
    <2> QED
      BY <1>1, SeqDef
  <1>3. IsSequence(f) /\ DOMAIN f = 1 .. n
    BY <1>2, SomethingIsSequence
  <1>4. Len(f) = n
    <2>1. Len(f) \in Nat /\ 1 .. Len(f) = 1 .. n
      BY <1>3, Domain
    <2> QED
      BY <2>1
  <1> QED
    BY <1>3, <1>4

(***************************************************************************)
(* Keep                                                                    *)
(***************************************************************************)

\* at lists the numbers of S in their order.
Enumerates(at, S) == /\ IsSequence(at)
                     /\ \A k \in 1 .. Len(at) : at[k] \in S
                     /\ \A x \in S : \E k \in 1 .. Len(at) : at[k] = x
                     /\ \A j, k \in 1 .. Len(at) : j < k => at[j] < at[k]

\* As far as two lists of the same numbers go, they agree.
LEMMA EnumerationsAgree ==
  ASSUME NEW S \in SUBSET Nat, NEW f, NEW g, Enumerates(f, S), Enumerates(g, S),
         NEW m \in Nat \ {0}, m <= Len(f), m <= Len(g),
         \A k \in 1 .. m - 1 : f[k] = g[k]
  PROVE  ~(f[m] < g[m])
  <1> SUFFICES ASSUME f[m] < g[m] PROVE FALSE
    OBVIOUS
  <1>1. Len(f) \in Nat /\ Len(g) \in Nat
    BY Domain DEF Enumerates
  <1>2. m \in 1 .. Len(f) /\ m \in 1 .. Len(g)
    BY <1>1
  <1>3. f[m] \in S
    BY <1>2 DEF Enumerates
  <1>4. PICK k \in 1 .. Len(g) : g[k] = f[m]
    BY <1>3 DEF Enumerates
  <1>5. f[m] \in Nat /\ g[m] \in Nat /\ g[k] \in Nat
    BY <1>2, <1>4 DEF Enumerates
  <1>6. k < m
    <2>1. CASE k > m
      <3>1. g[m] < g[k]
        BY <1>1, <1>2, <2>1 DEF Enumerates
      <3> QED
        BY <1>4, <1>5, <3>1
    <2>2. CASE k = m
      BY <1>4, <1>5, <2>2
    <2> QED
      BY <1>1, <1>2, <2>1, <2>2
  <1>7. f[k] = g[k]
    BY <1>6, <1>1
  <1>8. f[k] < f[m]
    BY <1>1, <1>2, <1>6 DEF Enumerates
  <1> QED
    BY <1>4, <1>5, <1>7, <1>8

\* By induction they agree as far as both go, and neither is longer.
LEMMA EnumerationsAgreeOn ==
  ASSUME NEW S \in SUBSET Nat, NEW f, NEW g, Enumerates(f, S), Enumerates(g, S),
         NEW m \in 1 .. Len(f), m <= Len(g)
  PROVE  f[m] = g[m]
  <1> DEFINE D == {k \in 1 .. Len(f) : k <= Len(g) /\ f[k] # g[k]}
  <1>1. Len(f) \in Nat /\ Len(g) \in Nat
    BY Domain DEF Enumerates
  <1> SUFFICES ASSUME m \in D PROVE FALSE
    OBVIOUS
  <1>2. PICK d \in D : \A k \in D : d <= k
    <2>1. D \in SUBSET Nat
      BY <1>1
    <2> HIDE DEF D
    <2> QED
      BY <2>1, MinMember
  <1>3. d \in Nat \ {0} /\ d <= Len(f) /\ d <= Len(g) /\ f[d] # g[d]
    BY <1>1
  <1>4. \A k \in 1 .. d - 1 : f[k] = g[k]
    <2>1. \A k \in 1 .. d - 1 : k \in 1 .. Len(f) /\ k <= Len(g) /\ ~(d <= k)
      BY <1>1, <1>3
    <2>2. \A k \in 1 .. d - 1 : k \notin D
      <3> HIDE DEF D
      <3> QED
        BY <1>2, <2>1
    <2> QED
      BY <2>1, <2>2
  <1>5. ~(f[d] < g[d])
    <2> HIDE DEF D
    <2> QED
      BY <1>3, <1>4, EnumerationsAgree
  <1>6. ~(g[d] < f[d])
    <2> HIDE DEF D
    <2>1. \A k \in 1 .. d - 1 : g[k] = f[k]
      BY <1>4
    <2> QED
      BY <1>3, <2>1, EnumerationsAgree
  <1>7. f[d] \in Nat /\ g[d] \in Nat
    <2>1. d \in 1 .. Len(f) /\ d \in 1 .. Len(g)
      BY <1>1, <1>3
    <2> QED
      BY <2>1 DEF Enumerates
  <1> HIDE DEF D
  <1> QED
    BY <1>3, <1>5, <1>6, <1>7

\* A set of numbers is listed in one way only.
LEMMA EnumerationsNotLonger ==
  ASSUME NEW S \in SUBSET Nat, NEW f, NEW g, Enumerates(f, S), Enumerates(g, S)
  PROVE  ~(Len(f) < Len(g))
  <1> SUFFICES ASSUME Len(f) < Len(g) PROVE FALSE
    OBVIOUS
  <1>1. Len(f) \in Nat /\ Len(g) \in Nat
    BY Domain DEF Enumerates
  <1> DEFINE n == Len(f) + 1
  <1>2. n \in 1 .. Len(g)
    BY <1>1
  <1>3. PICK k \in 1 .. Len(f) : f[k] = g[n]
    BY <1>2 DEF Enumerates
  <1>4. f[k] = g[k]
    BY <1>1, EnumerationsAgreeOn
  <1>5. k \in 1 .. Len(g) /\ k < n
    BY <1>1
  <1>6. g[k] < g[n]
    <2> HIDE DEF n
    <2> QED
      BY <1>2, <1>5 DEF Enumerates
  <1>7. g[k] \in Nat
    BY <1>5 DEF Enumerates
  <1> QED
    BY <1>3, <1>4, <1>6, <1>7

\* So there is only one such list.
LEMMA OneEnumeration ==
  ASSUME NEW S \in SUBSET Nat, NEW f, NEW g, Enumerates(f, S), Enumerates(g, S)
  PROVE  f = g
  <1>1. Len(f) = Len(g)
    <2>1. Len(f) \in Nat /\ Len(g) \in Nat
      BY Domain DEF Enumerates
    <2> QED
      BY <2>1, EnumerationsNotLonger
  <1>2. \A m \in 1 .. Len(f) : f[m] = g[m]
    <2>1. Len(f) \in Nat
      BY Domain DEF Enumerates
    <2>2. \A m \in 1 .. Len(f) : m <= Len(g)
      BY <1>1, <2>1
    <2> QED
      BY <2>2, EnumerationsAgreeOn
  <1> QED
    BY <1>1, <1>2, Equal DEF Enumerates

\* The loop of Keep goes through all lines.
LEMMA KeepLoop ==
  ASSUME NEW lines, IsSequence(lines), NEW S
  PROVE  \E kept : /\ kept = [i \in 0 .. Len(lines) |->
                                IF i = 0 THEN <<>>
                                ELSE IF i \in S THEN Append(kept[i - 1], lines[i]) ELSE kept[i - 1]]
                   /\ Keep(lines, S) = kept[Len(lines)]
  <1> DEFINE Step(f, i) == IF i \in S THEN Append(f[i - 1], lines[i]) ELSE f[i - 1]
             Defined == {n \in Nat : \E f : f = [i \in 0 .. n |-> IF i = 0 THEN <<>> ELSE Step(f, i)]}
  <1>1. 0 \in Defined
    <2> DEFINE f == [i \in 0 .. 0 |-> <<>>]
    <2>1. f = [i \in 0 .. 0 |-> IF i = 0 THEN <<>> ELSE Step(f, i)]
      <3> HIDE DEF Step
      <3> QED
        OBVIOUS
    <2> QED
      BY <2>1
  <1>2. ASSUME NEW n \in Nat, n \in Defined PROVE n + 1 \in Defined
    <2>1. PICK f : f = [i \in 0 .. n |-> IF i = 0 THEN <<>> ELSE Step(f, i)]
      BY <1>2
    <2> DEFINE g == [i \in 0 .. n + 1 |-> IF i <= n THEN f[i] ELSE Step(f, i)]
    <2>2. \A i \in 1 .. n + 1 : g[i - 1] = f[i - 1]
      OBVIOUS
    <2>3. \A i \in 1 .. n + 1 : Step(g, i) = Step(f, i)
      <3> HIDE DEF g
      <3> QED
        BY <2>2
    <2>4. \A i \in 0 .. n + 1 : g[i] = IF i = 0 THEN <<>> ELSE Step(g, i)
      <3> SUFFICES ASSUME NEW i \in 0 .. n + 1 PROVE g[i] = IF i = 0 THEN <<>> ELSE Step(g, i)
        OBVIOUS
      <3>1. i <= n => f[i] = IF i = 0 THEN <<>> ELSE Step(f, i)
        <4> HIDE DEF Step
        <4> QED
          BY <2>1
      <3>2. g[i] = IF i = 0 THEN <<>> ELSE Step(f, i)
        <4> HIDE DEF Step
        <4> QED
          BY <3>1
      <3>3. i # 0 => Step(g, i) = Step(f, i)
        <4> HIDE DEF Step, g
        <4> QED
          BY <2>3
      <3> HIDE DEF Step, g
      <3> QED
        BY <3>2, <3>3
    <2>5. g = [i \in 0 .. n + 1 |-> g[i]]
      OBVIOUS
    <2>6. g = [i \in 0 .. n + 1 |-> IF i = 0 THEN <<>> ELSE Step(g, i)]
      <3> HIDE DEF g, Step
      <3> QED
        BY <2>4, <2>5
    <2> HIDE DEF g, Step
    <2> QED
      BY <2>6
  <1>3. Len(lines) \in Defined
    <2> HIDE DEF Defined
    <2> QED
      BY <1>1, <1>2, Induction, Domain
  <1> DEFINE kept == CHOOSE f : f = [i \in 0 .. Len(lines) |-> IF i = 0 THEN <<>> ELSE Step(f, i)]
  <1>4. kept = [i \in 0 .. Len(lines) |-> IF i = 0 THEN <<>> ELSE Step(kept, i)]
    <2> HIDE DEF Step
    <2> QED
      BY <1>3
  <1>5. Keep(lines, S) = kept[Len(lines)]
    BY DEF Keep
  <1> HIDE DEF kept
  <1> QED
    BY <1>4, <1>5

\* What is kept are the lines at the places in S, in their order.
LEMMA KeepEnumerates ==
  ASSUME NEW lines, IsSequence(lines), NEW S \in SUBSET (1 .. Len(lines))
  PROVE  \E at : Enumerates(at, S) /\ Keep(lines, S) = [k \in 1 .. Len(at) |-> lines[at[k]]]
  <1>1. PICK kept : /\ kept = [i \in 0 .. Len(lines) |->
                                IF i = 0 THEN <<>>
                                ELSE IF i \in S THEN Append(kept[i - 1], lines[i]) ELSE kept[i - 1]]
                    /\ Keep(lines, S) = kept[Len(lines)]
    BY KeepLoop
  <1>2. Len(lines) \in Nat
    BY Domain
  <1> DEFINE Is(at, n) == Enumerates(at, S \cap (1 .. n)) /\ kept[n] = [k \in 1 .. Len(at) |-> lines[at[k]]]
             Right == {n \in Nat : n <= Len(lines) => \E at : Is(at, n)}
  <1>3. 0 \in Right
    <2>1. Enumerates(<<>>, S \cap (1 .. 0))
      BY Empty DEF Enumerates
    <2>2. kept[0] = <<>>
      BY <1>1, <1>2
    <2>3. [k \in 1 .. Len(<<>>) |-> lines[<<>>[k]]] = <<>>
      <3> DEFINE f == [k \in 1 .. 0 |-> lines[<<>>[k]]]
      <3>1. f = [k \in 1 .. 0 |-> f[k]]
        OBVIOUS
      <3>2. IsSequence(f) /\ Len(f) = 0
        <4> HIDE DEF f
        <4> QED
          BY <3>1, Given
      <3>3. f = <<>>
        <4> HIDE DEF f
        <4> QED
          BY <3>2, NonEmpty
      <3> QED
        BY <3>3, Empty
    <2> QED
      BY <2>1, <2>2, <2>3
  <1>4. ASSUME NEW n \in Nat, n \in Right PROVE n + 1 \in Right
    <2> SUFFICES ASSUME n + 1 <= Len(lines) PROVE \E at : Is(at, n + 1)
      <3> HIDE DEF Is
      <3> QED
        OBVIOUS
    <2>1. PICK at : Is(at, n)
      <3> HIDE DEF Is
      <3> QED
        BY <1>2, <1>4
    <2>2. kept[n + 1] = IF n + 1 \in S THEN Append(kept[n], lines[n + 1]) ELSE kept[n]
      <3>1. n + 1 \in 0 .. Len(lines) /\ n + 1 # 0 /\ (n + 1) - 1 = n
        BY <1>2
      <3> QED
        BY <1>1, <3>1
    <2>3. CASE n + 1 \notin S
      <3>1. S \cap (1 .. n + 1) = S \cap (1 .. n)
        BY <2>3
      <3> QED
        BY <2>1, <2>2, <2>3, <3>1
    <2>4. CASE n + 1 \in S
      <3> DEFINE next == Append(at, n + 1)
      <3>1. /\ IsSequence(next) /\ Len(next) = Len(at) + 1
            /\ \A k \in 1 .. Len(at) : next[k] = at[k]
            /\ next[Len(at) + 1] = n + 1
        BY <2>1, Appended DEF Enumerates
      <3>2. Len(at) \in Nat
        BY <2>1, Domain DEF Enumerates
      <3>3. \A k \in 1 .. Len(next) : k \in 1 .. Len(at) \/ k = Len(at) + 1
        BY <3>1, <3>2
      <3>4. \A k \in 1 .. Len(at) : at[k] \in S /\ at[k] \in 1 .. n
        BY <2>1 DEF Enumerates
      <3> HIDE DEF next
      <3>5. \A k \in 1 .. Len(next) : next[k] \in S \cap (1 .. n + 1)
        <4> SUFFICES ASSUME NEW k \in 1 .. Len(next) PROVE next[k] \in S \cap (1 .. n + 1)
          OBVIOUS
        <4>1. CASE k \in 1 .. Len(at)
          <5>1. next[k] = at[k] /\ at[k] \in S /\ at[k] \in 1 .. n
            BY <3>1, <3>4, <4>1
          <5> QED
            BY <5>1
        <4>2. CASE k = Len(at) + 1
          BY <2>4, <3>1, <4>2
        <4> QED
          BY <3>3, <4>1, <4>2
      <3>6. \A x \in S \cap (1 .. n + 1) : \E k \in 1 .. Len(next) : next[k] = x
        <4> SUFFICES ASSUME NEW x \in S \cap (1 .. n + 1) PROVE \E k \in 1 .. Len(next) : next[k] = x
          OBVIOUS
        <4>1. CASE x = n + 1
          BY <3>1, <3>2, <4>1
        <4>2. CASE x # n + 1
          <5>1. x \in S \cap (1 .. n)
            BY <4>2
          <5>2. PICK k \in 1 .. Len(at) : at[k] = x
            BY <2>1, <5>1 DEF Enumerates
          <5> QED
            BY <3>1, <3>2, <5>2
        <4> QED
          BY <4>1, <4>2
      <3>7. \A j, k \in 1 .. Len(next) : j < k => next[j] < next[k]
        <4> SUFFICES ASSUME NEW j \in 1 .. Len(next), NEW k \in 1 .. Len(next), j < k
                     PROVE next[j] < next[k]
          OBVIOUS
        <4>1. j \in 1 .. Len(at)
          BY <3>1, <3>2
        <4>2. next[j] = at[j] /\ at[j] \in 1 .. n
          BY <3>1, <3>4, <4>1
        <4>3. CASE k \in 1 .. Len(at)
          <5>1. next[k] = at[k] /\ at[j] < at[k]
            BY <2>1, <3>1, <4>1, <4>3 DEF Enumerates
          <5> QED
            BY <4>2, <5>1
        <4>4. CASE k = Len(at) + 1
          BY <3>1, <4>2, <4>4
        <4> QED
          BY <3>3, <4>3, <4>4
      <3>8. Enumerates(next, S \cap (1 .. n + 1))
        BY <3>1, <3>5, <3>6, <3>7 DEF Enumerates
      <3> DEFINE picked == [k \in 1 .. Len(at) |-> lines[at[k]]]
                 now == [k \in 1 .. Len(next) |-> lines[next[k]]]
      <3>9. Append(picked, lines[n + 1]) = now
        <4>1. picked = [k \in 1 .. Len(at) |-> picked[k]]
          OBVIOUS
        <4>2. now = [k \in 1 .. Len(next) |-> now[k]]
          OBVIOUS
        <4>3. IsSequence(picked) /\ Len(picked) = Len(at)
          <5> HIDE DEF picked
          <5> QED
            BY <3>2, <4>1, Given
        <4>4. Len(next) \in Nat
          BY <3>1, Domain
        <4>5. IsSequence(now) /\ Len(now) = Len(next)
          <5> HIDE DEF now
          <5> QED
            BY <4>2, <4>4, Given
        <4> DEFINE appended == Append(picked, lines[n + 1])
        <4>6. /\ IsSequence(appended) /\ Len(appended) = Len(at) + 1
              /\ \A k \in 1 .. Len(at) : appended[k] = picked[k]
              /\ appended[Len(at) + 1] = lines[n + 1]
          <5> HIDE DEF picked
          <5> QED
            BY <4>3, Appended
        <4>7. \A k \in 1 .. Len(at) : picked[k] = now[k]
          <5>1. \A k \in 1 .. Len(at) : k \in 1 .. Len(next) /\ next[k] = at[k]
            BY <3>1, <3>2
          <5> QED
            BY <5>1
        <4>8. now[Len(at) + 1] = lines[n + 1]
          <5>1. Len(at) + 1 \in 1 .. Len(next) /\ next[Len(at) + 1] = n + 1
            BY <3>1, <3>2
          <5> QED
            BY <5>1
        <4> HIDE DEF picked, now, appended
        <4>9. \A k \in 1 .. Len(appended) : appended[k] = now[k]
          <5>1. \A k \in 1 .. Len(appended) : k \in 1 .. Len(at) \/ k = Len(at) + 1
            BY <3>2, <4>6
          <5> QED
            BY <4>6, <4>7, <4>8, <5>1
        <4>10. appended = now
          BY <3>1, <4>5, <4>6, <4>9, Equal
        <4> QED
          BY <4>10 DEF appended
      <3>10. kept[n + 1] = now
        BY <2>1, <2>2, <2>4, <3>9
      <3> QED
        BY <3>8, <3>10
    <2> QED
      BY <2>3, <2>4
  <1>5. Len(lines) \in Right
    <2> HIDE DEF Right
    <2> QED
      BY <1>2, <1>3, <1>4, Induction
  <1>6. PICK at : Is(at, Len(lines))
    <2> HIDE DEF Is
    <2> QED
      BY <1>2, <1>5
  <1>7. S \cap (1 .. Len(lines)) = S
    OBVIOUS
  <1> QED
    BY <1>1, <1>6, <1>7

\* So Keep is known from any list of the places.
LEMMA KeepIs ==
  ASSUME NEW lines, IsSequence(lines), NEW S \in SUBSET (1 .. Len(lines)),
         NEW at, Enumerates(at, S)
  PROVE  Keep(lines, S) = [k \in 1 .. Len(at) |-> lines[at[k]]]
  <1>1. PICK found : /\ Enumerates(found, S)
                     /\ Keep(lines, S) = [k \in 1 .. Len(found) |-> lines[found[k]]]
    BY KeepEnumerates
  <1>2. S \in SUBSET Nat
    BY Domain
  <1>3. found = at
    BY <1>1, <1>2, OneEnumeration
  <1> QED
    BY <1>1, <1>3

(***************************************************************************)
(* A sequence put into another                                             *)
(***************************************************************************)

\* out is s with t put in front of the place at.
Spliced(out, s, at, t) ==
  /\ IsSequence(out) /\ IsSequence(s) /\ IsSequence(t)
  /\ at \in 1 .. Len(s) + 1
  /\ Len(out) = Len(s) + Len(t)
  /\ \A i \in 1 .. at - 1 : out[i] = s[i]
  /\ \A i \in 1 .. Len(t) : out[at + i - 1] = t[i]
  /\ \A i \in at .. Len(s) : out[i + Len(t)] = s[i]

\* The rendering of a block is the block put into the lines.
LEMMA Splice ==
  ASSUME NEW s, NEW t, IsSequence(s), IsSequence(t), NEW at \in 1 .. Len(s) + 1
  PROVE  Spliced(SubSeq(s, 1, at - 1) \o t \o SubSeq(s, at, Len(s)), s, at, t)
  <1> DEFINE u == SubSeq(s, 1, at - 1)
             w == SubSeq(s, at, Len(s))
             v == u \o t
  <1>1. Len(s) \in Nat /\ Len(t) \in Nat
    BY Domain
  <1>2. IsSequence(u) /\ Len(u) = at - 1 /\ \A i \in 1 .. at - 1 : u[i] = s[i]
    <2>1. 1 \in 1 .. Len(s) + 1 /\ at - 1 \in 1 - 1 .. Len(s)
      BY <1>1
    <2>2. IsSequence(u) /\ Len(u) = at - 1 - 1 + 1 /\ \A i \in 1 .. at - 1 - 1 + 1 : u[i] = s[1 + i - 1]
      <3> HIDE DEF u
      <3> QED
        BY <2>1, Sub DEF u
    <2>3. at - 1 - 1 + 1 = at - 1 /\ \A i \in 1 .. at - 1 : 1 + i - 1 = i
      BY <1>1
    <2> HIDE DEF u
    <2> QED
      BY <2>2, <2>3
  <1>3. IsSequence(w) /\ Len(w) = Len(s) - at + 1 /\ \A i \in 1 .. Len(s) - at + 1 : w[i] = s[at + i - 1]
    <2>1. Len(s) \in at - 1 .. Len(s)
      BY <1>1
    <2> QED
      BY <2>1, Sub
  <1> HIDE DEF u, w
  <1>4. /\ IsSequence(v) /\ Len(v) = at - 1 + Len(t)
        /\ \A i \in 1 .. at - 1 : v[i] = s[i]
        /\ \A i \in at .. at - 1 + Len(t) : v[i] = t[i - (at - 1)]
    <2>1. at - 1 + 1 = at
      BY <1>1
    <2> QED
      BY <1>2, <2>1, Concat
  <1> HIDE DEF v
  <1> DEFINE out == v \o w
  <1>5. /\ IsSequence(out) /\ Len(out) = Len(v) + Len(w)
        /\ \A i \in 1 .. Len(v) : out[i] = v[i]
        /\ \A i \in Len(v) + 1 .. Len(v) + Len(w) : out[i] = w[i - Len(v)]
    BY <1>3, <1>4, Concat
  <1> HIDE DEF out
  <1>6. Len(out) = Len(s) + Len(t)
    BY <1>1, <1>3, <1>4, <1>5
  <1>7. ASSUME NEW i \in 1 .. at - 1 PROVE out[i] = s[i]
    <2>1. i \in 1 .. Len(v)
      BY <1>1, <1>4
    <2> QED
      BY <1>4, <1>5, <2>1
  <1>8. ASSUME NEW i \in 1 .. Len(t) PROVE out[at + i - 1] = t[i]
    <2>1. at + i - 1 \in 1 .. Len(v) /\ at + i - 1 \in at .. at - 1 + Len(t) /\ (at + i - 1) - (at - 1) = i
      BY <1>1, <1>4
    <2> QED
      BY <1>4, <1>5, <2>1
  <1>9. ASSUME NEW i \in at .. Len(s) PROVE out[i + Len(t)] = s[i]
    <2> DEFINE j == i + Len(t)
    <2>1. j \in Len(v) + 1 .. Len(v) + Len(w) /\ j - Len(v) = i - at + 1
      BY <1>1, <1>3, <1>4
    <2>2. i - at + 1 \in 1 .. Len(s) - at + 1 /\ at + (i - at + 1) - 1 = i
      BY <1>1
    <2>3. out[j] = w[i - at + 1]
      <3> HIDE DEF j
      <3> QED
        BY <1>5, <2>1
    <2> QED
      BY <1>3, <2>2, <2>3
  <1> QED
    BY <1>5, <1>6, <1>7, <1>8, <1>9 DEF Spliced, out, v, u, w

\* Any part of a sequence is put into the rest of it.
LEMMA Cut ==
  ASSUME NEW out, IsSequence(out), NEW b \in 1 .. Len(out), NEW e \in b .. Len(out)
  PROVE  Spliced(out, SubSeq(out, 1, b - 1) \o SubSeq(out, e + 1, Len(out)), b, SubSeq(out, b, e))
  <1> DEFINE u == SubSeq(out, 1, b - 1)
             w == SubSeq(out, e + 1, Len(out))
             t == SubSeq(out, b, e)
             s == u \o w
  <1>1. Len(out) \in Nat
    BY Domain
  <1>2. IsSequence(u) /\ Len(u) = b - 1 /\ \A i \in 1 .. b - 1 : u[i] = out[i]
    <2>1. 1 \in 1 .. Len(out) + 1 /\ b - 1 \in 1 - 1 .. Len(out)
      BY <1>1
    <2>2. IsSequence(u) /\ Len(u) = b - 1 - 1 + 1 /\ \A i \in 1 .. b - 1 - 1 + 1 : u[i] = out[1 + i - 1]
      <3> HIDE DEF u
      <3> QED
        BY <2>1, Sub DEF u
    <2>3. b - 1 - 1 + 1 = b - 1 /\ \A i \in 1 .. b - 1 : 1 + i - 1 = i
      BY <1>1
    <2> HIDE DEF u
    <2> QED
      BY <2>2, <2>3
  <1>3. IsSequence(w) /\ Len(w) = Len(out) - e /\ \A i \in 1 .. Len(out) - e : w[i] = out[e + i]
    <2>1. e + 1 \in 1 .. Len(out) + 1 /\ Len(out) \in e + 1 - 1 .. Len(out)
      BY <1>1
    <2>2. /\ IsSequence(w) /\ Len(w) = Len(out) - (e + 1) + 1
          /\ \A i \in 1 .. Len(out) - (e + 1) + 1 : w[i] = out[e + 1 + i - 1]
      <3> HIDE DEF w
      <3> QED
        BY <2>1, Sub DEF w
    <2>3. Len(out) - (e + 1) + 1 = Len(out) - e /\ \A i \in 1 .. Len(out) - e : e + 1 + i - 1 = e + i
      BY <1>1
    <2> HIDE DEF w
    <2> QED
      BY <2>2, <2>3
  <1>4. IsSequence(t) /\ Len(t) = e - b + 1 /\ \A i \in 1 .. e - b + 1 : t[i] = out[b + i - 1]
    <2>1. b \in 1 .. Len(out) + 1 /\ e \in b - 1 .. Len(out)
      BY <1>1
    <2> QED
      BY <2>1, Sub
  <1> HIDE DEF u, w, t
  <1>5. /\ IsSequence(s) /\ Len(s) = Len(u) + Len(w)
        /\ \A i \in 1 .. Len(u) : s[i] = u[i]
        /\ \A i \in Len(u) + 1 .. Len(u) + Len(w) : s[i] = w[i - Len(u)]
    BY <1>2, <1>3, Concat
  <1> HIDE DEF s
  <1>6. b \in 1 .. Len(s) + 1 /\ Len(out) = Len(s) + Len(t)
    BY <1>1, <1>2, <1>3, <1>4, <1>5
  <1>7. \A i \in 1 .. b - 1 : out[i] = s[i]
    BY <1>2, <1>5
  <1>8. ASSUME NEW i \in b .. Len(s) PROVE out[i + Len(t)] = s[i]
    <2>1. /\ i \in Len(u) + 1 .. Len(u) + Len(w) /\ i - Len(u) = i - b + 1
          /\ i - b + 1 \in 1 .. Len(out) - e /\ e + (i - b + 1) = i + Len(t)
      BY <1>1, <1>2, <1>3, <1>4, <1>5
    <2> QED
      BY <1>3, <1>5, <2>1
  <1> QED
    BY <1>4, <1>5, <1>6, <1>7, <1>8 DEF Spliced, s, u, w, t

\* Where each element comes from.
LEMMA Elements ==
  ASSUME NEW out, NEW s, NEW at, NEW t, Spliced(out, s, at, t), NEW i \in 1 .. Len(out)
  PROVE  \/ i < at /\ i \in 1 .. Len(s) /\ out[i] = s[i]
         \/ i >= at /\ i < at + Len(t) /\ i - at + 1 \in 1 .. Len(t) /\ out[i] = t[i - at + 1]
         \/ i >= at + Len(t) /\ i - Len(t) \in at .. Len(s) /\ out[i] = s[i - Len(t)]
  <1>1. Len(out) \in Nat /\ Len(s) \in Nat /\ Len(t) \in Nat /\ at \in Nat \ {0} /\ at <= Len(s) + 1
    BY Domain DEF Spliced
  <1>2. Len(out) = Len(s) + Len(t)
    BY DEF Spliced
  <1>3. CASE i < at
    BY <1>1, <1>2, <1>3 DEF Spliced
  <1>4. CASE i >= at /\ i < at + Len(t)
    <2>1. i - at + 1 \in 1 .. Len(t) /\ at + (i - at + 1) - 1 = i
      BY <1>1, <1>4
    <2>2. out[at + (i - at + 1) - 1] = t[i - at + 1]
      BY <2>1 DEF Spliced
    <2> QED
      BY <1>4, <2>1, <2>2
  <1>5. CASE i >= at + Len(t)
    <2>1. i - Len(t) \in at .. Len(s) /\ (i - Len(t)) + Len(t) = i
      BY <1>1, <1>2, <1>5
    <2>2. out[(i - Len(t)) + Len(t)] = s[i - Len(t)]
      BY <2>1 DEF Spliced
    <2> QED
      BY <1>5, <2>1, <2>2
  <1> QED
    BY <1>1, <1>3, <1>4, <1>5

\* Where each element goes.
Shift(i, at, n) == IF i < at THEN i ELSE i + n

\* Where the elements of the one and of the other are found again.
LEMMA Shifted ==
  ASSUME NEW out, NEW s, NEW at, NEW t, Spliced(out, s, at, t), NEW i \in 1 .. Len(s)
  PROVE  /\ Shift(i, at, Len(t)) \in 1 .. Len(out) /\ out[Shift(i, at, Len(t))] = s[i]
         /\ ~(at <= Shift(i, at, Len(t)) /\ Shift(i, at, Len(t)) < at + Len(t))
  <1>1. Len(out) \in Nat /\ Len(s) \in Nat /\ Len(t) \in Nat /\ at \in Nat \ {0} /\ at <= Len(s) + 1
    BY Domain DEF Spliced
  <1>2. Len(out) = Len(s) + Len(t)
    BY DEF Spliced
  <1>3. CASE i < at
    BY <1>1, <1>2, <1>3 DEF Spliced, Shift
  <1>4. CASE ~(i < at)
    <2>1. i \in at .. Len(s)
      BY <1>1, <1>4
    <2>2. out[i + Len(t)] = s[i]
      BY <2>1 DEF Spliced
    <2> QED
      BY <1>1, <1>2, <1>4, <2>1, <2>2 DEF Shift
  <1> QED
    BY <1>3, <1>4

\* What was put in is found where it was put.
LEMMA Between ==
  ASSUME NEW out, NEW s, NEW at, NEW t, Spliced(out, s, at, t), NEW i \in 1 .. Len(t)
  PROVE  at + i - 1 \in 1 .. Len(out) /\ out[at + i - 1] = t[i]
  <1>1. Len(out) \in Nat /\ Len(s) \in Nat /\ Len(t) \in Nat /\ at \in Nat \ {0} /\ at <= Len(s) + 1
    BY Domain DEF Spliced
  <1>2. Len(out) = Len(s) + Len(t)
    BY DEF Spliced
  <1> QED
    BY <1>1, <1>2 DEF Spliced

\* The elements of a sequence as a set.
LEMMA MemberOf ==
  ASSUME NEW s, IsSequence(s)
  PROVE  ToSet(s) = {s[i] : i \in 1 .. Len(s)}
  BY Domain DEF ToSet

\* Nothing comes in but what was put in, and nothing goes.
LEMMA Members ==
  ASSUME NEW out, NEW s, NEW at, NEW t, Spliced(out, s, at, t)
  PROVE  ToSet(out) = ToSet(s) \cup ToSet(t)
  <1>1. IsSequence(out) /\ IsSequence(s) /\ IsSequence(t)
    BY DEF Spliced
  <1>2. /\ ToSet(out) = {out[i] : i \in 1 .. Len(out)}
        /\ ToSet(s) = {s[i] : i \in 1 .. Len(s)}
        /\ ToSet(t) = {t[i] : i \in 1 .. Len(t)}
    BY <1>1, MemberOf
  <1>3. ASSUME NEW i \in 1 .. Len(out) PROVE out[i] \in ToSet(s) \cup ToSet(t)
    <2>1. at \in 1 .. Len(s) + 1 /\ Len(s) \in Nat
      BY <1>1, Domain DEF Spliced
    <2>2. \A j \in at .. Len(s) : j \in 1 .. Len(s)
      BY <2>1
    <2> QED
      BY <1>2, <2>2, Elements
  <1>4. ASSUME NEW i \in 1 .. Len(s) PROVE s[i] \in ToSet(out)
    BY <1>2, Shifted
  <1>5. ASSUME NEW i \in 1 .. Len(t) PROVE t[i] \in ToSet(out)
    BY <1>2, Between
  <1> QED
    BY <1>2, <1>3, <1>4, <1>5

\* What is kept is a part of the lines.
LEMMA KeptLines ==
  ASSUME NEW lines, IsSequence(lines), NEW S \in SUBSET (1 .. Len(lines))
  PROVE  IsSequence(Keep(lines, S)) /\ ToSet(Keep(lines, S)) = {lines[i] : i \in S}
  <1>1. PICK at : Enumerates(at, S) /\ Keep(lines, S) = [k \in 1 .. Len(at) |-> lines[at[k]]]
    BY KeepEnumerates
  <1> DEFINE f == [k \in 1 .. Len(at) |-> lines[at[k]]]
  <1>2. Len(at) \in Nat
    BY <1>1, Domain DEF Enumerates
  <1>3. f = [k \in 1 .. Len(at) |-> f[k]]
    OBVIOUS
  <1>4. IsSequence(f) /\ Len(f) = Len(at)
    <2> HIDE DEF f
    <2> QED
      BY <1>2, <1>3, Given
  <1>5. ToSet(f) = {lines[at[k]] : k \in 1 .. Len(at)}
    BY DEF ToSet
  <1>6. {lines[at[k]] : k \in 1 .. Len(at)} = {lines[i] : i \in S}
    <2>1. /\ \A k \in 1 .. Len(at) : at[k] \in S
          /\ \A x \in S : \E k \in 1 .. Len(at) : at[k] = x
      BY <1>1 DEF Enumerates
    <2> QED
      BY <2>1
  <1> QED
    BY <1>1, <1>4, <1>5, <1>6

\* No two policies at different places clash.
Apart(lines) == \A i, j \in 1 .. Len(lines) : i # j => ~Clash(lines[i], lines[j])

\* Of two policies that clash it does not matter which comes first.
LEMMA ClashSym ==
  ASSUME NEW l, NEW k
  PROVE  Clash(l, k) <=> Clash(k, l)
  BY DEF Clash

\* NoClash looks at each pair once.
LEMMA NoClashIsApart ==
  ASSUME NEW lines, IsSequence(lines)
  PROVE  NoClash(lines) <=> Apart(lines)
  <1>1. Len(lines) \in Nat /\ DOMAIN lines = 1 .. Len(lines)
    BY Domain
  <1>2. ASSUME NoClash(lines), NEW i \in 1 .. Len(lines), NEW j \in 1 .. Len(lines), i # j
        PROVE  ~Clash(lines[i], lines[j])
    <2>1. CASE j < i
      <3>1. j \in 1 .. i - 1
        BY <1>1, <2>1
      <3> QED
        BY <1>1, <1>2, <3>1 DEF NoClash
    <2>2. CASE i < j
      <3>1. i \in 1 .. j - 1
        BY <1>1, <2>2
      <3>2. ~Clash(lines[j], lines[i])
        BY <1>1, <1>2, <3>1 DEF NoClash
      <3> QED
        BY <3>2, ClashSym
    <2> QED
      BY <1>1, <1>2, <2>1, <2>2
  <1>3. ASSUME Apart(lines), NEW i \in DOMAIN lines, NEW j \in 1 .. i - 1
        PROVE  ~Clash(lines[i], lines[j])
    <2>1. i \in 1 .. Len(lines) /\ j \in 1 .. Len(lines) /\ i # j
      BY <1>1
    <2> QED
      BY <1>3, <2>1 DEF Apart
  <1> QED
    BY <1>2, <1>3 DEF NoClash, Apart

\* The policies that are kept do not clash either.
LEMMA KeptApart ==
  ASSUME NEW lines, IsSequence(lines), Apart(lines), NEW S \in SUBSET (1 .. Len(lines))
  PROVE  Apart(Keep(lines, S))
  <1>1. PICK at : Enumerates(at, S) /\ Keep(lines, S) = [k \in 1 .. Len(at) |-> lines[at[k]]]
    BY KeepEnumerates
  <1> DEFINE f == [k \in 1 .. Len(at) |-> lines[at[k]]]
  <1>2. Len(at) \in Nat
    BY <1>1, Domain DEF Enumerates
  <1>3. f = [k \in 1 .. Len(at) |-> f[k]]
    OBVIOUS
  <1>4. Len(f) = Len(at)
    <2> HIDE DEF f
    <2> QED
      BY <1>2, <1>3, Given
  <1>5. ASSUME NEW j \in 1 .. Len(at), NEW k \in 1 .. Len(at), j # k
        PROVE  ~Clash(f[j], f[k])
    <2>1. at[j] \in S /\ at[k] \in S
      BY <1>1 DEF Enumerates
    <2>2. at[j] \in Nat /\ at[k] \in Nat
      <3>1. \A i \in S : i \in Nat
        OBVIOUS
      <3> QED
        BY <2>1, <3>1
    <2>3. at[j] # at[k]
      <3>1. CASE j < k
        BY <1>1, <2>2, <3>1 DEF Enumerates
      <3>2. CASE k < j
        BY <1>1, <2>2, <3>2 DEF Enumerates
      <3> QED
        BY <1>2, <1>5, <3>1, <3>2
    <2>4. f[j] = lines[at[j]] /\ f[k] = lines[at[k]]
      OBVIOUS
    <2> HIDE DEF f
    <2> QED
      BY <2>1, <2>3, <2>4 DEF Apart
  <1> HIDE DEF f
  <1> QED
    BY <1>1, <1>4, <1>5 DEF Apart, f

\* Lines put into others clash with none of them, or with one of the others.
LEMMA ApartSpliced ==
  ASSUME NEW out, NEW s, NEW at, NEW t, Spliced(out, s, at, t)
  PROVE  Apart(out) <=> /\ Apart(s) /\ Apart(t)
                        /\ \A i \in 1 .. Len(s), j \in 1 .. Len(t) : ~Clash(s[i], t[j])
  <1> DEFINE n == Len(t)
             Cross == \A i \in 1 .. Len(s), j \in 1 .. Len(t) : ~Clash(s[i], t[j])
  <1>1. Len(out) \in Nat /\ Len(s) \in Nat /\ Len(t) \in Nat /\ at \in Nat \ {0} /\ at <= Len(s) + 1
    BY Domain DEF Spliced
  <1>2. ASSUME Apart(out) PROVE Apart(s)
    <2> SUFFICES ASSUME NEW i \in 1 .. Len(s), NEW j \in 1 .. Len(s), i # j PROVE ~Clash(s[i], s[j])
      BY DEF Apart
    <2>1. /\ Shift(i, at, n) \in 1 .. Len(out) /\ out[Shift(i, at, n)] = s[i]
          /\ Shift(j, at, n) \in 1 .. Len(out) /\ out[Shift(j, at, n)] = s[j]
      BY Shifted
    <2>2. Shift(i, at, n) # Shift(j, at, n)
      BY <1>1 DEF Shift
    <2> QED
      BY <1>2, <2>1, <2>2 DEF Apart
  <1>3. ASSUME Apart(out) PROVE Apart(t)
    <2> SUFFICES ASSUME NEW i \in 1 .. Len(t), NEW j \in 1 .. Len(t), i # j PROVE ~Clash(t[i], t[j])
      BY DEF Apart
    <2>1. /\ at + i - 1 \in 1 .. Len(out) /\ out[at + i - 1] = t[i]
          /\ at + j - 1 \in 1 .. Len(out) /\ out[at + j - 1] = t[j]
      BY Between
    <2>2. at + i - 1 # at + j - 1
      BY <1>1
    <2> QED
      BY <1>3, <2>1, <2>2 DEF Apart
  <1>4. ASSUME Apart(out) PROVE Cross
    <2> SUFFICES ASSUME NEW i \in 1 .. Len(s), NEW j \in 1 .. Len(t) PROVE ~Clash(s[i], t[j])
      OBVIOUS
    <2>1. /\ Shift(i, at, n) \in 1 .. Len(out) /\ out[Shift(i, at, n)] = s[i]
          /\ ~(at <= Shift(i, at, n) /\ Shift(i, at, n) < at + n)
          /\ at + j - 1 \in 1 .. Len(out) /\ out[at + j - 1] = t[j]
      BY Shifted, Between
    <2>2. Shift(i, at, n) # at + j - 1
      <3>1. Shift(i, at, n) \in Nat
        BY <1>1, <2>1
      <3> QED
        BY <1>1, <2>1, <3>1
    <2> QED
      BY <1>4, <2>1, <2>2 DEF Apart
  <1>5. ASSUME Apart(s), Apart(t), Cross PROVE Apart(out)
    <2> SUFFICES ASSUME NEW i \in 1 .. Len(out), NEW j \in 1 .. Len(out), i # j
                 PROVE  ~Clash(out[i], out[j])
      BY DEF Apart
    <2>1. i \in Nat /\ j \in Nat
      BY <1>1
    <2> DEFINE FromS(k, x) == x \in 1 .. Len(s) /\ out[k] = s[x]
                              /\ ((k < at /\ x = k) \/ (k >= at + n /\ x = k - n))
               FromT(k, x) == k >= at /\ k < at + n /\ x = k - at + 1 /\ x \in 1 .. Len(t) /\ out[k] = t[x]
    <2>2. ASSUME NEW k \in 1 .. Len(out) PROVE (\E x : FromS(k, x)) \/ (\E x : FromT(k, x))
      <3>1. \A x \in at .. Len(s) : x \in 1 .. Len(s)
        BY <1>1
      <3>2. CASE k < at /\ k \in 1 .. Len(s) /\ out[k] = s[k]
        <4>1. FromS(k, k)
          BY <3>2
        <4> QED
          BY <4>1
      <3>3. CASE k >= at /\ k < at + Len(t) /\ k - at + 1 \in 1 .. Len(t) /\ out[k] = t[k - at + 1]
        <4>1. FromT(k, k - at + 1)
          BY <3>3
        <4> QED
          BY <4>1
      <3>4. CASE k >= at + Len(t) /\ k - Len(t) \in at .. Len(s) /\ out[k] = s[k - Len(t)]
        <4>1. FromS(k, k - n)
          BY <3>1, <3>4
        <4> QED
          BY <4>1
      <3> QED
        BY <3>2, <3>3, <3>4, Elements
    <2>3. ASSUME NEW x, NEW y, FromS(i, x), FromS(j, y) PROVE ~Clash(out[i], out[j])
      <3>1. x # y
        BY <1>1, <2>1, <2>3
      <3> QED
        BY <1>5, <2>3, <3>1 DEF Apart
    <2>4. ASSUME NEW x, NEW y, FromT(i, x), FromT(j, y) PROVE ~Clash(out[i], out[j])
      <3>1. x # y
        BY <1>1, <2>1, <2>4
      <3> QED
        BY <1>5, <2>4, <3>1 DEF Apart
    <2>5. ASSUME NEW x, NEW y, FromS(i, x), FromT(j, y) PROVE ~Clash(out[i], out[j])
      BY <1>5, <2>5
    <2>6. ASSUME NEW x, NEW y, FromT(i, x), FromS(j, y) PROVE ~Clash(out[i], out[j])
      <3>1. ~Clash(out[j], out[i])
        BY <1>5, <2>6
      <3> QED
        BY <3>1, ClashSym
    <2> HIDE DEF FromS, FromT, Cross
    <2> QED
      BY <2>2, <2>3, <2>4, <2>5, <2>6
  <1> QED
    BY <1>2, <1>3, <1>4, <1>5

\* What is kept of the lines around those put in is what is kept of the lines as
\* they were.
LEMMA KeepSpliced ==
  ASSUME NEW out, NEW s, NEW at, NEW t, Spliced(out, s, at, t), NEW S \in SUBSET (1 .. Len(s)),
         NEW R \in SUBSET (1 .. Len(out)), \A i \in R : ~(at <= i /\ i < at + Len(t)),
         \A i \in 1 .. Len(s) : i \in S <=> Shift(i, at, Len(t)) \in R
  PROVE  Keep(out, R) = Keep(s, S)
  <1> DEFINE n == Len(t)
  <1>1. Len(out) \in Nat /\ Len(s) \in Nat /\ Len(t) \in Nat /\ at \in Nat \ {0} /\ at <= Len(s) + 1
    BY Domain DEF Spliced
  <1>2. IsSequence(out) /\ IsSequence(s)
    BY DEF Spliced
  <1>3. PICK f : Enumerates(f, S) /\ Keep(s, S) = [k \in 1 .. Len(f) |-> s[f[k]]]
    BY <1>2, KeepEnumerates
  <1> DEFINE g == [k \in 1 .. Len(f) |-> Shift(f[k], at, n)]
  <1>4. Len(f) \in Nat
    BY <1>3, Domain DEF Enumerates
  <1>5. g = [k \in 1 .. Len(f) |-> g[k]] /\ \A k \in 1 .. Len(f) : g[k] = Shift(f[k], at, n)
    OBVIOUS
  <1> HIDE DEF g
  <1>6. IsSequence(g) /\ Len(g) = Len(f)
    BY <1>4, <1>5, Given
  <1>7. \A k \in 1 .. Len(f) : f[k] \in S /\ f[k] \in 1 .. Len(s) /\ f[k] \in Nat
    <2>1. \A i \in S : i \in 1 .. Len(s) /\ i \in Nat
      OBVIOUS
    <2> QED
      BY <1>3, <2>1 DEF Enumerates
  <1>8. \A k \in 1 .. Len(g) : g[k] \in R
    BY <1>5, <1>6, <1>7
  <1>9. ASSUME NEW x \in R PROVE \E k \in 1 .. Len(g) : g[k] = x
    <2>1. PICK i \in 1 .. Len(s) : Shift(i, at, n) = x
      <3>1. CASE x < at /\ x \in 1 .. Len(s)
        BY <3>1 DEF Shift
      <3>2. CASE x >= at + Len(t) /\ x - Len(t) \in at .. Len(s)
        <4>1. x - n \in 1 .. Len(s) /\ ~(x - n < at) /\ (x - n) + n = x
          BY <1>1, <3>2
        <4> QED
          BY <4>1 DEF Shift
      <3> QED
        BY <1>9, <3>1, <3>2, Elements
    <2>2. PICK k \in 1 .. Len(f) : f[k] = i
      BY <1>3, <2>1 DEF Enumerates
    <2> QED
      BY <1>5, <1>6, <2>1, <2>2
  <1>10. ASSUME NEW j \in 1 .. Len(g), NEW k \in 1 .. Len(g), j < k PROVE g[j] < g[k]
    <2>1. f[j] < f[k] /\ f[j] \in Nat /\ f[k] \in Nat
      BY <1>3, <1>6, <1>7, <1>10 DEF Enumerates
    <2> QED
      BY <1>1, <1>5, <1>6, <2>1 DEF Shift
  <1>11. Enumerates(g, R)
    BY <1>6, <1>8, <1>9, <1>10 DEF Enumerates
  <1>12. Keep(out, R) = [k \in 1 .. Len(g) |-> out[g[k]]]
    BY <1>2, <1>11, KeepIs
  <1>13. \A k \in 1 .. Len(f) : out[g[k]] = s[f[k]]
    BY <1>5, <1>7, Shifted
  <1> QED
    BY <1>3, <1>6, <1>12, <1>13

\* Keeping everything changes nothing.
LEMMA KeepAll ==
  ASSUME NEW lines, IsSequence(lines)
  PROVE  Keep(lines, 1 .. Len(lines)) = lines
  <1> DEFINE at == [k \in 1 .. Len(lines) |-> k]
  <1>1. Len(lines) \in Nat
    BY Domain
  <1>2. at = [k \in 1 .. Len(lines) |-> at[k]] /\ \A k \in 1 .. Len(lines) : at[k] = k
    OBVIOUS
  <1> HIDE DEF at
  <1>3. IsSequence(at) /\ Len(at) = Len(lines)
    BY <1>1, <1>2, Given
  <1>4. Enumerates(at, 1 .. Len(lines))
    BY <1>2, <1>3 DEF Enumerates
  <1>5. Keep(lines, 1 .. Len(lines)) = [k \in 1 .. Len(at) |-> lines[at[k]]]
    BY <1>4, KeepIs
  <1> QED
    BY <1>2, <1>3, <1>5 DEF IsSequence

(***************************************************************************)
(* The [Proxy] section                                                     *)
(***************************************************************************)

\* The section has its header at p and goes up to z.
ProxyAt(lines, p, z) ==
  /\ p \in 1 .. Len(lines) /\ lines[p].kind = "[proxy]"
  /\ \A i \in 1 .. p - 1 : lines[i].kind # "[proxy]"
  /\ z \in p + 1 .. Len(lines) + 1
  /\ \A i \in p + 1 .. z - 1 : ~IsHeader(lines[i])
  /\ z <= Len(lines) => IsHeader(lines[z])

\* SectionStart finds the first header of its kind.
LEMMA StartOf ==
  ASSUME NEW lines, IsSequence(lines), NEW h
  PROVE  LET p == SectionStart(lines, h)
         IN  \/ p = 0 /\ \A i \in 1 .. Len(lines) : lines[i].kind # h
             \/ p \in 1 .. Len(lines) /\ lines[p].kind = h /\ \A i \in 1 .. p - 1 : lines[i].kind # h
  <1> DEFINE I == {i \in 1 .. Len(lines) : lines[i].kind = h}
             p == SectionStart(lines, h)
  <1>1. p = IF I # {} THEN Min(I) ELSE 0
    BY DEF SectionStart, SelectInSeq
  <1>2. Len(lines) \in Nat /\ I \in SUBSET Nat
    BY Domain
  <1>3. CASE I # {}
    <2>1. p \in I /\ \A i \in I : p <= i
      <3> HIDE DEF I, p
      <3> QED
        BY <1>1, <1>2, <1>3, MinMember
    <2>2. \A i \in 1 .. p - 1 : i \in 1 .. Len(lines) /\ ~(p <= i)
      <3> HIDE DEF p
      <3> QED
        BY <1>2, <2>1
    <2>3. p \in 1 .. Len(lines) /\ lines[p].kind = h
      <3> HIDE DEF p
      <3> QED
        BY <2>1
    <2>4. \A i \in 1 .. p - 1 : lines[i].kind # h
      <3> HIDE DEF p
      <3> QED
        BY <2>1, <2>2
    <2> HIDE DEF I
    <2> QED
      BY <2>3, <2>4
  <1>4. CASE I = {}
    <2>1. p = 0
      <3> HIDE DEF I, p
      <3> QED
        BY <1>1, <1>4
    <2>2. \A i \in 1 .. Len(lines) : lines[i].kind # h
      BY <1>4
    <2> HIDE DEF I
    <2> QED
      BY <2>1, <2>2
  <1> HIDE DEF I
  <1> QED
    BY <1>3, <1>4

\* SectionEnd is the next header, or behind the last line.
LEMMA EndOf ==
  ASSUME NEW lines, IsSequence(lines), NEW h, SectionStart(lines, h) # 0
  PROVE  LET p == SectionStart(lines, h)
             z == SectionEnd(lines, h)
         IN  /\ z \in p + 1 .. Len(lines) + 1
             /\ \A i \in p + 1 .. z - 1 : ~IsHeader(lines[i])
             /\ z <= Len(lines) => IsHeader(lines[z])
  <1> DEFINE p == SectionStart(lines, h)
             I == {i \in p + 1 .. Len(lines) : IsHeader(lines[i])} \cup {Len(lines) + 1}
             z == SectionEnd(lines, h)
  <1>1. z = Min(I)
    BY DEF SectionEnd
  <1>2. Len(lines) \in Nat /\ p \in 1 .. Len(lines)
    BY StartOf, Domain
  <1> HIDE DEF p
  <1>3. I \in SUBSET Nat /\ I # {}
    BY <1>2
  <1>4. z \in I /\ \A i \in I : z <= i
    <2> HIDE DEF I, z
    <2> QED
      BY <1>1, <1>3, MinMember
  <1>5. z \in p + 1 .. Len(lines) + 1
    <2> HIDE DEF z
    <2> QED
      BY <1>2, <1>4
  <1>6. ASSUME NEW i \in p + 1 .. z - 1, IsHeader(lines[i]) PROVE FALSE
    <2>1. i \in p + 1 .. Len(lines) /\ ~(z <= i)
      <3> HIDE DEF z
      <3> QED
        BY <1>2, <1>5
    <2>2. i \in I
      <3> HIDE DEF z
      <3> QED
        BY <1>6, <2>1
    <2> HIDE DEF I, z
    <2> QED
      BY <1>4, <2>1, <2>2
  <1>7. z <= Len(lines) => IsHeader(lines[z])
    <2> HIDE DEF z
    <2> QED
      BY <1>2, <1>4
  <1> HIDE DEF I, z
  <1> QED
    BY <1>5, <1>6, <1>7 DEF p, z

\* That is what SectionStart and SectionEnd find.
LEMMA ProxyFound ==
  ASSUME NEW lines, IsSequence(lines), SectionStart(lines, "[proxy]") # 0
  PROVE  ProxyAt(lines, SectionStart(lines, "[proxy]"), SectionEnd(lines, "[proxy]"))
  BY StartOf, EndOf DEF ProxyAt

\* And nothing else is the section.
LEMMA ProxyIs ==
  ASSUME NEW lines, IsSequence(lines), NEW p, NEW z, ProxyAt(lines, p, z)
  PROVE  SectionStart(lines, "[proxy]") = p /\ SectionEnd(lines, "[proxy]") = z
  <1>1. Len(lines) \in Nat
    BY Domain
  <1> DEFINE q == SectionStart(lines, "[proxy]")
             y == SectionEnd(lines, "[proxy]")
  <1>2. p \in 1 .. Len(lines) /\ lines[p].kind = "[proxy]"
    BY DEF ProxyAt
  <1>3. q \in 1 .. Len(lines) /\ lines[q].kind = "[proxy]" /\ \A i \in 1 .. q - 1 : lines[i].kind # "[proxy]"
    BY <1>2, StartOf
  <1>4. q # 0
    BY <1>1, <1>3
  <1>5. ProxyAt(lines, q, y)
    BY <1>4, ProxyFound
  <1> HIDE DEF q, y
  <1>6. q = p
    <2>1. ~(q < p)
      <3>1. q < p => q \in 1 .. p - 1
        BY <1>1, <1>2, <1>3
      <3> QED
        BY <1>3, <3>1 DEF ProxyAt
    <2>2. ~(p < q)
      <3>1. p < q => p \in 1 .. q - 1
        BY <1>1, <1>2, <1>3
      <3> QED
        BY <1>2, <1>3, <3>1
    <2> QED
      BY <1>1, <1>2, <1>3, <2>1, <2>2
  <1>7. y = z
    <2>1. y \in p + 1 .. Len(lines) + 1 /\ z \in p + 1 .. Len(lines) + 1
      BY <1>5, <1>6 DEF ProxyAt
    <2>2. ~(y < z)
      <3>1. y < z => y \in p + 1 .. z - 1 /\ y <= Len(lines)
        BY <1>1, <1>2, <2>1
      <3> QED
        BY <1>5, <1>6, <3>1 DEF ProxyAt
    <2>3. ~(z < y)
      <3>1. z < y => z \in p + 1 .. y - 1 /\ z <= Len(lines)
        BY <1>1, <1>2, <2>1
      <3> QED
        BY <1>5, <1>6, <3>1 DEF ProxyAt
    <2> QED
      BY <1>1, <1>2, <2>1, <2>2, <2>3
  <1> QED
    BY <1>6, <1>7 DEF q, y

\* Lines that are put into the section, or come out of it, change its end only.
LEMMA ProxyGrows ==
  ASSUME NEW out, NEW s, NEW at, NEW t, Spliced(out, s, at, t),
         \A k \in 1 .. Len(t) : ~IsHeader(t[k]),
         NEW p, NEW z, ProxyAt(s, p, z), at \in p + 1 .. z
  PROVE  ProxyAt(out, p, z + Len(t))
  <1> DEFINE n == Len(t)
  <1>1. Len(out) \in Nat /\ Len(s) \in Nat /\ n \in Nat /\ Len(out) = Len(s) + n
    BY Domain DEF Spliced
  <1>2. p \in 1 .. Len(s) /\ z \in p + 1 .. Len(s) + 1 /\ p < at /\ at <= z
    BY <1>1 DEF ProxyAt
  <1>3. \A i \in 1 .. p : i < at /\ i \in 1 .. at - 1 /\ out[i] = s[i]
    <2>1. \A i \in 1 .. p : i < at /\ i \in 1 .. at - 1
      BY <1>1, <1>2
    <2> QED
      BY <2>1 DEF Spliced
  <1>4. p \in 1 .. Len(out) /\ out[p].kind = "[proxy]" /\ \A i \in 1 .. p - 1 : out[i].kind # "[proxy]"
    <2>1. p \in 1 .. p /\ \A i \in 1 .. p - 1 : i \in 1 .. p
      BY <1>1, <1>2
    <2> QED
      BY <1>1, <1>2, <1>3, <2>1 DEF ProxyAt
  <1>5. z + n \in p + 1 .. Len(out) + 1
    BY <1>1, <1>2
  <1>6. ASSUME NEW i \in p + 1 .. z + n - 1 PROVE ~IsHeader(out[i])
    <2>1. i \in 1 .. Len(out)
      BY <1>1, <1>2
    <2>2. CASE i < at /\ i \in 1 .. Len(s) /\ out[i] = s[i]
      <3>1. i \in p + 1 .. z - 1
        BY <1>1, <1>2, <2>2
      <3> QED
        BY <2>2, <3>1 DEF ProxyAt
    <2>3. CASE i - at + 1 \in 1 .. Len(t) /\ out[i] = t[i - at + 1]
      BY <2>3
    <2>4. CASE i >= at + Len(t) /\ i - Len(t) \in at .. Len(s) /\ out[i] = s[i - Len(t)]
      <3>1. i - n \in p + 1 .. z - 1
        BY <1>1, <1>2, <2>4
      <3> QED
        BY <2>4, <3>1 DEF ProxyAt
    <2> QED
      BY <2>1, <2>2, <2>3, <2>4, Elements
  <1>7. ASSUME z + n <= Len(out) PROVE IsHeader(out[z + n])
    <2>1. z \in at .. Len(s) /\ z <= Len(s)
      BY <1>1, <1>2, <1>7
    <2>2. out[z + n] = s[z]
      BY <2>1 DEF Spliced
    <2> QED
      BY <2>1, <2>2 DEF ProxyAt
  <1> QED
    BY <1>4, <1>5, <1>6, <1>7 DEF ProxyAt

\* The same the other way round.
LEMMA ProxyShrinks ==
  ASSUME NEW out, NEW s, NEW at, NEW t, Spliced(out, s, at, t),
         NEW p, NEW y, ProxyAt(out, p, y), p < at, at + Len(t) <= y
  PROVE  ProxyAt(s, p, y - Len(t))
  <1> DEFINE n == Len(t)
  <1>1. Len(out) \in Nat /\ Len(s) \in Nat /\ n \in Nat /\ Len(out) = Len(s) + n
    BY Domain DEF Spliced
  <1>2. at \in 1 .. Len(s) + 1 /\ p \in 1 .. Len(out) /\ y \in p + 1 .. Len(out) + 1
    BY DEF Spliced, ProxyAt
  <1>3. \A i \in 1 .. at - 1 : out[i] = s[i]
    BY DEF Spliced
  <1>4. p \in 1 .. Len(s) /\ s[p].kind = "[proxy]" /\ \A i \in 1 .. p - 1 : s[i].kind # "[proxy]"
    <2>1. p \in 1 .. at - 1 /\ (\A i \in 1 .. p - 1 : i \in 1 .. at - 1) /\ p \in 1 .. Len(s)
      BY <1>1, <1>2
    <2> QED
      BY <1>3, <2>1 DEF ProxyAt
  <1>5. y - n \in p + 1 .. Len(s) + 1
    BY <1>1, <1>2
  <1>6. ASSUME NEW i \in p + 1 .. y - n - 1 PROVE ~IsHeader(s[i])
    <2>1. CASE i < at
      <3>1. i \in 1 .. at - 1 /\ i \in p + 1 .. y - 1
        BY <1>1, <1>2, <2>1
      <3> QED
        BY <1>3, <3>1 DEF ProxyAt
    <2>2. CASE ~(i < at)
      <3>1. i \in at .. Len(s) /\ i + n \in p + 1 .. y - 1
        BY <1>1, <1>2, <2>2
      <3>2. out[i + n] = s[i]
        BY <3>1 DEF Spliced
      <3> QED
        BY <3>1, <3>2 DEF ProxyAt
    <2> QED
      BY <2>1, <2>2
  <1>7. ASSUME y - n <= Len(s) PROVE IsHeader(s[y - n])
    <2>1. y - n \in at .. Len(s) /\ (y - n) + n = y /\ y <= Len(out)
      BY <1>1, <1>2, <1>7
    <2>2. out[(y - n) + n] = s[y - n]
      BY <2>1 DEF Spliced
    <2> QED
      BY <2>1, <2>2 DEF ProxyAt
  <1> QED
    BY <1>4, <1>5, <1>6, <1>7 DEF ProxyAt

(***************************************************************************)
(* The managed block                                                       *)
(***************************************************************************)

\* The least of one number.
LEMMA MinOne ==
  ASSUME NEW m
  PROVE  Min({m}) = m
  BY DEF Min

\* The greatest of one number.
LEMMA MaxOne ==
  ASSUME NEW m
  PROVE  Max({m}) = m
  BY DEF Max

\* The block as it is written, and lines that have none.
Block(managed) == <<Begin>> \o managed \o <<End>>
Unmarked(lines) == \A i \in 1 .. Len(lines) : ~IsMarker(lines[i])

\* The markers around the lines of a block.
LEMMA BlockElements ==
  ASSUME NEW managed, IsSequence(managed)
  PROVE  /\ IsSequence(Block(managed)) /\ Len(Block(managed)) = Len(managed) + 2
         /\ Block(managed)[1] = Begin /\ Block(managed)[Len(managed) + 2] = End
         /\ \A k \in 1 .. Len(managed) : Block(managed)[k + 1] = managed[k]
  <1> DEFINE front == <<Begin>> \o managed
             block == front \o <<End>>
             n == Len(managed)
  <1>1. n \in Nat
    BY Domain
  <1>2. IsSequence(<<Begin>>) /\ Len(<<Begin>>) = 1 /\ <<Begin>>[1] = Begin
    BY Single
  <1>3. /\ IsSequence(front) /\ Len(front) = 1 + n
        /\ \A i \in 1 .. 1 : front[i] = <<Begin>>[i]
        /\ \A i \in 1 + 1 .. 1 + n : front[i] = managed[i - 1]
    <2> HIDE DEF front
    <2> QED
      BY <1>2, Concat DEF front
  <1>4. IsSequence(<<End>>) /\ Len(<<End>>) = 1 /\ <<End>>[1] = End
    BY Single
  <1> HIDE DEF front
  <1>5. /\ IsSequence(block) /\ Len(block) = Len(front) + 1
        /\ \A i \in 1 .. Len(front) : block[i] = front[i]
        /\ \A i \in Len(front) + 1 .. Len(front) + 1 : block[i] = <<End>>[i - Len(front)]
    <2> HIDE DEF block
    <2> QED
      BY <1>3, <1>4, Concat DEF block
  <1> HIDE DEF block
  <1>6. block[1] = Begin
    <2>1. 1 \in 1 .. Len(front) /\ 1 \in 1 .. 1
      BY <1>1, <1>3
    <2> QED
      BY <1>2, <1>3, <1>5, <2>1
  <1>7. block[n + 2] = End
    <2>1. n + 2 \in Len(front) + 1 .. Len(front) + 1 /\ (n + 2) - Len(front) = 1
      BY <1>1, <1>3
    <2> QED
      BY <1>4, <1>5, <2>1
  <1>8. ASSUME NEW k \in 1 .. n PROVE block[k + 1] = managed[k]
    <2>1. k + 1 \in 1 .. Len(front) /\ k + 1 \in 1 + 1 .. 1 + n /\ (k + 1) - 1 = k
      BY <1>1, <1>3
    <2> QED
      BY <1>3, <1>5, <2>1
  <1>9. Len(block) = n + 2
    BY <1>1, <1>3, <1>5
  <1> QED
    BY <1>5, <1>6, <1>7, <1>8, <1>9 DEF block, front, Block

\* The markers of a block that is put among unmarked lines are the only ones.
LEMMA Marked ==
  ASSUME NEW out, NEW clean, NEW at, NEW managed, IsSequence(managed),
         Spliced(out, clean, at, Block(managed)), Unmarked(clean), Unmarked(managed)
  PROVE  /\ at \in 1 .. Len(out) /\ at + Len(managed) + 1 \in 1 .. Len(out)
         /\ \A i \in 1 .. Len(out) : IsBegin(out[i]) <=> i = at
         /\ \A i \in 1 .. Len(out) : IsEnd(out[i]) <=> i = at + Len(managed) + 1
         /\ \A k \in 1 .. Len(managed) : at + k \in 1 .. Len(out) /\ out[at + k] = managed[k]
  <1> DEFINE n == Len(managed)
             t == Block(managed)
  <1>1. /\ IsSequence(t) /\ Len(t) = n + 2 /\ t[1] = Begin /\ t[n + 2] = End
        /\ \A k \in 1 .. n : t[k + 1] = managed[k]
    BY BlockElements
  <1> HIDE DEF t
  <1>2. Spliced(out, clean, at, t)
    BY DEF t
  <1>3. Len(out) \in Nat /\ Len(clean) \in Nat /\ n \in Nat /\ at \in Nat \ {0} /\ at <= Len(clean) + 1
        /\ Len(out) = Len(clean) + n + 2
    <2>1. Len(out) \in Nat /\ Len(clean) \in Nat /\ n \in Nat
      BY <1>2, Domain DEF Spliced
    <2>2. at \in 1 .. Len(clean) + 1 /\ Len(out) = Len(clean) + Len(t) /\ Len(t) = n + 2
      BY <1>1, <1>2 DEF Spliced
    <2> HIDE DEF n
    <2> QED
      BY <2>1, <2>2
  <1>4. at \in 1 .. Len(out) /\ at + n + 1 \in 1 .. Len(out)
    BY <1>3
  <1>5. Begin # End
    BY DEF Begin, End, Plain
  <1>6. out[at] = Begin /\ out[at + n + 1] = End
    <2>1. 1 \in 1 .. Len(t) /\ n + 2 \in 1 .. Len(t) /\ at + 1 - 1 = at /\ at + (n + 2) - 1 = at + n + 1
      BY <1>1, <1>3
    <2>2. out[at + 1 - 1] = t[1] /\ out[at + (n + 2) - 1] = t[n + 2]
      BY <1>2, <2>1, Between
    <2> QED
      BY <1>1, <2>1, <2>2
  <1>7. ASSUME NEW k \in 1 .. n PROVE at + k \in 1 .. Len(out) /\ out[at + k] = managed[k]
    <2>1. k + 1 \in 1 .. Len(t) /\ at + (k + 1) - 1 = at + k
      BY <1>1, <1>3
    <2>2. at + (k + 1) - 1 \in 1 .. Len(out) /\ out[at + (k + 1) - 1] = t[k + 1]
      BY <1>2, <2>1, Between
    <2> QED
      BY <1>1, <2>1, <2>2
  <1>8. ASSUME NEW i \in 1 .. Len(out), i # at, i # at + n + 1 PROVE ~IsMarker(out[i])
    <2>1. CASE i \in 1 .. Len(clean) /\ out[i] = clean[i]
      BY <2>1 DEF Unmarked
    <2>2. CASE i >= at /\ i < at + Len(t)
      <3>1. i - at \in 1 .. n /\ at + (i - at) = i
        <4>1. Len(t) = n + 2 /\ i \in Nat
          BY <1>1, <1>3
        <4> HIDE DEF n
        <4> QED
          BY <1>3, <1>8, <2>2, <4>1
      <3>2. out[at + (i - at)] = managed[i - at]
        BY <1>7, <3>1
      <3> QED
        BY <3>1, <3>2 DEF Unmarked
    <2>3. CASE i - Len(t) \in at .. Len(clean) /\ out[i] = clean[i - Len(t)]
      <3>1. i - Len(t) \in 1 .. Len(clean)
        BY <1>3, <2>3
      <3> QED
        BY <2>3, <3>1 DEF Unmarked
    <2> QED
      BY <1>2, <2>1, <2>2, <2>3, Elements
  <1> QED
    BY <1>3, <1>4, <1>5, <1>6, <1>7, <1>8 DEF IsBegin, IsEnd, IsMarker

\* The lines of a profile, the header of [Proxy] apart.
Headless(lines) == Keep(lines, {i \in 1 .. Len(lines) : lines[i] # Plain("[proxy]")})

\* A block in [Proxy] is found, removed and taken for managed.
LEMMA BlockTaken ==
  ASSUME NEW out, NEW clean, NEW at, NEW managed, IsSequence(managed),
         Spliced(out, clean, at, Block(managed)), Unmarked(clean), Unmarked(managed),
         NEW p, NEW y, ProxyAt(out, p, y), p < at, at + Len(managed) + 2 <= y
  PROVE  /\ ManagedProxyBlock(out) = managed
         /\ RemoveManagedProxyBlock(out) = clean
         /\ Manual(out) = Headless(clean)
  <1> DEFINE n == Len(managed)
             e == at + n + 1
  <1>1. IsSequence(out) /\ IsSequence(clean)
    BY DEF Spliced
  <1>2. Len(Block(managed)) = n + 2
    BY BlockElements
  <1>3. /\ Len(out) \in Nat /\ Len(clean) \in Nat /\ n \in Nat /\ at \in Nat \ {0} /\ at <= Len(clean) + 1
        /\ Len(out) = Len(clean) + n + 2
    BY <1>1, <1>2, Domain DEF Spliced
  <1>4. p \in Nat \ {0} /\ y \in Nat /\ p < at /\ e + 1 <= y /\ y <= Len(out) + 1
    BY <1>3 DEF ProxyAt
  <1>5. SectionStart(out, "[proxy]") = p /\ SectionEnd(out, "[proxy]") = y
    BY <1>1, ProxyIs
  <1>6. /\ at \in 1 .. Len(out) /\ e \in 1 .. Len(out)
        /\ \A i \in 1 .. Len(out) : IsBegin(out[i]) <=> i = at
        /\ \A i \in 1 .. Len(out) : IsEnd(out[i]) <=> i = e
        /\ \A k \in 1 .. n : out[at + k] = managed[k]
    BY Marked
  <1>7. ManagedProxyBlock(out) = managed
    <2> DEFINE section == SubSeq(out, p + 1, y - 1)
               begin == at - p
               end == e - p
    <2>1. IsSequence(section) /\ Len(section) = y - 1 - p /\ \A i \in 1 .. y - 1 - p : section[i] = out[p + i]
      <3>1. p + 1 \in 1 .. Len(out) + 1 /\ y - 1 \in (p + 1) - 1 .. Len(out)
        BY <1>3, <1>4
      <3>2. /\ IsSequence(section) /\ Len(section) = (y - 1) - (p + 1) + 1
            /\ \A i \in 1 .. (y - 1) - (p + 1) + 1 : section[i] = out[p + 1 + i - 1]
        <4> HIDE DEF section
        <4> QED
          BY <1>1, <3>1, Sub DEF section
      <3>3. (y - 1) - (p + 1) + 1 = y - 1 - p /\ \A i \in 1 .. y - 1 - p : p + 1 + i - 1 = p + i
        BY <1>3, <1>4
      <3> HIDE DEF section
      <3> QED
        BY <3>2, <3>3
    <2>2. ManagedProxyBlock(out) = FirstBlock(section)
      <3>1. p # 0
        BY <1>4
      <3> QED
        BY <1>5, <3>1 DEF ManagedProxyBlock, Section
    <2> HIDE DEF section
    <2>3. begin \in 1 .. Len(section) /\ end \in begin + 1 .. Len(section) /\ end - begin = n + 1
      BY <1>3, <1>4, <2>1
    <2>4. \A i \in 1 .. Len(section) : p + i \in 1 .. Len(out) /\ section[i] = out[p + i]
      BY <1>3, <1>4, <2>1
    <2>5. \A i \in 1 .. Len(section) : IsBegin(section[i]) <=> i = begin
      <3>1. \A i \in 1 .. Len(section) : p + i = at <=> i = begin
        BY <1>3, <1>4, <2>1
      <3> HIDE DEF begin
      <3> QED
        BY <1>6, <2>4, <3>1
    <2>6. \A i \in 1 .. Len(section) : IsEnd(section[i]) <=> i = end
      <3>1. \A i \in 1 .. Len(section) : p + i = e <=> i = end
        BY <1>3, <1>4, <2>1
      <3>2. \A i \in 1 .. Len(out) : IsEnd(out[i]) <=> i = e
        BY <1>6
      <3> HIDE DEF end, e
      <3> QED
        BY <2>4, <3>1, <3>2
    <2>7. \A k \in 1 .. n : begin + k \in 1 .. Len(section) /\ section[begin + k] = managed[k]
      <3>1. ASSUME NEW k \in 1 .. n PROVE begin + k \in 1 .. Len(section) /\ p + (begin + k) = at + k
        <4>1. k \in Nat \ {0} /\ k <= n
          BY <1>3
        <4>2. at + k < y /\ Len(section) = y - 1 - p
          BY <1>3, <1>4, <2>1, <4>1
        <4> HIDE DEF n
        <4> QED
          BY <1>3, <1>4, <4>1, <4>2
      <3> HIDE DEF begin
      <3> QED
        BY <1>6, <2>4, <3>1
    <2>8. begin \in Nat \ {0} /\ end \in Nat \ {0} /\ Len(section) \in Nat
      BY <1>3, <1>4, <2>1
    <2> HIDE DEF begin, end
    <2>9. SelectInSeq(section, IsBegin) = begin
      <3>1. {i \in 1 .. Len(section) : IsBegin(section[i])} = {begin}
        BY <2>3, <2>5
      <3> QED
        BY <3>1, MinOne DEF SelectInSeq
    <2>10. FindMarkerEnd(section, begin + 1, Len(section)) = end
      <3>1. {i \in begin + 1 .. Len(section) : IsEnd(section[i])} = {end}
        BY <2>3, <2>6, <2>8
      <3> QED
        BY <3>1, MinOne DEF FindMarkerEnd, SelectInSubSeq
    <2>11. {i \in begin + 1 .. end - 1 : ~IsBegin(section[i])} = begin + 1 .. end - 1
      BY <2>3, <2>5, <2>8
    <2>12. FirstBlock(section) = Keep(section, begin + 1 .. end - 1)
      BY <2>8, <2>9, <2>10, <2>11 DEF FirstBlock
    <2> DEFINE f == [k \in 1 .. n |-> begin + k]
    <2>13. f = [k \in 1 .. n |-> f[k]] /\ \A k \in 1 .. n : f[k] = begin + k
      OBVIOUS
    <2> HIDE DEF f
    <2>14. IsSequence(f) /\ Len(f) = n
      BY <1>3, <2>13, Given
    <2>15. Enumerates(f, begin + 1 .. end - 1)
      <3>1. \A k \in 1 .. n : f[k] \in begin + 1 .. end - 1
        BY <1>3, <2>3, <2>8, <2>13
      <3>2. \A x \in begin + 1 .. end - 1 : x - begin \in 1 .. n /\ f[x - begin] = x
        BY <1>3, <2>3, <2>8, <2>13
      <3>3. \A j, k \in 1 .. n : j < k => f[j] < f[k]
        BY <1>3, <2>8, <2>13
      <3> QED
        BY <2>14, <3>1, <3>2, <3>3 DEF Enumerates
    <2>16. (begin + 1 .. end - 1) \in SUBSET (1 .. Len(section))
      BY <2>3, <2>8
    <2>17. Keep(section, begin + 1 .. end - 1) = [k \in 1 .. n |-> section[f[k]]]
      <3> DEFINE S == begin + 1 .. end - 1
      <3> HIDE DEF S
      <3>1. IsSequence(section) /\ Enumerates(f, S) /\ S \in SUBSET (1 .. Len(section))
        BY <2>1, <2>15, <2>16 DEF S
      <3>2. Keep(section, S) = [k \in 1 .. Len(f) |-> section[f[k]]]
        BY <3>1, KeepIs
      <3> QED
        BY <2>14, <3>2 DEF S
    <2>18. \A k \in 1 .. n : section[f[k]] = managed[k]
      BY <2>7, <2>13
    <2> QED
      BY <2>2, <2>12, <2>17, <2>18 DEF IsSequence
  <1>8. ASSUME NEW i \in 1 .. Len(out) PROVE i \in at .. e <=> at <= i /\ i < at + Len(Block(managed))
    BY <1>2, <1>3
  <1>9. RemoveManagedProxyBlock(out) = clean
    <2>1. {i \in p + 1 .. y - 1 : IsBegin(out[i])} = {at}
      <3>1. at \in p + 1 .. y - 1 /\ \A i \in p + 1 .. y - 1 : i \in 1 .. Len(out)
        BY <1>3, <1>4
      <3> HIDE DEF e
      <3> QED
        BY <1>6, <3>1
    <2>2. FindMarkerEnd(out, at + 1, y - 1) = e
      <3>1. e \in at + 1 .. y - 1 /\ \A i \in at + 1 .. y - 1 : i \in 1 .. Len(out)
        BY <1>3, <1>4
      <3>2. {i \in at + 1 .. y - 1 : IsEnd(out[i])} = {e}
        <4> HIDE DEF e
        <4> QED
          BY <1>6, <3>1
      <3> HIDE DEF e
      <3> QED
        BY <3>2, MinOne DEF FindMarkerEnd, SelectInSubSeq
    <2>3. UNION {b .. FindMarkerEnd(out, b + 1, y - 1) : b \in {i \in p + 1 .. y - 1 : IsBegin(out[i])}} = at .. e
      <3> HIDE DEF e
      <3> QED
        BY <2>1, <2>2
    <2>4. RemoveManagedProxyBlock(out) = Keep(out, (1 .. Len(out)) \ (at .. e))
      <3>1. DOMAIN out = 1 .. Len(out)
        BY <1>1, Domain
      <3> HIDE DEF e
      <3>2. RemoveManagedProxyBlock(out) = Keep(out, DOMAIN out \ (at .. e))
        BY <1>5, <2>3 DEF RemoveManagedProxyBlock
      <3> QED
        BY <3>1, <3>2
    <2> DEFINE R == (1 .. Len(out)) \ (at .. e)
    <2>5. \A i \in R : ~(at <= i /\ i < at + Len(Block(managed)))
      <3> HIDE DEF e
      <3> QED
        BY <1>8
    <2>6. \A i \in 1 .. Len(clean) : i \in 1 .. Len(clean) <=> Shift(i, at, Len(Block(managed))) \in R
      <3>1. \A i \in 1 .. Len(clean) : LET j == Shift(i, at, Len(Block(managed))) IN
              j \in 1 .. Len(out) /\ ~(at <= j /\ j < at + Len(Block(managed)))
        BY Shifted
      <3> HIDE DEF e
      <3> QED
        BY <1>8, <3>1
    <2>7. Keep(out, R) = Keep(clean, 1 .. Len(clean))
      <3> HIDE DEF R
      <3>1. R \in SUBSET (1 .. Len(out))
        BY DEF R
      <3> QED
        BY <2>5, <2>6, <3>1, KeepSpliced
    <2> QED
      BY <1>1, <2>4, <2>7, KeepAll
  <1>10. Manual(out) = Headless(clean)
    <2>1. SelectInSeq(out, IsBegin) = at
      <3>1. {i \in 1 .. Len(out) : IsBegin(out[i])} = {at}
        <4> HIDE DEF e
        <4> QED
          BY <1>6
      <3> QED
        BY <3>1, MinOne DEF SelectInSeq
    <2>2. SelectLastInSeq(out, IsEnd) = e
      <3>1. {i \in 1 .. Len(out) : IsEnd(out[i])} = {e}
        <4> HIDE DEF e
        <4> QED
          BY <1>6
      <3> HIDE DEF e
      <3> QED
        BY <3>1, MaxOne DEF SelectLastInSeq
    <2> DEFINE R == {i \in 1 .. Len(out) : i \notin at .. e /\ out[i] # Plain("[proxy]")}
               S == {i \in 1 .. Len(clean) : clean[i] # Plain("[proxy]")}
    <2>3. Manual(out) = Keep(out, R)
      <3>1. at # 0 /\ DOMAIN out = 1 .. Len(out)
        BY <1>1, <1>3, Domain
      <3> HIDE DEF e
      <3>2. {i \in DOMAIN out : (at = 0 \/ i \notin at .. e) /\ out[i] # Plain("[proxy]")} = R
        BY <3>1
      <3> HIDE DEF R
      <3> QED
        BY <2>1, <2>2, <3>2 DEF Manual
    <2>4. \A i \in R : ~(at <= i /\ i < at + Len(Block(managed)))
      <3> HIDE DEF e
      <3> QED
        BY <1>8
    <2>5. \A i \in 1 .. Len(clean) : i \in S <=> Shift(i, at, Len(Block(managed))) \in R
      <3>1. \A i \in 1 .. Len(clean) : LET j == Shift(i, at, Len(Block(managed))) IN
              j \in 1 .. Len(out) /\ ~(at <= j /\ j < at + Len(Block(managed))) /\ out[j] = clean[i]
        BY Shifted
      <3> HIDE DEF e
      <3> QED
        BY <1>8, <3>1
    <2>6. Keep(out, R) = Keep(clean, S)
      <3>1. R \in SUBSET (1 .. Len(out)) /\ S \in SUBSET (1 .. Len(clean))
        OBVIOUS
      <3> HIDE DEF R, S
      <3> QED
        BY <2>4, <2>5, <3>1, KeepSpliced
    <2> QED
      BY <2>3, <2>6 DEF Headless
  <1> QED
    BY <1>7, <1>9, <1>10

\* Without markers there is nothing to find or to remove.
LEMMA NothingTaken ==
  ASSUME NEW lines, IsSequence(lines), Unmarked(lines)
  PROVE  /\ ManagedProxyBlock(lines) = <<>>
         /\ SectionStart(lines, "[proxy]") # 0 => RemoveManagedProxyBlock(lines) = lines
         /\ Manual(lines) = Headless(lines)
  <1> DEFINE p == SectionStart(lines, "[proxy]")
             y == SectionEnd(lines, "[proxy]")
  <1>1. Len(lines) \in Nat /\ DOMAIN lines = 1 .. Len(lines)
    BY Domain
  <1>2. ASSUME p # 0 PROVE p \in 1 .. Len(lines) /\ y \in p + 1 .. Len(lines) + 1
    BY <1>2, ProxyFound DEF ProxyAt
  <1>3. ManagedProxyBlock(lines) = <<>>
    <2>1. CASE p = 0
      BY <2>1 DEF ManagedProxyBlock
    <2>2. CASE p # 0
      <3> DEFINE section == SubSeq(lines, p + 1, y - 1)
      <3> HIDE DEF p, y
      <3>1. p + 1 \in 1 .. Len(lines) + 1 /\ y - 1 \in (p + 1) - 1 .. Len(lines)
        BY <1>1, <1>2, <2>2
      <3>2. /\ Len(section) = (y - 1) - (p + 1) + 1
            /\ \A i \in 1 .. (y - 1) - (p + 1) + 1 : section[i] = lines[p + 1 + i - 1]
        <4> HIDE DEF section
        <4> QED
          BY <3>1, Sub DEF section
      <3> HIDE DEF section
      <3>3. \A i \in 1 .. Len(section) : ~IsMarker(section[i])
        <4>1. \A i \in 1 .. (y - 1) - (p + 1) + 1 : p + 1 + i - 1 \in 1 .. Len(lines)
          BY <1>1, <1>2, <2>2
        <4> QED
          BY <3>2, <4>1 DEF Unmarked
      <3>4. SelectInSeq(section, IsBegin) = 0
        BY <3>3 DEF SelectInSeq, IsMarker
      <3>5. FirstBlock(section) = <<>>
        BY <3>4 DEF FirstBlock
      <3> QED
        BY <2>2, <3>5 DEF ManagedProxyBlock, Section, section, p, y
    <2> QED
      BY <2>1, <2>2
  <1>4. ASSUME p # 0 PROVE RemoveManagedProxyBlock(lines) = lines
    <2> HIDE DEF p, y
    <2>1. {i \in p + 1 .. y - 1 : IsBegin(lines[i])} = {}
      <3>1. \A i \in p + 1 .. y - 1 : i \in 1 .. Len(lines)
        BY <1>1, <1>2, <1>4
      <3> QED
        BY <3>1 DEF Unmarked, IsMarker
    <2>2. UNION {b .. FindMarkerEnd(lines, b + 1, y - 1) : b \in {i \in p + 1 .. y - 1 : IsBegin(lines[i])}} = {}
      BY <2>1
    <2>3. RemoveManagedProxyBlock(lines) = Keep(lines, DOMAIN lines \ {})
      BY <2>2 DEF RemoveManagedProxyBlock, p, y
    <2>4. DOMAIN lines \ {} = 1 .. Len(lines)
      BY <1>1
    <2> QED
      BY <2>3, <2>4, KeepAll
  <1>5. Manual(lines) = Headless(lines)
    <2>1. SelectInSeq(lines, IsBegin) = 0
      BY DEF SelectInSeq, Unmarked, IsMarker
    <2> DEFINE e == SelectLastInSeq(lines, IsEnd)
    <2>2. {i \in DOMAIN lines : (0 = 0 \/ i \notin 0 .. e) /\ lines[i] # Plain("[proxy]")}
            = {i \in 1 .. Len(lines) : lines[i] # Plain("[proxy]")}
      BY <1>1
    <2> HIDE DEF e
    <2> QED
      BY <2>1, <2>2 DEF Manual, Headless, e
  <1> QED
    BY <1>3, <1>4, <1>5

\* A profile without its block, and a block for it.
Clean(lines) ==
  /\ IsSequence(lines) /\ SectionStart(lines, "[proxy]") # 0
  /\ Unmarked(lines) /\ Apart(lines)
  /\ \A i \in 1 .. Len(lines) : LineOK(lines[i]) /\ (IsProxy(lines[i]) => i \in InProxy(lines))
InBlock(l) == LineOK(l) /\ ~IsHeader(l) /\ ~IsMarker(l) /\ (l.link # None => Accepted(l.link))
Fits(managed, clean) ==
  /\ IsSequence(managed) /\ Apart(managed)
  /\ \A k \in 1 .. Len(managed) : InBlock(managed[k])
  /\ \A i \in 1 .. Len(clean), k \in 1 .. Len(managed) : ~Clash(clean[i], managed[k])

\* Markers are neither policies nor headers.
LEMMA MarkerKinds == /\ Begin.kind = "begin" /\ End.kind = "end" /\ Begin # End
                     /\ \A l : IsMarker(l) => ~IsProxy(l) /\ ~IsHeader(l)
  BY DEF Begin, End, Plain, IsMarker, IsBegin, IsEnd, IsProxy, IsHeader

\* Markers are lines.
LEMMA MarkersOK == LineOK(Begin) /\ LineOK(End)
  BY LinkConstants DEF LineOK, Begin, End, Plain, IsProxy

\* The places that a tidy profile has its policies at.
LEMMA ProxyIndices ==
  ASSUME NEW lines, IsSequence(lines), NEW p, NEW z, ProxyAt(lines, p, z)
  PROVE  InProxy(lines) = p + 1 .. z - 1
  <1>1. p # 0
    BY Domain DEF ProxyAt
  <1> QED
    BY <1>1, ProxyIs DEF InProxy

\* The markers make no difference to which policies clash.
LEMMA ApartBlock ==
  ASSUME NEW managed, IsSequence(managed)
  PROVE  Apart(Block(managed)) <=> Apart(managed)
  <1> DEFINE t == Block(managed)
             n == Len(managed)
  <1>1. /\ IsSequence(t) /\ Len(t) = n + 2 /\ t[1] = Begin /\ t[n + 2] = End
        /\ \A k \in 1 .. n : t[k + 1] = managed[k]
    BY BlockElements
  <1>2. n \in Nat
    BY Domain
  <1> HIDE DEF t, n
  <1>3. ASSUME Apart(t), NEW i \in 1 .. n, NEW j \in 1 .. n, i # j PROVE ~Clash(managed[i], managed[j])
    <2>1. i + 1 \in 1 .. Len(t) /\ j + 1 \in 1 .. Len(t) /\ i + 1 # j + 1
      BY <1>1, <1>2, <1>3
    <2> QED
      BY <1>1, <1>3, <2>1 DEF Apart
  <1>4. ASSUME Apart(managed), NEW i \in 1 .. Len(t), NEW j \in 1 .. Len(t), i # j PROVE ~Clash(t[i], t[j])
    <2>1. \A k \in 1 .. Len(t) : k = 1 \/ k = n + 2 \/ (k - 1 \in 1 .. n /\ (k - 1) + 1 = k)
      BY <1>1, <1>2
    <2>2. \A k \in 1 .. Len(t) : k = 1 \/ k = n + 2 => ~IsProxy(t[k])
      BY <1>1, MarkerKinds DEF IsProxy
    <2>3. CASE i - 1 \in 1 .. n /\ (i - 1) + 1 = i /\ j - 1 \in 1 .. n /\ (j - 1) + 1 = j
      <3>1. i - 1 # j - 1
        BY <1>4, <2>3
      <3>2. t[(i - 1) + 1] = managed[i - 1] /\ t[(j - 1) + 1] = managed[j - 1]
        BY <1>1, <2>3
      <3>3. ~Clash(managed[i - 1], managed[j - 1])
        BY <1>4, <2>3, <3>1 DEF Apart, n
      <3> QED
        BY <2>3, <3>2, <3>3
    <2>4. CASE ~IsProxy(t[i]) \/ ~IsProxy(t[j])
      BY <2>4 DEF Clash
    <2> QED
      BY <2>1, <2>2, <2>3, <2>4
  <1> QED
    BY <1>3, <1>4 DEF Apart, t, n

\* An edit takes a tidy profile apart, and nothing is lost.
LEMMA TakenApart ==
  ASSUME NEW lines, Tidy(lines), SectionStart(lines, "[proxy]") # 0
  PROVE  LET clean == RemoveManagedProxyBlock(lines)
             managed == ManagedProxyBlock(lines)
         IN  /\ Clean(clean) /\ Fits(managed, clean)
             /\ Manual(lines) = Headless(clean)
             /\ ToSet(lines) \subseteq ToSet(clean) \cup ToSet(managed) \cup {Begin, End}
             /\ ToSet(clean) \subseteq ToSet(lines) /\ ToSet(managed) \subseteq ToSet(lines)
             /\ managed = <<>> <=> Unmarked(lines)
  <1>1. IsSequence(lines) /\ Len(lines) \in Nat /\ DOMAIN lines = 1 .. Len(lines)
    BY Domain DEF Tidy
  <1>2. Apart(lines)
    BY <1>1, NoClashIsApart DEF Tidy
  <1>3. \A i \in 1 .. Len(lines) : LineOK(lines[i]) /\ (IsProxy(lines[i]) \/ IsMarker(lines[i]) => i \in InProxy(lines))
    BY <1>1 DEF Tidy
  <1>4. CASE Unmarked(lines)
    <2>1. ManagedProxyBlock(lines) = <<>> /\ RemoveManagedProxyBlock(lines) = lines /\ Manual(lines) = Headless(lines)
      BY <1>1, <1>4, NothingTaken
    <2>2. Clean(lines)
      BY <1>1, <1>2, <1>3, <1>4 DEF Clean
    <2>3. IsSequence(<<>>) /\ Len(<<>>) = 0 /\ 1 .. 0 = {} /\ ToSet(<<>>) = {}
      BY Empty, MemberOf
    <2>4. Fits(<<>>, lines)
      BY <2>3 DEF Fits, Apart
    <2> QED
      BY <1>4, <2>1, <2>2, <2>3, <2>4
  <1>5. CASE ~Unmarked(lines)
    <2> DEFINE p == SectionStart(lines, "[proxy]")
               y == SectionEnd(lines, "[proxy]")
    <2>1. ProxyAt(lines, p, y) /\ InProxy(lines) = p + 1 .. y - 1
      BY <1>1, ProxyFound, ProxyIndices
    <2> HIDE DEF p, y
    <2>2. p \in 1 .. Len(lines) /\ y \in p + 1 .. Len(lines) + 1
      BY <2>1 DEF ProxyAt
    <2>3. PICK b \in 1 .. Len(lines), e \in 1 .. Len(lines) : BlockAt(lines, b, e)
      BY <1>1, <1>5 DEF Tidy, Unmarked
    <2>4. /\ lines[b] = Begin /\ lines[e] = End /\ b + 1 < e
          /\ \A i \in 1 .. Len(lines) : IsMarker(lines[i]) => i = b \/ i = e
          /\ \A i \in b + 1 .. e - 1 : lines[i].link # None => Accepted(lines[i].link)
      BY <1>1, <2>3 DEF BlockAt, IsBegin, IsEnd
    <2>5. b \in p + 1 .. y - 1 /\ e \in p + 1 .. y - 1
      BY <1>3, <2>1, <2>4 DEF IsMarker, IsBegin, IsEnd
    <2> DEFINE clean == SubSeq(lines, 1, b - 1) \o SubSeq(lines, e + 1, Len(lines))
               t == SubSeq(lines, b, e)
               managed == SubSeq(lines, b + 1, e - 1)
               n == Len(managed)
    <2>6. e \in b .. Len(lines)
      BY <1>1, <2>4
    <2>7. Spliced(lines, clean, b, t)
      <3> HIDE DEF clean, t
      <3> QED
        BY <1>1, <2>6, Cut DEF clean, t
    <2>8. IsSequence(t) /\ Len(t) = e - b + 1 /\ \A i \in 1 .. e - b + 1 : t[i] = lines[b + i - 1]
      <3>1. b \in 1 .. Len(lines) + 1 /\ e \in b - 1 .. Len(lines)
        BY <1>1, <2>6
      <3> QED
        BY <1>1, <3>1, Sub
    <2>9. IsSequence(managed) /\ n = e - b - 1 /\ \A k \in 1 .. n : managed[k] = lines[b + k]
      <3>1. b + 1 \in 1 .. Len(lines) + 1 /\ e - 1 \in (b + 1) - 1 .. Len(lines)
        BY <1>1, <2>4, <2>6
      <3>2. /\ IsSequence(managed) /\ n = (e - 1) - (b + 1) + 1
            /\ \A k \in 1 .. (e - 1) - (b + 1) + 1 : managed[k] = lines[b + 1 + k - 1]
        <4> HIDE DEF managed
        <4> QED
          BY <1>1, <3>1, Sub DEF managed
      <3>3. (e - 1) - (b + 1) + 1 = e - b - 1 /\ \A k \in 1 .. e - b - 1 : b + 1 + k - 1 = b + k
        BY <1>1, <2>4
      <3> HIDE DEF managed
      <3> QED
        BY <3>2, <3>3
    <2> HIDE DEF clean, t, managed
    <2>10. n \in Nat \ {0} /\ e = b + n + 1 /\ Len(t) = n + 2
      BY <1>1, <2>4, <2>6, <2>8, <2>9
    <2> HIDE DEF n
    <2>11. t = Block(managed)
      <3>1. /\ IsSequence(Block(managed)) /\ Len(Block(managed)) = n + 2
            /\ Block(managed)[1] = Begin /\ Block(managed)[n + 2] = End
            /\ \A k \in 1 .. n : Block(managed)[k + 1] = managed[k]
        BY <2>9, BlockElements DEF n
      <3>2. ASSUME NEW i \in 1 .. n + 2 PROVE t[i] = Block(managed)[i]
        <4>1. t[i] = lines[b + i - 1]
          BY <2>8, <2>10
        <4>2. CASE i = 1
          BY <1>1, <2>4, <3>1, <4>1, <4>2
        <4>3. CASE i = n + 2
          <5>1. b + i - 1 = e
            BY <1>1, <2>10, <4>3
          <5> QED
            BY <2>4, <3>1, <4>1, <4>3, <5>1
        <4>4. CASE i # 1 /\ i # n + 2
          <5>1. i - 1 \in 1 .. n /\ (i - 1) + 1 = i /\ b + i - 1 = b + (i - 1)
            BY <1>1, <2>10, <4>4
          <5>2. Block(managed)[(i - 1) + 1] = managed[i - 1]
            BY <3>1, <5>1
          <5> QED
            BY <2>9, <4>1, <5>1, <5>2
        <4> QED
          BY <4>2, <4>3, <4>4
      <3> QED
        BY <2>8, <2>10, <3>1, <3>2, Equal
    <2>12. Spliced(lines, clean, b, Block(managed))
      BY <2>7, <2>11
    <2>13. \A i \in 1 .. Len(clean) : /\ Shift(i, b, n + 2) \in 1 .. Len(lines)
                                      /\ lines[Shift(i, b, n + 2)] = clean[i]
                                      /\ ~(b <= Shift(i, b, n + 2) /\ Shift(i, b, n + 2) < b + n + 2)
      <3>1. \A i \in 1 .. Len(clean) : /\ Shift(i, b, Len(t)) \in 1 .. Len(lines)
                                       /\ lines[Shift(i, b, Len(t))] = clean[i]
                                       /\ ~(b <= Shift(i, b, Len(t)) /\ Shift(i, b, Len(t)) < b + Len(t))
        BY <2>7, Shifted
      <3>2. b + Len(t) = b + n + 2
        BY <1>1, <2>10
      <3> QED
        BY <2>10, <3>1, <3>2
    <2>14. \A k \in 1 .. n : b + k \in b + 1 .. e - 1 /\ b + k \in p + 1 .. y - 1 /\ b + k \in 1 .. Len(lines)
      BY <1>1, <2>2, <2>5, <2>10
    <2>15. Unmarked(clean)
      <3>1. \A i \in 1 .. Len(lines) : IsMarker(lines[i]) => b <= i /\ i < b + n + 2
        BY <1>1, <2>4, <2>10
      <3> QED
        BY <2>13, <3>1 DEF Unmarked
    <2>16. Unmarked(managed)
      <3>1. \A k \in 1 .. n : b + k # b /\ b + k # e
        BY <1>1, <2>10
      <3> QED
        BY <2>4, <2>9, <2>14, <3>1 DEF Unmarked, n
    <2>17. /\ ManagedProxyBlock(lines) = managed
           /\ RemoveManagedProxyBlock(lines) = clean
           /\ Manual(lines) = Headless(clean)
      <3>1. p < b /\ b + Len(managed) + 2 <= y
        BY <1>1, <2>2, <2>5, <2>10 DEF n
      <3> QED
        BY <2>1, <2>9, <2>12, <2>15, <2>16, <3>1, BlockTaken
    <2>18. ProxyAt(clean, p, y - (n + 2))
      <3>1. p < b /\ b + Len(t) <= y
        BY <1>1, <2>2, <2>5, <2>10
      <3>2. ProxyAt(clean, p, y - Len(t))
        BY <2>1, <2>7, <3>1, ProxyShrinks
      <3> QED
        BY <2>10, <3>2
    <2>19. IsSequence(clean) /\ InProxy(clean) = p + 1 .. y - (n + 2) - 1 /\ SectionStart(clean, "[proxy]") # 0
      <3>1. IsSequence(clean)
        BY <2>7 DEF Spliced
      <3>2. p # 0
        BY <1>1, <2>2
      <3> QED
        BY <2>18, <3>1, <3>2, ProxyIndices, ProxyIs
    <2>20. Apart(clean) /\ Apart(managed) /\ \A i \in 1 .. Len(clean), k \in 1 .. n : ~Clash(clean[i], managed[k])
      <3>1. Apart(clean) /\ Apart(t) /\ \A i \in 1 .. Len(clean), j \in 1 .. Len(t) : ~Clash(clean[i], t[j])
        BY <1>2, <2>7, ApartSpliced
      <3>2. \A k \in 1 .. n : k + 1 \in 1 .. Len(t) /\ t[k + 1] = managed[k]
        <4>1. \A k \in 1 .. n : k + 1 \in 1 .. Len(t)
          BY <2>10
        <4> QED
          BY <2>9, <2>11, <4>1, BlockElements DEF n
      <3> QED
        BY <2>9, <2>11, <3>1, <3>2, ApartBlock
    <2>21. ASSUME NEW i \in 1 .. Len(clean) PROVE LineOK(clean[i]) /\ (IsProxy(clean[i]) => i \in InProxy(clean))
      <3> DEFINE j == Shift(i, b, n + 2)
      <3>1. j \in 1 .. Len(lines) /\ lines[j] = clean[i] /\ ~(b <= j /\ j < b + n + 2)
        BY <2>13
      <3>2. j \in p + 1 .. y - 1 => i \in p + 1 .. y - (n + 2) - 1
        <4>1. Len(clean) \in Nat
          BY <2>19, Domain
        <4>2. CASE i < b
          BY <1>1, <2>2, <2>5, <2>10, <4>1, <4>2 DEF Shift
        <4>3. CASE ~(i < b)
          BY <1>1, <2>2, <2>5, <2>10, <4>1, <4>3 DEF Shift
        <4> QED
          BY <4>2, <4>3
      <3> HIDE DEF j
      <3> QED
        BY <1>3, <2>1, <2>19, <3>1, <3>2
    <2>22. Clean(clean)
      BY <2>15, <2>19, <2>20, <2>21 DEF Clean
    <2>23. ASSUME NEW k \in 1 .. n PROVE InBlock(managed[k])
      <3>1. managed[k] = lines[b + k] /\ LineOK(managed[k]) /\ (managed[k].link # None => Accepted(managed[k].link))
        BY <1>3, <2>4, <2>9, <2>14
      <3>2. ~IsHeader(managed[k])
        BY <2>1, <2>14, <3>1 DEF ProxyAt
      <3> QED
        BY <2>16, <3>1, <3>2 DEF InBlock, Unmarked, n
    <2>24. Fits(managed, clean)
      BY <2>9, <2>20, <2>23 DEF Fits, n
    <2>25. ToSet(lines) = ToSet(clean) \cup ToSet(t) /\ ToSet(t) = ToSet(managed) \cup {Begin, End}
      <3>1. ToSet(lines) = ToSet(clean) \cup ToSet(t)
        BY <2>7, Members
      <3>2. /\ ToSet(t) = {t[i] : i \in 1 .. n + 2}
            /\ ToSet(managed) = {managed[k] : k \in 1 .. n}
        <4>1. ToSet(t) = {t[i] : i \in 1 .. Len(t)} /\ ToSet(managed) = {managed[k] : k \in 1 .. Len(managed)}
          BY <2>8, <2>9, MemberOf
        <4> QED
          BY <2>10, <4>1 DEF n
      <3>3. t[1] = Begin /\ t[n + 2] = End /\ \A k \in 1 .. n : t[k + 1] = managed[k]
        BY <2>9, <2>11, BlockElements DEF n
      <3>4. /\ 1 \in 1 .. n + 2 /\ n + 2 \in 1 .. n + 2 /\ \A k \in 1 .. n : k + 1 \in 1 .. n + 2
            /\ \A i \in 1 .. n + 2 : i = 1 \/ i = n + 2 \/ (i - 1 \in 1 .. n /\ (i - 1) + 1 = i)
        BY <2>10
      <3>5. ASSUME NEW i \in 1 .. n + 2 PROVE t[i] \in ToSet(managed) \cup {Begin, End}
        <4>1. CASE i - 1 \in 1 .. n /\ (i - 1) + 1 = i
          <5>1. t[(i - 1) + 1] = managed[i - 1]
            BY <3>3, <4>1
          <5> QED
            BY <3>2, <4>1, <5>1
        <4> QED
          BY <3>3, <3>4, <4>1
      <3> QED
        BY <3>1, <3>2, <3>3, <3>4, <3>5
    <2>26. managed # <<>>
      BY <2>9, <2>10, NonEmpty DEF n
    <2> QED
      BY <1>5, <2>17, <2>22, <2>24, <2>25, <2>26
  <1> QED
    BY <1>4, <1>5

\* An edit that puts a fitting block behind the lines of [Proxy] leaves a tidy
\* profile, in which that block is the managed one.
LEMMA Rendered ==
  ASSUME NEW clean, Clean(clean), NEW managed, Fits(managed, clean)
  PROVE  LET out == RenderManagedProxyBlock(clean, managed)
         IN  /\ Tidy(out)
             /\ ManagedProxyBlock(out) = managed
             /\ Manual(out) = Headless(clean)
  <1> DEFINE out == RenderManagedProxyBlock(clean, managed)
             p == SectionStart(clean, "[proxy]")
             z == SectionEnd(clean, "[proxy]")
             n == Len(managed)
  <1>1. IsSequence(clean) /\ IsSequence(managed) /\ Len(clean) \in Nat /\ n \in Nat
    BY Domain DEF Clean, Fits
  <1>2. ProxyAt(clean, p, z) /\ InProxy(clean) = p + 1 .. z - 1
    <2>1. SectionStart(clean, "[proxy]") # 0
      BY DEF Clean
    <2>2. ProxyAt(clean, p, z)
      BY <1>1, <2>1, ProxyFound
    <2> HIDE DEF p, z
    <2> QED
      BY <1>1, <2>2, ProxyIndices
  <1>3. Unmarked(clean) /\ Apart(clean)
    BY DEF Clean
  <1>4. \A i \in 1 .. Len(clean) : LineOK(clean[i]) /\ (IsProxy(clean[i]) => i \in InProxy(clean))
    BY DEF Clean
  <1>5. out = SubSeq(clean, 1, z - 1) \o (IF managed = <<>> THEN <<>> ELSE Block(managed)) \o SubSeq(clean, z, Len(clean))
    BY DEF RenderManagedProxyBlock, Block
  <1> HIDE DEF out, p, z
  <1>6. p \in 1 .. Len(clean) /\ z \in p + 1 .. Len(clean) + 1 /\ z \in 1 .. Len(clean) + 1
    <2>1. p \in 1 .. Len(clean) /\ z \in p + 1 .. Len(clean) + 1
      BY <1>2 DEF ProxyAt
    <2> QED
      BY <1>1, <2>1
  <1>7. CASE managed = <<>>
    <2>1. IsSequence(<<>>) /\ Len(<<>>) = 0
      BY Empty
    <2>2. Spliced(out, clean, z, <<>>)
      BY <1>1, <1>5, <1>6, <1>7, <2>1, Splice
    <2>3. out = clean
      <3>1. IsSequence(out) /\ Len(out) = Len(clean)
        BY <1>1, <2>1, <2>2 DEF Spliced
      <3>2. ASSUME NEW i \in 1 .. Len(out) PROVE out[i] = clean[i]
        <4>1. i < z \/ i \in z .. Len(clean)
          BY <1>1, <1>6, <3>1
        <4>2. \A j \in z .. Len(clean) : out[j + Len(<<>>)] = clean[j]
          BY <2>2 DEF Spliced
        <4>3. i + Len(<<>>) = i
          BY <1>1, <2>1, <3>1
        <4>4. i < z => i \in 1 .. z - 1
          BY <1>1, <1>6, <3>1
        <4> QED
          BY <2>2, <4>1, <4>2, <4>3, <4>4 DEF Spliced
      <3> QED
        BY <1>1, <3>1, <3>2, Equal
    <2>4. clean # <<>>
      BY <1>1, <1>6, NonEmpty
    <2>5. Tidy(clean)
      <3>1. DOMAIN clean = 1 .. Len(clean)
        BY <1>1, Domain
      <3>2. NoClash(clean)
        BY <1>1, <1>3, NoClashIsApart
      <3> QED
        BY <1>1, <1>3, <1>4, <2>4, <3>1, <3>2 DEF Tidy, Unmarked
    <2> QED
      BY <1>1, <1>3, <1>7, <2>3, <2>5, NothingTaken DEF out
  <1>8. CASE managed # <<>>
    <2> DEFINE t == Block(managed)
               e == z + n + 1
    <2>1. IsSequence(t) /\ Len(t) = n + 2
      BY <1>1, BlockElements
    <2>2. Spliced(out, clean, z, t)
      <3> HIDE DEF t
      <3>1. out = SubSeq(clean, 1, z - 1) \o t \o SubSeq(clean, z, Len(clean))
        BY <1>5, <1>8 DEF t
      <3> QED
        BY <1>1, <1>6, <2>1, <3>1, Splice
    <2>3. /\ Apart(managed)
          /\ \A k \in 1 .. n : InBlock(managed[k])
          /\ \A i \in 1 .. Len(clean), k \in 1 .. n : ~Clash(clean[i], managed[k])
      BY DEF Fits
    <2>4. Unmarked(managed)
      BY <2>3 DEF Unmarked, InBlock
    <2>5. n \in Nat \ {0}
      BY <1>1, <1>8, NonEmpty
    <2> HIDE DEF t, n
    <2>6. Len(out) \in Nat /\ Len(out) = Len(clean) + n + 2 /\ IsSequence(out) /\ DOMAIN out = 1 .. Len(out)
      BY <1>1, <2>1, <2>2, Domain DEF Spliced
    <2>7. /\ z \in 1 .. Len(out) /\ e \in 1 .. Len(out)
          /\ \A i \in 1 .. Len(out) : IsBegin(out[i]) <=> i = z
          /\ \A i \in 1 .. Len(out) : IsEnd(out[i]) <=> i = e
          /\ \A k \in 1 .. n : z + k \in 1 .. Len(out) /\ out[z + k] = managed[k]
      BY <1>1, <1>3, <2>2, <2>4, Marked DEF t, n
    <2>8. \A j \in 1 .. n + 2 : LineOK(t[j]) /\ ~IsHeader(t[j])
      <3>1. t[1] = Begin /\ t[n + 2] = End /\ \A k \in 1 .. n : t[k + 1] = managed[k]
        BY <1>1, BlockElements DEF t, n
      <3>2. ASSUME NEW j \in 1 .. n + 2 PROVE LineOK(t[j]) /\ ~IsHeader(t[j])
        <4>1. j = 1 \/ j = n + 2 \/ (j - 1 \in 1 .. n /\ (j - 1) + 1 = j)
          BY <2>5
        <4>2. CASE j = 1 \/ j = n + 2
          BY <3>1, <4>2, MarkerKinds, MarkersOK DEF IsHeader
        <4>3. CASE j - 1 \in 1 .. n /\ (j - 1) + 1 = j
          <5>1. t[(j - 1) + 1] = managed[j - 1] /\ InBlock(managed[j - 1])
            BY <2>3, <3>1, <4>3
          <5> QED
            BY <4>3, <5>1 DEF InBlock
        <4> QED
          BY <4>1, <4>2, <4>3
      <3> QED
        BY <3>2
    <2>9. ProxyAt(out, p, z + (n + 2))
      <3>1. z \in p + 1 .. z
        BY <1>1, <1>6
      <3>2. \A k \in 1 .. Len(t) : ~IsHeader(t[k])
        BY <2>1, <2>8
      <3>3. ProxyAt(out, p, z + Len(t))
        BY <1>2, <2>2, <3>1, <3>2, ProxyGrows
      <3> QED
        BY <2>1, <3>3
    <2>10. ManagedProxyBlock(out) = managed /\ Manual(out) = Headless(clean)
      <3> DEFINE y == z + (n + 2)
      <3>1. p < z /\ z + Len(managed) + 2 <= y
        BY <1>1, <1>6, <2>5 DEF n
      <3>2. Spliced(out, clean, z, Block(managed)) /\ ProxyAt(out, p, y)
        BY <2>2, <2>9 DEF t
      <3>3. IsSequence(managed) /\ Unmarked(clean) /\ Unmarked(managed)
        BY <1>1, <1>3, <2>4
      <3> HIDE DEF y
      <3> QED
        BY ONLY <3>1, <3>2, <3>3, BlockTaken
    <2>11. InProxy(out) = p + 1 .. z + (n + 2) - 1
      <3>1. p \in Int /\ z \in Int /\ n \in Int
        BY <1>1, <1>6, <2>5
      <3> QED
        BY <2>6, <2>9, <3>1, ProxyIndices
    <2>12. ASSUME NEW i \in 1 .. Len(out)
           PROVE  LineOK(out[i]) /\ (IsProxy(out[i]) \/ IsMarker(out[i]) => i \in InProxy(out))
      <3>1. CASE i < z /\ i \in 1 .. Len(clean) /\ out[i] = clean[i]
        <4>1. i \in p + 1 .. z - 1 => i \in p + 1 .. z + (n + 2) - 1
          BY <1>1, <1>6, <2>5
        <4> QED
          BY <1>2, <1>3, <1>4, <2>11, <3>1, <4>1 DEF Unmarked
      <3>2. CASE i >= z /\ i < z + Len(t) /\ i - z + 1 \in 1 .. Len(t) /\ out[i] = t[i - z + 1]
        <4>1. i \in p + 1 .. z + (n + 2) - 1
          BY <1>1, <1>6, <2>1, <2>5, <3>2
        <4> QED
          BY <2>1, <2>8, <2>11, <3>2, <4>1
      <3>3. CASE i >= z + Len(t) /\ i - Len(t) \in z .. Len(clean) /\ out[i] = clean[i - Len(t)]
        <4>1. i - Len(t) \in 1 .. Len(clean) /\ i - Len(t) \notin p + 1 .. z - 1
          BY <1>1, <1>6, <3>3
        <4> QED
          BY <1>2, <1>3, <1>4, <3>3, <4>1 DEF Unmarked
      <3> QED
        BY <2>2, <3>1, <3>2, <3>3, Elements
    <2>13. NoClash(out)
      <3>1. Apart(t)
        BY <1>1, <2>3, ApartBlock DEF t
      <3>2. ASSUME NEW i \in 1 .. Len(clean), NEW j \in 1 .. Len(t) PROVE ~Clash(clean[i], t[j])
        <4>1. t[1] = Begin /\ t[n + 2] = End /\ \A k \in 1 .. n : t[k + 1] = managed[k]
          BY <1>1, BlockElements DEF t, n
        <4>2. j = 1 \/ j = n + 2 \/ (j - 1 \in 1 .. n /\ (j - 1) + 1 = j)
          BY <2>1, <2>5
        <4>3. CASE j = 1 \/ j = n + 2
          BY <4>1, <4>3, MarkerKinds DEF Clash, IsProxy
        <4>4. CASE j - 1 \in 1 .. n /\ (j - 1) + 1 = j
          <5>1. t[(j - 1) + 1] = managed[j - 1] /\ ~Clash(clean[i], managed[j - 1])
            BY <2>3, <4>1, <4>4
          <5> QED
            BY <4>4, <5>1
        <4> QED
          BY <4>2, <4>3, <4>4
      <3>3. Apart(out)
        BY <1>3, <2>2, <3>1, <3>2, ApartSpliced
      <3> QED
        BY <2>6, <3>3, NoClashIsApart
    <2>14. BlockAt(out, z, e)
      <3>1. z + 1 < e
        BY <1>1, <1>6, <2>5
      <3>2. ASSUME NEW i \in z + 1 .. e - 1, out[i].link # None PROVE Accepted(out[i].link)
        <4>1. i - z \in 1 .. n /\ z + (i - z) = i
          BY <1>1, <1>6, <2>5
        <4>2. out[z + (i - z)] = managed[i - z] /\ InBlock(managed[i - z])
          BY <2>3, <2>7, <4>1
        <4> QED
          BY <3>2, <4>1, <4>2 DEF InBlock
      <3> HIDE DEF e
      <3>3. IsBegin(out[z]) /\ IsEnd(out[e]) /\ \A i \in 1 .. Len(out) : IsMarker(out[i]) => i \in {z, e}
        BY <2>7 DEF IsMarker
      <3> QED
        BY <2>6, <3>1, <3>2, <3>3 DEF BlockAt
    <2>15. out # <<>>
      BY <2>5, <2>6, NonEmpty, <1>1
    <2>16. Tidy(out)
      <3> HIDE DEF e
      <3> QED
        BY <2>6, <2>7, <2>12, <2>13, <2>14, <2>15 DEF Tidy
    <2> QED
      BY <2>10, <2>16 DEF out
  <1> QED
    BY <1>7, <1>8

(***************************************************************************)
(* The policies of a profile                                               *)
(***************************************************************************)

\* Their names and ports are those of the section, when they are all in it.
LEMMA SectionPolicies ==
  ASSUME NEW lines, IsSequence(lines), SectionStart(lines, "[proxy]") # 0,
         \A i \in 1 .. Len(lines) : IsProxy(lines[i]) => i \in InProxy(lines)
  PROVE  /\ ProxyNames(Section(lines)) = ProxyNames(lines)
         /\ LocalPorts(Section(lines)) = LocalPorts(lines)
         /\ IsSequence(Section(lines))
         /\ Apart(lines) => Apart(Section(lines))
  <1> DEFINE p == SectionStart(lines, "[proxy]")
             z == SectionEnd(lines, "[proxy]")
             section == Section(lines)
  <1>1. Len(lines) \in Nat
    BY Domain
  <1>2. ProxyAt(lines, p, z) /\ InProxy(lines) = p + 1 .. z - 1
    <2>1. ProxyAt(lines, p, z)
      BY ProxyFound
    <2> HIDE DEF p, z
    <2> QED
      BY <2>1, ProxyIndices
  <1>3. section = SubSeq(lines, p + 1, z - 1)
    BY DEF Section
  <1> HIDE DEF p, z, section
  <1>4. p \in 1 .. Len(lines) /\ z \in p + 1 .. Len(lines) + 1
    BY <1>2 DEF ProxyAt
  <1>5. IsSequence(section) /\ Len(section) = z - 1 - p /\ \A i \in 1 .. z - 1 - p : section[i] = lines[p + i]
    <2>1. p + 1 \in 1 .. Len(lines) + 1 /\ z - 1 \in (p + 1) - 1 .. Len(lines)
      BY <1>1, <1>4
    <2>2. /\ IsSequence(section) /\ Len(section) = (z - 1) - (p + 1) + 1
          /\ \A i \in 1 .. (z - 1) - (p + 1) + 1 : section[i] = lines[p + 1 + i - 1]
      BY <1>3, <2>1, Sub
    <2>3. (z - 1) - (p + 1) + 1 = z - 1 - p /\ \A i \in 1 .. z - 1 - p : p + 1 + i - 1 = p + i
      BY <1>1, <1>4
    <2> QED
      BY <2>2, <2>3
  <1>6. ToSet(lines) = {lines[i] : i \in 1 .. Len(lines)} /\ ToSet(section) = {section[i] : i \in 1 .. Len(section)}
    BY <1>5, MemberOf
  <1>7. ASSUME NEW l \in ToSet(section) PROVE l \in ToSet(lines)
    <2>1. PICK i \in 1 .. Len(section) : l = section[i]
      BY <1>6
    <2>2. p + i \in 1 .. Len(lines) /\ l = lines[p + i]
      BY <1>1, <1>4, <1>5, <2>1
    <2> QED
      BY <1>6, <2>2
  <1>8. ASSUME NEW l \in ToSet(lines), IsProxy(l) PROVE l \in ToSet(section)
    <2>1. PICK i \in 1 .. Len(lines) : l = lines[i]
      BY <1>6
    <2>2. i \in p + 1 .. z - 1
      BY <1>2, <1>8, <2>1
    <2>3. i - p \in 1 .. Len(section) /\ p + (i - p) = i
      BY <1>1, <1>4, <1>5, <2>2
    <2>4. section[i - p] = l
      BY <1>5, <2>1, <2>3
    <2> QED
      BY <1>6, <2>3, <2>4
  <1>9. {m \in ToSet(section) : IsProxy(m)} = {m \in ToSet(lines) : IsProxy(m)}
    BY <1>7, <1>8
  <1>10. ProxyNames(section) = ProxyNames(lines) /\ LocalPorts(section) = LocalPorts(lines)
    BY <1>9 DEF ProxyNames, LocalPorts
  <1>11. ASSUME Apart(lines) PROVE Apart(section)
    <2> SUFFICES ASSUME NEW i \in 1 .. Len(section), NEW j \in 1 .. Len(section), i # j
                 PROVE  ~Clash(section[i], section[j])
      BY DEF Apart
    <2>1. /\ p + i \in 1 .. Len(lines) /\ section[i] = lines[p + i]
          /\ p + j \in 1 .. Len(lines) /\ section[j] = lines[p + j]
          /\ p + i # p + j
      BY <1>1, <1>4, <1>5
    <2> QED
      BY <1>11, <2>1 DEF Apart
  <1> QED
    BY <1>5, <1>10, <1>11 DEF section

\* A profile has finitely many names.
LEMMA FinitelyManyNames ==
  ASSUME NEW lines, IsSequence(lines)
  PROVE  IsFiniteSet(ProxyNames(lines))
  <1> DEFINE I == {i \in 1 .. Len(lines) : IsProxy(lines[i])}
             f == [i \in I |-> lines[i].name]
  <1>1. IsFiniteSet(1 .. Len(lines))
    BY Domain, FS_Interval
  <1>2. IsFiniteSet(I)
    BY <1>1, FS_Subset
  <1>3. ToSet(lines) = {lines[i] : i \in 1 .. Len(lines)}
    BY MemberOf
  <1>4. ProxyNames(lines) = {lines[i].name : i \in I}
    BY <1>3 DEF ProxyNames
  <1>5. f \in Surjection(I, ProxyNames(lines))
    <2> HIDE DEF I
    <2> QED
      BY <1>4 DEF Surjection, Range
  <1> HIDE DEF f, I
  <1> QED
    BY <1>2, <1>5, FS_Surjection

\* A profile without [Proxy] has no policy and no marker; one is inserted, and no
\* other line is touched.
LEMMA SectionInserted ==
  ASSUME NEW lines, Tidy(lines), SectionStart(lines, "[proxy]") = 0
  PROVE  LET with == InsertProxySection(lines)
         IN  /\ Clean(with) /\ Headless(with) = Manual(lines)
             /\ ManagedProxyBlock(with) = <<>> /\ RemoveManagedProxyBlock(with) = with
             /\ ProxyNames(with) = {} /\ LocalPorts(with) = {}
  <1> DEFINE with == InsertProxySection(lines)
             header == Plain("[proxy]")
             rule == SectionStart(lines, "[rule]")
             at == IF SectionStart(lines, "[general]") # 0 THEN SectionEnd(lines, "[general]")
                   ELSE IF rule # 0 THEN rule ELSE Len(lines) + 1
  <1>1. IsSequence(lines) /\ Len(lines) \in Nat /\ DOMAIN lines = 1 .. Len(lines)
    BY Domain DEF Tidy
  <1>2. at \in 1 .. Len(lines) + 1
    <2>1. rule \in 0 .. Len(lines)
      BY <1>1, StartOf
    <2>2. ASSUME SectionStart(lines, "[general]") # 0
          PROVE  SectionEnd(lines, "[general]") \in 1 .. Len(lines) + 1
      <3> DEFINE p == SectionStart(lines, "[general]")
                 z == SectionEnd(lines, "[general]")
      <3>1. p \in 1 .. Len(lines) /\ z \in p + 1 .. Len(lines) + 1
        BY <1>1, <2>2, StartOf, EndOf
      <3> HIDE DEF p, z
      <3>2. z \in 1 .. Len(lines) + 1
        BY <1>1, <3>1
      <3> QED
        BY <3>2 DEF z
    <2> HIDE DEF rule
    <2> QED
      BY <1>1, <2>1, <2>2
  <1>3. with = SubSeq(lines, 1, at - 1) \o <<header>> \o SubSeq(lines, at, Len(lines))
    BY DEF InsertProxySection, InsertAt
  <1> HIDE DEF with, at, header
  <1>4. IsSequence(<<header>>) /\ Len(<<header>>) = 1 /\ <<header>>[1] = header
    BY Single
  <1>5. Spliced(with, lines, at, <<header>>)
    BY <1>1, <1>2, <1>3, <1>4, Splice
  <1> DEFINE t == <<header>>
  <1> HIDE DEF t
  <1>6. Spliced(with, lines, at, t) /\ Len(t) = 1 /\ t[1] = header
    BY <1>4, <1>5 DEF t
  <1>7. \A i \in 1 .. Len(lines) : ~IsProxy(lines[i]) /\ ~IsMarker(lines[i]) /\ LineOK(lines[i])
    <2>1. InProxy(lines) = {}
      BY DEF InProxy
    <2> QED
      BY <1>1, <2>1 DEF Tidy
  <1>8. header.kind = "[proxy]" /\ ~IsProxy(header) /\ ~IsMarker(header) /\ LineOK(header)
    <2>1. header.kind = "[proxy]" /\ header.name = <<>> /\ header.port = 0 /\ header.link = None
      BY DEF header, Plain
    <2>2. ~IsProxy(header) /\ ~IsMarker(header)
      BY <2>1, MarkerKinds DEF IsProxy, IsMarker, IsBegin, IsEnd
    <2>3. header = [kind |-> header.kind, name |-> header.name, port |-> header.port, link |-> header.link]
      BY <2>1 DEF header, Plain
    <2> QED
      BY <2>1, <2>2, <2>3, LinkConstants DEF LineOK
  <1>9. IsSequence(with) /\ Len(with) \in Nat /\ Len(with) = Len(lines) + 1
    BY <1>6, Domain DEF Spliced
  <1>10. at \in 1 .. Len(with) /\ with[at] = header
    <2>1. 1 \in 1 .. Len(t) /\ at + 1 - 1 = at
      BY <1>1, <1>2, <1>6
    <2>2. at + 1 - 1 \in 1 .. Len(with) /\ with[at + 1 - 1] = t[1]
      BY <1>6, <2>1, Between
    <2> QED
      BY <1>6, <2>1, <2>2
  <1>11. \A i \in 1 .. Len(with) : ~IsProxy(with[i]) /\ ~IsMarker(with[i]) /\ LineOK(with[i])
    <2> SUFFICES ASSUME NEW i \in 1 .. Len(with) PROVE ~IsProxy(with[i]) /\ ~IsMarker(with[i]) /\ LineOK(with[i])
      OBVIOUS
    <2>1. CASE i \in 1 .. Len(lines) /\ with[i] = lines[i]
      BY <1>7, <2>1
    <2>2. CASE i - at + 1 \in 1 .. Len(t) /\ with[i] = t[i - at + 1]
      <3>1. i - at + 1 = 1
        BY <1>6, <2>2
      <3> QED
        BY <1>6, <1>8, <2>2, <3>1
    <2>3. CASE i - Len(t) \in at .. Len(lines) /\ with[i] = lines[i - Len(t)]
      <3>1. i - Len(t) \in 1 .. Len(lines)
        BY <1>1, <1>2, <2>3
      <3> QED
        BY <1>7, <2>3, <3>1
    <2>4. Spliced(with, lines, at, t)
      BY <1>6
    <2> QED
      BY ONLY <2>1, <2>2, <2>3, <2>4, Elements
  <1>12. SectionStart(with, "[proxy]") # 0
    BY <1>8, <1>9, <1>10, StartOf
  <1>13. Unmarked(with) /\ Apart(with)
    BY <1>11 DEF Unmarked, Apart, Clash
  <1>14. Clean(with)
    BY <1>9, <1>11, <1>12, <1>13 DEF Clean
  <1>15. ManagedProxyBlock(with) = <<>> /\ RemoveManagedProxyBlock(with) = with
    BY <1>9, <1>12, <1>13, NothingTaken
  <1>16. ProxyNames(with) = {} /\ LocalPorts(with) = {}
    <2>1. ToSet(with) = {with[i] : i \in 1 .. Len(with)}
      BY <1>9, MemberOf
    <2>2. {m \in ToSet(with) : IsProxy(m)} = {}
      BY <1>11, <2>1
    <2> QED
      BY <2>2 DEF ProxyNames, LocalPorts
  <1>17. Headless(with) = Manual(lines)
    <2> DEFINE R == {i \in 1 .. Len(with) : with[i] # header}
               S == {i \in 1 .. Len(lines) : lines[i] # header}
    <2>1. Manual(lines) = Keep(lines, S)
      <3>1. Unmarked(lines)
        BY <1>7 DEF Unmarked
      <3> QED
        BY <1>1, <3>1, NothingTaken DEF Headless, header
    <2>2. \A i \in R : ~(at <= i /\ i < at + Len(t))
      <3> SUFFICES ASSUME NEW i \in 1 .. Len(with), at <= i /\ i < at + Len(t) PROVE with[i] = header
        OBVIOUS
      <3>1. i = at
        BY <1>1, <1>2, <1>6, <1>9
      <3> QED
        BY <1>10, <3>1
    <2>3. \A i \in 1 .. Len(lines) : i \in S <=> Shift(i, at, Len(t)) \in R
      <3>1. \A i \in 1 .. Len(lines) : Shift(i, at, Len(t)) \in 1 .. Len(with) /\ with[Shift(i, at, Len(t))] = lines[i]
        <4>1. Spliced(with, lines, at, t)
          BY <1>6
        <4> QED
          BY ONLY <4>1, Shifted
      <3> QED
        BY <3>1
    <2>4. Keep(with, R) = Keep(lines, S)
      <3>1. R \in SUBSET (1 .. Len(with)) /\ S \in SUBSET (1 .. Len(lines))
        OBVIOUS
      <3>2. Spliced(with, lines, at, t)
        BY <1>6
      <3> HIDE DEF R, S
      <3> QED
        BY ONLY <2>2, <2>3, <3>1, <3>2, KeepSpliced
    <2> QED
      BY <2>1, <2>4 DEF Headless, header
  <1> QED
    BY <1>14, <1>15, <1>16, <1>17 DEF with

\* A line the user writes at the top of [Proxy] leaves the profile tidy.
LEMMA LineWritten ==
  ASSUME NEW lines, Tidy(lines), SectionStart(lines, "[proxy]") # 0,
         NEW l, LineOK(l), IsProxy(l),
         l.name \notin ProxyNames(Section(lines)), l.port \notin LocalPorts(Section(lines))
  PROVE  Tidy(InsertAt(lines, SectionStart(lines, "[proxy]") + 1, l))
  <1> DEFINE p == SectionStart(lines, "[proxy]")
             z == SectionEnd(lines, "[proxy]")
             at == p + 1
             out == InsertAt(lines, at, l)
             t == <<l>>
  <1>1. IsSequence(lines) /\ Len(lines) \in Nat /\ DOMAIN lines = 1 .. Len(lines)
    BY Domain DEF Tidy
  <1>2. \A i \in 1 .. Len(lines) : LineOK(lines[i]) /\ (IsProxy(lines[i]) \/ IsMarker(lines[i]) => i \in InProxy(lines))
    BY <1>1 DEF Tidy
  <1>3. ProxyAt(lines, p, z) /\ InProxy(lines) = p + 1 .. z - 1
    <2>1. ProxyAt(lines, p, z)
      BY <1>1, ProxyFound
    <2> HIDE DEF p, z
    <2> QED
      BY <1>1, <2>1, ProxyIndices
  <1>4. out = SubSeq(lines, 1, at - 1) \o <<l>> \o SubSeq(lines, at, Len(lines))
    BY DEF InsertAt
  <1>5. l.name \notin ProxyNames(lines) /\ l.port \notin LocalPorts(lines)
    BY <1>1, <1>2, SectionPolicies
  <1> HIDE DEF p, z, out
  <1>6. p \in 1 .. Len(lines) /\ z \in p + 1 .. Len(lines) + 1 /\ at \in 1 .. Len(lines) + 1
    <2>1. p \in 1 .. Len(lines) /\ z \in p + 1 .. Len(lines) + 1
      BY <1>3 DEF ProxyAt
    <2> QED
      BY <1>1, <2>1
  <1>7. IsSequence(t) /\ Len(t) = 1 /\ t[1] = l
    BY Single
  <1> HIDE DEF t
  <1>8. Spliced(out, lines, at, t)
    <2>1. out = SubSeq(lines, 1, at - 1) \o t \o SubSeq(lines, at, Len(lines))
      BY <1>4 DEF t
    <2> HIDE DEF at
    <2> QED
      BY <1>1, <1>6, <1>7, <2>1, Splice
  <1>9. IsSequence(out) /\ Len(out) \in Nat /\ Len(out) = Len(lines) + 1 /\ DOMAIN out = 1 .. Len(out)
    BY <1>7, <1>8, Domain DEF Spliced
  <1>10. ~IsHeader(l) /\ ~IsMarker(l)
    BY MarkerKinds DEF IsHeader, IsProxy
  <1>11. ProxyAt(out, p, z + 1)
    <2>1. \A k \in 1 .. Len(t) : ~IsHeader(t[k])
      BY <1>7, <1>10
    <2>2. at \in p + 1 .. z
      BY <1>1, <1>6
    <2>3. ProxyAt(out, p, z + Len(t))
      <3> HIDE DEF at
      <3> QED
        BY <1>3, <1>8, <2>1, <2>2, ProxyGrows
    <2> QED
      BY <1>7, <2>3
  <1>12. InProxy(out) = p + 1 .. z
    <2> DEFINE y == z + 1
    <2>1. ProxyAt(out, p, y)
      BY <1>11
    <2>2. p \in Nat /\ y \in Nat /\ y - 1 = z
      BY <1>1, <1>6
    <2> HIDE DEF y
    <2>3. InProxy(out) = p + 1 .. y - 1
      BY <1>9, <2>1, ProxyIndices
    <2> QED
      BY <2>2, <2>3
  <1>13. \A i \in 1 .. Len(out) : \/ i < at /\ i \in 1 .. Len(lines) /\ out[i] = lines[i]
                                  \/ i = at /\ out[i] = l
                                  \/ i > at /\ i - 1 \in at .. Len(lines) /\ out[i] = lines[i - 1]
    <2> SUFFICES ASSUME NEW i \in 1 .. Len(out)
                 PROVE  \/ i < at /\ i \in 1 .. Len(lines) /\ out[i] = lines[i]
                        \/ i = at /\ out[i] = l
                        \/ i > at /\ i - 1 \in at .. Len(lines) /\ out[i] = lines[i - 1]
      OBVIOUS
    <2>1. CASE i >= at /\ i < at + Len(t) /\ i - at + 1 \in 1 .. Len(t) /\ out[i] = t[i - at + 1]
      <3>1. i = at /\ i - at + 1 = 1
        BY <1>1, <1>6, <1>7, <2>1
      <3> QED
        BY <1>7, <2>1, <3>1
    <2>2. CASE i >= at + Len(t) /\ i - Len(t) \in at .. Len(lines) /\ out[i] = lines[i - Len(t)]
      <3>1. i > at /\ i - Len(t) = i - 1
        BY <1>1, <1>6, <1>7, <2>2
      <3> QED
        BY <2>2, <3>1
    <2> HIDE DEF at
    <2> QED
      BY <1>8, <2>1, <2>2, Elements
  <1>14. ASSUME NEW i \in 1 .. Len(out)
         PROVE  LineOK(out[i]) /\ (IsProxy(out[i]) \/ IsMarker(out[i]) => i \in InProxy(out))
    <2>1. CASE i < at /\ i \in 1 .. Len(lines) /\ out[i] = lines[i]
      <3>1. i \notin p + 1 .. z - 1
        BY <1>1, <1>6, <2>1
      <3> QED
        BY <1>2, <1>3, <2>1, <3>1
    <2>2. CASE i = at /\ out[i] = l
      <3>1. i \in p + 1 .. z
        BY <1>1, <1>6, <2>2
      <3> QED
        BY <1>12, <2>2, <3>1
    <2>3. CASE i > at /\ i - 1 \in at .. Len(lines) /\ out[i] = lines[i - 1]
      <3>1. i - 1 \in 1 .. Len(lines) /\ (i - 1 \in p + 1 .. z - 1 => i \in p + 1 .. z)
        BY <1>1, <1>6, <2>3
      <3> QED
        BY <1>2, <1>3, <1>12, <2>3, <3>1
    <2> QED
      BY <1>13, <2>1, <2>2, <2>3
  <1>15. NoClash(out)
    <2>1. Apart(lines)
      BY <1>1, NoClashIsApart DEF Tidy
    <2>2. Apart(t)
      BY <1>7 DEF Apart
    <2>3. ASSUME NEW i \in 1 .. Len(lines), NEW j \in 1 .. Len(t) PROVE ~Clash(lines[i], t[j])
      <3>1. t[j] = l
        BY <1>7
      <3>2. lines[i] \in ToSet(lines)
        BY <1>1, MemberOf
      <3>3. IsProxy(lines[i]) => /\ lines[i].name # l.name
                                 /\ lines[i].port = 0 \/ lines[i].port # l.port
        BY <1>5, <3>2 DEF ProxyNames, LocalPorts
      <3> QED
        BY <3>1, <3>3 DEF Clash
    <2>4. Apart(out)
      <3> HIDE DEF at
      <3> QED
        BY <1>8, <2>1, <2>2, <2>3, ApartSpliced
    <2> QED
      BY <1>9, <2>4, NoClashIsApart
  <1>16. ASSUME NEW i \in 1 .. Len(out), IsMarker(out[i])
         PROVE  i > at /\ i - 1 \in 1 .. Len(lines) /\ out[i] = lines[i - 1]
    <2>1. CASE i < at /\ i \in 1 .. Len(lines) /\ out[i] = lines[i]
      <3>1. i \notin p + 1 .. z - 1
        BY <1>1, <1>6, <2>1
      <3> QED
        BY <1>2, <1>3, <1>16, <2>1, <3>1
    <2>2. i - 1 \in at .. Len(lines) => i - 1 \in 1 .. Len(lines)
      BY <1>1, <1>6
    <2> QED
      BY <1>10, <1>13, <1>16, <2>1, <2>2
  <1>17. ASSUME NEW i \in 1 .. Len(out), IsMarker(out[i])
         PROVE  \E b, e \in 1 .. Len(out) : BlockAt(out, b, e)
    <2>1. PICK b \in 1 .. Len(lines), e \in 1 .. Len(lines) : BlockAt(lines, b, e)
      BY <1>1, <1>16, <1>17 DEF Tidy
    <2>2. /\ lines[b] = Begin /\ lines[e] = End /\ b + 1 < e
          /\ \A k \in 1 .. Len(lines) : IsMarker(lines[k]) => k = b \/ k = e
          /\ \A k \in b + 1 .. e - 1 : lines[k].link # None => Accepted(lines[k].link)
      BY <1>1, <2>1 DEF BlockAt, IsBegin, IsEnd
    <2>3. b \in p + 1 .. z - 1 /\ e \in p + 1 .. z - 1
      BY <1>2, <1>3, <2>2 DEF IsMarker, IsBegin, IsEnd
    <2>4. \A k \in at .. Len(lines) : k + 1 \in 1 .. Len(out) /\ out[k + 1] = lines[k]
      <3>1. \A k \in at .. Len(lines) : k + 1 \in 1 .. Len(out) /\ k + Len(t) = k + 1
        BY <1>1, <1>6, <1>7, <1>9
      <3>2. \A k \in at .. Len(lines) : out[k + Len(t)] = lines[k]
        BY <1>8 DEF Spliced
      <3> QED
        BY <3>1, <3>2
    <2>5. b \in at .. Len(lines) /\ e \in at .. Len(lines)
      BY <1>1, <1>6, <2>3
    <2>6. IsBegin(out[b + 1]) /\ IsEnd(out[e + 1]) /\ (b + 1) + 1 < e + 1
      BY <1>1, <2>2, <2>4, <2>5 DEF IsBegin, IsEnd
    <2>7. ASSUME NEW k \in 1 .. Len(out), IsMarker(out[k]) PROVE k \in {b + 1, e + 1}
      <3>1. k - 1 = b \/ k - 1 = e
        BY <1>16, <2>2, <2>7
      <3> QED
        BY <1>1, <1>9, <3>1
    <2>8. ASSUME NEW k \in (b + 1) + 1 .. (e + 1) - 1, out[k].link # None PROVE Accepted(out[k].link)
      <3>1. k - 1 \in b + 1 .. e - 1 /\ k - 1 \in at .. Len(lines) /\ (k - 1) + 1 = k
        BY <1>1, <1>6, <2>5
      <3>2. out[k] = lines[k - 1]
        BY <2>4, <3>1
      <3> QED
        BY <2>2, <2>8, <3>1, <3>2
    <2>9. BlockAt(out, b + 1, e + 1)
      BY <1>9, <2>6, <2>7, <2>8 DEF BlockAt
    <2> QED
      BY <2>4, <2>5, <2>9
  <1>18. out # <<>>
    BY <1>1, <1>9, NonEmpty
  <1>19. Tidy(out)
    BY <1>9, <1>14, <1>15, <1>17, <1>18 DEF Tidy
  <1> QED
    BY <1>19 DEF out, p

(***************************************************************************)
(* The lines that add and install make                                     *)
(***************************************************************************)

\* UniqueNameIsFree for a name of whatever parts.
LEMMA FreeName ==
  ASSUME NEW n, IsName(n), NEW taken, IsFiniteSet(taken)
  PROVE  UniqueName(taken, n) \notin taken /\ IsName(UniqueName(taken, n))
  <1>1. PICK X : n \in Seq(X)
    BY SequenceOfSomething DEF IsName
  <1>2. UniqueName(taken, n) \notin taken
    BY <1>1, UniqueNameIsFree
  <1>3. ASSUME NEW k PROVE IsName(Append(n, k))
    <2>1. IsSequence(Append(n, k)) /\ Len(Append(n, k)) = Len(n) + 1 /\ Len(n) \in Nat
      BY Appended, Domain DEF IsName
    <2>2. Len(n) + 1 # 0
      BY <2>1
    <2> QED
      BY <2>1, <2>2, NonEmpty DEF IsName
  <1>4. IsName(UniqueName(taken, n))
    BY <1>3 DEF UniqueName
  <1> QED
    BY <1>2, <1>4

\* After the links up to i: the names and ports that were given are taken, and none
\* of them was taken before; a link for which no port was left has port 0.
Dealt(a, i, nodes, names, used, reusable) ==
  /\ IsSequence(a.lines) /\ Len(a.lines) = i
  /\ IsFiniteSet(a.names) /\ names \subseteq a.names /\ used \subseteq a.used
  /\ a.next \in 1 .. MaxPort + 1
  /\ \A k \in 1 .. i :
       LET l == a.lines[k]
       IN  /\ l = ProxyLine(l.name, l.port, nodes[k].link)
           /\ IsName(l.name) /\ l.name \in a.names /\ l.name \notin names
           /\ l.port \in 0 .. MaxPort /\ l.port \in a.used
           /\ l.port # 0 => l.port \notin used /\ (l.port \in reusable \/ l.port \notin busy)
  /\ Apart(a.lines)

\* The next link gets a free name, and a free port or none.
LEMMA NextDealt ==
  ASSUME NEW a, NEW i \in Nat, NEW nodes, NEW names, NEW used, NEW reusable,
         Dealt(a, i, nodes, names, used, reusable), IsName(nodes[i + 1].name)
  PROVE  Dealt(Assign(a, nodes[i + 1], reusable), i + 1, nodes, names, used, reusable)
  <1> DEFINE node == nodes[i + 1]
             name == UniqueName(a.names, node.name)
             port == FindAvailablePort(a.next, a.used, reusable)
             line == ProxyLine(name, port, node.link)
             b == Assign(a, node, reusable)
  <1>1. /\ b.names = a.names \cup {name} /\ b.used = a.used \cup {port}
        /\ b.next = IF port = 0 THEN MaxPort + 1 ELSE port + 1
        /\ b.lines = Append(a.lines, line)
    BY DEF Assign
  <1>2. name \notin a.names /\ IsName(name)
    BY FreeName DEF Dealt
  <1>3. /\ port \in 0 .. MaxPort
        /\ port # 0 => port \notin a.used /\ (port \in reusable \/ port \notin busy)
    <2>1. a.next \in Nat \ {0}
      BY LinkConstants DEF Dealt
    <2> DEFINE Free(q) == q \notin a.used /\ (q \in reusable \/ q \notin busy)
    <2>2. \/ port = 0
          \/ port \in a.next .. MaxPort /\ Free(port)
      <3> HIDE DEF port, Free
      <3> QED
        BY <2>1, FirstFreePort DEF port, Free
    <2> HIDE DEF port
    <2> QED
      BY <2>1, <2>2, LinkConstants
  <1>4. line = ProxyLine(line.name, line.port, node.link) /\ line.name = name /\ line.port = port /\ IsProxy(line)
    BY DEF ProxyLine, IsProxy
  <1> HIDE DEF node, name, port, line, b
  <1>5. /\ IsSequence(b.lines) /\ Len(b.lines) = i + 1
        /\ \A k \in 1 .. i : b.lines[k] = a.lines[k]
        /\ b.lines[i + 1] = line
    <2>1. IsSequence(a.lines) /\ Len(a.lines) = i
      BY DEF Dealt
    <2>2. /\ IsSequence(Append(a.lines, line)) /\ Len(Append(a.lines, line)) = i + 1
          /\ \A k \in 1 .. i : Append(a.lines, line)[k] = a.lines[k]
          /\ Append(a.lines, line)[i + 1] = line
      BY <2>1, Appended
    <2> QED
      BY <1>1, <2>2
  <1>6. IsFiniteSet(b.names) /\ names \subseteq b.names /\ used \subseteq b.used
    BY <1>1, FS_AddElement DEF Dealt
  <1>7. b.next \in 1 .. MaxPort + 1
    BY <1>1, <1>3, LinkConstants
  <1>8. ASSUME NEW k \in 1 .. i + 1
        PROVE  LET l == b.lines[k]
               IN  /\ l = ProxyLine(l.name, l.port, nodes[k].link)
                   /\ IsName(l.name) /\ l.name \in b.names /\ l.name \notin names
                   /\ l.port \in 0 .. MaxPort /\ l.port \in b.used
                   /\ l.port # 0 => l.port \notin used /\ (l.port \in reusable \/ l.port \notin busy)
    <2>1. CASE k \in 1 .. i
      BY <1>1, <1>5, <2>1 DEF Dealt
    <2>2. CASE k = i + 1
      <3>1. b.lines[k] = line
        BY <1>5, <2>2
      <3>2. name \notin names /\ (port \in used => port \in a.used)
        BY <1>2 DEF Dealt
      <3> QED
        BY <1>1, <1>2, <1>3, <1>4, <2>2, <3>1, <3>2 DEF node
    <2> QED
      BY <2>1, <2>2
  <1>9. Apart(b.lines)
    <2>1. ASSUME NEW k \in 1 .. i PROVE ~Clash(b.lines[k], line)
      <3>1. b.lines[k].name \in a.names /\ b.lines[k].port \in a.used
        BY <1>5 DEF Dealt
      <3> QED
        BY <1>2, <1>3, <1>4, <3>1 DEF Clash
    <2>2. ASSUME NEW j \in 1 .. i + 1, NEW k \in 1 .. i + 1, j # k PROVE ~Clash(b.lines[j], b.lines[k])
      <3>1. CASE j \in 1 .. i /\ k \in 1 .. i
        BY <1>5, <2>2, <3>1 DEF Dealt, Apart
      <3>2. CASE j \in 1 .. i /\ k = i + 1
        BY <1>5, <2>1, <3>2
      <3>3. CASE j = i + 1 /\ k \in 1 .. i
        BY <1>5, <2>1, <3>3, ClashSym
      <3> QED
        BY <2>2, <3>1, <3>2, <3>3
    <2> QED
      BY <1>5, <2>2 DEF Apart
  <1> QED
    BY <1>5, <1>6, <1>7, <1>8, <1>9 DEF Dealt, b, node

\* The loop goes through all links.
Gives(given, nodes, base, names, used, reusable) ==
  given = [i \in 0 .. Len(nodes) |->
             IF i = 0 THEN [names |-> names, used |-> used, next |-> base, lines |-> <<>>]
             ELSE Assign(given[i - 1], nodes[i], reusable)]

\* The function in NewLines is what Gives says.
LEMMA NewLinesLoop ==
  ASSUME NEW nodes, IsSequence(nodes), NEW base, NEW names, NEW used, NEW reusable
  PROVE  \E given : /\ Gives(given, nodes, base, names, used, reusable)
                    /\ NewLines(nodes, base, names, used, reusable) = given[Len(nodes)].lines
  <1> DEFINE start == [names |-> names, used |-> used, next |-> base, lines |-> <<>>]
             Step(f, i) == Assign(f[i - 1], nodes[i], reusable)
             Defined == {n \in Nat : \E f : f = [i \in 0 .. n |-> IF i = 0 THEN start ELSE Step(f, i)]}
  <1> HIDE DEF start
  <1>1. 0 \in Defined
    <2> DEFINE f == [i \in 0 .. 0 |-> start]
    <2>1. f = [i \in 0 .. 0 |-> IF i = 0 THEN start ELSE Step(f, i)]
      <3> HIDE DEF Step
      <3> QED
        OBVIOUS
    <2> QED
      BY <2>1
  <1>2. ASSUME NEW n \in Nat, n \in Defined PROVE n + 1 \in Defined
    <2>1. PICK f : f = [i \in 0 .. n |-> IF i = 0 THEN start ELSE Step(f, i)]
      BY <1>2
    <2> DEFINE g == [i \in 0 .. n + 1 |-> IF i <= n THEN f[i] ELSE Step(f, i)]
    <2>2. \A i \in 1 .. n + 1 : g[i - 1] = f[i - 1]
      OBVIOUS
    <2>3. \A i \in 1 .. n + 1 : Step(g, i) = Step(f, i)
      <3> HIDE DEF g
      <3> QED
        BY <2>2
    <2>4. \A i \in 0 .. n + 1 : g[i] = IF i = 0 THEN start ELSE Step(g, i)
      <3> SUFFICES ASSUME NEW i \in 0 .. n + 1 PROVE g[i] = IF i = 0 THEN start ELSE Step(g, i)
        OBVIOUS
      <3>1. i <= n => f[i] = IF i = 0 THEN start ELSE Step(f, i)
        <4> HIDE DEF Step
        <4> QED
          BY <2>1
      <3>2. g[i] = IF i = 0 THEN start ELSE Step(f, i)
        <4> HIDE DEF Step
        <4> QED
          BY <3>1
      <3>3. i # 0 => Step(g, i) = Step(f, i)
        <4> HIDE DEF Step, g
        <4> QED
          BY <2>3
      <3> HIDE DEF Step, g
      <3> QED
        BY <3>2, <3>3
    <2>5. g = [i \in 0 .. n + 1 |-> g[i]]
      OBVIOUS
    <2>6. g = [i \in 0 .. n + 1 |-> IF i = 0 THEN start ELSE Step(g, i)]
      <3> HIDE DEF g, Step
      <3> QED
        BY <2>4, <2>5
    <2> HIDE DEF g, Step
    <2> QED
      BY <2>6
  <1>3. Len(nodes) \in Defined
    <2> HIDE DEF Defined
    <2> QED
      BY <1>1, <1>2, Induction, Domain
  <1> DEFINE given == CHOOSE f : f = [i \in 0 .. Len(nodes) |-> IF i = 0 THEN start ELSE Step(f, i)]
  <1>4. given = [i \in 0 .. Len(nodes) |-> IF i = 0 THEN start ELSE Step(given, i)]
    <2> HIDE DEF Step
    <2> QED
      BY <1>3
  <1>5. NewLines(nodes, base, names, used, reusable) = given[Len(nodes)].lines
    BY DEF NewLines, start
  <1> HIDE DEF given
  <1>6. Gives(given, nodes, base, names, used, reusable)
    BY <1>4 DEF start, Gives
  <1> QED
    BY <1>5, <1>6

\* What a line that was made has.
LEMMA LinesMade ==
  ASSUME NEW nodes, IsSequence(nodes), \A i \in 1 .. Len(nodes) : IsName(nodes[i].name),
         NEW base \in 1 .. MaxPort, NEW names, IsFiniteSet(names), NEW used, NEW reusable
  PROVE  LET new == NewLines(nodes, base, names, used, reusable)
         IN  /\ IsSequence(new) /\ Len(new) = Len(nodes) /\ Apart(new)
             /\ \A k \in 1 .. Len(new) :
                  LET l == new[k]
                  IN  /\ l = ProxyLine(l.name, l.port, nodes[k].link)
                      /\ IsName(l.name) /\ l.name \notin names
                      /\ l.port \in 0 .. MaxPort
                      /\ l.port # 0 => l.port \notin used /\ (l.port \in reusable \/ l.port \notin busy)
  <1>1. PICK given : /\ Gives(given, nodes, base, names, used, reusable)
                     /\ NewLines(nodes, base, names, used, reusable) = given[Len(nodes)].lines
    BY NewLinesLoop
  <1>2. Len(nodes) \in Nat
    BY Domain
  <1> DEFINE Right == {n \in Nat : n <= Len(nodes) => Dealt(given[n], n, nodes, names, used, reusable)}
  <1>3. 0 \in Right
    <2>1. given[0] = [names |-> names, used |-> used, next |-> base, lines |-> <<>>]
      BY <1>1, <1>2 DEF Gives
    <2>2. IsSequence(<<>>) /\ Len(<<>>) = 0
      BY Empty
    <2>3. base \in 1 .. MaxPort + 1
      BY LinkConstants
    <2>4. Dealt(given[0], 0, nodes, names, used, reusable)
      BY <2>1, <2>2, <2>3 DEF Dealt, Apart
    <2> QED
      BY <2>4
  <1>4. ASSUME NEW n \in Nat, n \in Right PROVE n + 1 \in Right
    <2> SUFFICES ASSUME n + 1 <= Len(nodes)
                 PROVE  Dealt(given[n + 1], n + 1, nodes, names, used, reusable)
      OBVIOUS
    <2>1. Dealt(given[n], n, nodes, names, used, reusable)
      BY <1>2, <1>4
    <2>2. given[n + 1] = Assign(given[n], nodes[n + 1], reusable)
      <3>1. n + 1 \in 0 .. Len(nodes) /\ n + 1 # 0 /\ (n + 1) - 1 = n
        BY <1>2
      <3> QED
        BY <1>1, <3>1 DEF Gives
    <2>3. IsName(nodes[n + 1].name)
      BY <1>2
    <2> QED
      BY <2>1, <2>2, <2>3, NextDealt
  <1>5. Len(nodes) \in Right
    <2> HIDE DEF Right
    <2> QED
      BY <1>2, <1>3, <1>4, Induction
  <1>6. Dealt(given[Len(nodes)], Len(nodes), nodes, names, used, reusable)
    BY <1>2, <1>5
  <1> QED
    BY <1>1, <1>6 DEF Dealt
=================================================================================
