------------------------- MODULE RecipeFilesProofs --------------------------
(***************************************************************************)
(* Proofs about RecipeFiles, for all recipes and files that are made as     *)
(* RecipeFilesAssumption says: the types; what a load reads is what the     *)
(* files say, in the order they are read; its sources become what they are  *)
(* spelled out to; workspace-finish only adds to a recipe; and each of its  *)
(* patches is applied once.                                                 *)
(***************************************************************************)
EXTENDS RecipeFiles, Integers, SequenceTheorems, FiniteSetTheorems,
        WellFoundedInduction, TLAPS

-----------------------------------------------------------------------------
(* Numbers. *)

\* A set of numbers that is not empty has a least element.
LEMMA LeastNatural ==
  ASSUME NEW T \in SUBSET Nat, T # {}
  PROVE  \E m \in T : \A n \in T : m <= n
<1> DEFINE R == OpToRel(<, Nat)
<1>1. \E m \in T : \A n \in T : <<n, m>> \notin R
  <2>1. IsWellFoundedOn(R, Nat)
    BY NatLessThanWellFounded
  <2> HIDE DEF R
  <2> QED BY <2>1, WFMin
<1>2. \A m, n \in Nat : n < m => <<n, m>> \in R
  BY DEF OpToRel
<1> HIDE DEF R
<1>3. PICK m \in T : \A n \in T : <<n, m>> \notin R
  BY <1>1
<1>4. ASSUME NEW n \in T PROVE m <= n
  <2>1. ~(n < m) /\ m \in Nat /\ n \in Nat
    BY <1>2, <1>3
  <2> QED BY <2>1
<1> QED BY <1>4

\* What holds of 0, and of k + 1 whenever it holds of k, holds up to n.  (T is
\* the set of the numbers it holds of.)
LEMMA Induct ==
  ASSUME NEW n \in Nat, NEW T, 0 \in T, \A k \in 0 .. n - 1 : k \in T => k + 1 \in T
  PROVE  \A k \in 0 .. n : k \in T
<1> DEFINE U == {k \in 0 .. n : k \notin T}
<1> SUFFICES ASSUME U # {} PROVE FALSE
  OBVIOUS
<1>1. U \in SUBSET Nat
  OBVIOUS
<1>2. PICK m \in U : \A k \in U : m <= k
  BY <1>1, LeastNatural
<1>3. m \in 0 .. n /\ m # 0 /\ m \notin T
  BY <1>2
<1>4. m - 1 \in 0 .. n - 1 /\ m - 1 \in 0 .. n /\ ~(m <= m - 1) /\ (m - 1) + 1 = m
  BY <1>3
<1>5. m - 1 \in T
  BY <1>2, <1>4
<1> QED BY <1>3, <1>4, <1>5

\* The least element of a set of numbers, and the largest of a bounded one.
LEMMA MinFacts ==
  ASSUME NEW T \in SUBSET Nat, T # {}
  PROVE  Min(T) \in T /\ \A n \in T : Min(T) <= n
<1>1. \E m \in T : \A n \in T : m <= n
  BY LeastNatural
<1> QED BY <1>1 DEF Min

LEMMA MaxFacts ==
  ASSUME NEW n \in Nat, NEW T \in SUBSET (0 .. n), T # {}
  PROVE  Max(T) \in T /\ \A k \in T : k <= Max(T)
<1> DEFINE U == {n - k : k \in T}
<1>1. U \in SUBSET Nat /\ U # {}
  <2>1. \A k \in T : n - k \in Nat
    OBVIOUS
  <2> QED BY <2>1
<1>2. PICK u \in U : \A v \in U : u <= v
  BY <1>1, LeastNatural
<1>3. PICK m \in T : u = n - m
  BY <1>2
<1>4. ASSUME NEW k \in T PROVE m >= k
  <2>1. n - m <= n - k
    BY <1>2, <1>3
  <2> QED BY <2>1
<1> QED BY <1>4 DEF Max

\* The least element stays the least when larger ones are added.
LEMMA MinStays ==
  ASSUME NEW T \in SUBSET Nat, T # {}, NEW U \in SUBSET Nat,
         \A u \in U : \A n \in T : n <= u
  PROVE  Min(T \cup U) = Min(T)
<1>1. Min(T) \in T /\ \A n \in T : Min(T) <= n
  BY MinFacts
<1>2. Min(T \cup U) \in T \cup U /\ \A n \in T \cup U : Min(T \cup U) <= n
  <2>1. T \cup U \in SUBSET Nat /\ T \cup U # {}
    OBVIOUS
  <2> QED BY <2>1, MinFacts
<1>3. Min(T) <= Min(T \cup U) /\ Min(T \cup U) <= Min(T)
  BY <1>1, <1>2
<1>4. Min(T) \in Nat /\ Min(T \cup U) \in Nat
  BY <1>1, <1>2
<1> QED BY <1>3, <1>4

-----------------------------------------------------------------------------
(* Sequences one after the other. *)

\* The results of FlattenSeq after each of its sequences.
FlattenSteps(ss, J) ==
    /\ J[0] = <<>>
    /\ \A k \in 1 .. Len(ss) : J[k] = J[k - 1] \o ss[k]

\* They exist,
LEMMA StepsExist ==
  ASSUME NEW S, NEW ss \in Seq(Seq(S))
  PROVE  \E J \in [0 .. Len(ss) -> Seq(S)] : FlattenSteps(ss, J)
<1> DEFINE n == Len(ss)
           Steps(m, J) == J[0] = <<>> /\ \A k \in 1 .. m : J[k] = J[k - 1] \o ss[k]
           T == {m \in 0 .. n : \E J \in [0 .. m -> Seq(S)] : Steps(m, J)}
<1>1. n \in Nat /\ \A k \in 1 .. n : ss[k] \in Seq(S)
  OBVIOUS
<1>2. 0 \in T
  <2> DEFINE J == [k \in 0 .. 0 |-> <<>>]
  <2>1. J \in [0 .. 0 -> Seq(S)] /\ Steps(0, J)
    OBVIOUS
  <2> HIDE DEF J, Steps
  <2>2. \E K \in [0 .. 0 -> Seq(S)] : Steps(0, K)
    BY <2>1, Zenon
  <2>3. 0 \in 0 .. n
    BY <1>1
  <2> QED BY <2>2, <2>3, Zenon
<1>3. ASSUME NEW m \in 0 .. n - 1, m \in T PROVE m + 1 \in T
  <2>1. PICK J \in [0 .. m -> Seq(S)] : Steps(m, J)
    BY <1>3
  <2> DEFINE K == [k \in 0 .. m + 1 |-> IF k = m + 1 THEN J[m] \o ss[m + 1] ELSE J[k]]
  <2>2. m \in 0 .. m /\ m + 1 \in 1 .. n /\ m + 1 \in 0 .. n
    BY <1>1
  <2>3. J[m] \o ss[m + 1] \in Seq(S)
    BY <1>1, <2>2, ConcatProperties
  <2>4. \A k \in 0 .. m + 1 : k # m + 1 => k \in 0 .. m
    BY <1>1
  <2>5. K \in [0 .. m + 1 -> Seq(S)]
    BY <2>3, <2>4
  <2>6. Steps(m + 1, K)
    <3>1. K[0] = <<>>
      BY <1>1, <2>1
    <3>2. ASSUME NEW k \in 1 .. m + 1 PROVE K[k] = K[k - 1] \o ss[k]
      <4>1. CASE k = m + 1
        <5>1. K[k] = J[m] \o ss[k] /\ K[k - 1] = J[m]
          BY <1>1, <4>1
        <5> QED BY <5>1
      <4>2. CASE k # m + 1
        <5>1. k \in 1 .. m /\ K[k] = J[k] /\ K[k - 1] = J[k - 1]
          BY <1>1, <4>2
        <5> QED BY <2>1, <5>1
      <4> QED BY <4>1, <4>2
    <3> QED BY <3>1, <3>2
  <2> HIDE DEF K, Steps
  <2> QED BY <2>2, <2>5, <2>6
<1> HIDE DEF T
<1>4. \A k \in 0 .. n : k \in T
  BY <1>1, <1>2, <1>3, Induct
<1>5. n \in T
  BY <1>1, <1>4
<1> QED BY <1>5 DEF T, FlattenSteps

\* and end with its value.
LEMMA StepsEnd ==
  ASSUME NEW S, NEW ss \in Seq(Seq(S)), NEW J, FlattenSteps(ss, J)
  PROVE  FlattenSeq(ss) = J[Len(ss)]
<1> DEFINE n == Len(ss)
           Eq(f) == f = [i \in 1 .. n |-> IF i = 1 THEN ss[i] ELSE f[i - 1] \o ss[i]]
           g == CHOOSE f : Eq(f)
<1>1. n \in Nat /\ \A k \in 1 .. n : ss[k] \in Seq(S)
  OBVIOUS
<1>2. CASE n = 0
  <2>1. ss = <<>>
    BY <1>2
  <2> QED BY <1>2, <2>1 DEF FlattenSeq, FlattenSteps
<1>3. CASE n # 0
  <2> DEFINE f == [i \in 1 .. n |-> J[i]]
  <2>1. Eq(f)
    <3>1. ASSUME NEW i \in 1 .. n PROVE J[i] = IF i = 1 THEN ss[i] ELSE f[i - 1] \o ss[i]
      <4>1. CASE i = 1
        <5>1. J[1] = J[0] \o ss[1]
          <6>1. 1 \in 1 .. Len(ss) /\ 1 - 1 = 0
            BY <4>1
          <6>2. J[1] = J[1 - 1] \o ss[1]
            BY <6>1 DEF FlattenSteps
          <6> QED BY <6>1, <6>2
        <5>2. ss[1] \in Seq(S)
          BY <1>1, <4>1
        <5> QED BY <4>1, <5>1, <5>2, ConcatEmptySeq DEF FlattenSteps
      <4>2. CASE i # 1
        <5>1. i - 1 \in 1 .. n /\ f[i - 1] = J[i - 1]
          BY <1>1, <4>2
        <5> QED BY <4>2, <5>1 DEF FlattenSteps
      <4> QED BY <4>1, <4>2
    <3> QED BY <3>1
  <2>2. Eq(g)
    <3> HIDE DEF Eq, f
    <3> QED BY <2>1
  <2>3. FlattenSeq(ss) = g[n]
    BY <1>3 DEF FlattenSeq
  <2> HIDE DEF g
  <2> DEFINE T == {m \in 0 .. n : m = 0 \/ g[m] = J[m]}
  <2>4. 0 \in T
    BY <1>1
  <2>5. ASSUME NEW m \in 0 .. n - 1, m \in T PROVE m + 1 \in T
    <3>1. m + 1 \in 1 .. n /\ m + 1 \in 0 .. n /\ (m + 1) - 1 = m
      BY <1>1
    <3>2. g[m + 1] = IF m + 1 = 1 THEN ss[m + 1] ELSE g[m] \o ss[m + 1]
      BY <2>2, <3>1
    <3>3. J[m + 1] = J[m] \o ss[m + 1]
      BY <3>1 DEF FlattenSteps
    <3>4. CASE m = 0
      <4>0. m + 1 = 1 /\ 1 \in 1 .. n
        BY <3>1, <3>4
      <4>1. J[1] = <<>> \o ss[1] /\ ss[1] \in Seq(S)
        BY <1>1, <3>3, <3>4, <4>0 DEF FlattenSteps
      <4>2. J[1] = ss[1]
        BY <4>1, ConcatEmptySeq
      <4> QED BY <3>1, <3>2, <3>4, <4>2
    <3>5. CASE m # 0
      <4>1. g[m] = J[m] /\ m + 1 # 1
        BY <2>5, <3>5
      <4> QED BY <3>1, <3>2, <3>3, <4>1
    <3> QED BY <3>4, <3>5
  <2> HIDE DEF T
  <2>6. \A k \in 0 .. n : k \in T
    BY <1>1, <2>4, <2>5, Induct
  <2>7. n \in T
    BY <1>1, <2>6
  <2> QED BY <1>3, <2>3, <2>7 DEF T
<1> QED BY <1>2, <1>3

LEMMA FlattenGoes ==
  ASSUME NEW S, NEW ss \in Seq(Seq(S))
  PROVE  \E J \in [0 .. Len(ss) -> Seq(S)] :
            FlattenSteps(ss, J) /\ FlattenSeq(ss) = J[Len(ss)]
<1>1. PICK J \in [0 .. Len(ss) -> Seq(S)] : FlattenSteps(ss, J)
  BY StepsExist
<1>2. FlattenSeq(ss) = J[Len(ss)]
  BY <1>1, StepsEnd
<1> QED BY <1>1, <1>2

\* Sequences of elements give a sequence of elements.
LEMMA FlattenType ==
  ASSUME NEW S, NEW ss \in Seq(Seq(S))
  PROVE  FlattenSeq(ss) \in Seq(S)
<1>1. Len(ss) \in 0 .. Len(ss)
  OBVIOUS
<1> QED BY <1>1, FlattenGoes

\* Nothing, or none with anything in it.
LEMMA FlattenEmpty == FlattenSeq(<<>>) = <<>>
BY DEF FlattenSeq

LEMMA FlattenNothing ==
  ASSUME NEW S, NEW ss \in Seq(Seq(S)), \A k \in 1 .. Len(ss) : ss[k] = <<>>
  PROVE  FlattenSeq(ss) = <<>>
<1> DEFINE J == [k \in 0 .. Len(ss) |-> <<>>]
<1>1. Len(ss) \in Nat
  OBVIOUS
<1>2. FlattenSteps(ss, J)
  <2>1. J[0] = <<>>
    BY <1>1
  <2>2. ASSUME NEW k \in 1 .. Len(ss) PROVE J[k] = J[k - 1] \o ss[k]
    <3>1. J[k] = <<>> /\ J[k - 1] = <<>> /\ ss[k] = <<>>
      BY <1>1
    <3>2. <<>> \in Seq(S) /\ <<>> \o <<>> = <<>>
      OBVIOUS
    <3> HIDE DEF J
    <3> QED BY <3>1, <3>2
  <2> QED BY <2>1, <2>2 DEF FlattenSteps
<1>3. J[Len(ss)] = <<>>
  BY <1>1
<1> HIDE DEF J
<1> QED BY <1>2, <1>3, StepsEnd

\* One sequence.
LEMMA FlattenOne ==
  ASSUME NEW S, NEW s \in Seq(S)
  PROVE  FlattenSeq(<<s>>) = s
<1> DEFINE J == [k \in 0 .. 1 |-> IF k = 0 THEN <<>> ELSE s]
           ss == <<s>>
<1>1. ss \in Seq(Seq(S)) /\ Len(ss) = 1 /\ ss[1] = s
  OBVIOUS
<1>2. FlattenSteps(ss, J)
  <2>1. J[0] = <<>> /\ J[1] = s
    OBVIOUS
  <2>2. ASSUME NEW k \in 1 .. Len(ss) PROVE J[k] = J[k - 1] \o ss[k]
    <3>1. k = 1 /\ k - 1 = 0
      BY <1>1
    <3>2. <<>> \o s = s
      BY ConcatEmptySeq
    <3> HIDE DEF J, ss
    <3> QED BY <1>1, <2>1, <3>1, <3>2
  <2> HIDE DEF J, ss
  <2> QED BY <2>1, <2>2 DEF FlattenSteps
<1>3. J[1] = s
  OBVIOUS
<1> HIDE DEF J, ss
<1>4. FlattenSeq(ss) = s
  BY <1>1, <1>2, <1>3, StepsEnd
<1> QED BY <1>4 DEF ss

\* Every element in a sequence of its own.
LEMMA FlattenSingles ==
  ASSUME NEW S, NEW s \in Seq(S)
  PROVE  /\ [k \in DOMAIN s |-> <<s[k]>>] \in Seq(Seq(S))
         /\ FlattenSeq([k \in DOMAIN s |-> <<s[k]>>]) = s
<1> DEFINE n == Len(s)
           ss == [k \in DOMAIN s |-> <<s[k]>>]
           J == [k \in 0 .. n |-> SubSeq(s, 1, k)]
<1>1. n \in Nat /\ DOMAIN s = 1 .. n /\ \A k \in 1 .. n : s[k] \in S
  OBVIOUS
<1>2. ss \in Seq(Seq(S)) /\ Len(ss) = n /\ \A k \in 1 .. n : ss[k] = <<s[k]>>
  <2>1. \A k \in 1 .. n : <<s[k]>> \in Seq(S)
    BY <1>1
  <2> QED BY <1>1, <2>1
<1>3. J[0] = <<>> /\ J[n] = s
  <2>1. SubSeq(s, 1, 0) = <<>>
    BY SubSeqEmpty
  <2>2. SubSeq(s, 1, n) = s
    BY SubSeqFull
  <2> QED BY <1>1, <2>1, <2>2
<1>4. ASSUME NEW k \in 1 .. n PROVE J[k] = J[k - 1] \o ss[k]
  <2>1. SubSeq(s, 1, k) = SubSeq(s, 1, k - 1) \o <<s[k]>>
    <3>1. 1 \in 1 .. Len(s) /\ k \in 1 .. Len(s)
      BY <1>1
    <3> QED BY <3>1, SubSeqRecursiveSecond
  <2>2. J[k] = SubSeq(s, 1, k) /\ J[k - 1] = SubSeq(s, 1, k - 1)
    BY <1>1
  <2> HIDE DEF J, ss
  <2> QED BY <1>2, <2>1, <2>2
<1> HIDE DEF J, ss
<1>5. FlattenSteps(ss, J)
  BY <1>2, <1>3, <1>4 DEF FlattenSteps
<1>6. FlattenSeq(ss) = s
  BY <1>2, <1>3, <1>5, StepsEnd
<1> QED BY <1>2, <1>6 DEF ss

\* First these sequences, then those.
LEMMA FlattenConcat ==
  ASSUME NEW S, NEW a \in Seq(Seq(S)), NEW b \in Seq(Seq(S))
  PROVE  FlattenSeq(a \o b) = FlattenSeq(a) \o FlattenSeq(b)
<1> DEFINE la == Len(a)
           lb == Len(b)
           c == a \o b
<1>1. PICK J \in [0 .. la -> Seq(S)] : FlattenSteps(a, J) /\ FlattenSeq(a) = J[la]
  BY FlattenGoes
<1>2. PICK K \in [0 .. lb -> Seq(S)] : FlattenSteps(b, K) /\ FlattenSeq(b) = K[lb]
  BY FlattenGoes
<1> DEFINE M == [k \in 0 .. la + lb |-> IF k <= la THEN J[k] ELSE J[la] \o K[k - la]]
<1>3. /\ c \in Seq(Seq(S)) /\ Len(c) = la + lb /\ la \in Nat /\ lb \in Nat
      /\ \A k \in 1 .. la + lb : c[k] = IF k <= la THEN a[k] ELSE b[k - la]
  BY ConcatProperties
<1>4. /\ \A k \in 0 .. la : J[k] \in Seq(S)
      /\ \A k \in 0 .. lb : K[k] \in Seq(S)
      /\ \A k \in 1 .. lb : b[k] \in Seq(S)
  <2>1. \A k \in 0 .. la : J[k] \in Seq(S)
    BY <1>1
  <2>2. \A k \in 0 .. lb : K[k] \in Seq(S)
    BY <1>2
  <2>3. \A k \in 1 .. lb : b[k] \in Seq(S)
    OBVIOUS
  <2> QED BY <2>1, <2>2, <2>3
<1>5. \A k \in 0 .. lb : M[la + k] = J[la] \o K[k]
  <2> SUFFICES ASSUME NEW k \in 0 .. lb PROVE M[la + k] = J[la] \o K[k]
    OBVIOUS
  <2>1. CASE k = 0
    <3>1. J[la] \in Seq(S) /\ K[0] = <<>>
      BY <1>2, <1>3, <1>4 DEF FlattenSteps
    <3>2. M[la + 0] = J[la]
      BY <1>3
    <3>3. J[la] \o <<>> = J[la]
      BY <3>1, ConcatEmptySeq
    <3> HIDE DEF M
    <3> QED BY <2>1, <3>1, <3>2, <3>3
  <2>2. CASE k # 0
    <3>1. ~(la + k <= la) /\ (la + k) - la = k /\ la + k \in 0 .. la + lb
      BY <1>3, <2>2
    <3> QED BY <3>1
  <2> QED BY <2>1, <2>2
<1>6. ASSUME NEW k \in 1 .. la + lb PROVE M[k] = M[k - 1] \o c[k]
  <2>1. CASE k <= la
    <3>1. k \in 1 .. la /\ k - 1 <= la /\ k - 1 \in 0 .. la + lb /\ k \in 0 .. la + lb
      BY <1>3, <2>1
    <3>2. J[k] = J[k - 1] \o a[k]
      BY <1>1, <3>1 DEF FlattenSteps
    <3> QED BY <1>3, <2>1, <3>1, <3>2
  <2>2. CASE ~(k <= la)
    <3> DEFINE i == k - la
    <3>1. i \in 1 .. lb /\ i \in 0 .. lb /\ i - 1 \in 0 .. lb /\ la + i = k
          /\ la + (i - 1) = k - 1
      BY <1>3, <2>2
    <3>2. M[k] = J[la] \o K[i] /\ M[k - 1] = J[la] \o K[i - 1]
      <4> HIDE DEF M, i
      <4>1. M[la + i] = J[la] \o K[i] /\ M[la + (i - 1)] = J[la] \o K[i - 1]
        BY <1>5, <3>1
      <4> QED BY <3>1, <4>1
    <3>3. K[i] = K[i - 1] \o b[i]
      <4> HIDE DEF i
      <4> QED BY <1>2, <3>1 DEF FlattenSteps
    <3>4. c[k] = b[i]
      BY <1>3, <2>2
    <3>5. J[la] \in Seq(S) /\ K[i - 1] \in Seq(S) /\ b[i] \in Seq(S)
      <4> HIDE DEF i
      <4> QED BY <1>3, <1>4, <3>1
    <3>6. J[la] \o (K[i - 1] \o b[i]) = (J[la] \o K[i - 1]) \o b[i]
      <4> HIDE DEF i
      <4>1. ASSUME NEW x \in Seq(S), NEW y \in Seq(S), NEW z \in Seq(S)
            PROVE  x \o (y \o z) = (x \o y) \o z
        OBVIOUS
      <4> QED BY <3>5, <4>1
    <3> HIDE DEF M, i
    <3> QED BY <3>2, <3>3, <3>4, <3>6
  <2> QED BY <2>1, <2>2
<1>7. M[0] = <<>>
  BY <1>1, <1>3 DEF FlattenSteps
<1>8. M[la + lb] = J[la] \o K[lb]
  <2>1. lb \in 0 .. lb
    BY <1>3
  <2> HIDE DEF M
  <2> QED BY <1>5, <2>1
<1> HIDE DEF M, c
<1>9. FlattenSteps(c, M)
  BY <1>3, <1>6, <1>7 DEF FlattenSteps
<1>10. FlattenSeq(c) = J[la] \o K[lb]
  BY <1>3, <1>8, <1>9, StepsEnd
<1> QED BY <1>1, <1>2, <1>10 DEF c

\* What is in them.
LEMMA FlattenRange ==
  ASSUME NEW S, NEW ss \in Seq(Seq(S))
  PROVE  \A x : x \in Range(FlattenSeq(ss)) <=> \E k \in 1 .. Len(ss) : x \in Range(ss[k])
<1> DEFINE n == Len(ss)
<1>1. PICK J \in [0 .. n -> Seq(S)] : FlattenSteps(ss, J) /\ FlattenSeq(ss) = J[n]
  BY FlattenGoes
<1>2. n \in Nat /\ \A k \in 1 .. n : ss[k] \in Seq(S)
  OBVIOUS
<1> DEFINE In(m) == {x \in S : \E k \in 1 .. m : x \in Range(ss[k])}
           T == {m \in 0 .. n : Range(J[m]) = In(m)}
<1>3. 0 \in T
  <2>1. Range(<<>>) = {}
    BY DEF Range
  <2>2. In(0) = {}
    OBVIOUS
  <2> QED BY <1>1, <1>2, <2>1, <2>2 DEF FlattenSteps
<1>4. ASSUME NEW m \in 0 .. n - 1, m \in T PROVE m + 1 \in T
  <2>1. m \in 0 .. n /\ m + 1 \in 1 .. n /\ m + 1 \in 0 .. n /\ (m + 1) - 1 = m
    BY <1>2
  <2>2. J[m + 1] = J[m] \o ss[m + 1]
    BY <1>1, <2>1 DEF FlattenSteps
  <2>3. Range(J[m + 1]) = Range(J[m]) \cup Range(ss[m + 1])
    <3>1. J[m] \in Seq(S) /\ ss[m + 1] \in Seq(S)
      BY <1>1, <1>2, <2>1
    <3> QED BY <2>2, <3>1, RangeConcatenation
  <2>4. Range(ss[m + 1]) \subseteq S
    BY <1>2, <2>1, RangeOfSeq
  <2>5. In(m + 1) = In(m) \cup Range(ss[m + 1])
    <3>1. \A k : k \in 1 .. m + 1 <=> k \in 1 .. m \/ k = m + 1
      BY <2>1
    <3> QED BY <2>4, <3>1, Zenon
  <2> HIDE DEF In
  <2>6. Range(J[m]) = In(m)
    BY <1>4
  <2> QED BY <2>1, <2>3, <2>5, <2>6
<1> HIDE DEF T
<1>5. \A k \in 0 .. n : k \in T
  BY <1>2, <1>3, <1>4, Induct
<1>6. Range(J[n]) = In(n)
  <2>1. n \in T
    BY <1>2, <1>5
  <2> QED BY <2>1 DEF T
<1>7. \A k \in 1 .. n : Range(ss[k]) \subseteq S
  BY <1>2, RangeOfSeq
<1> QED BY <1>1, <1>6, <1>7

\* An element that is in a sequence at one place.
Once(s, x) == \E n \in DOMAIN s : \A k \in DOMAIN s : s[k] = x <=> k = n

LEMMA OnceIsOne ==
  ASSUME NEW s, NEW x, Once(s, x)
  PROVE  Cardinality({n \in DOMAIN s : s[n] = x}) = 1
<1>1. PICK n \in DOMAIN s : \A k \in DOMAIN s : s[k] = x <=> k = n
  BY DEF Once
<1>2. {k \in DOMAIN s : s[k] = x} = {n}
  BY <1>1
<1> QED BY <1>2, FS_Singleton

LEMMA OnceIsIn == ASSUME NEW s, NEW x, Once(s, x) PROVE x \in Range(s)
BY DEF Once, Range

\* It is in one of two sequences, and not in the other.
LEMMA OnceConcat ==
  ASSUME NEW S, NEW s \in Seq(S), NEW t \in Seq(S), NEW x
  PROVE  /\ Once(s, x) /\ x \notin Range(t) => Once(s \o t, x)
         /\ x \notin Range(s) /\ Once(t, x) => Once(s \o t, x)
<1> DEFINE u == s \o t
<1>1. /\ Len(s) \in Nat /\ Len(t) \in Nat /\ u \in Seq(S) /\ Len(u) = Len(s) + Len(t)
      /\ DOMAIN s = 1 .. Len(s) /\ DOMAIN t = 1 .. Len(t) /\ DOMAIN u = 1 .. Len(s) + Len(t)
      /\ \A k \in 1 .. Len(s) + Len(t) : u[k] = IF k <= Len(s) THEN s[k] ELSE t[k - Len(s)]
  BY ConcatProperties, LenProperties
<1>2. ASSUME NEW k \in 1 .. Len(s) + Len(t)
      PROVE  /\ k <= Len(s) => k \in 1 .. Len(s) /\ u[k] = s[k]
             /\ ~(k <= Len(s)) => k - Len(s) \in 1 .. Len(t) /\ u[k] = t[k - Len(s)]
  BY <1>1
<1> HIDE DEF u
<1>3. ASSUME Once(s, x), x \notin Range(t) PROVE Once(u, x)
  <2>1. PICK n \in DOMAIN s : \A k \in DOMAIN s : s[k] = x <=> k = n
    BY <1>3 DEF Once
  <2>2. \A k \in 1 .. Len(t) : t[k] # x
    BY <1>1, <1>3 DEF Range
  <2>3. n \in DOMAIN u
    BY <1>1
  <2>4. ASSUME NEW k \in DOMAIN u PROVE u[k] = x <=> k = n
    <3>1. CASE k <= Len(s) BY <1>1, <1>2, <2>1, <3>1
    <3>2. CASE ~(k <= Len(s))
      <4>1. k # n BY <1>1, <3>2
      <4> QED BY <1>1, <1>2, <2>2, <3>2, <4>1
    <3> QED BY <3>1, <3>2
  <2> QED BY <2>3, <2>4 DEF Once
<1>4. ASSUME x \notin Range(s), Once(t, x) PROVE Once(u, x)
  <2>1. PICK n \in DOMAIN t : \A k \in DOMAIN t : t[k] = x <=> k = n
    BY <1>4 DEF Once
  <2>2. \A k \in 1 .. Len(s) : s[k] # x
    BY <1>1, <1>4 DEF Range
  <2>3. Len(s) + n \in DOMAIN u
    BY <1>1
  <2>4. ASSUME NEW k \in DOMAIN u PROVE u[k] = x <=> k = Len(s) + n
    <3>1. CASE k <= Len(s)
      <4>1. k # Len(s) + n BY <1>1, <3>1
      <4> QED BY <1>1, <1>2, <2>2, <3>1, <4>1
    <3>2. CASE ~(k <= Len(s))
      <4>1. k - Len(s) \in DOMAIN t /\ u[k] = t[k - Len(s)]
        BY <1>1, <1>2, <3>2
      <4>2. k - Len(s) = n <=> k = Len(s) + n
        BY <1>1
      <4> QED BY <2>1, <4>1, <4>2
    <3> QED BY <3>1, <3>2
  <2> QED BY <2>3, <2>4 DEF Once
<1> QED BY <1>3, <1>4 DEF u

\* It is in one of many sequences.
LEMMA FlattenOnce ==
  ASSUME NEW S, NEW ss \in Seq(Seq(S)), NEW x, NEW n \in 1 .. Len(ss),
         \A k \in 1 .. Len(ss) : IF k = n THEN Once(ss[k], x) ELSE x \notin Range(ss[k])
  PROVE  Once(FlattenSeq(ss), x)
<1> DEFINE l == Len(ss)
<1>1. PICK J \in [0 .. l -> Seq(S)] : FlattenSteps(ss, J) /\ FlattenSeq(ss) = J[l]
  BY FlattenGoes
<1>2. l \in Nat /\ \A k \in 1 .. l : ss[k] \in Seq(S)
  OBVIOUS
<1> DEFINE T == {m \in 0 .. l : IF m < n THEN x \notin Range(J[m]) ELSE Once(J[m], x)}
<1>3. 0 \in T
  <2>1. Range(<<>>) = {}
    BY DEF Range
  <2> QED BY <1>1, <1>2, <2>1 DEF FlattenSteps
<1>4. ASSUME NEW m \in 0 .. l - 1, m \in T PROVE m + 1 \in T
  <2>1. m \in 0 .. l /\ m + 1 \in 1 .. l /\ m + 1 \in 0 .. l /\ (m + 1) - 1 = m
    BY <1>2
  <2>2. J[m + 1] = J[m] \o ss[m + 1] /\ J[m] \in Seq(S) /\ ss[m + 1] \in Seq(S)
    BY <1>1, <1>2, <2>1 DEF FlattenSteps
  <2>3. CASE m + 1 < n
    <3>1. x \notin Range(J[m]) /\ x \notin Range(ss[m + 1])
      BY <1>4, <2>1, <2>3
    <3>2. x \notin Range(J[m + 1])
      BY <2>2, <3>1, RangeConcatenation
    <3> QED BY <2>1, <2>3, <3>2
  <2>4. CASE m + 1 = n
    <3>1. x \notin Range(J[m]) /\ Once(ss[m + 1], x)
      BY <1>4, <2>1, <2>4
    <3>2. Once(J[m + 1], x)
      BY <2>2, <3>1, OnceConcat
    <3> QED BY <2>1, <2>4, <3>2
  <2>5. CASE ~(m + 1 < n) /\ m + 1 # n
    <3>1. ~(m < n)
      BY <2>1, <2>5
    <3>2. Once(J[m], x) /\ x \notin Range(ss[m + 1])
      BY <1>4, <2>1, <2>5, <3>1
    <3>3. Once(J[m + 1], x)
      BY <2>2, <3>2, OnceConcat
    <3> QED BY <2>1, <2>5, <3>3
  <2> QED BY <2>3, <2>4, <2>5
<1> HIDE DEF T
<1>5. \A k \in 0 .. l : k \in T
  BY <1>2, <1>3, <1>4, Induct
<1>6. l \in T /\ ~(l < n)
  BY <1>2, <1>5
<1> QED BY <1>1, <1>6 DEF T

\* A list of sequences with c more of them put in after the first i.
Spliced(old, new, i, c) ==
    /\ Len(new) = Len(old) + c
    /\ \A k \in 1 .. i : new[k] = old[k]
    /\ \A k \in i + 1 .. Len(old) : new[k + c] = old[k]

\* What comes before, a, and what comes after, b.
Around(old, new, i, c, a, b) ==
    /\ Len(a) = i /\ Len(b) = Len(old) - i
    /\ \A k \in 1 .. Len(b) : b[k] = old[i + k]
    /\ FlattenSeq(old) = FlattenSeq(a) \o FlattenSeq(b)
    /\ FlattenSeq(new) =
         (FlattenSeq(a) \o FlattenSeq([k \in 1 .. c |-> new[i + k]])) \o FlattenSeq(b)

LEMMA FlattenSpliced ==
  ASSUME NEW S, NEW old \in Seq(Seq(S)), NEW new \in Seq(Seq(S)),
         NEW c \in Nat, NEW i \in 0 .. Len(old), Spliced(old, new, i, c)
  PROVE  \E a, b \in Seq(Seq(S)) : Around(old, new, i, c, a, b)
<1> DEFINE n == Len(old)
           a == [k \in 1 .. i |-> old[k]]
           b == [k \in 1 .. n - i |-> old[i + k]]
           e == [k \in 1 .. c |-> new[i + k]]
<1>0. ASSUME NEW x \in Seq(Seq(S)), NEW y \in Seq(Seq(S))
      PROVE  /\ x \o y \in Seq(Seq(S)) /\ Len(x \o y) = Len(x) + Len(y)
             /\ \A k \in 1 .. Len(x) + Len(y) :
                  (x \o y)[k] = IF k <= Len(x) THEN x[k] ELSE y[k - Len(x)]
  BY ConcatProperties
<1>1. /\ n \in Nat /\ i \in Nat /\ n - i \in Nat
      /\ \A k \in 1 .. n : old[k] \in Seq(S)
      /\ \A k \in 1 .. n + c : new[k] \in Seq(S)
  BY DEF Spliced
<1>2. a \in Seq(Seq(S)) /\ Len(a) = i /\ \A k \in 1 .. i : a[k] = old[k]
  BY <1>1
<1>3. b \in Seq(Seq(S)) /\ Len(b) = n - i /\ \A k \in 1 .. n - i : b[k] = old[i + k]
  BY <1>1
<1>4. e \in Seq(Seq(S)) /\ Len(e) = c /\ \A k \in 1 .. c : e[k] = new[i + k]
  BY <1>1
<1> HIDE DEF a, b, e
<1>5. old = a \o b
  <2>1. /\ a \o b \in Seq(Seq(S)) /\ Len(a \o b) = n
        /\ \A k \in 1 .. n : (a \o b)[k] = IF k <= i THEN a[k] ELSE b[k - i]
    <3>1. Len(a) + Len(b) = n
      BY <1>1, <1>2, <1>3
    <3> QED BY <1>0, <1>2, <1>3, <3>1
  <2>2. ASSUME NEW k \in 1 .. n PROVE old[k] = (a \o b)[k]
    <3>1. CASE k <= i
      BY <1>2, <2>1, <3>1
    <3>2. CASE ~(k <= i)
      <4>1. k - i \in 1 .. n - i /\ i + (k - i) = k
        BY <1>1, <3>2
      <4> QED BY <1>3, <2>1, <3>2, <4>1
    <3> QED BY <3>1, <3>2
  <2> QED BY <2>1, <2>2, SeqEqual
<1>6. PICK ae \in Seq(Seq(S)) : ae = a \o e
  BY <1>0, <1>2, <1>4
<1>7. /\ Len(ae) = i + c
      /\ \A k \in 1 .. i + c : ae[k] = IF k <= i THEN a[k] ELSE e[k - i]
  BY <1>0, <1>2, <1>4, <1>6
<1>8. new = ae \o b
  <2>1. /\ ae \o b \in Seq(Seq(S)) /\ Len(ae \o b) = n + c
        /\ \A k \in 1 .. n + c : (ae \o b)[k] = IF k <= i + c THEN ae[k] ELSE b[k - (i + c)]
    <3>1. Len(ae) + Len(b) = n + c
      BY <1>1, <1>3, <1>7
    <3>2. /\ ae \o b \in Seq(Seq(S)) /\ Len(ae \o b) = Len(ae) + Len(b)
          /\ \A k \in 1 .. Len(ae) + Len(b) :
               (ae \o b)[k] = IF k <= Len(ae) THEN ae[k] ELSE b[k - Len(ae)]
      BY <1>0, <1>3, <1>6
    <3> QED BY <1>7, <3>1, <3>2
  <2>2. ASSUME NEW k \in 1 .. n + c PROVE new[k] = (ae \o b)[k]
    <3>1. CASE k <= i
      <4>1. k \in 1 .. i /\ k \in 1 .. i + c /\ k <= i + c
        BY <1>1, <3>1
      <4> QED BY <1>2, <1>7, <2>1, <3>1, <4>1 DEF Spliced
    <3>2. CASE ~(k <= i) /\ k <= i + c
      <4>1. k - i \in 1 .. c /\ i + (k - i) = k /\ k \in 1 .. i + c
        BY <1>1, <3>2
      <4> QED BY <1>4, <1>7, <2>1, <3>2, <4>1
    <3>3. CASE ~(k <= i + c)
      <4>1. /\ k - c \in i + 1 .. n /\ (k - c) + c = k
            /\ k - (i + c) \in 1 .. n - i /\ i + (k - (i + c)) = k - c
        BY <1>1, <3>3
      <4>2. new[(k - c) + c] = old[k - c]
        BY <4>1 DEF Spliced
      <4>3. b[k - (i + c)] = old[i + (k - (i + c))]
        BY <1>3, <4>1
      <4>4. (ae \o b)[k] = b[k - (i + c)]
        BY <2>1, <3>3
      <4> QED BY <4>1, <4>2, <4>3, <4>4
    <3> QED BY <3>1, <3>2, <3>3
  <2>3. Len(new) = n + c
    BY DEF Spliced
  <2> QED BY <2>1, <2>2, <2>3, SeqEqual
<1>9. FlattenSeq(old) = FlattenSeq(a) \o FlattenSeq(b)
  BY <1>2, <1>3, <1>5, FlattenConcat
<1>10. FlattenSeq(ae) = FlattenSeq(a) \o FlattenSeq(e)
  BY <1>2, <1>4, <1>6, FlattenConcat
<1>11. FlattenSeq(new) = FlattenSeq(ae) \o FlattenSeq(b)
  BY <1>3, <1>6, <1>8, FlattenConcat
<1>12. \A k \in 1 .. Len(b) : b[k] = old[i + k]
  BY <1>3
<1>13. Around(old, new, i, c, a, b)
  BY <1>2, <1>3, <1>9, <1>10, <1>11, <1>12 DEF e, Around
<1> QED BY <1>2, <1>3, <1>13

\* Nothing is put in.
LEMMA FlattenSame ==
  ASSUME NEW S, NEW old \in Seq(Seq(S)), NEW new \in Seq(Seq(S)),
         NEW c \in Nat, NEW i \in 0 .. Len(old), Spliced(old, new, i, c),
         \A k \in 1 .. c : new[i + k] = <<>>
  PROVE  FlattenSeq(new) = FlattenSeq(old)
<1> DEFINE e == [k \in 1 .. c |-> new[i + k]]
<1>0. PICK a, b \in Seq(Seq(S)) : Around(old, new, i, c, a, b)
  BY FlattenSpliced
<1>1. /\ FlattenSeq(old) = FlattenSeq(a) \o FlattenSeq(b)
      /\ FlattenSeq(new) = (FlattenSeq(a) \o FlattenSeq(e)) \o FlattenSeq(b)
  BY <1>0 DEF Around
<1>2. FlattenSeq(e) = <<>>
  <2>1. e \in Seq(Seq(S)) /\ Len(e) = c /\ \A k \in 1 .. c : e[k] = <<>>
    <3>1. <<>> \in Seq(S) /\ \A k \in 1 .. c : e[k] = <<>>
      OBVIOUS
    <3>2. \A k \in 1 .. c : new[i + k] \in Seq(S)
      BY <3>1
    <3> QED BY <3>1, <3>2
  <2> HIDE DEF e
  <2> QED BY <2>1, FlattenNothing
<1>3. FlattenSeq(a) \in Seq(S)
  BY FlattenType
<1>4. FlattenSeq(a) \o <<>> = FlattenSeq(a)
  BY <1>3, ConcatEmptySeq
<1> HIDE DEF e
<1> QED BY <1>1, <1>2, <1>4

\* What is put in.
Put(new, i, c, e) == DOMAIN e = 1 .. c /\ \A k \in 1 .. c : e[k] = new[i + k]

\* There is nothing after it.
EmptyAfter(old, i) == i \in 0 .. Len(old) /\ \A k \in i + 1 .. Len(old) : old[k] = <<>>

LEMMA FlattenMore ==
  ASSUME NEW S, NEW old \in Seq(Seq(S)), NEW new \in Seq(Seq(S)),
         NEW c \in Nat, NEW i, NEW e \in Seq(Seq(S)),
         Spliced(old, new, i, c), EmptyAfter(old, i), Put(new, i, c, e)
  PROVE  FlattenSeq(new) = FlattenSeq(old) \o FlattenSeq(e)
<1>0. PICK a, b \in Seq(Seq(S)) : Around(old, new, i, c, a, b)
  BY FlattenSpliced DEF EmptyAfter
<1>3. e = [k \in 1 .. c |-> new[i + k]]
  BY DEF Put
<1>1. /\ Len(b) = Len(old) - i /\ \A k \in 1 .. Len(b) : b[k] = old[i + k]
      /\ FlattenSeq(old) = FlattenSeq(a) \o FlattenSeq(b)
      /\ FlattenSeq(new) = (FlattenSeq(a) \o FlattenSeq(e)) \o FlattenSeq(b)
  BY <1>0, <1>3 DEF Around, EmptyAfter
<1>2. FlattenSeq(b) = <<>>
  <2>1. ASSUME NEW k \in 1 .. Len(b) PROVE b[k] = <<>>
    <3>1. i + k \in i + 1 .. Len(old)
      BY <1>1 DEF EmptyAfter
    <3> QED BY <1>1, <3>1 DEF EmptyAfter
  <2> QED BY <2>1, FlattenNothing
<1>4. FlattenSeq(a) \in Seq(S) /\ FlattenSeq(e) \in Seq(S)
  <2> QED BY <1>3, FlattenType
<1>5. ASSUME NEW x \in Seq(S), NEW y \in Seq(S)
      PROVE  (x \o y) \o <<>> = (x \o <<>>) \o y
  OBVIOUS
<1>6. (FlattenSeq(a) \o FlattenSeq(e)) \o <<>> = (FlattenSeq(a) \o <<>>) \o FlattenSeq(e)
  BY <1>4, <1>5
<1> QED BY <1>1, <1>2, <1>6

-----------------------------------------------------------------------------
(* The lines of a recipe. *)

LEMMA SeqRange ==
  ASSUME NEW S, NEW s \in Seq(S)
  PROVE  s \in Seq(Range(s))
<1>1. Len(s) \in Nat /\ DOMAIN s = 1 .. Len(s) /\ s = [k \in 1 .. Len(s) |-> s[k]]
  OBVIOUS
<1>2. \A k \in 1 .. Len(s) : s[k] \in Range(s)
  BY <1>1 DEF Range
<1>3. [k \in 1 .. Len(s) |-> s[k]] \in Seq(Range(s))
  BY <1>1, <1>2
<1> QED BY <1>1, <1>3

LEMMA Lines ==
  ASSUME NEW lines, lines \in Seq(Range(lines))
  PROVE  Len(lines) \in Nat /\ DOMAIN lines = 1 .. Len(lines)
OBVIOUS

LEMMA LineKinds ==
  /\ \A k, node : /\ IsKey(KeyLine(k, node)) /\ ~IsItem(KeyLine(k, node))
                  /\ KeyLine(k, node).key = k /\ KeyLine(k, node).node = node
  /\ \A s : IsItem(ItemLine(s)) /\ ~IsKey(ItemLine(s)) /\ ItemLine(s).item = s
  /\ ~IsKey(Other) /\ ~IsItem(Other)
BY DEF IsKey, IsItem, KeyLine, ItemLine, Other

HasKey(lines, n, key) == n \in 1 .. Len(lines) /\ IsKey(lines[n]) /\ lines[n].key = key

LEMMA KeyAtFacts ==
  ASSUME NEW lines, lines \in Seq(Range(lines)), NEW key
  PROVE  /\ KeyAt(lines, key) \in 0 .. Len(lines)
         /\ KeyAt(lines, key) # 0 => HasKey(lines, KeyAt(lines, key), key)
         /\ \A n : HasKey(lines, n, key) => KeyAt(lines, key) # 0 /\ KeyAt(lines, key) <= n
<1> DEFINE places == {n \in DOMAIN lines : IsKey(lines[n]) /\ lines[n].key = key}
<1>1. Len(lines) \in Nat /\ DOMAIN lines = 1 .. Len(lines)
  BY Lines
<1>2. places \in SUBSET Nat /\ \A n : n \in places <=> HasKey(lines, n, key)
  BY <1>1 DEF HasKey
<1>3. KeyAt(lines, key) = IF places = {} THEN 0 ELSE Min(places)
  BY DEF KeyAt
<1>4. CASE places = {}
  <2>1. \A n : ~HasKey(lines, n, key)
    BY <1>2, <1>4
  <2>2. KeyAt(lines, key) = 0
    BY <1>3, <1>4
  <2> QED BY <1>1, <2>1, <2>2
<1>5. CASE places # {}
  <2> HIDE DEF places
  <2>1. Min(places) \in places /\ \A n \in places : Min(places) <= n
    BY <1>2, <1>5, MinFacts
  <2>2. KeyAt(lines, key) = Min(places) /\ HasKey(lines, Min(places), key)
    BY <1>2, <1>3, <1>5, <2>1
  <2>3. Min(places) \in 1 .. Len(lines)
    BY <2>2 DEF HasKey
  <2>4. \A n : HasKey(lines, n, key) => Min(places) <= n
    BY <1>2, <2>1
  <2>5. KeyAt(lines, key) \in 0 .. Len(lines) /\ KeyAt(lines, key) # 0
    BY <1>1, <2>2, <2>3
  <2> QED BY <2>2, <2>4, <2>5
<1> QED BY <1>4, <1>5

LEMMA KeyAtIs ==
  ASSUME NEW lines, lines \in Seq(Range(lines)), NEW key, NEW n, HasKey(lines, n, key),
         \A m : HasKey(lines, m, key) => n <= m
  PROVE  KeyAt(lines, key) = n
<1>1. KeyAt(lines, key) # 0 /\ KeyAt(lines, key) <= n
  BY KeyAtFacts
<1>2. HasKey(lines, KeyAt(lines, key), key)
  BY <1>1, KeyAtFacts
<1>3. n <= KeyAt(lines, key)
  BY <1>2
<1> QED BY <1>1, <1>2, <1>3 DEF HasKey

LEMMA ParseDomain ==
  ASSUME NEW lines, lines \in Seq(Range(lines)), NEW key
  PROVE  key \in DOMAIN Parse(lines) <=> KeyAt(lines, key) # 0
<1>1. DOMAIN lines = 1 .. Len(lines)
  BY Lines
<1>2. key \in DOMAIN Parse(lines) <=> \E n : HasKey(lines, n, key)
  BY <1>1 DEF Parse, HasKey
<1> QED BY <1>2, KeyAtFacts

LEMMA ParseIs ==
  ASSUME NEW lines, NEW key \in DOMAIN Parse(lines), NEW n, n = KeyAt(lines, key)
  PROVE  Parse(lines)[key] =
            IF lines[n].node # Block THEN lines[n].node
            ELSE IF ItemPlaces(lines, n) = {} THEN Scalar(<<>>) ELSE List(Items(lines, n))
BY DEF Parse

ItemSeqs(lines, n) ==
    [k \in DOMAIN lines |-> IF k \in ItemPlaces(lines, n) THEN <<lines[k].item>> ELSE <<>>]

LEMMA ItemSeqsLen ==
  ASSUME NEW lines, NEW n, lines \in Seq(Range(lines)), NEW l, l = Len(lines)
  PROVE  Len(ItemSeqs(lines, n)) = l
<1>1. l \in Nat /\ DOMAIN lines = 1 .. l
  BY Lines
<1> QED BY <1>1 DEF ItemSeqs

LEMMA ItemSeqsType ==
  ASSUME NEW S, NEW L, NEW lines, NEW n, lines \in Seq(Range(lines)),
         \A k \in DOMAIN lines : IsLine(lines[k], S, L)
  PROVE  /\ ItemSeqs(lines, n) \in Seq(Seq(L))
         /\ Items(lines, n) = FlattenSeq(ItemSeqs(lines, n))
         /\ Items(lines, n) \in Seq(L)
<1>1. /\ Len(lines) \in Nat /\ DOMAIN lines = 1 .. Len(lines)
      /\ \A k \in 1 .. Len(lines) : IsItem(lines[k]) => lines[k].item \in L
  <2>1. Len(lines) \in Nat /\ DOMAIN lines = 1 .. Len(lines)
    BY Lines
  <2> QED BY <2>1, LineKinds DEF IsLine
<1>2. \A k \in 1 .. Len(lines) : ItemSeqs(lines, n)[k] \in Seq(L)
  <2> SUFFICES ASSUME NEW k \in 1 .. Len(lines) PROVE ItemSeqs(lines, n)[k] \in Seq(L)
    OBVIOUS
  <2>1. k \in ItemPlaces(lines, n) => IsItem(lines[k])
    BY DEF ItemPlaces
  <2>2. k \in ItemPlaces(lines, n) => <<lines[k].item>> \in Seq(L)
    BY <1>1, <2>1
  <2>3. <<>> \in Seq(L)
    OBVIOUS
  <2> QED BY <1>1, <2>2, <2>3 DEF ItemSeqs
<1>3. ItemSeqs(lines, n) = [k \in 1 .. Len(lines) |-> ItemSeqs(lines, n)[k]]
  BY <1>1 DEF ItemSeqs
<1>4. ItemSeqs(lines, n) \in Seq(Seq(L))
  BY <1>1, <1>2, <1>3
<1>5. Items(lines, n) = FlattenSeq(ItemSeqs(lines, n))
  BY DEF Items, ItemSeqs
<1> QED BY <1>4, <1>5, FlattenType

\* A recipe reads as a document made of the same scalars.
LEMMA ParseType ==
  ASSUME NEW S, NEW L, NEW lines, IsText(lines, S, L), <<>> \in S
  PROVE  IsDocument(Parse(lines), S, L \cup S)
<1> SUFFICES ASSUME NEW key \in DOMAIN Parse(lines)
             PROVE  IsNode(Parse(lines)[key], S, L \cup S)
  BY DEF IsDocument
<1> DEFINE n == KeyAt(lines, key)
<1>0. lines \in Seq(Range(lines))
  BY DEF IsText
<1>1. HasKey(lines, n, key) /\ n \in DOMAIN lines
  BY <1>0, ParseDomain, KeyAtFacts, Lines DEF HasKey
<1>2. Parse(lines)[key] =
            IF lines[n].node # Block THEN lines[n].node
            ELSE IF ItemPlaces(lines, n) = {} THEN Scalar(<<>>) ELSE List(Items(lines, n))
  BY ParseIs
<1>3. lines[n].node = Block \/ IsNode(lines[n].node, S, S)
  <2>1. IsLine(lines[n], S, L) /\ IsKey(lines[n])
    BY <1>1 DEF IsText, HasKey
  <2> QED BY <2>1, LineKinds DEF IsLine
<1>4. \A node : IsNode(node, S, S) => IsNode(node, S, L \cup S)
  <2>1. Seq(S) \subseteq Seq(L \cup S)
    <3>1. S \subseteq L \cup S
      OBVIOUS
    <3> QED BY <3>1, SeqMonotonic
  <2> QED BY <2>1 DEF IsNode
<1>5. IsNode(Scalar(<<>>), S, L \cup S)
  BY DEF Scalar, IsNode
<1>6. IsNode(List(Items(lines, n)), S, L \cup S)
  <2>1. Items(lines, n) \in Seq(L)
    BY <1>0, ItemSeqsType DEF IsText
  <2>2. Seq(L) \subseteq Seq(L \cup S)
    <3>1. L \subseteq L \cup S
      OBVIOUS
    <3> QED BY <3>1, SeqMonotonic
  <2> QED BY <2>1, <2>2 DEF List, IsNode
<1> HIDE DEF n
<1> QED BY <1>2, <1>3, <1>4, <1>5, <1>6

\* Where a line is, when c lines are put in after the one at i.
Place(k, i, c) == IF k <= i THEN k ELSE k + c

\* t is `old' with c lines put in after the one at i, and the line of `sources'
\* at q.  What is put in belongs to it.
Grown(old, t, i, c, q) ==
    /\ old \in Seq(Range(old)) /\ t \in Seq(Range(t))
    /\ i \in 0 .. Len(old) /\ c \in Nat /\ Len(t) = Len(old) + c
    /\ q \in 1 .. Len(t) /\ t[q] = KeyLine("sources", Block)
    /\ \A k \in 1 .. Len(old) :
         IF Place(k, i, c) = q THEN HasKey(old, k, "sources") /\ ~IsItem(old[k])
         ELSE t[Place(k, i, c)] = old[k]
    /\ \A k : HasKey(old, k, "sources") => q <= Place(k, i, c)
    /\ \A m \in i + 1 .. i + c : IsKey(t[m]) => m = q /\ i = Len(old)
    /\ \A m \in i + 1 .. i + c :
         IsItem(t[m]) => q < m /\ \A k \in q + 1 .. m : ~IsKey(t[k])

\* The old lines are there in their order, and then the new ones.
LEMMA Places ==
  ASSUME NEW old, NEW t, NEW i, NEW c, NEW q, Grown(old, t, i, c, q)
  PROVE  /\ Len(old) \in Nat /\ i \in Nat /\ c \in Nat /\ i <= Len(old) /\ q \in Nat
         /\ DOMAIN old = 1 .. Len(old) /\ DOMAIN t = 1 .. Len(t) /\ Len(t) = Len(old) + c
         /\ \A k \in 1 .. Len(old) : Place(k, i, c) \in 1 .. Len(t) \ (i + 1 .. i + c)
         /\ \A k, l \in 1 .. Len(old) : Place(k, i, c) <= Place(l, i, c) <=> k <= l
         /\ \A m \in 1 .. Len(t) \ (i + 1 .. i + c) :
              \E k \in 1 .. Len(old) : m = Place(k, i, c)
<1>1. /\ Len(old) \in Nat /\ i \in Nat /\ c \in Nat /\ i <= Len(old) /\ q \in Nat
      /\ DOMAIN old = 1 .. Len(old) /\ DOMAIN t = 1 .. Len(t) /\ Len(t) = Len(old) + c
  <2>1. old \in Seq(Range(old)) /\ t \in Seq(Range(t))
    BY DEF Grown
  <2>2. Len(old) \in Nat /\ DOMAIN old = 1 .. Len(old) /\ DOMAIN t = 1 .. Len(t)
    BY <2>1, Lines
  <2>3. i \in 0 .. Len(old) /\ c \in Nat /\ Len(t) = Len(old) + c /\ q \in 1 .. Len(t)
    BY Zenon DEF Grown
  <2> QED BY <2>2, <2>3
<1>2. \A k \in 1 .. Len(old) : Place(k, i, c) \in 1 .. Len(t) \ (i + 1 .. i + c)
  BY <1>1 DEF Place
<1>3. \A k, l \in 1 .. Len(old) : Place(k, i, c) <= Place(l, i, c) <=> k <= l
  BY <1>1 DEF Place
<1>4. ASSUME NEW m \in 1 .. Len(t) \ (i + 1 .. i + c)
      PROVE  \E k \in 1 .. Len(old) : m = Place(k, i, c)
  <2>1. CASE m <= i
    <3>1. m \in 1 .. Len(old) /\ m = Place(m, i, c)
      BY <1>1, <2>1 DEF Place
    <3> QED BY <3>1
  <2>2. CASE ~(m <= i)
    <3>1. m - c \in 1 .. Len(old) /\ m = Place(m - c, i, c)
      BY <1>1, <2>2 DEF Place
    <3> QED BY <3>1
  <2> QED BY <2>1, <2>2
<1> QED BY <1>1, <1>2, <1>3, <1>4

\* They are what they were, but for what follows `sources:'.
LEMMA SameKinds ==
  ASSUME NEW old, NEW t, NEW i, NEW c, NEW q, Grown(old, t, i, c, q),
         NEW k \in 1 .. Len(old)
  PROVE  LET p == Place(k, i, c)
         IN  /\ IsKey(t[p]) <=> IsKey(old[k])
             /\ IsItem(t[p]) <=> IsItem(old[k])
             /\ IsItem(old[k]) => t[p].item = old[k].item
             /\ IsKey(old[k]) => t[p].key = old[k].key
             /\ p # q => t[p] = old[k]
<1> DEFINE p == Place(k, i, c)
<1>1. CASE p = q
  <2>1. HasKey(old, k, "sources") /\ ~IsItem(old[k]) /\ t[p] = KeyLine("sources", Block)
    BY <1>1 DEF Grown
  <2> HIDE DEF p
  <2>2. IsKey(t[p]) /\ ~IsItem(t[p]) /\ t[p].key = "sources"
    BY <2>1, LineKinds
  <2> QED BY <1>1, <2>1, <2>2 DEF HasKey, p
<1>2. CASE p # q
  <2>1. t[p] = old[k]
    BY <1>2 DEF Grown
  <2> QED BY <2>1
<1> QED BY <1>1, <1>2

\* Between two of them there is a key when there was one.
LEMMA SameBlocks ==
  ASSUME NEW old, NEW t, NEW i, NEW c, NEW q, Grown(old, t, i, c, q),
         NEW a \in 1 .. Len(old), NEW b \in 1 .. Len(old)
  PROVE  Place(b, i, c) \in ItemPlaces(t, Place(a, i, c)) <=> b \in ItemPlaces(old, a)
<1> DEFINE P(k) == Place(k, i, c)
<1>0. /\ Len(old) \in Nat /\ i \in Nat /\ c \in Nat /\ i <= Len(old) /\ q \in Nat
      /\ DOMAIN old = 1 .. Len(old) /\ DOMAIN t = 1 .. Len(t) /\ Len(t) = Len(old) + c
      /\ \A k \in 1 .. Len(old) : P(k) \in 1 .. Len(t) \ (i + 1 .. i + c)
      /\ \A k, l \in 1 .. Len(old) : P(k) <= P(l) <=> k <= l
      /\ \A m \in 1 .. Len(t) \ (i + 1 .. i + c) : \E k \in 1 .. Len(old) : m = P(k)
  BY Places
<1>1. \A k \in 1 .. Len(old) : IsKey(t[P(k)]) <=> IsKey(old[k])
  BY SameKinds
<1>2. IsItem(t[P(b)]) <=> IsItem(old[b])
  BY SameKinds
<1>3. ASSUME P(b) > P(a), \A m \in P(a) + 1 .. P(b) : ~IsKey(t[m])
      PROVE  b > a /\ \A m \in a + 1 .. b : ~IsKey(old[m])
  <2>1. b > a
    BY <1>0, <1>3
  <2>2. ASSUME NEW m \in a + 1 .. b PROVE ~IsKey(old[m])
    <3>1. m \in 1 .. Len(old) /\ ~(m <= a) /\ m <= b
      BY <1>0
    <3>2. P(m) \in Nat /\ P(a) \in Nat /\ P(b) \in Nat /\ ~(P(m) <= P(a)) /\ P(m) <= P(b)
      BY <1>0, <3>1
    <3> HIDE DEF P
    <3>3. P(m) \in P(a) + 1 .. P(b)
      BY <3>2
    <3> QED BY <1>1, <1>3, <3>1, <3>3
  <2> QED BY <2>1, <2>2
<1>4. ASSUME b > a, \A m \in a + 1 .. b : ~IsKey(old[m])
      PROVE  P(b) > P(a) /\ \A m \in P(a) + 1 .. P(b) : ~IsKey(t[m])
  <2>1. P(a) \in Nat /\ P(b) \in Nat /\ P(b) > P(a) /\ P(b) <= Len(t)
    <3>1. P(a) \in Nat /\ P(b) \in Nat /\ P(b) <= Len(t)
      BY <1>0
    <3>2. ~(P(b) <= P(a))
      BY <1>0, <1>4
    <3> HIDE DEF P
    <3> QED BY <3>1, <3>2
  <2>2. ASSUME NEW m \in P(a) + 1 .. P(b) PROVE ~IsKey(t[m])
    <3>1. CASE m \in i + 1 .. i + c
      <4>1. i # Len(old)
        <5> SUFFICES ASSUME i = Len(old) PROVE FALSE
          OBVIOUS
        <5>1. P(b) = b /\ b <= i
          BY DEF Place
        <5>2. m <= b /\ m > i
          <6> HIDE DEF P
          <6> QED BY <1>0, <2>1, <3>1, <5>1
        <5> QED BY <1>0, <5>1, <5>2
      <4> QED BY <3>1, <4>1 DEF Grown
    <3>2. CASE m \notin i + 1 .. i + c
      <4>1. m \in 1 .. Len(t) \ (i + 1 .. i + c)
        <5> HIDE DEF P
        <5> QED BY <1>0, <2>1, <3>2
      <4>2. PICK k \in 1 .. Len(old) : m = P(k)
        BY <1>0, <4>1
      <4>3. ~(P(k) <= P(a)) /\ P(k) <= P(b)
        <5> HIDE DEF P
        <5> QED BY <2>1, <4>2
      <4>4. k \in a + 1 .. b
        <5>1. ~(k <= a) /\ k <= b
          BY <1>0, <4>3
        <5> QED BY <5>1
      <4> QED BY <1>1, <1>4, <4>2, <4>4
    <3> QED BY <3>1, <3>2
  <2> QED BY <2>1, <2>2
<1>5. P(b) \in ItemPlaces(t, P(a)) <=>
        P(b) > P(a) /\ (\A m \in P(a) + 1 .. P(b) : ~IsKey(t[m])) /\ IsItem(t[P(b)])
  <2>1. P(b) \in DOMAIN t
    BY <1>0
  <2> QED BY <2>1 DEF ItemPlaces, BlockOf
<1>6. b \in ItemPlaces(old, a) <=>
        b > a /\ (\A m \in a + 1 .. b : ~IsKey(old[m])) /\ IsItem(old[b])
  <2>1. b \in DOMAIN old
    BY <1>0
  <2> QED BY <2>1 DEF ItemPlaces, BlockOf
<1> HIDE DEF P
<1>7. P(b) \in ItemPlaces(t, P(a)) <=> b \in ItemPlaces(old, a)
  BY <1>2, <1>3, <1>4, <1>5, <1>6
<1> QED BY <1>7 DEF P

\* The new lines are no items of another key.
LEMMA NewAreSources ==
  ASSUME NEW old, NEW t, NEW i, NEW c, NEW q, Grown(old, t, i, c, q),
         NEW n \in 1 .. Len(t), IsKey(t[n]), n # q, NEW m \in i + 1 .. i + c
  PROVE  m \notin ItemPlaces(t, n)
<1> SUFFICES ASSUME m \in ItemPlaces(t, n) PROVE FALSE
  OBVIOUS
<1>1. m > n /\ (\A k \in n + 1 .. m : ~IsKey(t[k])) /\ IsItem(t[m])
  BY DEF ItemPlaces, BlockOf
<1>2. q < m /\ \A k \in q + 1 .. m : ~IsKey(t[k])
  BY <1>1 DEF Grown
<1>3. IsKey(t[q])
  BY LineKinds DEF Grown
<1>4. q \in Nat /\ i \in Nat /\ c \in Nat /\ n \in Nat
  BY Places
<1>5. CASE n < q
  <2>1. q \in n + 1 .. m
    BY <1>2, <1>4, <1>5
  <2> QED BY <1>1, <1>3, <2>1
<1>6. CASE ~(n < q)
  <2>1. n \in q + 1 .. m
    BY <1>1, <1>4, <1>6
  <2> QED BY <1>2, <2>1
<1> QED BY <1>5, <1>6

\* So every other key has the items it had.
LEMMA SameItems ==
  ASSUME NEW S, NEW L, NEW old, NEW t, NEW i, NEW c, NEW q, Grown(old, t, i, c, q),
         IsText(old, S, L), \A m \in 1 .. Len(t) : IsLine(t[m], S, L),
         NEW a \in 1 .. Len(old), IsKey(old[a]), Place(a, i, c) # q
  PROVE  /\ ItemPlaces(t, Place(a, i, c)) = {} <=> ItemPlaces(old, a) = {}
         /\ Items(t, Place(a, i, c)) = Items(old, a)
<1> DEFINE P(k) == Place(k, i, c)
           n == P(a)
<1>0. /\ Len(old) \in Nat /\ i \in Nat /\ c \in Nat /\ i <= Len(old) /\ q \in Nat
      /\ DOMAIN old = 1 .. Len(old) /\ DOMAIN t = 1 .. Len(t) /\ Len(t) = Len(old) + c
      /\ \A k \in 1 .. Len(old) : P(k) \in 1 .. Len(t) \ (i + 1 .. i + c)
      /\ \A m \in 1 .. Len(t) \ (i + 1 .. i + c) : \E k \in 1 .. Len(old) : m = P(k)
  BY Places
<1>1. \A b \in 1 .. Len(old) : P(b) \in ItemPlaces(t, n) <=> b \in ItemPlaces(old, a)
  BY SameBlocks
<1>2. \A m \in i + 1 .. i + c : m \notin ItemPlaces(t, n)
  <2>1. IsKey(t[n]) /\ n # q /\ n \in 1 .. Len(t)
    BY <1>0, SameKinds
  <2> QED BY <2>1, NewAreSources
<1>3. ItemPlaces(t, n) = {} <=> ItemPlaces(old, a) = {}
  <2>1. ItemPlaces(t, n) \subseteq 1 .. Len(t) /\ ItemPlaces(old, a) \subseteq 1 .. Len(old)
    BY <1>0 DEF ItemPlaces, BlockOf
  <2> HIDE DEF P, n
  <2> QED BY <1>0, <1>1, <1>2, <2>1
<1> DEFINE so == ItemSeqs(old, a)
           st == ItemSeqs(t, n)
<1>4. /\ so \in Seq(Seq(L)) /\ Len(so) = Len(old) /\ Items(old, a) = FlattenSeq(so)
      /\ st \in Seq(Seq(L)) /\ Len(st) = Len(t) /\ Items(t, n) = FlattenSeq(st)
  <2>1. so \in Seq(Seq(L)) /\ Len(so) = Len(old) /\ Items(old, a) = FlattenSeq(so)
    <3>1. old \in Seq(Range(old)) /\ \A k \in DOMAIN old : IsLine(old[k], S, L)
      BY DEF IsText
    <3> QED BY <3>1, ItemSeqsType, ItemSeqsLen
  <2>2. st \in Seq(Seq(L)) /\ Len(st) = Len(t) /\ Items(t, n) = FlattenSeq(st)
    <3>1. t \in Seq(Range(t)) /\ \A k \in DOMAIN t : IsLine(t[k], S, L)
      BY <1>0 DEF Grown
    <3> HIDE DEF n
    <3> QED BY <3>1, ItemSeqsType, ItemSeqsLen
  <2> QED BY <2>1, <2>2
<1>5. \A b \in 1 .. Len(old) : st[P(b)] = so[b]
  <2> SUFFICES ASSUME NEW b \in 1 .. Len(old) PROVE st[P(b)] = so[b]
    OBVIOUS
  <2>1. b \in ItemPlaces(old, a) => t[P(b)].item = old[b].item
    BY SameKinds DEF ItemPlaces
  <2>2. P(b) \in DOMAIN t /\ b \in DOMAIN old
    BY <1>0
  <2>3. st[P(b)] = IF P(b) \in ItemPlaces(t, n) THEN <<t[P(b)].item>> ELSE <<>>
    <3> HIDE DEF n, P
    <3> QED BY <2>2 DEF ItemSeqs
  <2>4. so[b] = IF b \in ItemPlaces(old, a) THEN <<old[b].item>> ELSE <<>>
    BY <2>2 DEF ItemSeqs
  <2> HIDE DEF P, n, st, so
  <2> QED BY <1>1, <2>1, <2>3, <2>4
<1>6. Spliced(so, st, i, c)
  <2>1. \A k \in 1 .. i : k \in 1 .. Len(old) /\ P(k) = k
    BY <1>0 DEF Place
  <2>2. \A k \in i + 1 .. Len(old) : k \in 1 .. Len(old) /\ P(k) = k + c
    BY <1>0 DEF Place
  <2> HIDE DEF P, n, st, so
  <2> QED BY <1>0, <1>4, <1>5, <2>1, <2>2 DEF Spliced
<1>7. \A k \in 1 .. c : st[i + k] = <<>>
  <2> SUFFICES ASSUME NEW k \in 1 .. c PROVE st[i + k] = <<>>
    OBVIOUS
  <2>1. i + k \in i + 1 .. i + c /\ i + k \in DOMAIN t
    BY <1>0
  <2> HIDE DEF n
  <2> QED BY <1>2, <2>1 DEF ItemSeqs
<1> HIDE DEF so, st, n, P
<1>8. FlattenSeq(st) = FlattenSeq(so)
  <2>1. i \in 0 .. Len(so)
    BY <1>0, <1>4
  <2> QED BY <1>0, <1>4, <1>6, <1>7, <2>1, FlattenSame
<1> QED BY <1>3, <1>4, <1>8 DEF n, P

\* Every key is where it was, and `sources:' is at q.
LEMMA KeysMove ==
  ASSUME NEW old, NEW t, NEW i, NEW c, NEW q, Grown(old, t, i, c, q), NEW key, key # "sources"
  PROVE  KeyAt(t, key) = IF KeyAt(old, key) = 0 THEN 0 ELSE Place(KeyAt(old, key), i, c)
<1> DEFINE P(k) == Place(k, i, c)
           n == KeyAt(old, key)
<1>0. old \in Seq(Range(old)) /\ t \in Seq(Range(t))
  BY DEF Grown
<1>1. /\ \A k \in 1 .. Len(old) : P(k) \in 1 .. Len(t) \ (i + 1 .. i + c)
      /\ \A k, l \in 1 .. Len(old) : P(k) <= P(l) <=> k <= l
      /\ \A m \in 1 .. Len(t) \ (i + 1 .. i + c) : \E k \in 1 .. Len(old) : m = P(k)
  BY Places
<1>2. \A k \in 1 .. Len(old) : HasKey(t, P(k), key) <=> HasKey(old, k, key)
  BY <1>1, SameKinds DEF HasKey
<1>3. ASSUME NEW m, HasKey(t, m, key)
      PROVE  \E k \in 1 .. Len(old) : m = P(k) /\ HasKey(old, k, key)
  <2>1. m \in 1 .. Len(t) /\ IsKey(t[m]) /\ t[m].key = key
    BY <1>3 DEF HasKey
  <2>2. m # q
    BY <2>1, LineKinds DEF Grown
  <2>3. m \notin i + 1 .. i + c
    BY <2>1, <2>2 DEF Grown
  <2>4. PICK k \in 1 .. Len(old) : m = P(k)
    BY <1>1, <2>1, <2>3
  <2> HIDE DEF P
  <2> QED BY <1>2, <1>3, <2>4
<1>4. CASE n = 0
  <2>1. \A k : ~HasKey(old, k, key)
    BY <1>0, <1>4, KeyAtFacts
  <2>2. \A m : ~HasKey(t, m, key)
    BY <1>3, <2>1
  <2>3. KeyAt(t, key) = 0
    BY <1>0, <2>2, KeyAtFacts
  <2> QED BY <1>4, <2>3
<1>5. CASE n # 0
  <2>1. HasKey(old, n, key) /\ \A k : HasKey(old, k, key) => n <= k
    BY <1>0, <1>5, KeyAtFacts
  <2>2. n \in 1 .. Len(old)
    BY <2>1 DEF HasKey
  <2> HIDE DEF n
  <2>3. HasKey(t, P(n), key)
    BY <1>2, <2>1, <2>2
  <2>4. ASSUME NEW m, HasKey(t, m, key) PROVE P(n) <= m
    <3>1. PICK k \in 1 .. Len(old) : m = P(k) /\ HasKey(old, k, key)
      BY <1>3, <2>4
    <3> QED BY <1>1, <2>1, <2>2, <3>1
  <2> HIDE DEF P
  <2>5. KeyAt(t, key) = P(n)
    BY <1>0, <2>3, <2>4, KeyAtIs
  <2> QED BY <1>5, <2>5 DEF n, P
<1> QED BY <1>4, <1>5

LEMMA SourcesAt ==
  ASSUME NEW old, NEW t, NEW i, NEW c, NEW q, Grown(old, t, i, c, q)
  PROVE  KeyAt(t, "sources") = q
<1> DEFINE P(k) == Place(k, i, c)
<1>0. t \in Seq(Range(t)) /\ q \in 1 .. Len(t) /\ t[q] = KeyLine("sources", Block)
  BY DEF Grown
<1>1. /\ \A k \in 1 .. Len(old) : P(k) \in 1 .. Len(t) \ (i + 1 .. i + c)
      /\ \A m \in 1 .. Len(t) \ (i + 1 .. i + c) : \E k \in 1 .. Len(old) : m = P(k)
      /\ q \in Nat
  BY Places
<1>2. HasKey(t, q, "sources")
  BY <1>0, LineKinds DEF HasKey
<1>3. ASSUME NEW m, HasKey(t, m, "sources") PROVE q <= m
  <2>1. m \in 1 .. Len(t) /\ IsKey(t[m]) /\ t[m].key = "sources"
    BY <1>3 DEF HasKey
  <2>2. CASE m \in i + 1 .. i + c
    <3>1. m = q
      BY <2>1, <2>2 DEF Grown
    <3> QED BY <1>1, <3>1
  <2>3. CASE m \notin i + 1 .. i + c
    <3>1. PICK k \in 1 .. Len(old) : m = P(k)
      BY <1>1, <2>1, <2>3
    <3>2. HasKey(old, k, "sources")
      BY <2>1, <3>1, SameKinds DEF HasKey
    <3> QED BY <3>1, <3>2 DEF Grown
  <2> QED BY <2>2, <2>3
<1> QED BY <1>0, <1>2, <1>3, KeyAtIs

\* A key that is not `sources' reads as before, and there is no other new key.
OnlySources(old, new) ==
    /\ DOMAIN new = DOMAIN old \cup {"sources"}
    /\ \A key \in DOMAIN old \ {"sources"} : new[key] = old[key]

LEMMA GrownParse ==
  ASSUME NEW S, NEW L, NEW old, NEW t, NEW i, NEW c, NEW q, Grown(old, t, i, c, q),
         IsText(old, S, L), \A m \in 1 .. Len(t) : IsLine(t[m], S, L)
  PROVE  OnlySources(Parse(old), Parse(t))
<1>0. old \in Seq(Range(old)) /\ t \in Seq(Range(t))
  BY DEF Grown
<1>1. ASSUME NEW key PROVE key \in DOMAIN Parse(t) <=> key \in DOMAIN Parse(old) \cup {"sources"}
  <2>1. CASE key = "sources"
    <3>1. KeyAt(t, "sources") = q
      BY SourcesAt
    <3>2. q # 0
      BY DEF Grown
    <3> QED BY <1>0, <2>1, <3>1, <3>2, ParseDomain
  <2>2. CASE key # "sources"
    <3>1. KeyAt(t, key) = IF KeyAt(old, key) = 0 THEN 0 ELSE Place(KeyAt(old, key), i, c)
      BY <2>2, KeysMove
    <3>2. KeyAt(old, key) # 0 => Place(KeyAt(old, key), i, c) # 0
      <4>1. KeyAt(old, key) # 0 => KeyAt(old, key) \in 1 .. Len(old)
        BY <1>0, KeyAtFacts DEF HasKey
      <4> QED BY <4>1, Places
    <3>3. KeyAt(t, key) # 0 <=> KeyAt(old, key) # 0
      BY <3>1, <3>2
    <3> QED BY <1>0, <2>2, <3>3, ParseDomain
  <2> QED BY <2>1, <2>2
<1>2. ASSUME NEW key \in DOMAIN Parse(old) \ {"sources"}
      PROVE  Parse(t)[key] = Parse(old)[key]
  <2> DEFINE a == KeyAt(old, key)
             n == Place(a, i, c)
  <2>1. a # 0 /\ HasKey(old, a, key)
    BY <1>0, ParseDomain, KeyAtFacts
  <2>2. a \in 1 .. Len(old) /\ IsKey(old[a])
    BY <2>1 DEF HasKey
  <2>3. n = KeyAt(t, key)
    BY <2>1, KeysMove
  <2>4. n # q /\ t[n] = old[a]
    <3>1. n = q => HasKey(old, a, "sources")
      BY <2>2 DEF Grown
    <3>2. n # q
      BY <2>1, <3>1 DEF HasKey
    <3> QED BY <2>2, <3>2, SameKinds
  <2>5. /\ ItemPlaces(t, n) = {} <=> ItemPlaces(old, a) = {}
        /\ Items(t, n) = Items(old, a)
    BY <2>2, <2>4, SameItems
  <2>6. Parse(old)[key] =
            IF old[a].node # Block THEN old[a].node
            ELSE IF ItemPlaces(old, a) = {} THEN Scalar(<<>>) ELSE List(Items(old, a))
    BY ParseIs
  <2>7. Parse(t)[key] =
            IF t[n].node # Block THEN t[n].node
            ELSE IF ItemPlaces(t, n) = {} THEN Scalar(<<>>) ELSE List(Items(t, n))
    <3>1. key \in DOMAIN Parse(t)
      BY <1>1
    <3> HIDE DEF n
    <3> QED BY <2>3, <3>1, ParseIs
  <2> HIDE DEF a, n
  <2> QED BY <2>4, <2>5, <2>6, <2>7
<1>3. DOMAIN Parse(t) = DOMAIN Parse(old) \cup {"sources"}
  BY <1>1
<1> QED BY <1>2, <1>3 DEF OnlySources

LEMMA GrownText ==
  ASSUME NEW S, NEW L, NEW old, NEW t, NEW i, NEW c, NEW q, Grown(old, t, i, c, q),
         IsText(old, S, L), \A m \in 1 .. Len(t) : IsLine(t[m], S, L)
  PROVE  IsText(t, S, L)
<1>0. t \in Seq(Range(t)) /\ DOMAIN t = 1 .. Len(t)
  BY Places DEF Grown
<1>1. ASSUME NEW m \in DOMAIN t, IsKey(t[m]), t[m].node # Block PROVE ItemPlaces(t, m) = {}
  <2>1. m # q
    BY <1>1, LineKinds DEF Grown
  <2>2. m \notin i + 1 .. i + c
    BY <1>1, <2>1 DEF Grown
  <2>3. PICK k \in 1 .. Len(old) : m = Place(k, i, c)
    BY <1>0, <2>2, Places
  <2>4. t[m] = old[k] /\ IsKey(old[k])
    BY <1>1, <2>1, <2>3, SameKinds
  <2>5. ItemPlaces(old, k) = {}
    <3>1. k \in DOMAIN old
      BY Places
    <3> QED BY <1>1, <2>4, <3>1 DEF IsText
  <2> QED BY <2>1, <2>3, <2>4, <2>5, SameItems
<1> QED BY <1>0, <1>1 DEF IsText

-----------------------------------------------------------------------------
(* appendSourcesToRecipeText *)

\* The lines that items are put in, of whatever they are.
LEMMA ItemLinesType ==
  ASSUME NEW L, NEW new \in Seq(L)
  PROVE  /\ Len(new) \in Nat /\ DOMAIN new = 1 .. Len(new)
         /\ ItemLines(new) \in Seq({ItemLine(s) : s \in L})
         /\ \A l : l = Len(new) => Len(ItemLines(new)) = l
         /\ \A k \in 1 .. Len(new) : ItemLines(new)[k] = ItemLine(new[k]) /\ new[k] \in L
<1>1. Len(new) \in Nat /\ DOMAIN new = 1 .. Len(new) /\ \A k \in 1 .. Len(new) : new[k] \in L
  OBVIOUS
<1>2. ItemLines(new) = [k \in 1 .. Len(new) |-> ItemLine(new[k])]
  BY <1>1 DEF ItemLines
<1>3. \A k \in 1 .. Len(new) : ItemLine(new[k]) \in {ItemLine(s) : s \in L}
  BY <1>1
<1> QED BY <1>1, <1>2, <1>3

\* What Insert gives: c is the number of new items.
Inserted(lines, t, n, i, c, new) ==
    /\ t \in Seq(Range(t)) /\ Len(t) = Len(lines) + c
    /\ \A k \in 1 .. Len(lines) :
         t[Place(k, i, c)] = IF k = n THEN KeyLine("sources", Block) ELSE lines[k]
    /\ \A k \in 1 .. c : t[i + k] = ItemLine(new[k])

LEMMA InsertIs ==
  ASSUME NEW L, NEW lines, lines \in Seq(Range(lines)), NEW new \in Seq(L),
         NEW n \in 1 .. Len(lines), NEW i \in n .. Len(lines), NEW c, c = Len(new)
  PROVE  Inserted(lines, Insert(lines, n, i, new), n, i, c, new)
<1> DEFINE R == Range(lines) \cup {KeyLine("sources", Block)} \cup {ItemLine(s) : s \in L}
           up == [lines EXCEPT ![n] = KeyLine("sources", Block)]
           l == Len(lines)
           a == SubSeq(up, 1, i)
           m == ItemLines(new)
           b == SubSeq(up, i + 1, l)
<1>1. l \in Nat /\ i \in Nat /\ n \in Nat /\ n <= i /\ i <= l /\ DOMAIN lines = 1 .. l /\ c \in Nat
  <2>1. l \in Nat /\ DOMAIN lines = 1 .. l
    BY Lines
  <2> QED BY <2>1, ItemLinesType
<1>2. /\ up \in Seq(R) /\ Len(up) = l
      /\ \A k \in 1 .. l : up[k] = IF k = n THEN KeyLine("sources", Block) ELSE lines[k]
  <2>1. \A k \in 1 .. l : lines[k] \in R
    BY <1>1 DEF Range
  <2>2. KeyLine("sources", Block) \in R
    OBVIOUS
  <2>3. up = [k \in 1 .. l |-> IF k = n THEN KeyLine("sources", Block) ELSE lines[k]]
    BY <1>1
  <2> HIDE DEF R
  <2>4. \A k \in 1 .. l : (IF k = n THEN KeyLine("sources", Block) ELSE lines[k]) \in R
    BY <2>1, <2>2
  <2> DEFINE put == [k \in 1 .. l |-> IF k = n THEN KeyLine("sources", Block) ELSE lines[k]]
  <2>5. put \in Seq(R) /\ Len(put) = l
    BY <1>1, <2>4
  <2>6. \A k \in 1 .. l : put[k] = IF k = n THEN KeyLine("sources", Block) ELSE lines[k]
    OBVIOUS
  <2> HIDE DEF up
  <2> QED BY <2>3, <2>5, <2>6
<1>3. m \in Seq(R) /\ Len(m) = c /\ \A k \in 1 .. c : m[k] = ItemLine(new[k])
  <2>1. m \in Seq({ItemLine(s) : s \in L})
    BY ItemLinesType
  <2>2. {ItemLine(s) : s \in L} \subseteq R
    OBVIOUS
  <2>3. m \in Seq(R)
    <3> HIDE DEF R, m
    <3> QED BY <2>1, <2>2, SeqMonotonic
  <2> QED BY <2>3, ItemLinesType
<1> HIDE DEF R, up, m
<1>4. a \in Seq(R) /\ Len(a) = i /\ \A k \in 1 .. i : a[k] = up[k]
  <2>1. \A k \in 1 .. i : up[k] \in R
    BY <1>1, <1>2
  <2> QED BY <1>1, <1>2, <2>1
<1>5. b \in Seq(R) /\ Len(b) = l - i /\ \A k \in 1 .. l - i : b[k] = up[i + k]
  <2>1. \A k \in i + 1 .. l : up[k] \in R
    BY <1>1, <1>2
  <2>2. l - i \in Nat /\ \A k \in 1 .. l - i : i + k \in i + 1 .. l
    BY <1>1
  <2>3. b = [k \in 1 .. l - i |-> up[i + k]]
    <3>1. b = [k \in 1 .. l - (i + 1) + 1 |-> up[(i + 1) + k - 1]]
      OBVIOUS
    <3>2. l - (i + 1) + 1 = l - i /\ \A k \in 1 .. l - i : (i + 1) + k - 1 = i + k
      BY <1>1
    <3> HIDE DEF b
    <3> QED BY <3>1, <3>2
  <2> HIDE DEF b
  <2> QED BY <2>1, <2>2, <2>3
<1> DEFINE t == Insert(lines, n, i, new)
<1>6. t = (a \o m) \o b
  BY Zenon DEF Insert, up, m
<1> HIDE DEF a, b, t
<1> DEFINE am == a \o m
<1>0. ASSUME NEW x \in Seq(R), NEW y \in Seq(R)
      PROVE  /\ x \o y \in Seq(R) /\ Len(x \o y) = Len(x) + Len(y)
             /\ \A k \in 1 .. Len(x) + Len(y) :
                  (x \o y)[k] = IF k <= Len(x) THEN x[k] ELSE y[k - Len(x)]
  BY ConcatProperties
<1>7. /\ am \in Seq(R) /\ Len(am) = i + c
      /\ \A k \in 1 .. i + c : am[k] = IF k <= i THEN a[k] ELSE m[k - i]
  <2>1. /\ am \in Seq(R) /\ Len(am) = Len(a) + Len(m)
        /\ \A k \in 1 .. Len(a) + Len(m) :
             am[k] = IF k <= Len(a) THEN a[k] ELSE m[k - Len(a)]
    BY <1>0, <1>3, <1>4
  <2> HIDE DEF am
  <2> QED BY <1>3, <1>4, <2>1
<1> HIDE DEF am
<1>8. /\ t \in Seq(R) /\ Len(t) = l + c
      /\ \A k \in 1 .. l + c : t[k] = IF k <= i + c THEN am[k] ELSE b[k - (i + c)]
  <2>1. Len(am) + Len(b) = l + c
    BY <1>1, <1>5, <1>7
  <2>3. t = am \o b
    BY <1>6 DEF am
  <2>2. /\ t \in Seq(R) /\ Len(t) = Len(am) + Len(b)
        /\ \A k \in 1 .. Len(am) + Len(b) :
             t[k] = IF k <= Len(am) THEN am[k] ELSE b[k - Len(am)]
    BY <1>0, <1>5, <1>7, <2>3
  <2> QED BY <1>7, <2>1, <2>2
<1>9. ASSUME NEW k \in 1 .. l
      PROVE  t[Place(k, i, c)] = IF k = n THEN KeyLine("sources", Block) ELSE lines[k]
  <2>1. CASE k <= i
    <3>1. Place(k, i, c) = k /\ k \in 1 .. i /\ k \in 1 .. i + c /\ k \in 1 .. l + c /\ k <= i + c
      BY <1>1, <2>1 DEF Place
    <3>2. t[k] = up[k]
      BY <1>4, <1>7, <1>8, <2>1, <3>1
    <3> QED BY <1>2, <3>1, <3>2
  <2>2. CASE ~(k <= i)
    <3>1. /\ Place(k, i, c) = k + c /\ k + c \in 1 .. l + c /\ ~(k + c <= i + c)
          /\ (k + c) - (i + c) = k - i /\ k - i \in 1 .. l - i /\ i + (k - i) = k
      BY <1>1, <2>2 DEF Place
    <3>2. t[k + c] = b[k - i]
      BY <1>8, <3>1
    <3>3. b[k - i] = up[k]
      BY <1>5, <3>1
    <3> QED BY <1>2, <3>1, <3>2, <3>3
  <2> QED BY <2>1, <2>2
<1>10. ASSUME NEW k \in 1 .. c PROVE t[i + k] = ItemLine(new[k])
  <2>1. /\ i + k \in 1 .. i + c /\ i + k \in 1 .. l + c /\ i + k <= i + c /\ ~(i + k <= i)
        /\ (i + k) - i = k
    BY <1>1
  <2> QED BY <1>3, <1>7, <1>8, <2>1
<1>11. t \in Seq(Range(t))
  BY <1>8, SeqRange
<1>12. Inserted(lines, t, n, i, c, new)
  BY <1>8, <1>9, <1>10, <1>11 DEF Inserted
<1> QED BY <1>12 DEF t

\* After the last item there is.
LEMMA InsertGrows ==
  ASSUME NEW S, NEW L, NEW lines, IsText(lines, S, L), NEW new \in Seq(L), NEW c, c = Len(new),
         NEW n, n = KeyAt(lines, "sources"), n # 0,
         NEW i, i = Max({n} \cup ItemPlaces(lines, n)), NEW t, t = Insert(lines, n, i, new)
  PROVE  /\ Grown(lines, t, i, c, n) /\ n <= i
         /\ \A m \in 1 .. Len(t) : IsLine(t[m], S, L)
         /\ \A k \in 1 .. c : i + k \in ItemPlaces(t, n) /\ t[i + k].item = new[k]
         /\ \A k \in i + 1 .. Len(lines) : k \notin ItemPlaces(lines, n)
<1> DEFINE l == Len(lines)
<1>0. /\ lines \in Seq(Range(lines)) /\ l \in Nat /\ DOMAIN lines = 1 .. l /\ c \in Nat
      /\ \A k \in 1 .. l : IsLine(lines[k], S, L)
  <2>1. lines \in Seq(Range(lines)) /\ \A k \in DOMAIN lines : IsLine(lines[k], S, L)
    BY DEF IsText
  <2>2. l \in Nat /\ DOMAIN lines = 1 .. l
    BY <2>1, Lines
  <2> QED BY <2>1, <2>2, ItemLinesType
<1>1. HasKey(lines, n, "sources") /\ \A k : HasKey(lines, k, "sources") => n <= k
  BY <1>0, KeyAtFacts
<1>2. n \in 1 .. l /\ IsKey(lines[n]) /\ ~IsItem(lines[n])
  <2>1. n \in 1 .. l /\ IsKey(lines[n])
    BY <1>1 DEF HasKey
  <2> QED BY <1>0, <2>1, LineKinds DEF IsLine
<1>3. /\ i \in {n} \cup ItemPlaces(lines, n)
      /\ \A k \in {n} \cup ItemPlaces(lines, n) : k <= i
      /\ ItemPlaces(lines, n) \subseteq 1 .. l
  <2>1. ItemPlaces(lines, n) \subseteq 1 .. l
    BY <1>0 DEF ItemPlaces, BlockOf
  <2> DEFINE T == {n} \cup ItemPlaces(lines, n)
  <2>2. T \in SUBSET (0 .. l) /\ T # {}
    BY <1>2, <2>1
  <2> HIDE DEF T
  <2>3. Max(T) \in T /\ \A k \in T : k <= Max(T)
    BY <1>0, <2>2, MaxFacts
  <2>4. i = Max(T)
    BY DEF T
  <2>5. i \in T /\ \A k \in T : k <= i
    BY <2>3, <2>4
  <2> QED BY <2>1, <2>5 DEF T
<1>4. i \in n .. l /\ i \in Nat /\ n <= i
  <2>1. n <= i
    BY <1>3
  <2>2. i \in 1 .. l
    BY <1>2, <1>3
  <2> QED BY <1>0, <1>2, <2>1, <2>2
<1>5. \A k \in n + 1 .. i : ~IsKey(lines[k])
  <2>1. CASE i = n
    BY <1>4, <2>1
  <2>2. CASE i \in ItemPlaces(lines, n)
    BY <2>2 DEF ItemPlaces, BlockOf
  <2> QED BY <1>3, <2>1, <2>2
<1>6. Inserted(lines, t, n, i, c, new)
  BY <1>0, <1>2, <1>4, InsertIs
<1>7. t \in Seq(Range(t)) /\ Len(t) = l + c
  BY <1>6 DEF Inserted
<1>8. ASSUME NEW k \in 1 .. l
      PROVE  t[Place(k, i, c)] = IF k = n THEN KeyLine("sources", Block) ELSE lines[k]
  BY <1>6 DEF Inserted
<1>9. \A k \in 1 .. i : k \in 1 .. l /\ Place(k, i, c) = k
  BY <1>0, <1>4 DEF Place
<1>10. t[n] = KeyLine("sources", Block)
  <2>1. n \in 1 .. i
    BY <1>2, <1>4
  <2> QED BY <1>8, <1>9, <2>1
<1>11. \A k \in 1 .. l : Place(k, i, c) = n => k = n
  BY <1>0, <1>2, <1>4 DEF Place
<1>12. ASSUME NEW m \in i + 1 .. i + c
       PROVE  ~IsKey(t[m]) /\ IsItem(t[m]) /\ IsLine(t[m], S, L) /\ m - i \in 1 .. c
              /\ t[m].item = new[m - i]
  <2>1. m - i \in 1 .. c /\ i + (m - i) = m
    BY <1>0, <1>4
  <2>2. t[m] = ItemLine(new[m - i]) /\ new[m - i] \in L
    <3>1. t[i + (m - i)] = ItemLine(new[m - i])
      BY <1>6, <2>1 DEF Inserted
    <3> QED BY <2>1, <3>1, ItemLinesType
  <2> QED BY <2>1, <2>2, LineKinds DEF IsLine
<1>13. ASSUME NEW m \in i + 1 .. i + c PROVE n < m /\ \A k \in n + 1 .. m : ~IsKey(t[k])
  <2>1. n < m
    BY <1>0, <1>2, <1>4
  <2>2. ASSUME NEW k \in n + 1 .. m PROVE ~IsKey(t[k])
    <3>1. CASE k <= i
      <4>1. k \in n + 1 .. i /\ k \in 1 .. i /\ k # n
        BY <1>2, <1>4, <3>1
      <4>2. t[k] = lines[k]
        BY <1>8, <1>9, <4>1
      <4> QED BY <1>5, <4>1, <4>2
    <3>2. CASE ~(k <= i)
      <4>1. k \in i + 1 .. i + c
        BY <1>0, <1>2, <1>4, <3>2
      <4> QED BY <1>12, <4>1
    <3> QED BY <3>1, <3>2
  <2> QED BY <2>1, <2>2
<1>14. \A k : HasKey(lines, k, "sources") => n <= Place(k, i, c)
  <2> SUFFICES ASSUME NEW k, HasKey(lines, k, "sources") PROVE n <= Place(k, i, c)
    OBVIOUS
  <2>1. n <= k /\ k \in 1 .. l
    BY <1>1 DEF HasKey
  <2> QED BY <1>0, <1>2, <1>4, <2>1 DEF Place
<1>15. Grown(lines, t, i, c, n)
  <2>1. i \in 0 .. l /\ n \in 1 .. Len(t)
    BY <1>0, <1>2, <1>4, <1>7
  <2>2. ASSUME NEW k \in 1 .. l
        PROVE  IF Place(k, i, c) = n THEN HasKey(lines, k, "sources") /\ ~IsItem(lines[k])
               ELSE t[Place(k, i, c)] = lines[k]
    <3>1. CASE Place(k, i, c) = n
      <4>1. k = n
        BY <1>11, <3>1
      <4> QED BY <1>1, <1>2, <3>1, <4>1
    <3>2. CASE Place(k, i, c) # n
      <4>1. n \in 1 .. i
        BY <1>2, <1>4
      <4>2. k # n
        BY <1>9, <3>2, <4>1
      <4> QED BY <1>8, <3>2, <4>2
    <3> QED BY <3>1, <3>2
  <2>3. \A m \in i + 1 .. i + c : IsKey(t[m]) => m = n /\ i = Len(lines)
    BY <1>12
  <2>4. \A m \in i + 1 .. i + c : IsItem(t[m]) => n < m /\ \A k \in n + 1 .. m : ~IsKey(t[k])
    BY <1>13
  <2> QED BY <1>0, <1>7, <1>10, <1>14, <2>1, <2>2, <2>3, <2>4 DEF Grown
<1>16. ASSUME NEW m \in 1 .. Len(t) PROVE IsLine(t[m], S, L)
  <2>1. CASE m \in i + 1 .. i + c
    BY <1>12, <2>1
  <2>2. CASE m \notin i + 1 .. i + c
    <3>1. PICK k \in 1 .. l : m = Place(k, i, c)
      BY <1>15, <2>2, Places
    <3>2. CASE k = n
      <4>1. t[m] = KeyLine("sources", Block)
        BY <1>8, <3>1, <3>2
      <4> QED BY <4>1, LineKinds DEF IsLine
    <3>3. CASE k # n
      <4>1. t[m] = lines[k]
        BY <1>8, <3>1, <3>3
      <4> QED BY <1>0, <4>1
    <3> QED BY <3>2, <3>3
  <2> QED BY <2>1, <2>2
<1>17. ASSUME NEW k \in 1 .. c PROVE i + k \in ItemPlaces(t, n) /\ t[i + k].item = new[k]
  <2>1. i + k \in i + 1 .. i + c /\ (i + k) - i = k /\ i + k \in 1 .. l + c
    BY <1>0, <1>4
  <2>2. DOMAIN t = 1 .. l + c
    BY <1>15, Places
  <2>3. n < i + k /\ \A m \in n + 1 .. i + k : ~IsKey(t[m])
    BY <1>13, <2>1
  <2>4. IsItem(t[i + k]) /\ t[i + k].item = new[k]
    BY <1>12, <2>1
  <2>5. i + k \in BlockOf(t, n)
    BY <2>1, <2>2, <2>3 DEF BlockOf
  <2> QED BY <2>4, <2>5 DEF ItemPlaces
<1>18. ASSUME NEW k \in i + 1 .. Len(lines) PROVE k \notin ItemPlaces(lines, n)
  <2>1. ~(k <= i)
    BY <1>0, <1>4
  <2> QED BY <1>3, <2>1
<1> QED BY <1>4, <1>15, <1>16, <1>17, <1>18

\* A new block after all lines.
LEMMA NewBlockGrows ==
  ASSUME NEW S, NEW L, NEW lines, IsText(lines, S, L), NEW new \in Seq(L), NEW c, c = Len(new),
         KeyAt(lines, "sources") = 0,
         NEW l, l = Len(lines), NEW t, t = NewBlock(lines, new)
  PROVE  /\ Grown(lines, t, l, c + 2, l + 2)
         /\ \A m \in 1 .. Len(t) : IsLine(t[m], S, L)
         /\ \A k \in 1 .. c : (l + 2) + k \in ItemPlaces(t, l + 2)
                              /\ t[(l + 2) + k].item = new[k]
<1> DEFINE up == <<Other, KeyLine("sources", Block)>>
           m == ItemLines(new)
           R == Range(lines) \cup Range(up) \cup {ItemLine(s) : s \in L}
<1>0. /\ lines \in Seq(Range(lines)) /\ l \in Nat /\ DOMAIN lines = 1 .. l /\ c \in Nat
      /\ \A k \in 1 .. l : IsLine(lines[k], S, L)
  <2>1. lines \in Seq(Range(lines)) /\ \A k \in DOMAIN lines : IsLine(lines[k], S, L)
    BY DEF IsText
  <2>2. l \in Nat /\ DOMAIN lines = 1 .. l
    BY <2>1, Lines
  <2> QED BY <2>1, <2>2, ItemLinesType
<1>1. lines \in Seq(R)
  <2>1. Range(lines) \subseteq R
    OBVIOUS
  <2> HIDE DEF R
  <2> QED BY <1>0, <2>1, SeqMonotonic
<1>2. up \in Seq(R) /\ Len(up) = 2 /\ up[1] = Other /\ up[2] = KeyLine("sources", Block)
  <2>1. Len(up) = 2 /\ DOMAIN up = 1 .. 2 /\ up[1] = Other /\ up[2] = KeyLine("sources", Block)
    OBVIOUS
  <2>2. up[1] \in Range(up) /\ up[2] \in Range(up)
    <3>1. 1 \in DOMAIN up /\ 2 \in DOMAIN up
      BY <2>1
    <3> HIDE DEF up
    <3> QED BY <3>1 DEF Range
  <2>3. Other \in R /\ KeyLine("sources", Block) \in R
    BY <2>1, <2>2
  <2> HIDE DEF R
  <2> QED BY <2>1, <2>3
<1>3. m \in Seq(R) /\ Len(m) = c /\ \A k \in 1 .. c : m[k] = ItemLine(new[k]) /\ new[k] \in L
  <2>1. m \in Seq({ItemLine(s) : s \in L})
    BY ItemLinesType
  <2>2. {ItemLine(s) : s \in L} \subseteq R
    OBVIOUS
  <2>3. m \in Seq(R)
    <3> HIDE DEF R, m
    <3> QED BY <2>1, <2>2, SeqMonotonic
  <2> QED BY <2>3, ItemLinesType
<1>4. t = (lines \o up) \o m
  BY Zenon DEF NewBlock
<1> DEFINE lu == lines \o up
<1> HIDE DEF R, up, m
<1>5. ASSUME NEW x \in Seq(R), NEW y \in Seq(R)
      PROVE  /\ x \o y \in Seq(R) /\ Len(x \o y) = Len(x) + Len(y)
             /\ \A k \in 1 .. Len(x) + Len(y) :
                  (x \o y)[k] = IF k <= Len(x) THEN x[k] ELSE y[k - Len(x)]
  BY ConcatProperties
<1>6. /\ lu \in Seq(R) /\ Len(lu) = l + 2
      /\ \A k \in 1 .. l + 2 : lu[k] = IF k <= l THEN lines[k] ELSE up[k - l]
  <2>1. /\ lu \in Seq(R) /\ Len(lu) = Len(lines) + Len(up)
        /\ \A k \in 1 .. Len(lines) + Len(up) :
             lu[k] = IF k <= Len(lines) THEN lines[k] ELSE up[k - Len(lines)]
    BY <1>1, <1>2, <1>5
  <2> HIDE DEF lu
  <2> QED BY <1>2, <2>1
<1>7. t = lu \o m
  BY <1>4
<1> HIDE DEF lu
<1>8. /\ t \in Seq(R) /\ Len(t) = l + (c + 2)
      /\ \A k \in 1 .. l + (c + 2) : t[k] = IF k <= l + 2 THEN lu[k] ELSE m[k - (l + 2)]
  <2>0. /\ lu \o m \in Seq(R) /\ Len(lu \o m) = Len(lu) + Len(m)
        /\ \A k \in 1 .. Len(lu) + Len(m) :
             (lu \o m)[k] = IF k <= Len(lu) THEN lu[k] ELSE m[k - Len(lu)]
    BY <1>3, <1>5, <1>6
  <2>1. /\ t \in Seq(R) /\ Len(t) = Len(lu) + Len(m)
        /\ \A k \in 1 .. Len(lu) + Len(m) :
             t[k] = IF k <= Len(lu) THEN lu[k] ELSE m[k - Len(lu)]
    BY <1>7, <2>0, Zenon
  <2>2. Len(lu) + Len(m) = l + (c + 2)
    BY <1>0, <1>3, <1>6
  <2> QED BY <1>6, <2>1, <2>2
<1>9. t \in Seq(Range(t)) /\ DOMAIN t = 1 .. l + (c + 2)
  BY <1>8, SeqRange
<1>10. ASSUME NEW k \in 1 .. l PROVE t[k] = lines[k] /\ Place(k, l, c + 2) = k
  <2>1. k \in 1 .. l + 2 /\ k \in 1 .. l + (c + 2) /\ k <= l + 2 /\ k <= l
    BY <1>0
  <2> QED BY <1>6, <1>8, <2>1 DEF Place
<1>11. t[l + 1] = Other /\ t[l + 2] = KeyLine("sources", Block)
  <2>1. /\ l + 1 \in 1 .. l + 2 /\ l + 1 \in 1 .. l + (c + 2) /\ l + 1 <= l + 2 /\ ~(l + 1 <= l)
        /\ l + 2 \in 1 .. l + 2 /\ l + 2 \in 1 .. l + (c + 2) /\ l + 2 <= l + 2 /\ ~(l + 2 <= l)
        /\ (l + 1) - l = 1 /\ (l + 2) - l = 2
    BY <1>0
  <2>2. t[l + 1] = lu[l + 1] /\ t[l + 2] = lu[l + 2]
    BY <1>8, <2>1
  <2>3. lu[l + 1] = up[1] /\ lu[l + 2] = up[2]
    BY <1>6, <2>1
  <2> QED BY <1>2, <2>2, <2>3
<1>12. ASSUME NEW k \in 1 .. c
       PROVE  /\ (l + 2) + k \in 1 .. l + (c + 2) /\ t[(l + 2) + k] = ItemLine(new[k])
              /\ new[k] \in L
  <2>1. /\ (l + 2) + k \in 1 .. l + (c + 2) /\ ~((l + 2) + k <= l + 2)
        /\ ((l + 2) + k) - (l + 2) = k
    BY <1>0
  <2>2. t[(l + 2) + k] = m[k]
    BY <1>8, <2>1
  <2> QED BY <1>3, <2>1, <2>2
<1>13. ASSUME NEW j \in 1 .. l + (c + 2)
       PROVE  j \in 1 .. l \/ j = l + 1 \/ j = l + 2 \/ \E k \in 1 .. c : j = (l + 2) + k
  <2>1. CASE j <= l + 2
    BY <1>0, <2>1
  <2>2. CASE ~(j <= l + 2)
    <3>1. j - (l + 2) \in 1 .. c /\ j = (l + 2) + (j - (l + 2))
      BY <1>0, <2>2
    <3> QED BY <3>1
  <2> QED BY <2>1, <2>2
<1>14. ASSUME NEW j \in l + 1 .. l + (c + 2), j # l + 2 PROVE ~IsKey(t[j])
  <2>1. j \in 1 .. l + (c + 2) /\ j \notin 1 .. l
    BY <1>0
  <2>2. CASE j = l + 1
    BY <1>11, <2>2, LineKinds
  <2>3. CASE \E k \in 1 .. c : j = (l + 2) + k
    BY <1>12, <2>3, LineKinds
  <2> QED BY <1>13, <1>14, <2>1, <2>2, <2>3
<1>15. ASSUME NEW j \in l + 1 .. l + (c + 2), IsItem(t[j])
       PROVE  l + 2 < j /\ \A k \in l + 2 + 1 .. j : ~IsKey(t[k])
  <2>1. j # l + 1 /\ j # l + 2
    BY <1>11, <1>15, LineKinds
  <2>2. l + 2 < j
    BY <1>0, <2>1
  <2>3. ASSUME NEW k \in l + 2 + 1 .. j PROVE ~IsKey(t[k])
    <3>1. k \in l + 1 .. l + (c + 2) /\ k # l + 2
      BY <1>0
    <3> QED BY <1>14, <3>1
  <2> QED BY <2>2, <2>3
<1>16. Grown(lines, t, l, c + 2, l + 2)
  <2>1. l \in 0 .. Len(lines) /\ c + 2 \in Nat /\ l + 2 \in 1 .. Len(t)
    BY <1>0, <1>8
  <2>2. \A k \in 1 .. Len(lines) : Place(k, l, c + 2) # l + 2 /\ t[Place(k, l, c + 2)] = lines[k]
    <3>1. \A k \in 1 .. l : k # l + 2
      BY <1>0
    <3> QED BY <1>10, <3>1
  <2>3. \A k : ~HasKey(lines, k, "sources")
    BY <1>0, KeyAtFacts
  <2>4. \A j \in l + 1 .. l + (c + 2) : IsKey(t[j]) => j = l + 2 /\ l = Len(lines)
    BY <1>14
  <2>5. \A j \in l + 1 .. l + (c + 2) :
           IsItem(t[j]) => l + 2 < j /\ \A k \in l + 2 + 1 .. j : ~IsKey(t[k])
    BY <1>15
  <2> QED BY <1>0, <1>8, <1>9, <1>11, <2>1, <2>2, <2>3, <2>4, <2>5 DEF Grown
<1>17. ASSUME NEW j \in 1 .. Len(t) PROVE IsLine(t[j], S, L)
  <2>1. CASE j \in 1 .. l
    BY <1>0, <1>10, <2>1
  <2>2. CASE j = l + 1
    BY <1>11, <2>2 DEF IsLine
  <2>3. CASE j = l + 2
    BY <1>11, <2>3, LineKinds DEF IsLine
  <2>4. CASE \E k \in 1 .. c : j = (l + 2) + k
    BY <1>12, <2>4, LineKinds DEF IsLine
  <2> QED BY <1>8, <1>13, <2>1, <2>2, <2>3, <2>4
<1>18. ASSUME NEW k \in 1 .. c
       PROVE  (l + 2) + k \in ItemPlaces(t, l + 2) /\ t[(l + 2) + k].item = new[k]
  <2>1. IsItem(t[(l + 2) + k]) /\ t[(l + 2) + k].item = new[k]
    BY <1>12, LineKinds
  <2>2. (l + 2) + k \in l + 1 .. l + (c + 2) /\ (l + 2) + k \in DOMAIN t
    BY <1>0, <1>9
  <2>3. l + 2 < (l + 2) + k /\ \A j \in l + 2 + 1 .. (l + 2) + k : ~IsKey(t[j])
    BY <1>15, <2>1, <2>2
  <2>4. (l + 2) + k \in BlockOf(t, l + 2)
    BY <1>0, <2>2, <2>3 DEF BlockOf
  <2> QED BY <2>1, <2>4 DEF ItemPlaces
<1> QED BY <1>16, <1>17, <1>18

\* The items of a list that new ones were put at the end of: so is what each
\* line gave before.
MoreItems(t, q, so, l, i, new) ==
    LET c == Len(new)
    IN  /\ l \in Nat /\ i \in 0 .. l /\ Len(so) = l /\ Len(t) = l + c
        /\ \A k \in 1 .. i : ItemSeqs(t, q)[k] = so[k]
        /\ \A k \in i + 1 .. l : so[k] = <<>> /\ ItemSeqs(t, q)[k + c] = <<>>
        /\ \A k \in 1 .. c : i + k \in ItemPlaces(t, q) /\ t[i + k].item = new[k]

AreLines(t, S, L) == t \in Seq(Range(t)) /\ \A m \in DOMAIN t : IsLine(t[m], S, L)

LEMMA ItemsMore ==
  ASSUME NEW S, NEW L, NEW t, NEW so, NEW l, NEW i, NEW new, NEW q, so \in Seq(Seq(L)),
         new \in Seq(L), AreLines(t, S, L), MoreItems(t, q, so, l, i, new)
  PROVE  Items(t, q) = FlattenSeq(so) \o new
<1> DEFINE c == Len(new)
           st == ItemSeqs(t, q)
           e == [k \in 1 .. c |-> st[i + k]]
<1>0. /\ c \in Nat /\ l \in Nat /\ i \in 0 .. l /\ Len(so) = l /\ Len(t) = l + c
      /\ \A k \in 1 .. i : st[k] = so[k]
      /\ \A k \in i + 1 .. l : so[k] = <<>> /\ st[k + c] = <<>>
      /\ \A k \in 1 .. c : i + k \in ItemPlaces(t, q) /\ t[i + k].item = new[k]
  <2>1. c \in Nat
    OBVIOUS
  <2>2. /\ l \in Nat /\ i \in 0 .. l /\ Len(so) = l /\ Len(t) = l + c
        /\ \A k \in 1 .. i : st[k] = so[k]
        /\ \A k \in i + 1 .. l : so[k] = <<>> /\ st[k + c] = <<>>
        /\ \A k \in 1 .. c : i + k \in ItemPlaces(t, q) /\ t[i + k].item = new[k]
    BY Zenon DEF MoreItems
  <2> QED BY <2>1, <2>2
<1>1. st \in Seq(Seq(L)) /\ Items(t, q) = FlattenSeq(st) /\ Len(st) = l + c /\ DOMAIN t = 1 .. l + c
  <2>1. st \in Seq(Seq(L)) /\ Items(t, q) = FlattenSeq(st)
    <3>1. t \in Seq(Range(t)) /\ \A m \in DOMAIN t : IsLine(t[m], S, L)
      BY DEF AreLines
    <3> QED BY ONLY <3>1, ItemSeqsType
  <2>2. Len(st) = l + c
    BY <1>0, ItemSeqsLen DEF AreLines
  <2>3. DOMAIN t = 1 .. l + c
    BY <1>0, Lines DEF AreLines
  <2> QED BY <2>1, <2>2, <2>3
<1>2. \A k \in 1 .. c : st[i + k] = <<new[k]>>
  <2> SUFFICES ASSUME NEW k \in 1 .. c PROVE st[i + k] = <<new[k]>>
    OBVIOUS
  <2>1. i + k \in DOMAIN t /\ i + k \in ItemPlaces(t, q) /\ t[i + k].item = new[k]
    BY <1>0, <1>1
  <2> QED BY <2>1 DEF ItemSeqs
<1> HIDE DEF st
<1>3. Spliced(so, st, i, c)
  BY <1>0, <1>1 DEF Spliced
<1>4. e = [k \in DOMAIN new |-> <<new[k]>>]
  <2>1. DOMAIN new = 1 .. c
    OBVIOUS
  <2> QED BY <1>2, <2>1
<1>5. FlattenSeq(e) = new
  <2> HIDE DEF e
  <2> QED BY <1>4, FlattenSingles
<1>6. FlattenSeq(st) = FlattenSeq(so) \o FlattenSeq(e)
  <2>1. EmptyAfter(so, i)
    BY <1>0 DEF EmptyAfter
  <2>2. st \in Seq(Seq(L)) /\ c \in Nat /\ so \in Seq(Seq(L))
    BY <1>0, <1>1
  <2>3. e \in Seq(Seq(L)) /\ Put(st, i, c, e)
    <3>1. \A k \in 1 .. c : new[k] \in L
      OBVIOUS
    <3>2. \A k \in 1 .. c : <<new[k]>> \in Seq(L)
      BY <3>1
    <3>3. \A k \in 1 .. c : st[i + k] \in Seq(L)
      BY <1>2, <3>2
    <3> QED BY <3>3 DEF Put
  <2> HIDE DEF e
  <2> QED BY <1>3, <2>1, <2>2, <2>3, FlattenMore
<1> HIDE DEF e
<1> QED BY <1>1, <1>5, <1>6

\* A key without items has no list.
LEMMA NoItems ==
  ASSUME NEW S, NEW L, NEW lines, IsText(lines, S, L), NEW n, ItemPlaces(lines, n) = {}
  PROVE  Items(lines, n) = <<>>
<1> DEFINE st == ItemSeqs(lines, n)
<1>0. lines \in Seq(Range(lines)) /\ \A k \in DOMAIN lines : IsLine(lines[k], S, L)
  BY DEF IsText
<1>1. st \in Seq(Seq(L)) /\ Items(lines, n) = FlattenSeq(st)
  BY <1>0, ItemSeqsType
<1>2. Len(st) = Len(lines) /\ DOMAIN lines = 1 .. Len(lines)
  BY <1>0, ItemSeqsLen, Lines
<1>3. \A k \in 1 .. Len(st) : st[k] = <<>>
  BY <1>2 DEF ItemSeqs
<1> HIDE DEF st
<1> QED BY <1>1, <1>3, FlattenNothing

\* What scanRecipeSourceLines finds is what yaml.v3 reads, when there is a block.
LEMMA ScanReads ==
  ASSUME NEW S, NEW L, NEW lines, IsText(lines, S, L), NEW n, n = KeyAt(lines, "sources")
  PROVE  /\ Scan(lines) \in Seq(L)
         /\ n # 0 /\ lines[n].node # Block => Scan(lines) = <<>>
         /\ ~(n # 0 /\ lines[n].node # Block)
              => StringSlice(Parse(lines), "sources") = Scan(lines)
<1>0. lines \in Seq(Range(lines)) /\ \A k \in DOMAIN lines : IsLine(lines[k], S, L)
  BY DEF IsText
<1>1. Scan(lines) = IF n = 0 THEN <<>> ELSE Items(lines, n)
  BY DEF Scan
<1>2. Items(lines, n) \in Seq(L)
  BY <1>0, ItemSeqsType
<1>3. n # 0 => n \in DOMAIN lines /\ IsKey(lines[n])
  <2>1. n # 0 => HasKey(lines, n, "sources")
    BY <1>0, KeyAtFacts
  <2> QED BY <1>0, <2>1, Lines DEF HasKey
<1>4. ASSUME n # 0, lines[n].node # Block PROVE Scan(lines) = <<>>
  <2>1. ItemPlaces(lines, n) = {}
    BY <1>3, <1>4 DEF IsText
  <2> QED BY <1>1, <1>4, <2>1, NoItems
<1>5. CASE n = 0
  <2>1. "sources" \notin DOMAIN Parse(lines)
    BY <1>0, <1>5, ParseDomain
  <2>2. StringSlice(Parse(lines), "sources") = <<>> /\ Scan(lines) = <<>>
    BY <1>1, <1>5, <2>1 DEF StringSlice
  <2> QED BY <1>5, <2>2
<1>6. CASE n # 0
  <2>1. "sources" \in DOMAIN Parse(lines)
    BY <1>0, <1>6, ParseDomain
  <2>2. ASSUME lines[n].node = Block
        PROVE  StringSlice(Parse(lines), "sources") = Scan(lines)
    <3>1. Parse(lines)["sources"] =
            IF ItemPlaces(lines, n) = {} THEN Scalar(<<>>) ELSE List(Items(lines, n))
      BY <2>1, <2>2, ParseIs
    <3>2. CASE ItemPlaces(lines, n) = {}
      <4>1. StringSlice(Parse(lines), "sources") = <<>>
        BY <3>1, <3>2 DEF StringSlice, Scalar
      <4> QED BY <1>1, <1>6, <3>2, <4>1, NoItems
    <3>3. CASE ItemPlaces(lines, n) # {}
      <4>1. StringSlice(Parse(lines), "sources") = Items(lines, n)
        BY <2>1, <3>1, <3>3 DEF StringSlice, List
      <4> QED BY <1>1, <1>6, <4>1
    <3> QED BY <3>2, <3>3
  <2> QED BY <1>1, <1>2, <1>4, <1>6, <2>2
<1> QED BY <1>1, <1>2, <1>4, <1>5, <1>6

\* The list grows at its end, and nothing else changes.
GrownSomehow(old, t) == \E i, c, q : Grown(old, t, i, c, q)

LEMMA AppendGrows ==
  ASSUME NEW S, NEW L, NEW lines, IsText(lines, S, L), NEW new \in Seq(L),
         NEW t, t = AppendSources(lines, new)
  PROVE  /\ GrownSomehow(lines, t)
         /\ \A m \in 1 .. Len(t) : IsLine(t[m], S, L)
         /\ Scan(t) = Scan(lines) \o new
<1> DEFINE n == KeyAt(lines, "sources")
           c == Len(new)
           l == Len(lines)
<1>0. /\ lines \in Seq(Range(lines)) /\ l \in Nat /\ DOMAIN lines = 1 .. l /\ c \in Nat
      /\ \A k \in DOMAIN lines : IsLine(lines[k], S, L)
  <2>1. lines \in Seq(Range(lines)) /\ \A k \in DOMAIN lines : IsLine(lines[k], S, L)
    BY DEF IsText
  <2> QED BY <2>1, Lines, ItemLinesType
<1>1. CASE n = 0
  <2> DEFINE so == [k \in 1 .. l + 2 |-> <<>>]
  <2>1. t = NewBlock(lines, new)
    BY <1>1 DEF AppendSources
  <2>2. /\ Grown(lines, t, l, c + 2, l + 2)
        /\ \A m \in 1 .. Len(t) : IsLine(t[m], S, L)
        /\ \A k \in 1 .. c : (l + 2) + k \in ItemPlaces(t, l + 2)
                             /\ t[(l + 2) + k].item = new[k]
    BY <1>1, <2>1, NewBlockGrows
  <2>3. /\ t \in Seq(Range(t)) /\ Len(t) = (l + 2) + c /\ DOMAIN t = 1 .. Len(t)
    BY <1>0, <2>2, Places DEF Grown
  <2>4. so \in Seq(Seq(L)) /\ Len(so) = l + 2 /\ \A k \in 1 .. l + 2 : so[k] = <<>>
    <3>1. <<>> \in Seq(L)
      OBVIOUS
    <3> QED BY <1>0, <3>1
  <2>5. FlattenSeq(so) = <<>>
    <3> HIDE DEF so
    <3> QED BY <2>4, FlattenNothing
  <2>6. \A k \in 1 .. l + 2 : ItemSeqs(t, l + 2)[k] = so[k]
    <3> SUFFICES ASSUME NEW k \in 1 .. l + 2 PROVE ItemSeqs(t, l + 2)[k] = so[k]
      OBVIOUS
    <3>1. k \in DOMAIN t /\ ~(k > l + 2)
      BY <1>0, <2>3
    <3>2. k \notin ItemPlaces(t, l + 2)
      BY <3>1 DEF ItemPlaces, BlockOf
    <3> QED BY <2>4, <3>1, <3>2 DEF ItemSeqs
  <2>7. Items(t, l + 2) = FlattenSeq(so) \o new
    <3>1. AreLines(t, S, L)
      BY <2>2, <2>3 DEF AreLines
    <3>2. l + 2 \in Nat /\ l + 2 \in 0 .. l + 2 /\ (l + 2) + 1 .. l + 2 = {}
      BY <1>0
    <3>3. MoreItems(t, l + 2, so, l + 2, l + 2, new)
      <4> HIDE DEF so, l
      <4> QED BY <1>0, <2>2, <2>3, <2>4, <2>6, <3>2 DEF MoreItems
    <3> HIDE DEF so, l
    <3> QED BY <2>4, <3>1, <3>3, ItemsMore
  <2>8. KeyAt(t, "sources") = l + 2 /\ l + 2 # 0
    BY <1>0, <2>2, SourcesAt
  <2>9. Scan(t) = <<>> \o new /\ Scan(lines) = <<>>
    BY <1>1, <2>5, <2>7, <2>8 DEF Scan
  <2> QED BY <2>2, <2>9 DEF GrownSomehow
<1>2. CASE n # 0
  <2> DEFINE i == Max({n} \cup ItemPlaces(lines, n))
             so == ItemSeqs(lines, n)
  <2>1. t = Insert(lines, n, i, new)
    BY <1>2 DEF AppendSources
  <2> HIDE DEF i
  <2>2. /\ Grown(lines, t, i, c, n) /\ n <= i
        /\ \A m \in 1 .. Len(t) : IsLine(t[m], S, L)
        /\ \A k \in 1 .. c : i + k \in ItemPlaces(t, n) /\ t[i + k].item = new[k]
        /\ \A k \in i + 1 .. Len(lines) : k \notin ItemPlaces(lines, n)
    BY <1>2, <2>1, InsertGrows DEF i
  <2>3. /\ t \in Seq(Range(t)) /\ Len(t) = l + c /\ DOMAIN t = 1 .. Len(t)
        /\ i \in Nat /\ i <= l /\ i \in 0 .. l
    <3>1. t \in Seq(Range(t)) /\ i \in 0 .. Len(lines)
      BY <2>2 DEF Grown
    <3>2. Len(t) = Len(lines) + c /\ DOMAIN t = 1 .. Len(t)
      BY <2>2, Places
    <3> QED BY <1>0, <3>1, <3>2
  <2>4. so \in Seq(Seq(L)) /\ Len(so) = l /\ Items(lines, n) = FlattenSeq(so)
    BY <1>0, ItemSeqsType, ItemSeqsLen
  <2>5. n \in 1 .. l /\ Place(n, i, c) = n
    <3>1. HasKey(lines, n, "sources")
      BY <1>0, <1>2, KeyAtFacts
    <3> QED BY <2>2, <3>1 DEF HasKey, Place
  <2>6. ASSUME NEW k \in 1 .. l PROVE ItemSeqs(t, n)[Place(k, i, c)] = so[k]
    <3>1. Place(k, i, c) \in ItemPlaces(t, n) <=> k \in ItemPlaces(lines, n)
      BY <2>2, <2>5, SameBlocks
    <3>2. k \in ItemPlaces(lines, n) => t[Place(k, i, c)].item = lines[k].item
      BY <2>2, SameKinds DEF ItemPlaces
    <3>3. Place(k, i, c) \in DOMAIN t /\ k \in DOMAIN lines
      BY <1>0, <2>2, Places
    <3>4. so[k] = IF k \in ItemPlaces(lines, n) THEN <<lines[k].item>> ELSE <<>>
      BY <3>3 DEF ItemSeqs
    <3>5. ItemSeqs(t, n)[Place(k, i, c)] =
            IF Place(k, i, c) \in ItemPlaces(t, n) THEN <<t[Place(k, i, c)].item>> ELSE <<>>
      BY <3>3 DEF ItemSeqs
    <3> HIDE DEF so, n
    <3> QED BY <3>1, <3>2, <3>4, <3>5
  <2>7. \A k \in 1 .. i : ItemSeqs(t, n)[k] = so[k]
    <3>1. \A k \in 1 .. i : k \in 1 .. l /\ Place(k, i, c) = k
      BY <1>0, <2>3 DEF Place
    <3> HIDE DEF so, n
    <3> QED BY <2>6, <3>1
  <2>8. \A k \in i + 1 .. l : so[k] = <<>> /\ ItemSeqs(t, n)[k + c] = <<>>
    <3> SUFFICES ASSUME NEW k \in i + 1 .. l
                 PROVE  so[k] = <<>> /\ ItemSeqs(t, n)[k + c] = <<>>
      OBVIOUS
    <3>1. k \in 1 .. l /\ Place(k, i, c) = k + c
      BY <1>0, <2>3 DEF Place
    <3>2. so[k] = <<>>
      BY <1>0, <2>2, <3>1 DEF ItemSeqs
    <3> HIDE DEF so, n
    <3> QED BY <2>6, <3>1, <3>2
  <2>9. Items(t, n) = FlattenSeq(so) \o new
    <3>1. AreLines(t, S, L)
      BY <2>2, <2>3 DEF AreLines
    <3>2. MoreItems(t, n, so, l, i, new)
      <4> HIDE DEF so, n, l
      <4> QED BY <1>0, <2>2, <2>3, <2>4, <2>7, <2>8 DEF MoreItems
    <3> HIDE DEF so, n, l
    <3> QED BY <2>4, <3>1, <3>2, ItemsMore
  <2>10. KeyAt(t, "sources") = n
    BY <2>2, SourcesAt
  <2>11. Scan(t) = Scan(lines) \o new
    BY <1>2, <2>4, <2>9, <2>10 DEF Scan
  <2> QED BY <2>2, <2>11 DEF GrownSomehow
<1> QED BY <1>1, <1>2

LEMMA AppendFacts ==
  ASSUME NEW S, NEW L, NEW lines, IsText(lines, S, L), NEW new \in Seq(L),
         NEW t, t = AppendSources(lines, new)
  PROVE  /\ IsText(t, S, L)
         /\ Scan(t) = Scan(lines) \o new
         /\ StringSlice(Parse(t), "sources") = Scan(t)
         /\ OnlySources(Parse(lines), Parse(t))
<1>1. /\ GrownSomehow(lines, t)
      /\ \A m \in 1 .. Len(t) : IsLine(t[m], S, L)
      /\ Scan(t) = Scan(lines) \o new
  BY AppendGrows
<1>2. PICK i, c, q : Grown(lines, t, i, c, q)
  BY <1>1 DEF GrownSomehow
<1>3. IsText(t, S, L)
  BY <1>1, <1>2, GrownText
<1>4. t[KeyAt(t, "sources")].node = Block
  <2>1. KeyAt(t, "sources") = q
    BY <1>2, SourcesAt
  <2>2. t[q] = KeyLine("sources", Block)
    BY <1>2 DEF Grown
  <2> QED BY <2>1, <2>2, LineKinds
<1>5. StringSlice(Parse(t), "sources") = Scan(t)
  BY <1>3, <1>4, ScanReads
<1>6. OnlySources(Parse(lines), Parse(t))
  BY <1>1, <1>2, GrownParse
<1> QED BY <1>1, <1>3, <1>5, <1>6

-----------------------------------------------------------------------------
(* Merging. *)

IsOver(f, g, h) ==
    /\ DOMAIN h = DOMAIN f \cup DOMAIN g
    /\ \A x \in DOMAIN f : h[x] = f[x]
    /\ \A x \in DOMAIN g \ DOMAIN f : h[x] = g[x]

LEMMA OverIs == ASSUME NEW f, NEW g PROVE IsOver(f, g, Over(f, g))
BY DEF Over, IsOver

IsMerge(a, b, m) ==
    /\ DOMAIN m = DOMAIN a \cup DOMAIN b
    /\ \A k \in Both(a, b) : m[k] = MergeNode(a[k], b[k])
    /\ \A k \in DOMAIN a \ DOMAIN b : m[k] = a[k]
    /\ \A k \in DOMAIN b \ DOMAIN a : m[k] = b[k]

LEMMA MergeIs == ASSUME NEW a, NEW b PROVE IsMerge(a, b, Merge(a, b))
<1> DEFINE f == [k \in Both(a, b) |-> MergeNode(a[k], b[k])]
           g == Over(a, b)
<1>1. DOMAIN f = Both(a, b) /\ \A k \in Both(a, b) : f[k] = MergeNode(a[k], b[k])
  OBVIOUS
<1>2. Merge(a, b) = Over(f, g)
  BY DEF Merge
<1> HIDE DEF f, g
<1>3. /\ DOMAIN g = DOMAIN a \cup DOMAIN b
      /\ \A x \in DOMAIN a : g[x] = a[x]
      /\ \A x \in DOMAIN b \ DOMAIN a : g[x] = b[x]
  BY OverIs DEF g, IsOver
<1>4. /\ DOMAIN Over(f, g) = DOMAIN f \cup DOMAIN g
      /\ \A x \in DOMAIN f : Over(f, g)[x] = f[x]
      /\ \A x \in DOMAIN g \ DOMAIN f : Over(f, g)[x] = g[x]
  BY OverIs DEF IsOver
<1> QED BY <1>1, <1>2, <1>3, <1>4 DEF Both, IsMerge

\* Two nodes of one kind.
IsMergeNode(a, b, m) ==
    /\ m.kind = a.kind
    /\ a.kind = "scalar" => m.value = a.value
    /\ a.kind = "list" => m.value = a.value \o b.value
    /\ a.kind = "map" => m.value = Over(a.value, b.value)

LEMMA NodesMerge ==
  ASSUME NEW S, NEW L, NEW a, NEW b, IsNode(a, S, L), IsNode(b, S, L), a.kind = b.kind
  PROVE  IsNode(MergeNode(a, b), S, L) /\ IsMergeNode(a, b, MergeNode(a, b))
<1> DEFINE v == CASE a.kind = "scalar" -> a.value
                  [] a.kind = "list"   -> a.value \o b.value
                  [] a.kind = "map"    -> Over(a.value, b.value)
           m == MergeNode(a, b)
<1>1. m.kind = a.kind /\ m.value = v /\ m = [kind |-> m.kind, value |-> m.value]
  <2>1. a = [kind |-> a.kind, value |-> a.value]
    BY DEF IsNode
  <2>2. PICK u : u = v
    OBVIOUS
  <2>3. m = [a EXCEPT !.value = u]
    BY <2>2 DEF MergeNode
  <2> HIDE DEF v, m
  <2>4. m = [kind |-> a.kind, value |-> u]
    BY <2>1, <2>3
  <2> QED BY <2>2, <2>4
<1>2. CASE a.kind = "scalar"
  <2>1. v = a.value /\ a.value \in S
    BY <1>2 DEF IsNode
  <2> HIDE DEF v, m
  <2>2. IsNode(m, S, L)
    BY <1>1, <1>2, <2>1 DEF IsNode
  <2> QED BY <1>1, <1>2, <2>1, <2>2 DEF m, IsMergeNode
<1>3. CASE a.kind = "list"
  <2>1. v = a.value \o b.value /\ a.value \in Seq(L) /\ b.value \in Seq(L)
    BY <1>3 DEF IsNode
  <2>2. a.value \o b.value \in Seq(L)
    BY <2>1, ConcatProperties
  <2> HIDE DEF v, m
  <2>3. IsNode(m, S, L)
    BY <1>1, <1>3, <2>1, <2>2 DEF IsNode
  <2> QED BY <1>1, <1>3, <2>1, <2>3 DEF m, IsMergeNode
<1>4. CASE a.kind = "map"
  <2>1. /\ v = Over(a.value, b.value)
        /\ \A x \in DOMAIN a.value : a.value[x] \in S
        /\ \A x \in DOMAIN b.value : b.value[x] \in S
    BY <1>4 DEF IsNode
  <2> DEFINE o == Over(a.value, b.value)
  <2>2. \A x \in DOMAIN o : o[x] \in S
    <3>1. IsOver(a.value, b.value, o)
      BY OverIs
    <3> HIDE DEF o
    <3> QED BY <2>1, <3>1 DEF IsOver
  <2> HIDE DEF v, m
  <2>3. IsNode(m, S, L)
    BY <1>1, <1>4, <2>1, <2>2 DEF IsNode
  <2> QED BY <1>1, <1>4, <2>1, <2>3 DEF m, IsMergeNode
<1>5. a.kind = "scalar" \/ a.kind = "list" \/ a.kind = "map"
  BY DEF IsNode
<1> QED BY <1>2, <1>3, <1>4, <1>5

\* Two documents.
LEMMA MergeType ==
  ASSUME NEW S, NEW L, NEW a, NEW b, IsDocument(a, S, L), IsDocument(b, S, L), ~Clash(a, b)
  PROVE  IsDocument(Merge(a, b), S, L)
<1> DEFINE m == Merge(a, b)
<1> SUFFICES ASSUME NEW k \in DOMAIN m PROVE IsNode(m[k], S, L)
  BY DEF IsDocument
<1>0. IsMerge(a, b, m)
  BY MergeIs
<1> HIDE DEF m
<1>1. CASE k \in Both(a, b)
  <2>1. IsNode(a[k], S, L) /\ IsNode(b[k], S, L) /\ a[k].kind = b[k].kind
    BY <1>1 DEF IsDocument, Both, Clash
  <2>2. IsNode(MergeNode(a[k], b[k]), S, L)
    BY <2>1, NodesMerge
  <2> QED BY <1>0, <1>1, <2>2 DEF IsMerge
<1>2. CASE k \in DOMAIN a \ DOMAIN b
  BY <1>0, <1>2 DEF IsDocument, IsMerge
<1>3. CASE k \in DOMAIN b \ DOMAIN a
  BY <1>0, <1>3 DEF IsDocument, IsMerge
<1>4. k \in DOMAIN a \cup DOMAIN b
  BY <1>0 DEF IsMerge
<1> QED BY <1>1, <1>2, <1>3, <1>4 DEF Both

LEMMA SliceType ==
  ASSUME NEW S, NEW L, NEW doc, IsDocument(doc, S, L), NEW key
  PROVE  StringSlice(doc, key) \in Seq(L)
<1>1. key \in DOMAIN doc /\ doc[key].kind = "list" => doc[key].value \in Seq(L)
  BY DEF IsDocument, IsNode
<1>2. <<>> \in Seq(L)
  OBVIOUS
<1> QED BY <1>1, <1>2 DEF StringSlice

\* A list of two documents is that of the one and then that of the other.
LEMMA SlicesMerge ==
  ASSUME NEW S, NEW L, NEW a, NEW b, NEW key,
         IsDocument(a, S, L), IsDocument(b, S, L), ~Clash(a, b)
  PROVE  StringSlice(Merge(a, b), key) = StringSlice(a, key) \o StringSlice(b, key)
<1> DEFINE x == StringSlice(a, key)
           y == StringSlice(b, key)
           m == Merge(a, b)
<1> SUFFICES StringSlice(m, key) = x \o y
  OBVIOUS
<1>6. IsMerge(a, b, m)
  BY MergeIs
<1> HIDE DEF m
<1>0. x \in Seq(L) /\ y \in Seq(L)
  BY SliceType
<1>1. x \o <<>> = x /\ <<>> \o y = y /\ <<>> \o <<>> = <<>>
  <2> HIDE DEF x, y
  <2> QED BY <1>0, ConcatEmptySeq, EmptySeq
<1>2. CASE key \in Both(a, b)
  <2>1. IsNode(a[key], S, L) /\ IsNode(b[key], S, L) /\ a[key].kind = b[key].kind
    BY <1>2 DEF IsDocument, Both, Clash
  <2>2. /\ m[key].kind = a[key].kind /\ key \in DOMAIN m
        /\ a[key].kind = "list" => m[key].value = a[key].value \o b[key].value
    <3>1. m[key] = MergeNode(a[key], b[key]) /\ key \in DOMAIN m
      BY <1>2, <1>6 DEF Both, IsMerge
    <3>2. IsMergeNode(a[key], b[key], MergeNode(a[key], b[key]))
      BY <2>1, NodesMerge
    <3> QED BY <3>1, <3>2 DEF IsMergeNode
  <2>3. key \in DOMAIN a /\ key \in DOMAIN b
    BY <1>2 DEF Both
  <2>4. CASE a[key].kind = "list"
    BY <2>1, <2>2, <2>3, <2>4 DEF StringSlice
  <2>5. CASE a[key].kind # "list"
    <3>1. x = <<>> /\ y = <<>> /\ StringSlice(m, key) = <<>>
      BY <2>1, <2>2, <2>5 DEF StringSlice
    <3> QED BY <1>1, <3>1
  <2> QED BY <2>4, <2>5
<1>3. CASE key \in DOMAIN a \ DOMAIN b
  <2>1. y = <<>> /\ StringSlice(m, key) = x
    BY <1>3, <1>6 DEF StringSlice, IsMerge
  <2> QED BY <1>1, <2>1
<1>4. CASE key \in DOMAIN b \ DOMAIN a
  <2>1. x = <<>> /\ StringSlice(m, key) = y
    BY <1>4, <1>6 DEF StringSlice, IsMerge
  <2> QED BY <1>1, <2>1
<1>5. CASE key \notin DOMAIN a \cup DOMAIN b
  <2>1. x = <<>> /\ y = <<>> /\ StringSlice(m, key) = <<>>
    BY <1>5, <1>6 DEF StringSlice, IsMerge
  <2> QED BY <1>1, <2>1
<1> QED BY <1>2, <1>3, <1>4, <1>5 DEF Both

\* A document is made of more than it has to be.
LEMMA DocumentMonotonic ==
  ASSUME NEW S, NEW L, NEW M, L \subseteq M, NEW doc, IsDocument(doc, S, L)
  PROVE  IsDocument(doc, S, M)
<1>1. Seq(L) \subseteq Seq(M)
  BY SeqMonotonic
<1> QED BY <1>1 DEF IsDocument, IsNode

LEMMA ConcatPrefix ==
  ASSUME NEW S, NEW s, NEW t, s \in Seq(S), t \in Seq(S)
  PROVE  IsPrefix(s, s \o t) /\ IsPrefix(s, s)
<1>1. Len(s) \in Nat /\ Len(s \o t) = Len(s) + Len(t) /\ Len(t) \in Nat
  BY ConcatProperties, LenProperties
<1>2. SubSeq(s \o t, 1, Len(s)) = s /\ SubSeq(s, 1, Len(s)) = s
  OBVIOUS
<1> QED BY <1>1, <1>2 DEF IsPrefix

-----------------------------------------------------------------------------
(* What the files are made of, always.  S and L are the scalars that are      *)
(* values and those that are items.                                          *)

Fits(S, L) ==
    /\ S \subseteq L /\ <<>> \in S /\ <<Word("none")>> \in S
    /\ \A t \in Texts : IsText(t, S, L)
    /\ \A layout \in Layouts : \A p \in DOMAIN layout : IsDocument(layout[p], S, L)
    /\ AllPatches \subseteq L

LEMMA ParseFits ==
  ASSUME NEW S, NEW L, Fits(S, L), NEW lines, IsText(lines, S, L)
  PROVE  IsDocument(Parse(lines), S, L)
<1>1. L \cup S = L /\ <<>> \in S
  BY DEF Fits
<1>2. IsDocument(Parse(lines), S, L \cup S)
  BY <1>1, ParseType
<1> QED BY <1>1, <1>2

\* The patches to add are some of the new ones.
LEMMA UnknownType ==
  ASSUME NEW S, NEW new \in Seq(S), NEW known
  PROVE  /\ Unknown(new, known) \in Seq(S)
         /\ \A x : x \in Range(Unknown(new, known)) <=> x \in Range(new) /\ x \notin known
         /\ \A x \in Range(new) : x \notin known => Once(Unknown(new, known), x)
<1> DEFINE ss == [n \in DOMAIN new |->
                    IF new[n] \in known \/ \E m \in 1 .. n - 1 : new[m] = new[n]
                    THEN <<>> ELSE <<new[n]>>]
           l == Len(new)
<1>1. l \in Nat /\ DOMAIN new = 1 .. l /\ \A n \in 1 .. l : new[n] \in S
  OBVIOUS
<1>2. /\ ss \in Seq(Seq(S)) /\ Len(ss) = l
      /\ \A n \in 1 .. l :
           ss[n] = IF new[n] \in known \/ \E m \in 1 .. n - 1 : new[m] = new[n]
                   THEN <<>> ELSE <<new[n]>>
  <2>1. \A n \in 1 .. l : ss[n] \in Seq(S)
    <3>1. \A n \in 1 .. l : <<new[n]>> \in Seq(S) /\ <<>> \in Seq(S)
      BY <1>1
    <3> QED BY <1>1, <3>1
  <2> QED BY <1>1, <2>1
<1>3. Unknown(new, known) = FlattenSeq(ss)
  BY DEF Unknown
<1> HIDE DEF ss, l
<1>4. FlattenSeq(ss) \in Seq(S)
  BY <1>2, FlattenType
<1>5. \A x : x \in Range(<<x>>) /\ \A y : y \in Range(<<x>>) => y = x
  BY DEF Range
<1>6. Range(<<>>) = {}
  BY DEF Range
<1>7. ASSUME NEW x, NEW n \in 1 .. l, x \in Range(ss[n])
      PROVE  new[n] = x /\ x \notin known /\ \A m \in 1 .. n - 1 : new[m] # x
  <2>1. ~(new[n] \in known \/ \E m \in 1 .. n - 1 : new[m] = new[n])
    BY <1>2, <1>6, <1>7
  <2>2. ss[n] = <<new[n]>>
    BY <1>2, <2>1
  <2>3. x = new[n]
    BY <1>5, <1>7, <2>2
  <2> QED BY <2>1, <2>3
<1>8. ASSUME NEW x, x \in Range(new), x \notin known
      PROVE  Once(FlattenSeq(ss), x) /\ x \in Range(FlattenSeq(ss))
  <2> DEFINE T == {n \in 1 .. l : new[n] = x}
  <2>1. T \in SUBSET Nat /\ T # {}
    BY <1>1, <1>8 DEF Range
  <2>2. PICK n \in T : \A k \in T : n <= k
    BY <2>1, LeastNatural
  <2>3. n \in 1 .. l /\ new[n] = x
    BY <2>2
  <2>4. ~ \E m \in 1 .. n - 1 : new[m] = new[n]
    <3> SUFFICES ASSUME NEW m \in 1 .. n - 1, new[m] = new[n] PROVE FALSE
      OBVIOUS
    <3>1. m \in T /\ ~(n <= m)
      BY <1>1, <2>3
    <3> QED BY <2>2, <3>1
  <2>5. ss[n] = <<x>>
    BY <1>2, <1>8, <2>3, <2>4
  <2>6. Once(ss[n], x)
    <3>1. 1 \in DOMAIN <<x>> /\ \A k \in DOMAIN <<x>> : k = 1 /\ <<x>>[k] = x
      OBVIOUS
    <3> QED BY <2>5, <3>1 DEF Once
  <2>7. ASSUME NEW k \in 1 .. l, k # n PROVE x \notin Range(ss[k])
    <3> SUFFICES ASSUME x \in Range(ss[k]) PROVE FALSE
      OBVIOUS
    <3>1. new[k] = x /\ \A m \in 1 .. k - 1 : new[m] # x
      BY <1>7
    <3>2. k \in T
      BY <3>1
    <3>3. n \in 1 .. k - 1
      BY <1>1, <2>2, <2>3, <2>7, <3>2
    <3> QED BY <2>3, <3>1, <3>3
  <2>8. Once(FlattenSeq(ss), x)
    BY <1>2, <2>3, <2>6, <2>7, FlattenOnce
  <2> QED BY <2>8, OnceIsIn
<1>9. ASSUME NEW x, x \in Range(FlattenSeq(ss)) PROVE x \in Range(new) /\ x \notin known
  <2>1. PICK n \in 1 .. l : x \in Range(ss[n])
    BY <1>2, <1>9, FlattenRange
  <2> QED BY <1>1, <1>7, <2>1 DEF Range
<1> QED BY <1>3, <1>4, <1>8, <1>9

LEMMA PatchesType ==
  ASSUME NEW new \in Patches
  PROVE  /\ new \in Seq(Range(new)) /\ Range(new) \subseteq AllPatches
         /\ \A n \in DOMAIN new : new[n] \in AllPatches
<1>1. new \in Seq(Range(new))
  BY RecipeFilesAssumption, SeqRange
<1> QED BY <1>1 DEF AllPatches, Range

\* What workspace-finish or somebody by hand puts in is a list of patches.
AppendsTo(new) == text' = AppendSources(text, new) /\ new # <<>>

LEMMA TextStep ==
  ASSUME Next
  PROVE  text' = text \/ \E new \in Seq(AllPatches) : AppendsTo(new)
<1>1. ASSUME NEW new \in Patches, RecordWorkspacePatches(new)
      PROVE  text' = text \/ \E add \in Seq(AllPatches) : AppendsTo(add)
  <2>1. Add(new) \in Seq(Range(new))
    BY PatchesType, UnknownType DEF Add
  <2>2. Add(new) \in Seq(AllPatches)
    BY <2>1, PatchesType, SeqMonotonic
  <2> QED BY <1>1, <2>2 DEF RecordWorkspacePatches, AppendsTo
<1>2. ASSUME NEW new \in Patches, NEW n \in DOMAIN new, ListByHand(new[n])
      PROVE  \E add \in Seq(AllPatches) : AppendsTo(add)
  <2>1. <<new[n]>> \in Seq(AllPatches) /\ <<new[n]>> # <<>>
    BY PatchesType
  <2> QED BY <1>2, <2>1 DEF ListByHand, AppendsTo
<1>3. ASSUME Goes \/ LoadRecipe \/ Interrupt PROVE text' = text
  BY <1>3 DEF Goes, MergeNext, Return, Loaded, Replace, NextSource, Resolved,
              LoadRecipe, Interrupt
<1> QED BY <1>1, <1>2, <1>3 DEF Next, People

LEMMA FoundIs ==
  ASSUME NEW dir, NEW name, Found(dir, name) # <<>>
  PROVE  Found(dir, name) \in DOMAIN files
<1> DEFINE places == <<<<dir, name>>, <<Project, name>>, <<Virtual, name>>>>
           there == {n \in DOMAIN places : places[n] \in DOMAIN files}
<1>1. Found(dir, name) = IF there = {} THEN <<>> ELSE places[Min(there)]
  BY DEF Found
<1>2. there # {} /\ Found(dir, name) = places[Min(there)]
  BY <1>1
<1>3. there \in SUBSET Nat
  OBVIOUS
<1>4. \A n \in there : places[n] \in DOMAIN files
  OBVIOUS
<1> HIDE DEF there, places
<1>5. Min(there) \in there
  BY <1>2, <1>3, MinFacts
<1> QED BY <1>2, <1>4, <1>5

\* A load merges a document.
LEMMA UpdateMade ==
  ASSUME NEW S, NEW L, NEW document, NEW dir, NEW node, NEW below,
         IsDocument(document, S, L), IsDocument(node, S, L), IsDocument(config, S, L),
         UpdateFrom(document, dir, node, below)
  PROVE  IsDocument(config', S, L)
<1>1. CASE Clash(node, document)
  BY <1>1 DEF UpdateFrom
<1>2. CASE ~Clash(node, document)
  <2>1. config' = Merge(node, document)
    BY <1>2 DEF UpdateFrom
  <2>2. ~Clash(node, document) /\ IsDocument(Merge(node, document), S, L)
    BY <1>2, MergeType
  <2> QED BY <2>1, <2>2
<1> QED BY <1>1, <1>2

NewConfig == [cache |-> Scalar(<<Word("none")>>)]

LEMMA NewConfigType ==
  ASSUME NEW S, NEW L, <<Word("none")>> \in S
  PROVE  IsDocument(NewConfig, S, L) /\ DOMAIN NewConfig = {"cache"}
         /\ NewConfig["cache"].kind = "scalar"
<1>1. DOMAIN NewConfig = {"cache"} /\ NewConfig["cache"] = Scalar(<<Word("none")>>)
  BY DEF NewConfig
<1>2. IsNode(Scalar(<<Word("none")>>), S, L) /\ Scalar(<<Word("none")>>).kind = "scalar"
  BY DEF Scalar, IsNode
<1> QED BY <1>1, <1>2 DEF IsDocument

Made(S, L) == IsText(text, S, L) /\ files \in Layouts /\ IsDocument(config, S, L)

LEMMA MadeInit == ASSUME NEW S, NEW L, Fits(S, L), Init PROVE Made(S, L)
<1>1. IsText(text, S, L) /\ files \in Layouts
  BY DEF Init, Fits
<1>2. IsDocument(config, S, L)
  BY DEF Init, IsDocument
<1> QED BY <1>1, <1>2 DEF Made

LEMMA MadeStep ==
  ASSUME NEW S, NEW L, Fits(S, L), Made(S, L), [Next]_vars
  PROVE  Made(S, L)'
<1>1. CASE UNCHANGED vars
  BY <1>1 DEF vars, Made
<1>2. CASE Next
  <2>1. files' = files /\ files \in Layouts
    BY <1>2 DEF Next, Goes, People, MergeNext, Return, Loaded, Replace, NextSource, Resolved,
                LoadRecipe, Interrupt, RecordWorkspacePatches, ListByHand, Made
  <2>2. IsText(text', S, L)
    <3>1. CASE text' = text
      BY <3>1 DEF Made
    <3>2. ASSUME NEW new \in Seq(AllPatches), AppendsTo(new) PROVE IsText(text', S, L)
      <4>1. new \in Seq(L)
        BY SeqMonotonic DEF Fits
      <4>2. IsText(text, S, L)
        BY DEF Made
      <4> QED BY <3>2, <4>1, <4>2, AppendFacts DEF AppendsTo
    <3> QED BY <1>2, <3>1, <3>2, TextStep
  <2>3. IsDocument(config', S, L)
    <3>0. IsDocument(config, S, L) /\ IsText(text, S, L)
      BY DEF Made
    <3>1. CASE config' = config
      BY <3>0, <3>1
    <3>2. CASE LoadRecipe
      <4>1. UpdateFrom(Parse(text), Home, NewConfig, <<>>)
        BY <3>2 DEF LoadRecipe, NewConfig
      <4>2. IsDocument(Parse(text), S, L)
        BY <3>0, ParseFits
      <4>3. IsDocument(NewConfig, S, L)
        BY NewConfigType DEF Fits
      <4> QED BY <3>0, <4>1, <4>2, <4>3, UpdateMade
    <3>3. CASE MergeNext
      <4> DEFINE top == Last(stack)
                 found == Found(top.dir, Head(top.names))
                 below == Append(Front(stack), [top EXCEPT !.names = Tail(@)])
      <4>1. CASE found = <<>>
        BY <3>0, <3>3, <4>1 DEF MergeNext
      <4>2. CASE found # <<>>
        <5>1. UpdateFrom(files[found], found[1], config, below)
          BY <3>3, <4>2 DEF MergeNext
        <5>2. found \in DOMAIN files
          BY <4>2, FoundIs
        <5>3. IsDocument(files[found], S, L)
          BY <2>1, <5>2 DEF Fits
        <5> HIDE DEF found, below
        <5> QED BY <3>0, <5>1, <5>3, UpdateMade
      <4> QED BY <4>1, <4>2
    <3>4. config' = config \/ LoadRecipe \/ MergeNext
      BY <1>2 DEF Next, Goes, People, Return, Loaded, Replace, NextSource, Resolved,
                  Interrupt, RecordWorkspacePatches, ListByHand
    <3> QED BY <3>1, <3>2, <3>3, <3>4
  <2> QED BY <2>1, <2>2, <2>3 DEF Made
<1> QED BY <1>1, <1>2

\* Recipes and files are made of scalars.
LEMMA FitsScalars == Fits(Scalars, Scalars)
<1>1. <<>> \in Scalars /\ <<Word("none")>> \in Scalars
  BY RecipeFilesAssumption DEF Scalars
<1>2. AllPatches \subseteq Scalars
  <2> SUFFICES ASSUME NEW new \in Patches PROVE Range(new) \subseteq Scalars
    BY DEF AllPatches
  <2> QED BY RecipeFilesAssumption, RangeOfSeq
<1>3. /\ \A t \in Texts : IsText(t, Scalars, Scalars)
      /\ \A layout \in Layouts : \A p \in DOMAIN layout : IsDocument(layout[p], Scalars, Scalars)
  BY RecipeFilesAssumption
<1> QED BY <1>1, <1>2, <1>3 DEF Fits

\* The recipe, the files and the merged configuration are always made of the
\* scalars of the instance: so are what LoadRecipe merges and what
\* workspace-finish writes.
THEOREM MadeOfScalars == Spec => []Made(Scalars, Scalars)
<1>1. Init => Made(Scalars, Scalars)
  BY FitsScalars, MadeInit
<1>2. Made(Scalars, Scalars) /\ [Next]_vars => Made(Scalars, Scalars)'
  BY FitsScalars, MadeStep
<1> QED BY <1>1, <1>2, PTL DEF Spec

\* workspace-finish, and whoever lists a patch by hand, only adds to a recipe: all
\* other keys read as before, and the list of sources begins with what was there
\* (appendSourcesToRecipeText), unless it was written in brackets.
THEOREM FinishOnlyAdds == Spec => OnlyAdds
<1> DEFINE old == Parse(text)
           new == Parse(text')
           n == KeyAt(text, "sources")
<1>1. ASSUME Made(Scalars, Scalars), Next PROVE Adds
  <2>1. IsText(text, Scalars, Scalars)
    BY <1>1 DEF Made
  <2>2. Scan(text) \in Seq(Scalars)
    BY <2>1, ScanReads
  <2>3. \/ n # 0 /\ text[n].node # Block
        \/ StringSlice(old, "sources") = Scan(text)
    BY <2>1, ScanReads
  <2>4. CASE text' = text
    <3>1. new = old
      BY <2>4
    <3>2. \/ n # 0 /\ text[n].node # Block
          \/ IsPrefix(StringSlice(old, "sources"), StringSlice(new, "sources"))
      <4>1. IsPrefix(Scan(text), Scan(text))
        BY <2>2, ConcatPrefix
      <4> HIDE DEF old, new, n
      <4> QED BY <2>3, <3>1, <4>1
    <3> HIDE DEF old, new, n
    <3>3. /\ DOMAIN new = DOMAIN old
          /\ \A key \in DOMAIN old \ {"sources"} : new[key] = old[key]
      <4> HIDE DEF old, new
      <4> QED BY <2>4, <3>1
    <3> QED BY <2>4, <3>2, <3>3 DEF Adds, old, new, n
  <2>5. ASSUME NEW add \in Seq(AllPatches), AppendsTo(add) PROVE Adds
    <3>1. add \in Seq(Scalars) /\ text' = AppendSources(text, add)
      BY <2>5, FitsScalars, SeqMonotonic DEF Fits, AppendsTo
    <3>2. /\ Scan(text') = Scan(text) \o add
          /\ StringSlice(new, "sources") = Scan(text')
          /\ OnlySources(old, new)
      BY <2>1, <3>1, AppendFacts
    <3>3. IsPrefix(Scan(text), Scan(text) \o add)
      BY <2>2, <3>1, ConcatPrefix
    <3>4. text' # text
      <4>0. SUFFICES ASSUME text' = text PROVE FALSE
        OBVIOUS
      <4>1. Scan(text) = Scan(text) \o add
        BY <3>2, <4>0
      <4>2. add # <<>>
        BY <2>5 DEF AppendsTo
      <4> HIDE DEF old, new, n
      <4> QED BY <2>2, <3>1, <4>1, <4>2, ConcatEqualIffEmpty
    <3> QED BY <2>3, <3>2, <3>3, <3>4 DEF OnlySources, Adds
  <2> QED BY <1>1, <2>4, <2>5, TextStep
<1>2. Made(Scalars, Scalars) /\ [Next]_vars => [Adds]_vars
  BY <1>1
<1> QED BY <1>2, MadeOfScalars, PTL DEF Spec, OnlyAdds

-----------------------------------------------------------------------------
(* What sources become. *)

\* S has with some scalars what becomes of them, and what ignite is configured
\* with.
Closed(S) ==
    /\ S \subseteq Scalars /\ <<Word("_pkgupd_build_dir")>> \in S
    /\ \A name \in DOMAIN Globals : Globals[name] \in S
    /\ \A s, t \in S : s \o t \in S
    /\ \A s \in S : \A i, j \in Nat : 1 <= i /\ j <= Len(s) => SubSeq(s, i, j) \in S

LEMMA SubSeqType ==
  ASSUME NEW S, NEW s \in Seq(S), NEW i \in Nat, NEW j \in Nat, 1 <= i, j <= Len(s)
  PROVE  SubSeq(s, i, j) \in Seq(S)
<1>1. \A k \in i .. j : s[k] \in S
  OBVIOUS
<1> QED BY <1>1, SubSeqProperties

LEMMA ScalarsClosed == Closed(Scalars)
<1>1. \A s, t \in Scalars : s \o t \in Scalars
  BY ConcatProperties DEF Scalars
<1>2. \A s \in Scalars : \A i, j \in Nat : 1 <= i /\ j <= Len(s) => SubSeq(s, i, j) \in Scalars
  BY SubSeqType DEF Scalars
<1> QED BY <1>1, <1>2, RecipeFilesAssumption DEF Closed

Gives(f, S) == \A x \in DOMAIN f : f[x] \in S

LEMMA OverGives ==
  ASSUME NEW S, NEW f, NEW g, Gives(f, S), Gives(g, S)
  PROVE  Gives(Over(f, g), S)
<1> DEFINE h == Over(f, g)
<1>1. IsOver(f, g, h)
  BY OverIs
<1> HIDE DEF h
<1>2. Gives(h, S)
  BY <1>1 DEF IsOver, Gives
<1> QED BY <1>2 DEF h

LEMMA VariablesType ==
  ASSUME NEW S, NEW L, Closed(S), IsDocument(config, S, L)
  PROVE  \A name \in DOMAIN Variables : Variables[name] \in S
<1> DEFINE b == [k \in {"build-dir"} |-> <<Word("_pkgupd_build_dir")>>]
           v == ScalarMap(config, "variables")
           t == TopScalars(config)
<1>1. Gives(b, S)
  BY DEF Closed, Gives
<1>2. Gives(v, S)
  BY DEF ScalarMap, IsDocument, IsNode, Gives
<1>3. Gives(t, S)
  BY DEF TopScalars, IsDocument, IsNode, Gives
<1>4. Gives(Globals, S)
  BY DEF Closed, Gives
<1>5. Variables = Over(b, Over(v, Over(t, Globals)))
  BY DEF Variables
<1> HIDE DEF b, v, t
<1>6. Gives(Over(t, Globals), S)
  BY <1>3, <1>4, OverGives
<1>7. Gives(Over(v, Over(t, Globals)), S)
  BY <1>2, <1>6, OverGives
<1>8. Gives(Variables, S)
  BY <1>1, <1>5, <1>7, OverGives
<1> QED BY <1>8 DEF Gives

LEMMA ValueType ==
  ASSUME NEW S, NEW L, Closed(S), IsDocument(config, S, L),
         NEW piece \in Piece, ~IsWord(piece), Defined(piece)
  PROVE  Value(piece) \in S
<1>1. \A name \in DOMAIN Variables : Variables[name] \in S
  BY VariablesType
<1>2. CASE "name" \in DOMAIN piece
  <2>1. piece.name \in DOMAIN Variables
    BY <1>2 DEF Defined
  <2> QED BY <1>1, <1>2, <2>1 DEF Value
<1>3. CASE "name" \notin DOMAIN piece
  <2>1. "version" \in DOMAIN Variables /\ piece.part < Len(Variables["version"])
    BY <1>3 DEF Defined
  <2>2. piece.part \in Nat
    BY <1>3, RecipeFilesAssumption
  <2> DEFINE v == Variables["version"]
  <2>3. v \in S /\ v \in Seq(Piece) /\ piece.part < Len(v)
    BY <1>1, <2>1 DEF Closed, Scalars
  <2>4. Value(piece) = SubSeq(v, 1, piece.part)
    BY <1>3 DEF Value
  <2> HIDE DEF v
  <2>5. SubSeq(v, 1, piece.part) \in S
    <3>1. 1 \in Nat /\ 1 <= 1 /\ piece.part <= Len(v)
      BY <2>2, <2>3
    <3> QED BY <2>2, <2>3, <3>1 DEF Closed
  <2> QED BY <2>4, <2>5
<1> QED BY <1>2, <1>3

\* A source has one of its variables replaced.
Becomes(r, n) == n \in 1 .. Len(sources) /\ sources' = [sources EXCEPT ![n] = r]

LEMMA ReplaceType ==
  ASSUME NEW S, NEW L, Closed(S), IsDocument(config, S, L),
         sources \in Seq(Scalars), at \in 0 .. Len(sources), Replace, sources[at + 1] \in S
  PROVE  /\ sources' = sources \/ \E r \in S : Becomes(r, at + 1)
         /\ Open(sources[at + 1]) # {}
<1> DEFINE s == sources[at + 1]
<1>1. at + 1 \in 1 .. Len(sources) /\ s \in Seq(Piece)
  BY DEF Replace, Scalars
<1>2. PICK n \in Open(s) :
        IF Defined(s[n])
        THEN sources' = [sources EXCEPT ![at + 1] =
                SubSeq(s, 1, n - 1) \o Value(s[n]) \o SubSeq(s, n + 1, Len(s))]
        ELSE sources' = sources
  BY DEF Replace
<1>3. n \in 1 .. Len(s) /\ ~IsWord(s[n]) /\ s[n] \in Piece
  BY <1>1 DEF Open
<1>4. ASSUME Defined(s[n])
      PROVE  (SubSeq(s, 1, n - 1) \o Value(s[n])) \o SubSeq(s, n + 1, Len(s)) \in S
  <2>1. Value(s[n]) \in S
    BY <1>3, <1>4, ValueType
  <2>2. SubSeq(s, 1, n - 1) \in S
    <3>1. 1 \in Nat /\ n - 1 \in Nat /\ 1 <= 1 /\ n - 1 <= Len(s)
      BY <1>1, <1>3
    <3> HIDE DEF s
    <3> QED BY <3>1 DEF Closed, s
  <2>3. SubSeq(s, n + 1, Len(s)) \in S
    <3>1. n + 1 \in Nat /\ Len(s) \in Nat /\ 1 <= n + 1 /\ Len(s) <= Len(s)
      BY <1>1, <1>3
    <3> HIDE DEF s
    <3> QED BY <3>1 DEF Closed, s
  <2> HIDE DEF s
  <2>4. SubSeq(s, 1, n - 1) \o Value(s[n]) \in S
    BY <2>1, <2>2 DEF Closed
  <2> QED BY <2>3, <2>4 DEF Closed
<1>5. Open(s) # {}
  BY <1>2
<1> DEFINE r == (SubSeq(s, 1, n - 1) \o Value(s[n])) \o SubSeq(s, n + 1, Len(s))
<1>6. CASE Defined(s[n])
  <2>1. r \in S /\ sources' = [sources EXCEPT ![at + 1] = r]
    BY <1>2, <1>4, <1>6
  <2> HIDE DEF r
  <2>2. Becomes(r, at + 1)
    BY <1>1, <2>1 DEF Becomes
  <2> QED BY <1>5, <2>1, <2>2
<1>7. CASE ~Defined(s[n])
  BY <1>2, <1>5, <1>7
<1> QED BY <1>6, <1>7

-----------------------------------------------------------------------------
(* The types. *)

Frames == [dir : Dirs, names : Seq(Scalars)]

\* The end of a sequence that is not empty, and the rest.
LEMMA LastFront ==
  ASSUME NEW S, NEW s \in Seq(S), s # <<>>
  PROVE  /\ Len(s) \in Nat \ {0} /\ Last(s) = s[Len(s)] /\ Last(s) \in S
         /\ Front(s) \in Seq(S) /\ Len(Front(s)) = Len(s) - 1
         /\ \A k \in 1 .. Len(s) - 1 : Front(s)[k] = s[k]
<1>1. Len(s) \in Nat \ {0} /\ s[Len(s)] \in S
  BY EmptySeq
<1>2. Front(s) = SubSeq(s, 1, Len(s) - 1)
  BY DEF Front
<1>3. \A k \in 1 .. Len(s) - 1 : s[k] \in S
  BY <1>1
<1>4. /\ SubSeq(s, 1, Len(s) - 1) \in Seq(S)
      /\ Len(SubSeq(s, 1, Len(s) - 1)) = Len(s) - 1
      /\ \A k \in 1 .. Len(s) - 1 : SubSeq(s, 1, Len(s) - 1)[k] = s[k]
  <2> DEFINE l == Len(s) - 1
             t == SubSeq(s, 1, l)
  <2>1. l \in Int /\ 1 \in Int /\ l \in Nat /\ \A k \in 1 .. l : s[k] \in S
    BY <1>1, <1>3
  <2> HIDE DEF l
  <2>2. /\ t \in Seq(S) /\ Len(t) = IF 1 <= l THEN l - 1 + 1 ELSE 0
        /\ \A k \in 1 .. l - 1 + 1 : t[k] = s[1 + k - 1]
    BY <2>1, SubSeqProperties
  <2> HIDE DEF t
  <2>3. t \in Seq(S) /\ Len(t) = l /\ \A k \in 1 .. l : t[k] = s[k]
    BY <2>1, <2>2
  <2> QED BY <2>3 DEF l, t
<1> QED BY <1>1, <1>2, <1>4 DEF Last

\* The call on top turns to the next name.
Below(s) == Append(Front(s), [Last(s) EXCEPT !.names = Tail(@)])

LEMMA BelowType ==
  ASSUME NEW s \in Seq(Frames), s # <<>>, Last(s).names # <<>>
  PROVE  /\ Below(s) \in Seq(Frames) /\ Len(Below(s)) = Len(s)
         /\ \A k \in 1 .. Len(s) - 1 : Below(s)[k] = s[k]
         /\ Below(s)[Len(s)] = [dir |-> Last(s).dir, names |-> Tail(Last(s).names)]
         /\ Last(s).dir \in Dirs /\ Last(s).names \in Seq(Scalars)
<1> DEFINE f == [dir |-> Last(s).dir, names |-> Tail(Last(s).names)]
<1>1. /\ Last(s) \in Frames /\ Front(s) \in Seq(Frames)
      /\ Len(s) \in Nat \ {0} /\ Len(Front(s)) = Len(s) - 1
      /\ \A k \in 1 .. Len(s) - 1 : Front(s)[k] = s[k]
  BY LastFront
<1>2. Last(s).dir \in Dirs /\ Last(s).names \in Seq(Scalars)
  BY <1>1 DEF Frames
<1>3. f \in Frames
  <2>1. Tail(Last(s).names) \in Seq(Scalars)
    BY <1>2, HeadTailProperties
  <2> QED BY <1>2, <2>1 DEF Frames
<1>4. [Last(s) EXCEPT !.names = Tail(@)] = f
  <2> DEFINE r == Last(s)
             u == Tail(r.names)
  <2>1. r = [dir |-> r.dir, names |-> r.names]
    <3>1. r \in [dir : Dirs, names : Seq(Scalars)]
      BY <1>1 DEF Frames
    <3> HIDE DEF r
    <3> QED BY <3>1
  <2> HIDE DEF r, u
  <2>2. [r EXCEPT !.names = u] = [dir |-> r.dir, names |-> u]
    BY <2>1
  <2> QED BY <2>2 DEF r, u
<1> HIDE DEF f
<1>5. ASSUME NEW t \in Seq(Frames), Len(t) = Len(s) - 1
      PROVE  /\ Append(t, f) \in Seq(Frames) /\ Len(Append(t, f)) = Len(s)
             /\ \A k \in 1 .. Len(s) - 1 : Append(t, f)[k] = t[k]
             /\ Append(t, f)[Len(s)] = f
  <2>1. /\ Append(t, f) \in Seq(Frames) /\ Len(Append(t, f)) = Len(t) + 1
        /\ \A k \in 1 .. Len(t) : Append(t, f)[k] = t[k]
        /\ Append(t, f)[Len(t) + 1] = f
    BY <1>3, AppendProperties
  <2>2. Len(t) = Len(s) - 1 /\ Len(t) + 1 = Len(s)
    BY <1>1, <1>5
  <2> QED BY <2>1, <2>2
<1>6. Below(s) = Append(Front(s), f)
  BY <1>4 DEF Below
<1> DEFINE t == Front(s)
<1>7. t \in Seq(Frames) /\ Len(t) = Len(s) - 1 /\ \A k \in 1 .. Len(s) - 1 : t[k] = s[k]
  BY <1>1
<1> HIDE DEF t
<1>8. /\ Append(t, f) \in Seq(Frames) /\ Len(Append(t, f)) = Len(s)
      /\ \A k \in 1 .. Len(s) - 1 : Append(t, f)[k] = s[k]
      /\ Append(t, f)[Len(s)] = f
  BY <1>5, <1>7
<1> QED BY <1>2, <1>6, <1>8 DEF f, t

\* A file that was found has a directory.
LEMMA FoundDir ==
  ASSUME NEW dir, NEW name, Found(dir, name) # <<>>, files \in Layouts
  PROVE  Found(dir, name)[1] \in Dirs
<1>1. Found(dir, name) \in UNION {DOMAIN layout : layout \in Layouts}
  BY FoundIs
<1> QED BY <1>1 DEF Dirs

\* The calls when a document is merged.
LEMMA UpdateStack ==
  ASSUME NEW document, NEW dir \in Dirs, NEW node, NEW below \in Seq(Frames),
         IsDocument(document, Scalars, Scalars), UpdateFrom(document, dir, node, below)
  PROVE  stack' \in Seq(Frames) /\ phase' \in {"load", "failed"}
<1>1. CASE Clash(node, document)
  BY <1>1 DEF UpdateFrom, End
<1>2. CASE ~Clash(node, document)
  <2> DEFINE f == [dir |-> dir, names |-> StringSlice(document, "merge")]
  <2>1. f \in Frames
    <3>1. StringSlice(document, "merge") \in Seq(Scalars)
      BY SliceType
    <3> QED BY <3>1 DEF Frames
  <2>2. stack' = Append(below, f) /\ phase' = "load"
    BY <1>2 DEF UpdateFrom
  <2> HIDE DEF f
  <2> QED BY <2>1, <2>2, AppendProperties
<1> QED BY <1>1, <1>2

\* A turn of the loop over the names to merge.
LEMMA MergeNextDoes ==
  ASSUME MergeNext, NEW found, found = Found(Last(stack).dir, Head(Last(stack).names))
  PROVE  /\ phase = "load" /\ stack # <<>> /\ Last(stack).names # <<>>
         /\ Len(stack) <= MaxDepth
         /\ found = <<>> => End("failed") /\ config' = config
         /\ found # <<>> => UpdateFrom(files[found], found[1], config, Below(stack))
BY DEF MergeNext, Below

Kinds == {"idle", "load", "loaded", "ready", "failed"}

LEMMA StackStep ==
  ASSUME Made(Scalars, Scalars), stack \in Seq(Frames), Next
  PROVE  stack' \in Seq(Frames) /\ (phase \in Kinds => phase' \in Kinds)
<1>0. Made(Scalars, Scalars) /\ files \in Layouts
  BY DEF Made
<1>1. CASE LoadRecipe
  <2>1. UpdateFrom(Parse(text), Home, [cache |-> Scalar(<<Word("none")>>)], <<>>)
    BY <1>1 DEF LoadRecipe
  <2>2. IsDocument(Parse(text), Scalars, Scalars) /\ Home \in Dirs /\ <<>> \in Seq(Frames)
    BY FitsScalars, ParseFits DEF Made, Dirs
  <2> QED BY <2>1, <2>2, UpdateStack DEF Kinds
<1>2. CASE MergeNext
  <2> DEFINE found == Found(Last(stack).dir, Head(Last(stack).names))
  <2>1. /\ stack # <<>> /\ Last(stack).names # <<>>
        /\ found = <<>> => End("failed")
        /\ found # <<>> => UpdateFrom(files[found], found[1], config, Below(stack))
    BY <1>2, MergeNextDoes
  <2>2. CASE found = <<>>
    BY <2>1, <2>2 DEF End, Kinds
  <2>3. CASE found # <<>>
    <3>1. found \in DOMAIN files /\ found[1] \in Dirs
      BY <1>0, <2>3, FoundIs, FoundDir
    <3>2. IsDocument(files[found], Scalars, Scalars)
      BY <1>0, <3>1, FitsScalars DEF Fits
    <3>3. Below(stack) \in Seq(Frames)
      BY <2>1, BelowType
    <3> HIDE DEF found
    <3> QED BY <2>1, <2>3, <3>1, <3>2, <3>3, UpdateStack DEF Kinds
  <2> QED BY <2>2, <2>3
<1>3. CASE Return
  BY <1>3, LastFront DEF Return
<1>4. CASE Interrupt
  BY <1>4 DEF Interrupt, End, Kinds
<1>5. CASE Loaded \/ Replace \/ NextSource \/ Resolved
  BY <1>5 DEF Loaded, Replace, NextSource, Resolved, Kinds
<1>6. ASSUME NEW new \in Patches,
             RecordWorkspacePatches(new) \/ \E n \in DOMAIN new : ListByHand(new[n])
      PROVE  stack' \in Seq(Frames) /\ (phase \in Kinds => phase' \in Kinds)
  BY <1>6 DEF RecordWorkspacePatches, ListByHand, Kinds
<1> QED BY <1>1, <1>2, <1>3, <1>4, <1>5, <1>6 DEF Next, Goes, People

\* The sources, and how many of them are resolved.
Resolving ==
    sources \in Seq(Scalars) /\ at \in 0 .. Len(sources) /\ (phase = "load" => at = 0)

LEMMA BecomesType ==
  ASSUME NEW r \in Scalars, NEW n, Becomes(r, n), sources \in Seq(Scalars)
  PROVE  /\ sources' \in Seq(Scalars) /\ Len(sources') = Len(sources)
         /\ sources'[n] = r
         /\ \A k \in 1 .. Len(sources) : k # n => sources'[k] = sources[k]
<1>1. n \in 1 .. Len(sources) /\ sources' = [sources EXCEPT ![n] = r]
  BY DEF Becomes
<1> QED BY <1>1, ExceptSeq

LEMMA ResolvingStep ==
  ASSUME Made(Scalars, Scalars), Resolving, Next
  PROVE  Resolving'
<1>0. /\ IsDocument(config, Scalars, Scalars) /\ sources \in Seq(Scalars)
      /\ at \in 0 .. Len(sources) /\ (phase = "load" => at = 0)
  BY DEF Made, Resolving
<1>1. CASE UNCHANGED <<sources, at>> /\ (phase' = "load" => phase = "load")
  BY <1>0, <1>1 DEF Resolving
<1>2. CASE LoadRecipe
  <2>1. sources' = <<>> /\ at' = 0
    BY <1>2 DEF LoadRecipe
  <2>2. <<>> \in Seq(Scalars) /\ Len(<<>>) = 0
    OBVIOUS
  <2> QED BY <2>1, <2>2 DEF Resolving
<1>3. CASE Loaded
  <2>1. StringSlice(config, "sources") \in Seq(Scalars)
    BY <1>0, SliceType
  <2>2. sources' \in Seq(Scalars) /\ at' = 0
    BY <1>0, <1>3, <2>1 DEF Loaded
  <2>3. 0 \in 0 .. Len(sources')
    BY <2>2
  <2> QED BY <2>2, <2>3 DEF Resolving
<1>4. CASE Replace
  <2>1. at + 1 \in 1 .. Len(sources) /\ at' = at /\ phase' # "load"
    BY <1>0, <1>4 DEF Replace
  <2>2. sources[at + 1] \in Scalars
    BY <1>0, <2>1
  <2>3. sources' = sources \/ \E r \in Scalars : Becomes(r, at + 1)
    BY <1>0, <1>4, <2>2, ScalarsClosed, ReplaceType
  <2>4. CASE sources' = sources
    BY <1>0, <2>1, <2>4 DEF Resolving
  <2>5. ASSUME NEW r \in Scalars, Becomes(r, at + 1) PROVE Resolving'
    <3>1. sources' \in Seq(Scalars) /\ Len(sources') = Len(sources)
      BY <1>0, <2>5, BecomesType
    <3> QED BY <1>0, <2>1, <3>1 DEF Resolving
  <2> QED BY <2>3, <2>4, <2>5
<1>5. CASE NextSource
  <2>1. at' = at + 1 /\ at < Len(sources) /\ sources' = sources /\ phase = "loaded" /\ phase' = phase
    BY <1>5 DEF NextSource
  <2> QED BY <1>0, <2>1 DEF Resolving
<1>6. CASE MergeNext \/ Return \/ Resolved \/ Interrupt
  <2>1. UNCHANGED <<sources, at>> /\ (phase' = "load" => phase = "load")
    BY <1>6 DEF MergeNext, Return, Resolved, Interrupt, End
  <2> QED BY <1>1, <2>1
<1>7. ASSUME NEW new \in Patches,
             RecordWorkspacePatches(new) \/ \E n \in DOMAIN new : ListByHand(new[n])
      PROVE  Resolving'
  <2>1. UNCHANGED <<sources, at>> /\ (phase' = "load" => phase = "load")
    BY <1>7 DEF RecordWorkspacePatches, ListByHand
  <2> QED BY <1>1, <2>1
<1> QED BY <1>2, <1>3, <1>4, <1>5, <1>6, <1>7 DEF Next, Goes, People

\* What is on record are patches.
LEMMA RecordedStep ==
  ASSUME recorded \subseteq AllPatches, Next
  PROVE  recorded' \subseteq AllPatches
<1>1. ASSUME NEW new \in Patches, RecordWorkspacePatches(new)
      PROVE  recorded' \subseteq AllPatches
  BY <1>1, PatchesType DEF RecordWorkspacePatches
<1>2. ASSUME Goes \/ LoadRecipe \/ Interrupt PROVE recorded' = recorded
  BY <1>2 DEF Goes, MergeNext, Return, Loaded, Replace, NextSource, Resolved,
              LoadRecipe, Interrupt
<1>3. ASSUME NEW patch, ListByHand(patch) PROVE recorded' = recorded
  BY <1>3 DEF ListByHand
<1> QED BY <1>1, <1>2, <1>3 DEF Next, People

\* Type correctness: the lines, the files and the calls of a load are always as
\* TypeOK says.
THEOREM TypeCorrect == Spec => []TypeOK
<1>1. TypeOK <=> /\ Made(Scalars, Scalars) /\ phase \in Kinds /\ stack \in Seq(Frames)
                 /\ sources \in Seq(Scalars) /\ at \in 0 .. Len(sources)
                 /\ recorded \subseteq AllPatches
  BY DEF TypeOK, Made, Kinds, Frames
<1> DEFINE Types == /\ phase \in Kinds /\ stack \in Seq(Frames) /\ Resolving
                    /\ recorded \subseteq AllPatches
<1>2. Init => Types
  <2>1. <<>> \in Seq(Frames) /\ <<>> \in Seq(Scalars) /\ 0 \in 0 .. Len(<<>>)
    OBVIOUS
  <2> QED BY <2>1 DEF Init, Kinds, Resolving
<1>3. Made(Scalars, Scalars) /\ Types /\ [Next]_vars => Types'
  <2> SUFFICES ASSUME Made(Scalars, Scalars), Types, [Next]_vars PROVE Types'
    OBVIOUS
  <2>1. CASE Next
    BY <2>1, StackStep, ResolvingStep, RecordedStep
  <2>2. CASE UNCHANGED vars
    BY <2>2 DEF vars, Resolving
  <2> QED BY <2>1, <2>2
<1>4. Made(Scalars, Scalars) /\ Types => TypeOK
  BY <1>1 DEF Resolving
<1> HIDE DEF Types
<1> QED BY <1>2, <1>3, <1>4, MadeOfScalars, PTL DEF Spec

-----------------------------------------------------------------------------
(* Each patch once.  p is a patch, w a word of its name that is nowhere else.  *)

New(w) == {s \in Scalars : w \notin Range(s)}

LEMMA NewClosed ==
  ASSUME NEW p, NEW w, IsNew(p, w)
  PROVE  Closed(New(w))
<1>1. <<Word("_pkgupd_build_dir")>> \in New(w) /\ \A name \in DOMAIN Globals : Globals[name] \in New(w)
  BY DEF IsNew, New
<1>2. ASSUME NEW s \in New(w), NEW t \in New(w) PROVE s \o t \in New(w)
  <2>1. s \in Seq(Piece) /\ t \in Seq(Piece) /\ w \notin Range(s) /\ w \notin Range(t)
    BY DEF New, Scalars
  <2>2. s \o t \in Seq(Piece) /\ Range(s \o t) = Range(s) \cup Range(t)
    BY <2>1, ConcatProperties, RangeConcatenation
  <2>3. w \notin Range(s \o t)
    BY <2>1, <2>2
  <2> QED BY <2>2, <2>3 DEF New, Scalars
<1>3. ASSUME NEW s \in New(w), NEW i \in Nat, NEW j \in Nat, 1 <= i, j <= Len(s)
      PROVE  SubSeq(s, i, j) \in New(w)
  <2>1. s \in Seq(Piece) /\ w \notin Range(s)
    BY DEF New, Scalars
  <2>2. s \in Seq(Range(s))
    BY <2>1, SeqRange
  <2>3. SubSeq(s, i, j) \in Seq(Piece) /\ SubSeq(s, i, j) \in Seq(Range(s))
    BY <1>3, <2>1, <2>2, SubSeqType
  <2>4. Range(SubSeq(s, i, j)) \subseteq Range(s)
    BY <2>3, RangeOfSeq
  <2> QED BY <2>1, <2>3, <2>4 DEF New, Scalars
<1> QED BY <1>1, <1>2, <1>3 DEF Closed, New

LEMMA NewFits ==
  ASSUME NEW p, NEW w, IsNew(p, w)
  PROVE  Fits(New(w), New(w) \cup {p}) /\ p \notin New(w) /\ Open(p) = {}
<1>1. <<>> \in New(w)
  <2>1. Range(<<>>) = {} /\ <<>> \in Seq(Piece)
    BY DEF Range
  <2> QED BY <2>1 DEF New, Scalars
<1>2. <<Word("none")>> \in New(w) /\ AllPatches \subseteq New(w) \cup {p}
  BY DEF IsNew, New
<1>3. \A t \in Texts : IsText(t, New(w), New(w) \cup {p})
  BY DEF IsNew, New
<1>4. ASSUME NEW layout \in Layouts, NEW q \in DOMAIN layout
      PROVE  IsDocument(layout[q], New(w), New(w) \cup {p})
  <2>1. IsDocument(layout[q], New(w), New(w))
    BY DEF IsNew, New
  <2>2. New(w) \subseteq New(w) \cup {p}
    OBVIOUS
  <2> QED BY <2>1, <2>2, DocumentMonotonic
<1>5. p \notin New(w) /\ Open(p) = {}
  BY DEF IsNew, New, Open
<1> QED BY <1>1, <1>2, <1>3, <1>4, <1>5 DEF Fits

\* An item that is in the lines once at most is in the list once at most.
LEMMA TextOnce ==
  ASSUME NEW S, NEW L, NEW t, IsText(t, S, L), NEW p,
         \A i, j \in {n \in DOMAIN t : IsItem(t[n]) /\ t[n].item = p} : i = j
  PROVE  Once(Scan(t), p) \/ p \notin Range(Scan(t))
<1> DEFINE n == KeyAt(t, "sources")
           ss == ItemSeqs(t, n)
<1> SUFFICES ASSUME p \in Range(Scan(t)) PROVE Once(Scan(t), p)
  OBVIOUS
<1>1. Range(<<>>) = {} /\ \A x : x \in Range(<<x>>) /\ \A y : y \in Range(<<x>>) => y = x
  BY DEF Range
<1>2. Scan(t) = Items(t, n)
  BY <1>1 DEF Scan
<1>3. t \in Seq(Range(t)) /\ \A k \in DOMAIN t : IsLine(t[k], S, L)
  BY DEF IsText
<1>4. ss \in Seq(Seq(L)) /\ Items(t, n) = FlattenSeq(ss)
  BY <1>3, ItemSeqsType
<1>5. Len(ss) = Len(t) /\ DOMAIN t = 1 .. Len(t)
  BY <1>3, ItemSeqsLen, Lines
<1>6. \A k \in 1 .. Len(ss) :
        ss[k] = IF k \in ItemPlaces(t, n) THEN <<t[k].item>> ELSE <<>>
  BY <1>5 DEF ItemSeqs
<1> HIDE DEF ss
<1>7. PICK k \in 1 .. Len(ss) : p \in Range(ss[k])
  BY <1>2, <1>4, FlattenRange
<1>8. ASSUME NEW j \in 1 .. Len(ss), p \in Range(ss[j])
      PROVE  j \in DOMAIN t /\ IsItem(t[j]) /\ t[j].item = p /\ ss[j] = <<p>>
  <2>1. j \in ItemPlaces(t, n)
    BY <1>1, <1>6, <1>8
  <2>2. ss[j] = <<t[j].item>>
    BY <1>6, <2>1
  <2>3. t[j].item = p
    BY <1>1, <1>8, <2>2
  <2> QED BY <1>5, <2>1, <2>2, <2>3 DEF ItemPlaces
<1>9. Once(ss[k], p)
  <2>1. ss[k] = <<p>>
    BY <1>7, <1>8
  <2>2. 1 \in DOMAIN <<p>> /\ \A j \in DOMAIN <<p>> : j = 1 /\ <<p>>[j] = p
    OBVIOUS
  <2> QED BY <2>1, <2>2 DEF Once
<1>10. \A j \in 1 .. Len(ss) : j # k => p \notin Range(ss[j])
  BY <1>7, <1>8
<1>11. Once(FlattenSeq(ss), p)
  BY <1>4, <1>7, <1>9, <1>10, FlattenOnce
<1> QED BY <1>2, <1>4, <1>11

\* The list that was loaded has a patch that is on record, and no patch that is
\* not in the lines.
Listed(p) ==
    LET s == StringSlice(config, "sources")
    IN  (p \in recorded => Once(s, p)) /\ (p \in Range(s) => Once(Scan(text), p))

\* What the sources became: a patch is what it was, and nothing else becomes it.
Kept(p, w) ==
    LET s == StringSlice(config, "sources")
    IN  /\ Len(sources) = Len(s)
        /\ \A k \in 1 .. Len(s) : IF s[k] = p THEN sources[k] = p ELSE sources[k] \in New(w)

Lists(p) ==
    /\ Once(Scan(text), p) \/ p \notin Range(Scan(text))
    /\ p \in recorded => Once(Scan(text), p)

Clean(p, w) ==
    /\ Made(New(w), New(w) \cup {p}) /\ Lists(p)
    /\ phase \in {"load", "loaded", "ready"} => Listed(p)
    /\ phase \in {"loaded", "ready"} => Kept(p, w)

\* The recipe is read: its patches are in a block, or there are none.
LEMMA LoadLists ==
  ASSUME NEW p, NEW w, IsNew(p, w), Made(New(w), New(w) \cup {p}), Lists(p),
         ~Clash(NewConfig, Parse(text)), config' = Merge(NewConfig, Parse(text)),
         UNCHANGED <<text, recorded>>
  PROVE  Listed(p)'
<1> DEFINE G == New(w)
           n == KeyAt(text, "sources")
           s == StringSlice(Parse(text), "sources")
<1>0. Fits(G, G \cup {p}) /\ p \notin G /\ IsText(text, G, G \cup {p})
  BY NewFits DEF Made
<1>1. IsDocument(NewConfig, G, G \cup {p}) /\ IsDocument(Parse(text), G, G \cup {p})
  BY <1>0, NewConfigType, ParseFits DEF Fits
<1>2. StringSlice(config', "sources") = StringSlice(NewConfig, "sources") \o s
  BY <1>1, SlicesMerge
<1>3. StringSlice(NewConfig, "sources") = <<>>
  BY <1>0, NewConfigType DEF Fits, StringSlice
<1>4. s \in Seq(G \cup {p})
  BY <1>1, SliceType
<1> HIDE DEF s
<1>5. StringSlice(config', "sources") = s
  BY <1>2, <1>3, <1>4, ConcatEmptySeq
<1>6. CASE n # 0 /\ text[n].node # Block
  <2>1. Scan(text) = <<>>
    BY <1>0, <1>6, ScanReads
  <2>2. ~Once(Scan(text), p)
    <3>1. Range(<<>>) = {}
      BY DEF Range
    <3> QED BY <2>1, <3>1, OnceIsIn
  <2>3. s \in Seq(G)
    <3>1. text \in Seq(Range(text))
      BY <1>0 DEF IsText
    <3>2. HasKey(text, n, "sources") /\ "sources" \in DOMAIN Parse(text)
      BY <1>6, <3>1, KeyAtFacts, ParseDomain
    <3>3. n \in DOMAIN text /\ IsKey(text[n])
      BY <3>1, <3>2, Lines DEF HasKey
    <3>4. IsNode(text[n].node, G, G)
      <4>1. IsLine(text[n], G, G \cup {p})
        BY <1>0, <3>3 DEF IsText
      <4> QED BY <1>6, <3>3, <4>1, LineKinds DEF IsLine
    <3>5. Parse(text)["sources"] = text[n].node
      BY <1>6, <3>2, ParseIs
    <3>6. <<>> \in Seq(G)
      OBVIOUS
    <3> QED BY <3>4, <3>5, <3>6 DEF s, StringSlice, IsNode
  <2>4. p \notin Range(s)
    BY <1>0, <2>3, RangeOfSeq
  <2> QED BY <1>5, <2>2, <2>4 DEF Listed, Lists
<1>7. CASE ~(n # 0 /\ text[n].node # Block)
  <2>1. s = Scan(text)
    BY <1>0, <1>7, ScanReads DEF s
  <2> QED BY <1>5, <2>1 DEF Listed, Lists
<1> QED BY <1>6, <1>7

\* Another file is merged: it lists no patches.
LEMMA MergeLists ==
  ASSUME NEW p, NEW w, IsNew(p, w), Made(New(w), New(w) \cup {p}), Listed(p),
         NEW found \in DOMAIN files,
         ~Clash(config, files[found]), config' = Merge(config, files[found]),
         UNCHANGED <<text, recorded>>
  PROVE  Listed(p)'
<1> DEFINE G == New(w)
           s == StringSlice(config, "sources")
           d == files[found]
           t == StringSlice(d, "sources")
<1>0. p \notin G /\ files \in Layouts /\ IsDocument(config, G, G \cup {p})
  BY NewFits DEF Made
<1>1. IsDocument(d, G, G) /\ IsDocument(d, G, G \cup {p})
  <2>1. IsDocument(d, G, G)
    BY <1>0 DEF IsNew, New
  <2>2. G \subseteq G \cup {p}
    OBVIOUS
  <2> HIDE DEF G, d
  <2> QED BY <2>1, <2>2, DocumentMonotonic
<1>2. StringSlice(config', "sources") = s \o t
  BY <1>0, <1>1, SlicesMerge
<1>3. s \in Seq(G \cup {p}) /\ t \in Seq(G \cup {p}) /\ t \in Seq(G)
  BY <1>0, <1>1, SliceType
<1>4. p \notin Range(t)
  BY <1>0, <1>3, RangeOfSeq
<1>5. (p \in recorded => Once(s, p)) /\ (p \in Range(s) => Once(Scan(text), p))
  BY DEF Listed
<1> HIDE DEF s, t
<1>6. Once(s, p) => Once(s \o t, p)
  BY <1>3, <1>4, OnceConcat
<1>7. Range(s \o t) = Range(s) \cup Range(t)
  BY <1>3, RangeConcatenation
<1> QED BY <1>2, <1>4, <1>5, <1>6, <1>7 DEF Listed

\* New patches are put in the lines, but those that are there or were loaded.
LEMMA FinishLists ==
  ASSUME NEW p, NEW w, IsNew(p, w), Made(New(w), New(w) \cup {p}), Lists(p), Listed(p),
         NEW new \in Patches, RecordWorkspacePatches(new)
  PROVE  Lists(p)'
<1> DEFINE L == New(w) \cup {p}
           s == StringSlice(config, "sources")
           t == Scan(text)
           known == Range(s) \cup Range(t)
           add == Unknown(new, known)
<1>0. Fits(New(w), L) /\ IsText(text, New(w), L)
  BY NewFits DEF Made
<1>1. new \in Seq(L)
  <2>1. new \in Seq(Range(new)) /\ Range(new) \subseteq L
    BY <1>0, PatchesType DEF Fits
  <2> QED BY <2>1, SeqMonotonic
<1>2. t \in Seq(L)
  BY <1>0, ScanReads
<1>3. /\ text' = IF add = <<>> THEN text ELSE AppendSources(text, add)
      /\ recorded' = recorded \cup Range(new)
  BY DEF RecordWorkspacePatches, Add
<1>4. /\ add \in Seq(L)
      /\ p \in Range(add) <=> p \in Range(new) /\ p \notin known
      /\ p \in Range(new) /\ p \notin known => Once(add, p)
  <2> HIDE DEF L, known
  <2> QED BY <1>1, UnknownType
<1>5. /\ Once(t, p) \/ p \notin Range(t)
      /\ p \in recorded => Once(t, p)
      /\ p \in Range(s) => Once(t, p)
  BY DEF Lists, Listed
<1> HIDE DEF add, t, L
<1>6. Scan(text') = t \o add
  <2>1. CASE add = <<>>
    <3>1. t \o add = t /\ text' = text
      BY <1>2, <1>3, <2>1, ConcatEmptySeq
    <3> QED BY <3>1 DEF t
  <2>2. CASE add # <<>>
    <3>1. text' = AppendSources(text, add)
      BY <1>3, <2>2
    <3> QED BY <1>0, <1>4, <3>1, AppendFacts DEF t
  <2> QED BY <2>1, <2>2
<1>7. CASE p \in Range(add)
  <2>1. p \notin Range(t) /\ Once(add, p)
    BY <1>4, <1>7
  <2>2. Once(t \o add, p)
    BY <1>2, <1>4, <2>1, OnceConcat
  <2> QED BY <1>6, <2>2 DEF Lists
<1>8. CASE p \notin Range(add)
  <2>1. Once(t, p) => Once(t \o add, p)
    BY <1>2, <1>4, <1>8, OnceConcat
  <2>2. Range(t \o add) = Range(t) \cup Range(add)
    BY <1>2, <1>4, RangeConcatenation
  <2>3. p \in recorded' => Once(t, p)
    <3>1. p \in Range(new) => p \in Range(s) \/ p \in Range(t)
      BY <1>4, <1>8
    <3> QED BY <1>3, <1>5, <3>1
  <2> QED BY <1>5, <1>6, <1>8, <2>1, <2>2, <2>3 DEF Lists
<1> QED BY <1>7, <1>8

\* Somebody lists a patch that is not in the lines.
LEMMA HandLists ==
  ASSUME NEW p, NEW w, IsNew(p, w), Made(New(w), New(w) \cup {p}), Lists(p), Listed(p),
         NEW patch \in AllPatches, ListByHand(patch)
  PROVE  Lists(p)' /\ Listed(p)'
<1> DEFINE L == New(w) \cup {p}
           t == Scan(text)
           add == <<patch>>
<1>0. Fits(New(w), L) /\ IsText(text, New(w), L)
  BY NewFits DEF Made
<1>1. patch \in L /\ add \in Seq(L)
  BY <1>0 DEF Fits
<1>2. t \in Seq(L) /\ patch \notin Range(t)
  BY <1>0, ScanReads DEF ListByHand
<1>3. text' = AppendSources(text, add) /\ UNCHANGED <<config, recorded>>
  BY DEF ListByHand
<1>4. patch \in Range(add) /\ \A x \in Range(add) : x = patch
  BY DEF Range
<1>5. Once(add, patch)
  <2>1. 1 \in DOMAIN <<patch>> /\ \A k \in DOMAIN <<patch>> : k = 1 /\ <<patch>>[k] = patch
    OBVIOUS
  <2> QED BY <2>1 DEF Once
<1> HIDE DEF add, t, L
<1>6. Scan(text') = t \o add
  BY <1>0, <1>1, <1>3, AppendFacts DEF t
<1>7. Range(t \o add) = Range(t) \cup Range(add)
  BY <1>1, <1>2, RangeConcatenation
<1>8. Once(t, p) => Once(t \o add, p)
  <2>1. Once(t, p) => p \notin Range(add)
    BY <1>2, <1>4, OnceIsIn
  <2> QED BY <1>1, <1>2, <2>1, OnceConcat
<1>9. p \in Range(add) => Once(t \o add, p)
  <2>1. p \in Range(add) => p = patch
    BY <1>4
  <2> QED BY <1>1, <1>2, <1>5, <2>1, OnceConcat
<1>10. /\ Once(t, p) \/ p \notin Range(t)
       /\ p \in recorded => Once(t, p)
       /\ p \in recorded => Once(StringSlice(config, "sources"), p)
       /\ p \in Range(StringSlice(config, "sources")) => Once(t, p)
  BY DEF Lists, Listed, t
<1>11. Lists(p)'
  BY <1>3, <1>6, <1>7, <1>8, <1>9, <1>10 DEF Lists
<1>12. Listed(p)'
  BY <1>3, <1>6, <1>8, <1>10 DEF Listed
<1> QED BY <1>11, <1>12

\* A variable is replaced, which a patch has none of.
LEMMA ReplaceKeeps ==
  ASSUME NEW p, NEW w, IsNew(p, w), IsDocument(config, New(w), New(w) \cup {p}),
         Kept(p, w), sources \in Seq(Scalars), at \in 0 .. Len(sources), Replace
  PROVE  Kept(p, w)'
<1> DEFINE G == New(w)
           s == StringSlice(config, "sources")
           n == at + 1
<1>1. n \in 1 .. Len(sources) /\ UNCHANGED config /\ Open(sources[n]) # {}
  BY DEF Replace
<1>2. /\ Len(sources) = Len(s)
      /\ \A k \in 1 .. Len(s) : IF s[k] = p THEN sources[k] = p ELSE sources[k] \in G
  BY DEF Kept
<1>3. s[n] # p /\ sources[n] \in G
  <2>1. Open(p) = {}
    BY NewFits
  <2> HIDE DEF s, G, n
  <2> QED BY <1>1, <1>2, <2>1
<1>4. sources' = sources \/ \E r \in G : Becomes(r, n)
  BY <1>3, NewClosed, ReplaceType
<1>5. CASE sources' = sources
  BY <1>1, <1>5 DEF Kept
<1>6. ASSUME NEW r \in G, Becomes(r, n) PROVE Kept(p, w)'
  <2>1. r \in Scalars
    BY DEF New
  <2>2. /\ Len(sources') = Len(sources) /\ sources'[n] = r
        /\ \A k \in 1 .. Len(sources) : k # n => sources'[k] = sources[k]
    BY <1>6, <2>1, BecomesType
  <2>3. ASSUME NEW k \in 1 .. Len(s)
        PROVE  IF s[k] = p THEN sources'[k] = p ELSE sources'[k] \in G
    <3> HIDE DEF s, G, n
    <3> QED BY <1>2, <1>3, <2>2
  <2> QED BY <1>1, <1>2, <2>2, <2>3 DEF Kept
<1> QED BY <1>4, <1>5, <1>6

LEMMA CleanStep ==
  ASSUME NEW p, NEW w, IsNew(p, w), Clean(p, w), Resolving, Next
  PROVE  Clean(p, w)'
<1> DEFINE G == New(w)
           L == New(w) \cup {p}
<1>0. /\ Made(G, L) /\ Lists(p)
      /\ phase \in {"load", "loaded", "ready"} => Listed(p)
      /\ phase \in {"loaded", "ready"} => Kept(p, w)
  BY DEF Clean
<1>1. Made(G, L)'
  <2>1. Fits(G, L)
    BY NewFits
  <2> HIDE DEF G, L
  <2> QED BY <1>0, <2>1, MadeStep
<1>2. sources \in Seq(Scalars) /\ at \in 0 .. Len(sources) /\ IsDocument(config, G, L)
  BY <1>0 DEF Resolving, Made
<1>3. UNCHANGED <<text, recorded>> => Lists(p)'
  BY <1>0 DEF Lists
<1>4. UNCHANGED <<text, recorded, config>> /\ Listed(p) => Listed(p)'
  BY DEF Listed
<1>5. UNCHANGED <<config, sources>> /\ Kept(p, w) => Kept(p, w)'
  BY DEF Kept
<1>6. CASE LoadRecipe
  <2>1. UpdateFrom(Parse(text), Home, NewConfig, <<>>) /\ UNCHANGED <<text, recorded>>
    BY <1>6 DEF LoadRecipe, NewConfig
  <2>2. CASE Clash(NewConfig, Parse(text))
    <3>1. phase' = "failed"
      BY <2>1, <2>2 DEF UpdateFrom, End
    <3> QED BY <1>1, <1>3, <2>1, <3>1 DEF Clean
  <2>3. CASE ~Clash(NewConfig, Parse(text))
    <3>1. phase' = "load" /\ config' = Merge(NewConfig, Parse(text))
      BY <2>1, <2>3 DEF UpdateFrom
    <3>2. Listed(p)'
      BY <1>0, <2>1, <2>3, <3>1, LoadLists
    <3> QED BY <1>1, <1>3, <2>1, <3>1, <3>2 DEF Clean
  <2> QED BY <2>2, <2>3
<1>7. CASE MergeNext
  <2> DEFINE found == Found(Last(stack).dir, Head(Last(stack).names))
  <2>1. /\ phase = "load" /\ UNCHANGED <<text, recorded>>
        /\ found = <<>> => End("failed") /\ config' = config
        /\ found # <<>> => UpdateFrom(files[found], found[1], config, Below(stack))
    BY <1>7, MergeNextDoes DEF MergeNext
  <2>2. CASE found = <<>>
    <3>1. phase' = "failed"
      BY <2>1, <2>2 DEF End
    <3> QED BY <1>1, <1>3, <2>1, <3>1 DEF Clean
  <2>3. CASE found # <<>>
    <3>1. found \in DOMAIN files
      BY <2>3, FoundIs
    <3> HIDE DEF found
    <3>2. CASE Clash(config, files[found])
      <4>1. phase' = "failed"
        BY <2>1, <2>3, <3>2 DEF UpdateFrom, End
      <4> QED BY <1>1, <1>3, <2>1, <4>1 DEF Clean
    <3>3. CASE ~Clash(config, files[found])
      <4>1. phase' = "load" /\ config' = Merge(config, files[found])
        BY <2>1, <2>3, <3>3 DEF UpdateFrom
      <4>2. Listed(p)'
        BY <1>0, <2>1, <3>1, <3>3, <4>1, MergeLists
      <4> QED BY <1>1, <1>3, <2>1, <4>1, <4>2 DEF Clean
    <3> QED BY <3>2, <3>3
  <2> QED BY <2>2, <2>3
<1>8. CASE Return
  <2>1. phase = "load" /\ UNCHANGED <<text, phase, config, recorded>>
    BY <1>8 DEF Return
  <2> QED BY <1>0, <1>1, <1>3, <1>4, <2>1 DEF Clean
<1>9. CASE Loaded
  <2>1. phase = "load" /\ UNCHANGED <<text, config, recorded>>
    BY <1>9 DEF Loaded
  <2>2. CASE phase' = "failed"
    BY <1>1, <1>3, <2>1, <2>2 DEF Clean
  <2>3. CASE phase' # "failed"
    <3>1. phase' = "loaded" /\ sources' = StringSlice(config, "sources")
      BY <1>9, <2>3 DEF Loaded
    <3>2. Kept(p, w)'
      <4> DEFINE s == StringSlice(config, "sources")
      <4>1. s \in Seq(L)
        BY <1>2, SliceType
      <4> HIDE DEF s
      <4>2. \A k \in 1 .. Len(s) : s[k] \in New(w) \/ s[k] = p
        BY <4>1
      <4>3. sources' = s /\ StringSlice(config', "sources") = s
        BY <2>1, <3>1 DEF s
      <4> QED BY <4>2, <4>3 DEF Kept
    <3> QED BY <1>0, <1>1, <1>3, <1>4, <2>1, <3>1, <3>2 DEF Clean
  <2> QED BY <2>2, <2>3
<1>10. CASE Replace
  <2>1. phase = "loaded" /\ UNCHANGED <<text, config, recorded>>
    BY <1>10 DEF Replace
  <2>2. Kept(p, w)'
    BY <1>0, <1>2, <1>10, <2>1, ReplaceKeeps
  <2>3. phase' \in {"loaded", "failed"}
    BY <1>10 DEF Replace
  <2> QED BY <1>0, <1>1, <1>3, <1>4, <2>1, <2>2, <2>3 DEF Clean
<1>11. CASE NextSource \/ Resolved
  <2>1. phase = "loaded" /\ UNCHANGED <<text, config, sources, recorded>>
        /\ phase' \in {"loaded", "ready"}
    BY <1>11 DEF NextSource, Resolved
  <2> QED BY <1>0, <1>1, <1>3, <1>4, <1>5, <2>1 DEF Clean
<1>12. CASE Interrupt
  <2>1. phase' = "idle" /\ UNCHANGED <<text, recorded>>
    BY <1>12 DEF Interrupt, End
  <2> QED BY <1>1, <1>3, <2>1 DEF Clean
<1>13. ASSUME NEW new \in Patches, RecordWorkspacePatches(new) PROVE Clean(p, w)'
  <2>1. phase = "ready" /\ phase' = "idle"
    BY <1>13 DEF RecordWorkspacePatches
  <2>2. Lists(p)'
    BY <1>0, <1>13, <2>1, FinishLists
  <2> QED BY <1>1, <2>1, <2>2 DEF Clean
<1>14. ASSUME NEW patch \in AllPatches, ListByHand(patch) PROVE Clean(p, w)'
  <2>1. phase = "ready" /\ phase' = "ready" /\ UNCHANGED <<config, sources>>
    BY <1>14 DEF ListByHand
  <2>2. Lists(p)' /\ Listed(p)'
    BY <1>0, <1>14, <2>1, HandLists
  <2> QED BY <1>0, <1>1, <1>5, <2>1, <2>2 DEF Clean
<1>15. ASSUME NEW new \in Patches, NEW n \in DOMAIN new, ListByHand(new[n])
       PROVE  Clean(p, w)'
  BY <1>14, <1>15, PatchesType
<1> QED BY <1>6, <1>7, <1>8, <1>9, <1>10, <1>11, <1>12, <1>13, <1>15
        DEF Next, Goes, People

LEMMA CleanInit ==
  ASSUME NEW p, NEW w, IsNew(p, w), Init
  PROVE  Clean(p, w)
<1>1. Made(New(w), New(w) \cup {p})
  BY NewFits, MadeInit
<1>2. \A i, j \in {n \in DOMAIN text : IsItem(text[n]) /\ text[n].item = p} : i = j
  BY DEF Init, IsNew
<1>3. Once(Scan(text), p) \/ p \notin Range(Scan(text))
  BY <1>1, <1>2, TextOnce DEF Made
<1> QED BY <1>1, <1>3 DEF Init, Clean, Lists

\* A patch that workspace-finish has put on record is in the loaded list of sources
\* once, and in what became of it: however often it was recorded and by whomever it
\* was listed (appendSourcesToRecipeFile compares with the loaded recipe and with
\* its text).
THEOREM PatchesOnce == Spec => []AppliedOnce
<1> DEFINE Inv == /\ Resolving /\ recorded \subseteq AllPatches
                  /\ \A p \in AllPatches : \A w \in Piece : IsNew(p, w) => Clean(p, w)
<1>1. Init => Inv
  <2>1. Init => Resolving /\ recorded \subseteq AllPatches
    <3>1. <<>> \in Seq(Scalars) /\ 0 \in 0 .. Len(<<>>)
      OBVIOUS
    <3> QED BY <3>1 DEF Init, Resolving
  <2> QED BY <2>1, CleanInit
<1>2. Made(Scalars, Scalars) /\ Inv /\ [Next]_vars => Inv'
  <2> SUFFICES ASSUME Made(Scalars, Scalars), Inv, [Next]_vars PROVE Inv'
    OBVIOUS
  <2>1. CASE Next
    <3>1. Resolving' /\ recorded' \subseteq AllPatches
      BY <2>1, ResolvingStep, RecordedStep
    <3>2. ASSUME NEW p \in AllPatches, NEW w \in Piece, IsNew(p, w) PROVE Clean(p, w)'
      BY <2>1, <3>2, CleanStep
    <3> QED BY <3>1, <3>2
  <2>2. CASE UNCHANGED vars
    BY <2>2 DEF vars, Resolving, Clean, Made, Lists, Listed, Kept
  <2> QED BY <2>1, <2>2
<1>3. Inv => AppliedOnce
  <2> SUFFICES ASSUME Inv, phase \in {"loaded", "ready"}, NEW p \in recorded
               PROVE  Cardinality({n \in DOMAIN sources : sources[n] = p}) = 1
    BY DEF AppliedOnce
  <2> DEFINE s == StringSlice(config, "sources")
  <2>1. PICK w \in Piece : IsNew(p, w)
    BY RecipeFilesAssumption
  <2>2. Clean(p, w) /\ sources \in Seq(Scalars)
    BY <2>1 DEF Resolving
  <2>3. /\ Once(s, p) /\ Len(sources) = Len(s)
        /\ \A k \in 1 .. Len(s) : IF s[k] = p THEN sources[k] = p ELSE sources[k] \in New(w)
    BY <2>2 DEF Clean, Listed, Kept
  <2>4. p \notin New(w)
    BY <2>1, NewFits
  <2>5. DOMAIN s = 1 .. Len(s) /\ DOMAIN sources = 1 .. Len(sources)
    <3>1. s \in Seq(New(w) \cup {p})
      BY <2>2, SliceType DEF Clean, Made
    <3> QED BY <2>2, <3>1
  <2> HIDE DEF s
  <2>6. Once(sources, p)
    BY <2>3, <2>4, <2>5 DEF Once
  <2> QED BY <2>6, OnceIsOne
<1> HIDE DEF Inv
<1> QED BY <1>1, <1>2, <1>3, MadeOfScalars, PTL DEF Spec

-----------------------------------------------------------------------------
(* The files of a load, in the order they are read. *)

Paths == {Recipe} \cup DOMAIN files

VisitsOf(v, n, p) ==
    IF n = 0 THEN <<p>>
    ELSE <<p>> \o FlattenSeq([k \in DOMAIN Merges(p) |->
            IF Merges(p)[k] = <<>> THEN <<>> ELSE v[Merges(p)[k]]])
Turn(v, n) == [p \in Paths |-> VisitsOf(v, n, p)]
VisitsTo(V, m) == V = [n \in 0 .. m |-> Turn(V[n - 1], n)]

\* There is such a function for every depth.
LEMMA VisitsGo == VisitsTo(Visits, MaxDepth)
<1>0. MaxDepth \in Nat
  BY RecipeFilesAssumption
<1>1. \A u, v : Turn(u, 0) = Turn(v, 0)
  BY DEF Turn, VisitsOf
<1> DEFINE T == {m \in 0 .. MaxDepth : \E V : VisitsTo(V, m)}
<1>2. 0 \in T
  <2> DEFINE V == [n \in 0 .. 0 |-> Turn(<<>>, 0)]
  <2>1. DOMAIN V = {0} /\ V[0] = Turn(<<>>, 0)
    OBVIOUS
  <2>2. Turn(V[0 - 1], 0) = Turn(<<>>, 0)
    BY <1>1
  <2>3. V = [n \in 0 .. 0 |-> Turn(V[n - 1], n)]
    <3>1. \A n \in 0 .. 0 : n = 0
      OBVIOUS
    <3>2. \A n \in 0 .. 0 : Turn(V[n - 1], n) = Turn(<<>>, 0)
      <4> HIDE DEF V
      <4> QED BY <2>2, <3>1
    <3> QED BY <3>2
  <2> HIDE DEF V
  <2>4. VisitsTo(V, 0)
    BY <2>3 DEF VisitsTo
  <2>5. \E W : VisitsTo(W, 0)
    BY <2>4
  <2> QED BY <1>0, <2>5
<1>3. ASSUME NEW m \in 0 .. MaxDepth - 1, m \in T PROVE m + 1 \in T
  <2>0. m \in Nat /\ m + 1 \in 0 .. MaxDepth
    BY <1>0
  <2>1. PICK V : VisitsTo(V, m)
    BY <1>3
  <2>2. \A n \in 0 .. m : V[n] = Turn(V[n - 1], n)
    <3>1. V = [n \in 0 .. m |-> Turn(V[n - 1], n)]
      BY <2>1 DEF VisitsTo
    <3> QED BY <3>1
  <2> DEFINE W == [n \in 0 .. m + 1 |-> IF n <= m THEN V[n] ELSE Turn(V[m], m + 1)]
  <2>3. \A n \in 0 .. m : W[n] = V[n]
    BY <2>0
  <2>4. DOMAIN W = 0 .. m + 1 /\ W[m + 1] = Turn(V[m], m + 1)
    BY <2>0
  <2>5. W = [n \in 0 .. m + 1 |-> W[n]]
    OBVIOUS
  <2> HIDE DEF W
  <2>6. ASSUME NEW n \in 0 .. m + 1 PROVE W[n] = Turn(W[n - 1], n)
    <3>1. CASE n = 0
      <4>1. W[0] = V[0] /\ V[0] = Turn(V[0 - 1], 0)
        BY <2>0, <2>2, <2>3
      <4>2. Turn(V[0 - 1], 0) = Turn(W[0 - 1], 0)
        BY <1>1
      <4> QED BY <3>1, <4>1, <4>2
    <3>2. CASE n \in 1 .. m
      <4>1. W[n] = V[n] /\ V[n] = Turn(V[n - 1], n) /\ W[n - 1] = V[n - 1]
        BY <2>0, <2>2, <2>3, <3>2
      <4> QED BY <4>1
    <3>3. CASE n = m + 1
      <4>1. n - 1 = m /\ W[m] = V[m]
        BY <2>0, <2>3, <3>3
      <4> QED BY <2>4, <3>3, <4>1
    <3> QED BY <2>0, <3>1, <3>2, <3>3
  <2>7. VisitsTo(W, m + 1)
    BY <2>5, <2>6 DEF VisitsTo
  <2>8. \E U : VisitsTo(U, m + 1)
    BY <2>7
  <2> QED BY <2>0, <2>8
<1> HIDE DEF T
<1>4. \A k \in 0 .. MaxDepth : k \in T
  BY <1>0, <1>2, <1>3, Induct
<1>5. \E V : VisitsTo(V, MaxDepth)
  BY <1>0, <1>4 DEF T
<1>6. Visits = CHOOSE V : VisitsTo(V, MaxDepth)
  BY DEF Visits, VisitsTo, Turn, VisitsOf, Paths
<1> QED BY <1>5, <1>6

LEMMA VisitsIs ==
  ASSUME NEW n \in 0 .. MaxDepth, NEW p \in Paths
  PROVE  Visits[n][p] = VisitsOf(Visits[n - 1], n, p)
<1>1. Visits = [k \in 0 .. MaxDepth |-> Turn(Visits[k - 1], k)]
  BY VisitsGo DEF VisitsTo
<1>2. Visits[n] = Turn(Visits[n - 1], n)
  BY <1>1
<1> QED BY <1>2 DEF Turn

LEMMA DocumentType ==
  ASSUME Made(Scalars, Scalars), NEW p \in Paths
  PROVE  IsDocument(Document(p), Scalars, Scalars)
<1>1. IsText(text, Scalars, Scalars) /\ files \in Layouts
  BY DEF Made
<1>2. CASE p = Recipe
  BY <1>1, <1>2, FitsScalars, ParseFits DEF Document
<1>3. CASE p # Recipe
  <2>1. p \in DOMAIN files
    BY <1>3 DEF Paths
  <2> QED BY <1>1, <1>3, <2>1, FitsScalars DEF Document, Fits
<1> QED BY <1>2, <1>3

\* The files a name brings, n merges deep, and those that a list of names does.
Brings(n, dir, name) ==
    IF Found(dir, name) = <<>> THEN <<>> ELSE Visits[n][Found(dir, name)]
BroughtBy(n, dir, names) == [k \in DOMAIN names |-> Brings(n, dir, names[k])]
BringsAll(n, dir, names) == FlattenSeq(BroughtBy(n, dir, names))

LEMMA FoundPath ==
  ASSUME NEW dir, NEW name, Found(dir, name) # <<>>
  PROVE  Found(dir, name) \in Paths
BY FoundIs DEF Paths

\* A file, and what its names bring.
LEMMA VisitsOpen ==
  ASSUME NEW n \in 0 .. MaxDepth, NEW p \in Paths
  PROVE  Visits[n][p] =
           IF n = 0 THEN <<p>>
           ELSE <<p>> \o BringsAll(n - 1, p[1], StringSlice(Document(p), "merge"))
<1> DEFINE names == StringSlice(Document(p), "merge")
           a == [k \in DOMAIN Merges(p) |->
                    IF Merges(p)[k] = <<>> THEN <<>> ELSE Visits[n - 1][Merges(p)[k]]]
<1>1. Visits[n][p] = IF n = 0 THEN <<p>> ELSE <<p>> \o FlattenSeq(a)
  BY VisitsIs DEF VisitsOf
<1>2. Merges(p) = [k \in DOMAIN names |-> Found(p[1], names[k])]
  BY DEF Merges
<1>3. a = BroughtBy(n - 1, p[1], names)
  <2> HIDE DEF names
  <2>1. DOMAIN Merges(p) = DOMAIN names /\ \A k \in DOMAIN names : Merges(p)[k] = Found(p[1], names[k])
    BY <1>2
  <2> QED BY <2>1 DEF BroughtBy, Brings
<1> HIDE DEF a
<1> QED BY <1>1, <1>3 DEF BringsAll

LEMMA BroughtType ==
  ASSUME NEW n, NEW dir, NEW names \in Seq(Scalars),
         \A p \in Paths : Visits[n][p] \in Seq(Paths)
  PROVE  /\ BroughtBy(n, dir, names) \in Seq(Seq(Paths))
         /\ BringsAll(n, dir, names) \in Seq(Paths)
<1>1. <<>> \in Seq(Paths)
  OBVIOUS
<1>2. \A name : Brings(n, dir, name) \in Seq(Paths)
  BY <1>1, FoundPath DEF Brings
<1>3. Len(names) \in Nat /\ DOMAIN names = 1 .. Len(names)
  OBVIOUS
<1>4. BroughtBy(n, dir, names) = [k \in 1 .. Len(names) |-> Brings(n, dir, names[k])]
  BY <1>3 DEF BroughtBy
<1>5. [k \in 1 .. Len(names) |-> Brings(n, dir, names[k])] \in Seq(Seq(Paths))
  BY <1>2, <1>3
<1>6. BroughtBy(n, dir, names) \in Seq(Seq(Paths))
  BY <1>4, <1>5
<1> QED BY <1>6, FlattenType DEF BringsAll

LEMMA VisitsType ==
  ASSUME Made(Scalars, Scalars)
  PROVE  \A n \in 0 .. MaxDepth : \A p \in Paths : Visits[n][p] \in Seq(Paths)
<1>0. MaxDepth \in Nat
  BY RecipeFilesAssumption
<1> DEFINE T == {n \in 0 .. MaxDepth : \A p \in Paths : Visits[n][p] \in Seq(Paths)}
<1>1. \A p \in Paths : <<p>> \in Seq(Paths)
  OBVIOUS
<1>2. 0 \in T
  <2>1. 0 \in 0 .. MaxDepth
    BY <1>0
  <2>2. \A p \in Paths : Visits[0][p] = <<p>>
    BY <2>1, VisitsOpen
  <2> QED BY <1>1, <2>1, <2>2
<1>3. ASSUME NEW n \in 0 .. MaxDepth - 1, n \in T PROVE n + 1 \in T
  <2>1. n + 1 \in 0 .. MaxDepth /\ n + 1 # 0 /\ (n + 1) - 1 = n
    BY <1>0
  <2>2. \A q \in Paths : Visits[n][q] \in Seq(Paths)
    BY <1>3
  <2>3. ASSUME NEW p \in Paths PROVE Visits[n + 1][p] \in Seq(Paths)
    <3> DEFINE names == StringSlice(Document(p), "merge")
    <3>1. names \in Seq(Scalars)
      BY DocumentType, SliceType
    <3> HIDE DEF names
    <3>2. BringsAll(n, p[1], names) \in Seq(Paths)
      BY <2>2, <3>1, BroughtType
    <3>3. Visits[n + 1][p] = <<p>> \o BringsAll(n, p[1], names)
      BY <2>1, VisitsOpen DEF names
    <3>4. <<p>> \o BringsAll(n, p[1], names) \in Seq(Paths)
      BY <1>1, <3>2, ConcatProperties
    <3> QED BY <3>3, <3>4
  <2> QED BY <2>1, <2>3
<1> HIDE DEF T
<1>4. \A n \in 0 .. MaxDepth : n \in T
  BY <1>0, <1>2, <1>3, Induct
<1> QED BY <1>4 DEF T

\* The first name first.
LEMMA BringsFirst ==
  ASSUME Made(Scalars, Scalars), NEW n \in 0 .. MaxDepth, NEW dir,
         NEW names \in Seq(Scalars), names # <<>>
  PROVE  BringsAll(n, dir, names) =
           Brings(n, dir, Head(names)) \o BringsAll(n, dir, Tail(names))
<1> DEFINE b == Brings(n, dir, Head(names))
           t == Tail(names)
           e == BroughtBy(n, dir, t)
<1>1. \A p \in Paths : Visits[n][p] \in Seq(Paths)
  BY VisitsType
<1>2. t \in Seq(Scalars) /\ Len(t) = Len(names) - 1 /\ Len(names) \in Nat \ {0}
      /\ DOMAIN t = 1 .. Len(t) /\ DOMAIN names = 1 .. Len(names)
      /\ \A k \in 1 .. Len(t) : t[k] = names[k + 1]
  BY HeadTailProperties, EmptySeq
<1>3. Head(names) = names[1]
  OBVIOUS
<1>4. b \in Seq(Paths) /\ <<b>> \in Seq(Seq(Paths))
  <2>1. <<>> \in Seq(Paths)
    OBVIOUS
  <2>2. b \in Seq(Paths)
    BY <1>1, <2>1, FoundPath DEF Brings
  <2> HIDE DEF b
  <2> QED BY <2>2
<1> HIDE DEF t
<1>5. e \in Seq(Seq(Paths)) /\ BroughtBy(n, dir, names) \in Seq(Seq(Paths))
  BY <1>1, <1>2, BroughtType
<1>6. Len(e) = Len(t) /\ \A k \in 1 .. Len(t) : e[k] = Brings(n, dir, t[k])
  BY <1>2 DEF BroughtBy
<1>7. Len(BroughtBy(n, dir, names)) = Len(names)
      /\ \A k \in 1 .. Len(names) : BroughtBy(n, dir, names)[k] = Brings(n, dir, names[k])
  BY <1>2 DEF BroughtBy
<1> DEFINE a == BroughtBy(n, dir, names)
<1> HIDE DEF e, a
<1>8. a = <<b>> \o e
  <2>1. a \in Seq(Seq(Paths)) /\ Len(a) = Len(names) /\ \A k \in 1 .. Len(names) : a[k] = Brings(n, dir, names[k])
    BY <1>5, <1>7 DEF a
  <2>2. a[1] = b
    BY <1>2, <1>3, <2>1
  <2> HIDE DEF b
  <2>3. \A k \in 2 .. Len(names) : a[k] = e[k - 1]
    <3> SUFFICES ASSUME NEW k \in 2 .. Len(names) PROVE a[k] = e[k - 1]
      OBVIOUS
    <3>1. k - 1 \in 1 .. Len(t) /\ k \in 1 .. Len(names) /\ (k - 1) + 1 = k
      BY <1>2
    <3>2. a[k] = Brings(n, dir, names[k]) /\ e[k - 1] = Brings(n, dir, t[k - 1]) /\ t[k - 1] = names[(k - 1) + 1]
      BY <1>2, <1>6, <2>1, <3>1
    <3> QED BY <3>1, <3>2
  <2> DEFINE c == <<b>> \o e
  <2>4. /\ c \in Seq(Seq(Paths)) /\ Len(c) = Len(names)
        /\ \A k \in 1 .. Len(names) : c[k] = IF k <= 1 THEN b ELSE e[k - 1]
    <3>1. Len(<<b>>) = 1 /\ <<b>>[1] = b
      OBVIOUS
    <3>2. /\ c \in Seq(Seq(Paths)) /\ Len(c) = Len(<<b>>) + Len(e)
          /\ \A k \in 1 .. Len(<<b>>) + Len(e) : c[k] = IF k <= Len(<<b>>) THEN <<b>>[k] ELSE e[k - Len(<<b>>)]
      BY <1>4, <1>5, ConcatProperties
    <3> HIDE DEF c
    <3>3. 1 + Len(e) = Len(names)
      BY <1>2, <1>6
    <3> QED BY <3>1, <3>2, <3>3
  <2> HIDE DEF c
  <2>5. a = c
    <3>1. \A k \in 1 .. Len(a) : a[k] = c[k]
      BY <1>2, <2>1, <2>2, <2>3, <2>4
    <3> QED BY <2>1, <2>4, <3>1, SeqEqual
  <2> QED BY <2>5 DEF c
<1>9. FlattenSeq(a) = b \o FlattenSeq(e)
  <2> HIDE DEF b
  <2>1. FlattenSeq(<<b>> \o e) = FlattenSeq(<<b>>) \o FlattenSeq(e)
    BY <1>4, <1>5, FlattenConcat
  <2>2. FlattenSeq(<<b>>) = b
    BY <1>4, FlattenOne
  <2> QED BY <1>8, <2>1, <2>2
<1> QED BY <1>9 DEF a, b, e, t, BringsAll

LEMMA BringsNone == ASSUME NEW n, NEW dir PROVE BringsAll(n, dir, <<>>) = <<>>
<1>1. BroughtBy(n, dir, <<>>) = <<>>
  BY DEF BroughtBy
<1> QED BY <1>1, FlattenEmpty DEF BringsAll

\* What a call that is the d-th on the stack has still to bring.
Rest(frame, d) ==
    IF d > MaxDepth THEN <<>> ELSE BringsAll(MaxDepth - d, frame.dir, frame.names)

LEMMA RestType ==
  ASSUME Made(Scalars, Scalars), NEW f \in Frames, NEW d \in Nat
  PROVE  Rest(f, d) \in Seq(Paths)
<1>1. CASE d > MaxDepth
  <2>1. <<>> \in Seq(Paths)
    OBVIOUS
  <2> QED BY <1>1, <2>1 DEF Rest
<1>2. CASE ~(d > MaxDepth)
  <2>1. MaxDepth - d \in 0 .. MaxDepth /\ f.names \in Seq(Scalars)
    BY <1>2, RecipeFilesAssumption DEF Frames
  <2>2. \A p \in Paths : Visits[MaxDepth - d][p] \in Seq(Paths)
    BY <2>1, VisitsType
  <2>3. BringsAll(MaxDepth - d, f.dir, f.names) \in Seq(Paths)
    BY <2>1, <2>2, BroughtType
  <2> QED BY <1>2, <2>3 DEF Rest
<1> QED BY <1>1, <1>2

\* A file, and what its call brings.
FrameOf(p) == [dir |-> p[1], names |-> StringSlice(Document(p), "merge")]

LEMMA RestOfFile ==
  ASSUME NEW p \in Paths, NEW d \in 1 .. MaxDepth + 1
  PROVE  Visits[MaxDepth + 1 - d][p] = <<p>> \o Rest(FrameOf(p), d)
<1> DEFINE n == MaxDepth + 1 - d
           f == FrameOf(p)
<1>0. n \in 0 .. MaxDepth /\ MaxDepth \in Nat /\ n - 1 = MaxDepth - d /\ (n = 0 <=> d > MaxDepth)
  BY RecipeFilesAssumption
<1>1. f.dir = p[1] /\ f.names = StringSlice(Document(p), "merge")
  BY DEF FrameOf
<1>2. Visits[n][p] = IF n = 0 THEN <<p>> ELSE <<p>> \o BringsAll(n - 1, f.dir, f.names)
  BY <1>0, <1>1, VisitsOpen
<1>3. <<p>> \o <<>> = <<p>>
  BY ConcatEmptySeq
<1> HIDE DEF n, f
<1>4. Visits[n][p] = <<p>> \o Rest(f, d)
  BY <1>0, <1>2, <1>3 DEF Rest
<1> QED BY <1>4 DEF n, f

\* The next name is brought first.
NextFrame(f) == [dir |-> f.dir, names |-> Tail(f.names)]

LEMMA RestNext ==
  ASSUME Made(Scalars, Scalars), NEW f \in Frames, NEW d \in 1 .. MaxDepth,
         f.names # <<>>, NEW found, found = Found(f.dir, Head(f.names)), found # <<>>
  PROVE  Rest(f, d) = Visits[MaxDepth - d][found] \o Rest(NextFrame(f), d)
<1>1. MaxDepth - d \in 0 .. MaxDepth /\ f.names \in Seq(Scalars) /\ ~(d > MaxDepth)
  BY RecipeFilesAssumption DEF Frames
<1>2. BringsAll(MaxDepth - d, f.dir, f.names) =
        Brings(MaxDepth - d, f.dir, Head(f.names)) \o BringsAll(MaxDepth - d, f.dir, Tail(f.names))
  BY <1>1, BringsFirst
<1>3. Brings(MaxDepth - d, f.dir, Head(f.names)) = Visits[MaxDepth - d][found]
  BY DEF Brings
<1>4. NextFrame(f).dir = f.dir /\ NextFrame(f).names = Tail(f.names)
  BY DEF NextFrame
<1> QED BY <1>1, <1>2, <1>3, <1>4 DEF Rest

\* What each call of a stack s and those that wait for it have still to bring.
Left(s, R) ==
    /\ R \in [0 .. Len(s) -> Seq(Paths)] /\ R[0] = <<>>
    /\ \A d \in 1 .. Len(s) : R[d] = Rest(s[d], d) \o R[d - 1]
LeftIs(s, rest) == \E R : Left(s, R) /\ R[Len(s)] = rest

\* The call of the recipe.
LEMMA LeftFirst ==
  ASSUME Made(Scalars, Scalars), NEW f \in Frames
  PROVE  LeftIs(<<f>>, Rest(f, 1))
<1> DEFINE R == [k \in 0 .. 1 |-> IF k = 0 THEN <<>> ELSE Rest(f, 1)]
           s == <<f>>
<1>1. Rest(f, 1) \in Seq(Paths) /\ <<>> \in Seq(Paths) /\ Rest(f, 1) \o <<>> = Rest(f, 1)
  BY RestType, ConcatEmptySeq
<1>2. R \in [0 .. 1 -> Seq(Paths)] /\ R[0] = <<>> /\ R[1] = Rest(f, 1)
  BY <1>1
<1>3. Len(s) = 1 /\ s[1] = f
  OBVIOUS
<1> HIDE DEF R, s
<1>4. \A d \in 1 .. 1 : d = 1 /\ d - 1 = 0
  OBVIOUS
<1>5. Left(s, R)
  BY <1>1, <1>2, <1>3, <1>4 DEF Left
<1>6. LeftIs(s, Rest(f, 1))
  BY <1>2, <1>3, <1>5 DEF LeftIs
<1> QED BY <1>6 DEF s

\* A call that has no more names returns.
LEMMA LeftReturn ==
  ASSUME Made(Scalars, Scalars), NEW s \in Seq(Frames), s # <<>>, Last(s).names = <<>>,
         NEW rest, LeftIs(s, rest)
  PROVE  LeftIs(Front(s), rest)
<1> DEFINE l == Len(s)
           t == Front(s)
<1>1. /\ l \in Nat \ {0} /\ Last(s) = s[l] /\ t \in Seq(Frames) /\ Len(t) = l - 1
      /\ \A k \in 1 .. l - 1 : t[k] = s[k]
  BY LastFront
<1>2. PICK R : Left(s, R) /\ R[Len(s)] = rest
  BY DEF LeftIs
<1> DEFINE Q == [k \in 0 .. l - 1 |-> R[k]]
<1>3. R \in [0 .. l -> Seq(Paths)] /\ R[0] = <<>> /\ \A d \in 1 .. l : R[d] = Rest(s[d], d) \o R[d - 1]
  BY <1>2 DEF Left
<1>4. Q \in [0 .. l - 1 -> Seq(Paths)] /\ \A k \in 0 .. l - 1 : Q[k] = R[k]
  BY <1>1, <1>3
<1> HIDE DEF Q, t
<1>5. Left(t, Q)
  <2>1. Q[0] = <<>>
    BY <1>1, <1>3, <1>4
  <2>2. ASSUME NEW d \in 1 .. l - 1 PROVE Q[d] = Rest(t[d], d) \o Q[d - 1]
    <3>1. d \in 1 .. l /\ d \in 0 .. l - 1 /\ d - 1 \in 0 .. l - 1
      BY <1>1
    <3>2. Q[d] = R[d] /\ Q[d - 1] = R[d - 1] /\ t[d] = s[d]
      BY <1>1, <1>4, <3>1
    <3> QED BY <1>3, <3>1, <3>2
  <2> QED BY <1>1, <1>4, <2>1, <2>2 DEF Left
<1>6. Q[l - 1] = rest
  <2>1. l \in 1 .. l /\ l - 1 \in 0 .. l - 1 /\ l - 1 \in 0 .. l
    BY <1>1
  <2>2. R[l] = Rest(s[l], l) \o R[l - 1] /\ Q[l - 1] = R[l - 1] /\ R[l - 1] \in Seq(Paths)
    BY <1>3, <1>4, <2>1
  <2>3. Rest(s[l], l) = <<>>
    BY <1>1, BringsNone DEF Rest
  <2>4. <<>> \o R[l - 1] = R[l - 1]
    BY <2>2, ConcatEmptySeq
  <2> QED BY <1>2, <2>2, <2>3, <2>4
<1>7. LeftIs(t, rest)
  BY <1>1, <1>5, <1>6 DEF LeftIs
<1> QED BY <1>7 DEF t

\* A call turns to its next name: the file and what its own call brings come first.
LEMMA LeftNext ==
  ASSUME Made(Scalars, Scalars), NEW s \in Seq(Frames), s # <<>>, Last(s).names # <<>>,
         Len(s) <= MaxDepth, NEW rest, LeftIs(s, rest),
         NEW found, found = Found(Last(s).dir, Head(Last(s).names)), found # <<>>,
         NEW f \in Frames, f = FrameOf(found)
  PROVE  \E more \in Seq(Paths) :
            LeftIs(Append(Below(s), f), more) /\ rest = <<found>> \o more
<1> DEFINE l == Len(s)
           t == Append(Below(s), f)
           g == NextFrame(Last(s))
<1>0. MaxDepth \in Nat
  BY RecipeFilesAssumption
<1>1. l \in Nat \ {0} /\ Last(s) = s[l] /\ Last(s) \in Frames
  BY LastFront
<1>2. /\ Below(s) \in Seq(Frames) /\ Len(Below(s)) = l
      /\ \A k \in 1 .. l - 1 : Below(s)[k] = s[k]
      /\ Below(s)[l] = g
  BY BelowType DEF NextFrame
<1>3. g \in Frames
  <2>1. l \in 1 .. Len(Below(s))
    BY <1>1, <1>2
  <2> QED BY <1>2, <2>1, ElementOfSeq
<1>4. /\ t \in Seq(Frames) /\ Len(t) = l + 1 /\ t[l] = g /\ t[l + 1] = f
      /\ \A k \in 1 .. l - 1 : t[k] = s[k]
  <2> DEFINE b == Below(s)
  <2>1. b \in Seq(Frames) /\ Len(b) = l /\ b[l] = g /\ \A k \in 1 .. l - 1 : b[k] = s[k]
    BY <1>2
  <2> HIDE DEF b, g
  <2>2. /\ Append(b, f) \in Seq(Frames) /\ Len(Append(b, f)) = Len(b) + 1
        /\ \A k \in 1 .. Len(b) : Append(b, f)[k] = b[k]
        /\ Append(b, f)[Len(b) + 1] = f
    BY <2>1, AppendProperties
  <2>3. l \in 1 .. l /\ \A k \in 1 .. l - 1 : k \in 1 .. l
    BY <1>1
  <2>4. /\ Append(b, f) \in Seq(Frames) /\ Len(Append(b, f)) = l + 1
        /\ Append(b, f)[l] = g /\ Append(b, f)[l + 1] = f
        /\ \A k \in 1 .. l - 1 : Append(b, f)[k] = s[k]
    BY <2>1, <2>2, <2>3
  <2> QED BY <2>4 DEF b
<1>5. PICK R : Left(s, R) /\ R[Len(s)] = rest
  BY DEF LeftIs
<1>6. R \in [0 .. l -> Seq(Paths)] /\ R[0] = <<>> /\ \A d \in 1 .. l : R[d] = Rest(s[d], d) \o R[d - 1]
  BY <1>5 DEF Left
<1> DEFINE x == Rest(g, l) \o R[l - 1]
           y == Rest(f, l + 1) \o x
           Q == [k \in 0 .. l + 1 |-> IF k < l THEN R[k] ELSE IF k = l THEN x ELSE y]
<1>7. /\ Rest(g, l) \in Seq(Paths) /\ Rest(f, l + 1) \in Seq(Paths) /\ R[l - 1] \in Seq(Paths)
      /\ x \in Seq(Paths) /\ y \in Seq(Paths)
  <2>1. l \in Nat /\ l + 1 \in Nat /\ l - 1 \in 0 .. l
    BY <1>1
  <2>2. Rest(g, l) \in Seq(Paths) /\ Rest(f, l + 1) \in Seq(Paths) /\ R[l - 1] \in Seq(Paths)
    BY <1>3, <1>6, <2>1, RestType
  <2>3. x \in Seq(Paths)
    BY <2>2, ConcatProperties
  <2> HIDE DEF x
  <2> QED BY <2>2, <2>3, ConcatProperties DEF x
<1> HIDE DEF t, g
<1>8. Left(t, Q) /\ Q[l + 1] = y
  <2> HIDE DEF x, y
  <2>1. /\ Q \in [0 .. l + 1 -> Seq(Paths)]
        /\ \A k \in 0 .. l - 1 : Q[k] = R[k]
        /\ Q[l] = x /\ Q[l + 1] = y
    BY <1>1, <1>6, <1>7
  <2> HIDE DEF Q
  <2>2. ASSUME NEW d \in 1 .. l + 1 PROVE Q[d] = Rest(t[d], d) \o Q[d - 1]
    <3>1. CASE d \in 1 .. l - 1
      <4>1. d \in 1 .. l /\ d \in 0 .. l - 1 /\ d - 1 \in 0 .. l - 1
        BY <1>1, <3>1
      <4> QED BY <1>4, <1>6, <2>1, <3>1, <4>1
    <3>2. CASE d = l
      <4>1. l - 1 \in 0 .. l - 1
        BY <1>1
      <4> QED BY <1>4, <2>1, <3>2, <4>1 DEF x
    <3>3. CASE d = l + 1
      <4>1. (l + 1) - 1 = l
        BY <1>1
      <4> QED BY <1>4, <2>1, <3>3, <4>1 DEF y
    <3>4. d \in 1 .. l - 1 \/ d = l \/ d = l + 1
      BY <1>1
    <3> QED BY <3>1, <3>2, <3>3, <3>4
  <2>3. Q[0] = <<>>
    BY <1>1, <1>6, <2>1
  <2> QED BY <1>4, <2>1, <2>2, <2>3 DEF Left
<1>9. LeftIs(t, y)
  <2> HIDE DEF Q, x, y
  <2> QED BY <1>4, <1>8 DEF LeftIs
<1>10. rest = <<found>> \o y
  <2>1. l \in 1 .. l /\ l \in 1 .. MaxDepth /\ l + 1 \in 1 .. MaxDepth + 1
        /\ MaxDepth + 1 - (l + 1) = MaxDepth - l
    BY <1>0, <1>1
  <2>2. rest = Rest(Last(s), l) \o R[l - 1]
    BY <1>1, <1>5, <1>6, <2>1
  <2>3. Rest(Last(s), l) = Visits[MaxDepth - l][found] \o Rest(g, l)
    <3> DEFINE h == Last(s)
    <3>1. h \in Frames /\ h.names # <<>> /\ found = Found(h.dir, Head(h.names))
      BY <1>1
    <3> HIDE DEF h, l
    <3>2. Rest(h, l) = Visits[MaxDepth - l][found] \o Rest(NextFrame(h), l)
      BY <2>1, <3>1, RestNext
    <3> QED BY <3>2 DEF h, l, g
  <2>4. found \in Paths /\ <<found>> \in Seq(Paths)
    BY FoundPath
  <2>5. Visits[MaxDepth - l][found] = <<found>> \o Rest(f, l + 1)
    <3>1. Visits[MaxDepth + 1 - (l + 1)][found] = <<found>> \o Rest(FrameOf(found), l + 1)
      BY <2>1, <2>4, RestOfFile
    <3> QED BY <2>1, <3>1
  <2>6. ((<<found>> \o Rest(f, l + 1)) \o Rest(g, l)) \o R[l - 1]
          = <<found>> \o (Rest(f, l + 1) \o (Rest(g, l) \o R[l - 1]))
    <3> DEFINE a == <<found>>
               b == Rest(f, l + 1)
               c == Rest(g, l)
               e == R[l - 1]
    <3>1. a \in Seq(Paths) /\ b \in Seq(Paths) /\ c \in Seq(Paths) /\ e \in Seq(Paths)
      BY <1>7, <2>4
    <3> HIDE DEF a, b, c, e
    <3>2. a \o b \in Seq(Paths) /\ c \o e \in Seq(Paths)
      BY <3>1, ConcatProperties
    <3>3. ((a \o b) \o c) \o e = (a \o b) \o (c \o e)
      <4> DEFINE w == a \o b
      <4>1. w \in Seq(Paths)
        BY <3>2
      <4> HIDE DEF w
      <4>2. (w \o c) \o e = w \o (c \o e)
        BY ONLY <3>1, <4>1, ConcatAssociative
      <4> QED BY <4>2 DEF w
    <3>4. (a \o b) \o (c \o e) = a \o (b \o (c \o e))
      <4> DEFINE w == c \o e
      <4>1. w \in Seq(Paths)
        BY <3>2
      <4> HIDE DEF w
      <4>2. (a \o b) \o w = a \o (b \o w)
        BY ONLY <3>1, <4>1, ConcatAssociative
      <4> QED BY <4>2 DEF w
    <3> QED BY <3>3, <3>4 DEF a, b, c, e, l
  <2> QED BY <2>2, <2>3, <2>5, <2>6
<1> HIDE DEF y
<1> QED BY <1>7, <1>9, <1>10 DEF t

-----------------------------------------------------------------------------
(* What the files say that were read so far. *)

Having(all, key) == {n \in DOMAIN all : key \in DOMAIN Document(all[n])}
ValueAt(all, key, n) == Document(all[n])[key].value

ScalarReads(all, key, v) == v = ValueAt(all, key, Min(Having(all, key)))
ListsOf(all, key) ==
    [n \in DOMAIN all |-> IF n \in Having(all, key) THEN ValueAt(all, key, n) ELSE <<>>]
ListReads(all, key, v) == v = FlattenSeq(ListsOf(all, key))
HavingName(all, key, x) == {n \in Having(all, key) : x \in DOMAIN ValueAt(all, key, n)}
MapReads(all, key, v) ==
    /\ \A x : x \in DOMAIN v <=> HavingName(all, key, x) # {}
    /\ \A x \in DOMAIN v : v[x] = ValueAt(all, key, Min(HavingName(all, key, x)))[x]

LEMMA ReadsIs ==
  ASSUME NEW all, NEW key, NEW node, NEW S, NEW L, IsNode(node, S, L)
  PROVE  Reads(all, key, node) <=>
           /\ node.kind = "scalar" => ScalarReads(all, key, node.value)
           /\ node.kind = "list" => ListReads(all, key, node.value)
           /\ node.kind = "map" => MapReads(all, key, node.value)
<1>1. CASE node.kind = "scalar"
  BY <1>1 DEF Reads, ScalarReads, Having, ValueAt
<1>2. CASE node.kind = "list"
  BY <1>2 DEF Reads, ListReads, ListsOf, Having, ValueAt
<1>3. CASE node.kind = "map"
  <2> DEFINE v == node.value
             H == Having(all, key)
  <2>1. Reads(all, key, node) <=>
          /\ DOMAIN v = UNION {DOMAIN ValueAt(all, key, n) : n \in H}
          /\ \A x \in DOMAIN v :
                v[x] = ValueAt(all, key, Min({n \in H : x \in DOMAIN ValueAt(all, key, n)}))[x]
    BY <1>3 DEF Reads, Having, ValueAt
  <2> HIDE DEF v
  <2>2. DOMAIN v = UNION {DOMAIN ValueAt(all, key, n) : n \in H}
          <=> \A x : x \in DOMAIN v <=> HavingName(all, key, x) # {}
    BY DEF HavingName
  <2>3. Reads(all, key, node) <=> MapReads(all, key, v)
    BY <2>1, <2>2 DEF MapReads, HavingName
  <2> QED BY <1>3, <2>3 DEF v
<1>4. node.kind = "scalar" \/ node.kind = "list" \/ node.kind = "map"
  BY DEF IsNode
<1> QED BY <1>1, <1>2, <1>3, <1>4

\* One file more is read.
Then(all, p, more) ==
    /\ all \in Seq(Paths) /\ p \in Paths /\ more \in Seq(Paths)
    /\ Len(more) = Len(all) + 1 /\ more[Len(all) + 1] = p
    /\ \A n \in 1 .. Len(all) : more[n] = all[n]

LEMMA ThenIs ==
  ASSUME NEW all \in Seq(Paths), NEW p \in Paths
  PROVE  Then(all, p, all \o <<p>>) /\ Range(all \o <<p>>) = Range(all) \cup {p}
<1> DEFINE more == Append(all, p)
<1>1. /\ more \in Seq(Paths) /\ Len(more) = Len(all) + 1 /\ more[Len(all) + 1] = p
      /\ \A n \in 1 .. Len(all) : more[n] = all[n]
  <2>1. /\ Append(all, p) \in Seq(Paths) /\ Len(Append(all, p)) = Len(all) + 1
        /\ \A n \in 1 .. Len(all) : Append(all, p)[n] = all[n]
        /\ Append(all, p)[Len(all) + 1] = p
    BY AppendProperties
  <2> QED BY <2>1
<1>2. more = all \o <<p>>
  BY AppendIsConcat
<1>3. <<p>> \in Seq(Paths) /\ Range(<<p>>) = {p}
  BY DEF Range
<1>4. Range(all \o <<p>>) = Range(all) \cup {p}
  <2> DEFINE t == <<p>>
  <2>1. t \in Seq(Paths) /\ Range(t) = {p}
    BY <1>3
  <2> HIDE DEF t
  <2>2. Range(all \o t) = Range(all) \cup {p}
    BY <2>1, RangeConcatenation
  <2> QED BY <2>2 DEF t
<1> HIDE DEF more
<1>5. Then(all, p, more)
  BY <1>1 DEF Then
<1> QED BY <1>2, <1>4, <1>5

HasMore(all, p, more, key, l) ==
    /\ l \in Nat /\ DOMAIN all = 1 .. l /\ DOMAIN more = 1 .. l + 1
    /\ Having(all, key) \subseteq 1 .. l
    /\ Having(more, key) =
         Having(all, key) \cup (IF key \in DOMAIN Document(p) THEN {l + 1} ELSE {})
    /\ \A n \in 1 .. l : ValueAt(more, key, n) = ValueAt(all, key, n)
    /\ ValueAt(more, key, l + 1) = Document(p)[key].value

LEMMA HavingThen ==
  ASSUME NEW all, NEW p, NEW more, Then(all, p, more), NEW key
  PROVE  HasMore(all, p, more, key, Len(all))
<1> DEFINE l == Len(all)
<1>1. l \in Nat /\ DOMAIN all = 1 .. l /\ DOMAIN more = 1 .. l + 1 /\ more[l + 1] = p
      /\ \A n \in 1 .. l : more[n] = all[n]
  BY DEF Then
<1>2. Having(all, key) \subseteq 1 .. l
  BY <1>1 DEF Having
<1>3. Having(more, key) =
        Having(all, key) \cup (IF key \in DOMAIN Document(p) THEN {l + 1} ELSE {})
  <2>1. \A n : n \in 1 .. l + 1 <=> n \in 1 .. l \/ n = l + 1
    BY <1>1
  <2>2. \A n : n \in Having(more, key) <=> n \in Having(all, key) \/ (n = l + 1 /\ key \in DOMAIN Document(p))
    BY <1>1, <2>1 DEF Having
  <2> QED BY <2>2
<1>4. \A n \in 1 .. l : ValueAt(more, key, n) = ValueAt(all, key, n)
  BY <1>1 DEF ValueAt
<1>5. ValueAt(more, key, l + 1) = Document(p)[key].value
  BY <1>1 DEF ValueAt
<1> HIDE DEF l
<1>6. HasMore(all, p, more, key, l)
  BY <1>1, <1>2, <1>3, <1>4, <1>5 DEF HasMore
<1> QED BY <1>6 DEF l

\* Of numbers up to l and l + 1 the least is what it was.
LEMMA MinThen ==
  ASSUME NEW l \in Nat, NEW T \in SUBSET (1 .. l), NEW U, U = T \/ U = T \cup {l + 1}
  PROVE  /\ T # {} => Min(U) = Min(T) /\ Min(T) \in T
         /\ T = {} /\ U # {} => Min(U) = l + 1
<1>1. ASSUME T # {} PROVE Min(U) = Min(T) /\ Min(T) \in T
  <2>1. T \in SUBSET Nat
    OBVIOUS
  <2>2. Min(T) \in T
    BY <1>1, <2>1, MinFacts
  <2>3. Min(T \cup {l + 1}) = Min(T)
    <3>1. {l + 1} \in SUBSET Nat /\ \A u \in {l + 1} : \A n \in T : n <= u
      OBVIOUS
    <3> QED BY <1>1, <2>1, <3>1, MinStays
  <2> QED BY <2>2, <2>3
<1>2. ASSUME T = {}, U # {} PROVE Min(U) = l + 1
  <2>1. U = {l + 1} /\ U \in SUBSET Nat
    BY <1>2
  <2>2. Min(U) \in U
    BY <1>2, <2>1, MinFacts
  <2> QED BY <2>1, <2>2
<1> QED BY <1>1, <1>2

LEMMA ScalarThen ==
  ASSUME NEW all, NEW p, NEW more, Then(all, p, more), NEW key
  PROVE  /\ \A v : Having(all, key) # {} /\ ScalarReads(all, key, v) => ScalarReads(more, key, v)
         /\ Having(all, key) = {} /\ key \in DOMAIN Document(p)
              => ScalarReads(more, key, Document(p)[key].value)
<1> DEFINE l == Len(all)
           H == Having(all, key)
           K == Having(more, key)
<1>1. /\ l \in Nat /\ H \in SUBSET (1 .. l) /\ (K = H \/ K = H \cup {l + 1})
      /\ key \in DOMAIN Document(p) => K # {}
      /\ \A n \in 1 .. l : ValueAt(more, key, n) = ValueAt(all, key, n)
      /\ ValueAt(more, key, l + 1) = Document(p)[key].value
  <2>1. HasMore(all, p, more, key, l)
    BY HavingThen
  <2>2. K = H \cup (IF key \in DOMAIN Document(p) THEN {l + 1} ELSE {})
    BY <2>1 DEF HasMore
  <2>3. K = H \/ K = H \cup {l + 1}
    BY <2>2
  <2>4. key \in DOMAIN Document(p) => K # {}
    BY <2>2
  <2> QED BY <2>1, <2>3, <2>4 DEF HasMore
<1> HIDE DEF l, H, K
<1>2. H # {} => Min(K) = Min(H) /\ Min(H) \in 1 .. l
  BY <1>1, MinThen
<1>3. H = {} /\ K # {} => Min(K) = l + 1
  BY <1>1, MinThen
<1> QED BY <1>1, <1>2, <1>3 DEF ScalarReads, H, K

LEMMA MapThen ==
  ASSUME NEW all, NEW p, NEW more, Then(all, p, more), NEW key
  PROVE  /\ \A v : key \in DOMAIN Document(p) /\ MapReads(all, key, v)
              => MapReads(more, key, Over(v, Document(p)[key].value))
         /\ \A v : key \notin DOMAIN Document(p) /\ MapReads(all, key, v)
              => MapReads(more, key, v)
         /\ Having(all, key) = {} /\ key \in DOMAIN Document(p)
              => MapReads(more, key, Document(p)[key].value)
<1> DEFINE l == Len(all)
           H == Having(all, key)
           K == Having(more, key)
           g == Document(p)[key].value
           U(x) == HavingName(all, key, x)
           V(x) == HavingName(more, key, x)
<1>1. /\ l \in Nat /\ H \subseteq 1 .. l
      /\ K = H \cup (IF key \in DOMAIN Document(p) THEN {l + 1} ELSE {})
      /\ \A n \in 1 .. l : ValueAt(more, key, n) = ValueAt(all, key, n)
      /\ ValueAt(more, key, l + 1) = g
  BY HavingThen DEF HasMore
<1>2. ASSUME NEW x
      PROVE  /\ U(x) \in SUBSET (1 .. l) /\ U(x) \subseteq H
             /\ V(x) = U(x) \cup (IF key \in DOMAIN Document(p) /\ x \in DOMAIN g THEN {l + 1} ELSE {})
  <2> HIDE DEF l, H, K, g
  <2>1. U(x) \in SUBSET (1 .. l) /\ U(x) \subseteq H
    BY <1>1 DEF HavingName, H
  <2>2. \A n \in 1 .. l : n \in V(x) <=> n \in U(x)
    <3>1. ~(l + 1 \in 1 .. l)
      BY <1>1
    <3> QED BY <1>1, <3>1 DEF HavingName, H, K
  <2>3. l + 1 \in V(x) <=> key \in DOMAIN Document(p) /\ x \in DOMAIN g
    <3>1. ~(l + 1 \in H)
      BY <1>1
    <3> QED BY <1>1, <3>1 DEF HavingName, K
  <2>4. \A n \in V(x) : n \in 1 .. l \/ n = l + 1
    BY <1>1 DEF HavingName, K
  <2> QED BY <2>1, <2>2, <2>3, <2>4
<1>3. ASSUME NEW x
      PROVE  /\ U(x) # {} => Min(V(x)) = Min(U(x)) /\ Min(U(x)) \in 1 .. l
             /\ U(x) = {} /\ V(x) # {} => Min(V(x)) = l + 1
  <2>1. V(x) = U(x) \/ V(x) = U(x) \cup {l + 1}
    BY <1>2
  <2>2. U(x) \in SUBSET (1 .. l) /\ l \in Nat
    BY <1>1, <1>2
  <2> HIDE DEF U, V, l
  <2> QED BY <2>1, <2>2, MinThen
<1> HIDE DEF l, H, K, g, U, V
<1>4. ASSUME NEW v, MapReads(all, key, v)
      PROVE  /\ \A x : x \in DOMAIN v <=> U(x) # {}
             /\ \A x \in DOMAIN v : v[x] = ValueAt(more, key, Min(V(x)))[x]
  <2>1. \A x : x \in DOMAIN v <=> U(x) # {}
    BY <1>4 DEF MapReads, U
  <2>2. ASSUME NEW x \in DOMAIN v PROVE v[x] = ValueAt(more, key, Min(V(x)))[x]
    <3>1. v[x] = ValueAt(all, key, Min(U(x)))[x]
      BY <1>4 DEF MapReads, U
    <3>2. Min(V(x)) = Min(U(x)) /\ Min(U(x)) \in 1 .. l
      BY <1>3, <2>1
    <3> QED BY <1>1, <3>1, <3>2
  <2> QED BY <2>1, <2>2
<1>5. ASSUME NEW v, key \in DOMAIN Document(p), MapReads(all, key, v)
      PROVE  MapReads(more, key, Over(v, g))
  <2> DEFINE o == Over(v, g)
  <2>1. /\ DOMAIN o = DOMAIN v \cup DOMAIN g
        /\ \A x \in DOMAIN v : o[x] = v[x]
        /\ \A x \in DOMAIN g \ DOMAIN v : o[x] = g[x]
    BY OverIs DEF IsOver
  <2> HIDE DEF o
  <2>2. \A x : x \in DOMAIN o <=> V(x) # {}
    BY <1>2, <1>4, <1>5, <2>1
  <2>3. ASSUME NEW x \in DOMAIN o PROVE o[x] = ValueAt(more, key, Min(V(x)))[x]
    <3>1. CASE x \in DOMAIN v
      BY <1>4, <1>5, <2>1, <3>1
    <3>2. CASE x \notin DOMAIN v
      <4>1. U(x) = {} /\ V(x) # {}
        BY <1>4, <1>5, <2>2, <3>2
      <4>2. Min(V(x)) = l + 1
        BY <1>3, <4>1
      <4> QED BY <1>1, <2>1, <3>2, <4>2
    <3> QED BY <3>1, <3>2
  <2>4. MapReads(more, key, o)
    BY <2>2, <2>3 DEF MapReads, V
  <2> QED BY <2>4 DEF o
<1>6. ASSUME NEW v, key \notin DOMAIN Document(p), MapReads(all, key, v)
      PROVE  MapReads(more, key, v)
  <2>1. \A x : V(x) = U(x)
    BY <1>2, <1>6
  <2>2. \A x : x \in DOMAIN v <=> V(x) # {}
    BY <1>4, <1>6, <2>1
  <2>3. \A x \in DOMAIN v : v[x] = ValueAt(more, key, Min(V(x)))[x]
    BY <1>4, <1>6
  <2> QED BY <2>2, <2>3 DEF MapReads, V
<1>7. ASSUME H = {}, key \in DOMAIN Document(p) PROVE MapReads(more, key, g)
  <2>1. \A x : U(x) = {}
    BY <1>2, <1>7
  <2>2. \A x : x \in DOMAIN g <=> V(x) # {}
    BY <1>2, <1>7, <2>1
  <2>3. ASSUME NEW x \in DOMAIN g PROVE g[x] = ValueAt(more, key, Min(V(x)))[x]
    <3>1. Min(V(x)) = l + 1
      BY <1>3, <2>1, <2>2
    <3> QED BY <1>1, <3>1
  <2> QED BY <2>2, <2>3 DEF MapReads, V
<1> QED BY <1>5, <1>6, <1>7 DEF H, g

AreLists(all, key) == \A n \in Having(all, key) : ValueAt(all, key, n) \in Seq(Scalars)

LEMMA ListsType ==
  ASSUME NEW all \in Seq(Paths), NEW key, AreLists(all, key)
  PROVE  /\ ListsOf(all, key) \in Seq(Seq(Scalars)) /\ Len(ListsOf(all, key)) = Len(all)
         /\ Having(all, key) = {} => FlattenSeq(ListsOf(all, key)) = <<>>
<1> DEFINE s == ListsOf(all, key)
<1>1. Len(all) \in Nat /\ DOMAIN all = 1 .. Len(all)
  OBVIOUS
<1>2. DOMAIN s = 1 .. Len(all) /\ s = [n \in 1 .. Len(all) |-> s[n]]
      /\ \A n \in 1 .. Len(all) :
            s[n] = IF n \in Having(all, key) THEN ValueAt(all, key, n) ELSE <<>>
  BY <1>1 DEF ListsOf
<1> HIDE DEF s
<1>3. \A n \in 1 .. Len(all) : s[n] \in Seq(Scalars)
  <2>1. <<>> \in Seq(Scalars)
    OBVIOUS
  <2> QED BY <1>2, <2>1 DEF AreLists
<1>4. s \in Seq(Seq(Scalars)) /\ Len(s) = Len(all)
  BY <1>1, <1>2, <1>3
<1>5. ASSUME Having(all, key) = {} PROVE FlattenSeq(s) = <<>>
  <2>1. \A n \in 1 .. Len(s) : s[n] = <<>>
    BY <1>2, <1>4, <1>5
  <2> QED BY <1>4, <2>1, FlattenNothing
<1> QED BY <1>4, <1>5 DEF s

LEMMA ListThen ==
  ASSUME NEW all, NEW p, NEW more, Then(all, p, more), NEW key, AreLists(all, key),
         NEW w \in Seq(Scalars),
         w = IF key \in DOMAIN Document(p) THEN Document(p)[key].value ELSE <<>>
  PROVE  ListReads(more, key, FlattenSeq(ListsOf(all, key)) \o w)
<1> DEFINE l == Len(all)
           s == ListsOf(all, key)
           t == ListsOf(more, key)
           c == s \o <<w>>
<1>0. HasMore(all, p, more, key, l)
  BY HavingThen
<1>1. /\ l \in Nat /\ Having(all, key) \subseteq 1 .. l
      /\ Having(more, key) =
           Having(all, key) \cup (IF key \in DOMAIN Document(p) THEN {l + 1} ELSE {})
      /\ \A n \in 1 .. l : ValueAt(more, key, n) = ValueAt(all, key, n)
      /\ ValueAt(more, key, l + 1) = Document(p)[key].value
      /\ DOMAIN all = 1 .. l /\ DOMAIN more = 1 .. l + 1
  BY <1>0 DEF HasMore
<1>2. s \in Seq(Seq(Scalars)) /\ Len(s) = l
  BY ListsType DEF Then
<1>3. \A n \in 1 .. l : t[n] = s[n]
  <2>1. \A n \in 1 .. l : n \in Having(more, key) <=> n \in Having(all, key)
    BY <1>1
  <2>2. \A n \in 1 .. l : n \in 1 .. l + 1
    BY <1>1
  <2> HIDE DEF l
  <2> QED BY <1>1, <2>1, <2>2 DEF ListsOf
<1>4. t[l + 1] = w
  <2>1. l + 1 \in 1 .. l + 1 /\ ~(l + 1 \in Having(all, key))
    BY <1>1
  <2>2. l + 1 \in Having(more, key) <=> key \in DOMAIN Document(p)
    BY <1>1, <2>1
  <2> HIDE DEF l
  <2> QED BY <1>1, <2>1, <2>2 DEF ListsOf
<1>5. t = [n \in 1 .. l + 1 |-> t[n]]
  BY <1>1 DEF ListsOf
<1>6. <<w>> \in Seq(Seq(Scalars)) /\ Len(<<w>>) = 1 /\ <<w>>[1] = w
  OBVIOUS
<1> HIDE DEF s, t, l
<1>7. t \in Seq(Seq(Scalars)) /\ Len(t) = l + 1
  <2>1. \A n \in 1 .. l + 1 : t[n] \in Seq(Scalars)
    <3>1. \A n \in 1 .. l : s[n] \in Seq(Scalars)
      BY <1>2
    <3>2. \A n \in 1 .. l + 1 : n \in 1 .. l \/ n = l + 1
      BY <1>1
    <3> QED BY <1>3, <1>4, <3>1, <3>2
  <2>2. l + 1 \in Nat
    BY <1>1
  <2> QED BY <1>5, <2>1, <2>2
<1>8. c \in Seq(Seq(Scalars)) /\ Len(c) = l + 1 /\ c[l + 1] = w /\ \A n \in 1 .. l : c[n] = s[n]
  <2> DEFINE o == <<w>>
  <2>1. o \in Seq(Seq(Scalars)) /\ Len(o) = 1 /\ o[1] = w
    BY <1>6
  <2> HIDE DEF o
  <2>2. /\ s \o o \in Seq(Seq(Scalars)) /\ Len(s \o o) = Len(s) + Len(o)
        /\ \A n \in 1 .. Len(s) + Len(o) : (s \o o)[n] = IF n <= Len(s) THEN s[n] ELSE o[n - Len(s)]
    BY <1>2, <2>1, ConcatProperties
  <2>3. l + 1 \in 1 .. Len(s) + Len(o) /\ ~(l + 1 <= l) /\ (l + 1) - l = 1
        /\ \A n \in 1 .. l : n \in 1 .. Len(s) + Len(o) /\ n <= l
    BY <1>1, <1>2, <2>1
  <2>4. /\ s \o o \in Seq(Seq(Scalars)) /\ Len(s \o o) = l + 1 /\ (s \o o)[l + 1] = w
        /\ \A n \in 1 .. l : (s \o o)[n] = s[n]
    BY <1>2, <2>1, <2>2, <2>3
  <2> QED BY <2>4 DEF o
<1> HIDE DEF c
<1>9. t = c
  <2>1. \A n \in 1 .. Len(t) : t[n] = c[n]
    <3>1. \A n \in 1 .. l + 1 : n \in 1 .. l \/ n = l + 1
      BY <1>1
    <3> QED BY <1>3, <1>4, <1>7, <1>8, <3>1
  <2> QED BY <1>7, <1>8, <2>1, SeqEqual
<1>10. FlattenSeq(c) = FlattenSeq(s) \o w
  <2> DEFINE o == <<w>>
  <2>1. FlattenSeq(o) = w /\ o \in Seq(Seq(Scalars))
    BY <1>6, FlattenOne
  <2> HIDE DEF o
  <2>2. FlattenSeq(s \o o) = FlattenSeq(s) \o FlattenSeq(o)
    BY <1>2, <2>1, FlattenConcat
  <2> QED BY <2>1, <2>2 DEF o, c
<1> QED BY <1>9, <1>10 DEF ListReads, s, t

\* doc is what these files say.
KindsAgree(all, key, kind) == \A n \in Having(all, key) : Document(all[n])[key].kind = kind
Says(all, doc) ==
    /\ \A key : key \in DOMAIN doc <=> key = "cache" \/ Having(all, key) # {}
    /\ \A key \in DOMAIN doc \ {"cache"} :
          Reads(all, key, doc[key]) /\ KindsAgree(all, key, doc[key].kind)

LEMMA SaysNothing ==
  ASSUME Made(Scalars, Scalars)
  PROVE  Says(<<>>, NewConfig) /\ IsDocument(NewConfig, Scalars, Scalars)
<1>1. DOMAIN NewConfig = {"cache"} /\ IsDocument(NewConfig, Scalars, Scalars)
  BY FitsScalars, NewConfigType DEF Fits
<1>2. \A key : Having(<<>>, key) = {}
  BY DEF Having
<1> QED BY <1>1, <1>2 DEF Says

\* One file more.
LEMMA SaysThen ==
  ASSUME Made(Scalars, Scalars), NEW all, NEW p, NEW more, Then(all, p, more),
         NEW doc, IsDocument(doc, Scalars, Scalars), Says(all, doc),
         ~Clash(doc, Document(p))
  PROVE  Says(more, Merge(doc, Document(p)))
<1> DEFINE d == Document(p)
           m == Merge(doc, d)
           l == Len(all)
<1>0. IsMerge(doc, d, m)
  BY MergeIs
<1>1. p \in Paths /\ all \in Seq(Paths) /\ IsDocument(d, Scalars, Scalars)
  BY DocumentType DEF Then
<1>2. IsDocument(m, Scalars, Scalars)
  BY <1>1, MergeType
<1>3. ASSUME NEW key PROVE HasMore(all, p, more, key, l)
  BY HavingThen
<1> HIDE DEF m, l
<1>4. ASSUME NEW key
      PROVE  Having(more, key) = Having(all, key) \cup (IF key \in DOMAIN d THEN {l + 1} ELSE {})
  BY <1>3 DEF HasMore
<1>5. \A key : key \in DOMAIN m <=> key = "cache" \/ Having(more, key) # {}
  <2> SUFFICES ASSUME NEW key
               PROVE  key \in DOMAIN m <=> key = "cache" \/ Having(more, key) # {}
    OBVIOUS
  <2>1. key \in DOMAIN m <=> key \in DOMAIN doc \/ key \in DOMAIN d
    BY <1>0 DEF IsMerge
  <2>2. key \in DOMAIN doc <=> key = "cache" \/ Having(all, key) # {}
    BY DEF Says
  <2> QED BY <1>4, <2>1, <2>2
<1>6. ASSUME NEW key \in DOMAIN m \ {"cache"}
      PROVE  Reads(more, key, m[key]) /\ KindsAgree(more, key, m[key].kind)
  <2> DEFINE H == Having(all, key)
             node == m[key]
  <2>1. IsNode(node, Scalars, Scalars)
    BY <1>2 DEF IsDocument
  <2>2. /\ l \in Nat /\ H \subseteq 1 .. l /\ more[l + 1] = p /\ \A n \in 1 .. l : more[n] = all[n]
        /\ Having(more, key) = H \cup (IF key \in DOMAIN d THEN {l + 1} ELSE {})
    <3>1. l \in Nat /\ H \subseteq 1 .. l
      BY <1>3 DEF HasMore
    <3>2. more[l + 1] = p /\ \A n \in 1 .. l : more[n] = all[n]
      BY DEF Then, l
    <3> HIDE DEF H, d
    <3> QED BY <1>4, <3>1, <3>2 DEF H
  <2>3. ASSUME NEW kind, KindsAgree(all, key, kind), key \in DOMAIN d => d[key].kind = kind
        PROVE  KindsAgree(more, key, kind)
    <3> HIDE DEF H
    <3>1. \A n \in H : Document(all[n])[key].kind = kind
      BY <2>3 DEF KindsAgree, H
    <3>2. \A n \in Having(more, key) : Document(more[n])[key].kind = kind
      BY <2>2, <2>3, <3>1
    <3> QED BY <3>2 DEF KindsAgree
  <2>4. key \in DOMAIN doc => /\ H # {} /\ IsNode(doc[key], Scalars, Scalars)
                              /\ Reads(all, key, doc[key]) /\ KindsAgree(all, key, doc[key].kind)
    BY DEF Says, IsDocument
  <2>5. key \notin DOMAIN doc => H = {} /\ key \in DOMAIN d
    <3>1. key \in DOMAIN m <=> key \in DOMAIN doc \/ key \in DOMAIN d
      BY <1>0 DEF IsMerge
    <3> QED BY <1>6, <3>1 DEF Says
  <2>6. key \in DOMAIN d => IsNode(d[key], Scalars, Scalars)
    BY <1>1 DEF IsDocument
  <2>7. ASSUME key \in DOMAIN doc, doc[key].kind = "list" PROVE AreLists(all, key)
    <3>1. KindsAgree(all, key, "list")
      BY <2>4, <2>7
    <3>2. ASSUME NEW n \in H PROVE ValueAt(all, key, n) \in Seq(Scalars)
      <4>1. n \in DOMAIN all /\ key \in DOMAIN Document(all[n]) /\ Document(all[n])[key].kind = "list"
        BY <3>1 DEF KindsAgree, Having
      <4>2. all[n] \in Paths
        BY <1>1, <4>1
      <4>3. IsNode(Document(all[n])[key], Scalars, Scalars)
        BY <4>1, <4>2, DocumentType DEF IsDocument
      <4> QED BY <4>1, <4>3 DEF IsNode, ValueAt
    <3> QED BY <3>2 DEF AreLists
  <2>8. AreLists(all, key) /\ H = {} => FlattenSeq(ListsOf(all, key)) = <<>>
    BY <1>1, ListsType
  <2>9. H = {} => AreLists(all, key) /\ \A kind : KindsAgree(all, key, kind)
    BY DEF AreLists, KindsAgree
  <2> HIDE DEF H, node, d
  <2>10. CASE key \in Both(doc, d)
    <3>1. key \in DOMAIN doc /\ key \in DOMAIN d /\ doc[key].kind = d[key].kind
      BY <2>10 DEF Both, Clash, d
    <3>2. node = MergeNode(doc[key], d[key])
      BY <1>0, <2>10 DEF IsMerge, node
    <3>3. IsMergeNode(doc[key], d[key], node)
      BY <2>4, <2>6, <3>1, <3>2, NodesMerge
    <3>4. /\ node.kind = doc[key].kind
          /\ doc[key].kind = "scalar" => node.value = doc[key].value
          /\ doc[key].kind = "list" => node.value = doc[key].value \o d[key].value
          /\ doc[key].kind = "map" => node.value = Over(doc[key].value, d[key].value)
      BY <3>3 DEF IsMergeNode
    <3>5. /\ doc[key].kind = "scalar" => ScalarReads(all, key, doc[key].value)
          /\ doc[key].kind = "list" => ListReads(all, key, doc[key].value)
          /\ doc[key].kind = "map" => MapReads(all, key, doc[key].value)
      BY <2>4, <3>1, ReadsIs
    <3>6. node.kind = "scalar" => ScalarReads(more, key, node.value)
      BY <2>4, <3>1, <3>4, <3>5, ScalarThen DEF H
    <3>7. ASSUME node.kind = "list" PROVE ListReads(more, key, node.value)
      <4>1. AreLists(all, key) /\ d[key].value \in Seq(Scalars)
        BY <2>6, <2>7, <3>1, <3>4, <3>7 DEF IsNode
      <4>2. ListReads(more, key, FlattenSeq(ListsOf(all, key)) \o d[key].value)
        <5> DEFINE w == d[key].value
        <5>1. w \in Seq(Scalars) /\ w = IF key \in DOMAIN Document(p) THEN Document(p)[key].value ELSE <<>>
          BY <3>1, <4>1 DEF d
        <5> HIDE DEF w
        <5>2. ListReads(more, key, FlattenSeq(ListsOf(all, key)) \o w)
          BY <4>1, <5>1, ListThen
        <5> QED BY <5>2 DEF w
      <4>3. doc[key].value = FlattenSeq(ListsOf(all, key))
        BY <3>4, <3>5, <3>7 DEF ListReads
      <4> QED BY <3>4, <3>7, <4>2, <4>3
    <3>8. node.kind = "map" => MapReads(more, key, node.value)
      BY <3>1, <3>4, <3>5, MapThen DEF d
    <3>9. Reads(more, key, node)
      BY <2>1, <3>6, <3>7, <3>8, ReadsIs
    <3>10. KindsAgree(more, key, node.kind)
      BY <2>3, <2>4, <3>1, <3>4
    <3> QED BY <3>9, <3>10 DEF node
  <2>11. CASE key \in DOMAIN doc \ DOMAIN d
    <3>1. node = doc[key] /\ H # {}
      BY <1>0, <2>4, <2>11 DEF IsMerge, node
    <3>2. /\ node.kind = "scalar" => ScalarReads(all, key, node.value)
          /\ node.kind = "list" => ListReads(all, key, node.value)
          /\ node.kind = "map" => MapReads(all, key, node.value)
      BY <2>4, <2>11, <3>1, ReadsIs
    <3>3. node.kind = "scalar" => ScalarReads(more, key, node.value)
      BY <3>1, <3>2, ScalarThen DEF H
    <3>4. ASSUME node.kind = "list" PROVE ListReads(more, key, node.value)
      <4>1. AreLists(all, key)
        BY <2>7, <2>11, <3>1, <3>4
      <4> DEFINE w == <<>>
      <4>2. w \in Seq(Scalars) /\ w = IF key \in DOMAIN Document(p) THEN Document(p)[key].value ELSE <<>>
        BY <2>11 DEF d
      <4> HIDE DEF w
      <4>3. ListReads(more, key, FlattenSeq(ListsOf(all, key)) \o w)
        BY <4>1, <4>2, ListThen
      <4>4. node.value = FlattenSeq(ListsOf(all, key))
        BY <3>2, <3>4 DEF ListReads
      <4>5. node.value \in Seq(Scalars)
        BY <2>1, <3>4 DEF IsNode
      <4>6. node.value \o w = node.value
        BY <4>5, ConcatEmptySeq DEF w
      <4> QED BY <4>3, <4>4, <4>6
    <3>5. node.kind = "map" => MapReads(more, key, node.value)
      BY <2>11, <3>2, MapThen DEF d
    <3>6. Reads(more, key, node)
      BY <2>1, <3>3, <3>4, <3>5, ReadsIs
    <3>7. KindsAgree(more, key, node.kind)
      BY <2>3, <2>4, <2>11, <3>1
    <3> QED BY <3>6, <3>7 DEF node
  <2>12. CASE key \in DOMAIN d \ DOMAIN doc
    <3>1. node = d[key] /\ H = {}
      BY <1>0, <2>5, <2>12 DEF IsMerge, node
    <3>2. node.kind = "scalar" => ScalarReads(more, key, node.value)
      BY <2>12, <3>1, ScalarThen DEF H, d
    <3>3. ASSUME node.kind = "list" PROVE ListReads(more, key, node.value)
      <4> DEFINE w == node.value
      <4>1. w \in Seq(Scalars) /\ w = IF key \in DOMAIN Document(p) THEN Document(p)[key].value ELSE <<>>
        BY <2>1, <2>12, <3>1, <3>3 DEF IsNode, d
      <4>2. AreLists(all, key) /\ FlattenSeq(ListsOf(all, key)) = <<>>
        BY <2>8, <2>9, <3>1
      <4> HIDE DEF w
      <4>3. ListReads(more, key, FlattenSeq(ListsOf(all, key)) \o w)
        BY <4>1, <4>2, ListThen
      <4>4. <<>> \o w = w
        BY <4>1, ConcatEmptySeq
      <4> QED BY <4>2, <4>3, <4>4 DEF w
    <3>4. node.kind = "map" => MapReads(more, key, node.value)
      BY <2>12, <3>1, MapThen DEF d, H
    <3>5. Reads(more, key, node)
      BY <2>1, <3>2, <3>3, <3>4, ReadsIs
    <3>6. KindsAgree(more, key, node.kind)
      BY <2>3, <2>9, <2>12, <3>1
    <3> QED BY <3>5, <3>6 DEF node
  <2> QED BY <2>5, <2>10, <2>11, <2>12 DEF Both
<1> QED BY <1>5, <1>6 DEF Says, m

-----------------------------------------------------------------------------
(* A load reads the files in their order. *)

\* Some of the files are read and are what doc says, and the calls s have still
\* to bring the rest.
InOrder(s, doc) ==
    \E done, rest \in Seq(Paths) :
        /\ LeftIs(s, rest) /\ done \o rest = Visits[MaxDepth][Recipe]
        /\ Says(done, doc)

\* All the files are read.
AllSaid ==
    LET all == Visits[MaxDepth][Recipe]
    IN  /\ DOMAIN config = {"cache"} \cup UNION {DOMAIN Document(p) : p \in Range(all)}
        /\ \A key \in DOMAIN config \ {"cache"} : Reads(all, key, config[key])

LEMMA SameFiles ==
  ASSUME text' = text, files' = files
  PROVE  /\ InOrder(stack, config)' <=> InOrder(stack', config')
         /\ config' = config => (AllSaid' <=> AllSaid)
<1>1. /\ Visits' = Visits /\ Paths' = Paths
      /\ \A p : Document(p)' = Document(p)
      /\ \A dir, name : Found(dir, name)' = Found(dir, name)
  BY DEF Visits, Merges, Document, Found, Paths
<1>2. \A n, dir, names : BringsAll(n, dir, names)' = BringsAll(n, dir, names)
  BY <1>1 DEF BringsAll, BroughtBy, Brings
<1>3. \A s, rest : LeftIs(s, rest)' <=> LeftIs(s, rest)
  BY <1>1, <1>2 DEF LeftIs, Left, Rest
<1>4. \A all, key, node : Reads(all, key, node)' <=> Reads(all, key, node)
  BY DEF Reads, Document
<1>5. \A all, doc : Says(all, doc)' <=> Says(all, doc)
  BY <1>1, <1>4 DEF Says, Having, KindsAgree
<1>6. InOrder(stack, config)' <=> InOrder(stack', config')
  BY <1>1, <1>3, <1>5 DEF InOrder
<1>7. config' = config => (AllSaid' <=> AllSaid)
  BY <1>1, <1>4 DEF AllSaid
<1> QED BY <1>6, <1>7

LEMMA RecipeStep ==
  ASSUME Made(Scalars, Scalars), LoadRecipe, phase' = "load"
  PROVE  InOrder(stack', config')
<1> DEFINE d == Document(Recipe)
           f == FrameOf(Recipe)
           o == <<Recipe>>
           r == Rest(f, 1)
           e == <<>>
<1>1. d = Parse(text) /\ Recipe \in Paths /\ Recipe[1] = Home
  BY DEF Document, Recipe, Paths
<1>2. f \in Frames /\ f = [dir |-> Home, names |-> StringSlice(d, "merge")]
  <2>1. StringSlice(d, "merge") \in Seq(Scalars) /\ Home \in Dirs
    BY <1>1, DocumentType, SliceType DEF Dirs
  <2> QED BY <1>1, <2>1 DEF FrameOf, Frames
<1>3. /\ ~Clash(NewConfig, d)
      /\ config' = Merge(NewConfig, d) /\ stack' = Append(<<>>, f)
  <2>1. UpdateFrom(d, Home, NewConfig, <<>>)
    BY <1>1 DEF LoadRecipe, NewConfig
  <2> HIDE DEF d, f
  <2> QED BY <1>2, <2>1 DEF UpdateFrom, End
<1>4. Visits[MaxDepth][Recipe] = o \o r
  <2>1. 1 \in 1 .. MaxDepth + 1 /\ MaxDepth + 1 - 1 = MaxDepth
    BY RecipeFilesAssumption
  <2> QED BY <1>1, <2>1, RestOfFile
<1>5. e \in Seq(Paths) /\ o \in Seq(Paths) /\ r \in Seq(Paths) /\ e \o o = o
  <2>1. o \in Seq(Paths) /\ e \in Seq(Paths)
    BY <1>1
  <2> HIDE DEF f, o
  <2>2. <<>> \o o = o
    BY <2>1, ConcatEmptySeq
  <2> QED BY <1>2, <2>1, <2>2, RestType
<1>6. Then(e, Recipe, o)
  <2>1. Then(e, Recipe, e \o <<Recipe>>)
    BY <1>1, <1>5, ThenIs
  <2> QED BY <1>5, <2>1
<1> HIDE DEF d, f, r
<1>7. LeftIs(stack', r)
  <2>1. LeftIs(<<f>>, Rest(f, 1))
    BY <1>2, LeftFirst
  <2>2. stack' = <<f>>
    BY <1>3
  <2> QED BY <2>1, <2>2 DEF r
<1>8. Says(o, config')
  <2>1. Says(e, NewConfig) /\ IsDocument(NewConfig, Scalars, Scalars)
    BY SaysNothing
  <2> HIDE DEF e, o
  <2> QED BY <1>3, <1>6, <2>1, SaysThen DEF d
<1> HIDE DEF o
<1> QED BY <1>4, <1>5, <1>7, <1>8 DEF InOrder

LEMMA NextStep ==
  ASSUME Made(Scalars, Scalars), stack \in Seq(Frames), InOrder(stack, config),
         MergeNext, phase' = "load"
  PROVE  InOrder(stack', config')
<1> DEFINE top == Last(stack)
           found == Found(top.dir, Head(top.names))
           d == Document(found)
           f == FrameOf(found)
<1>1. /\ stack # <<>> /\ top.names # <<>> /\ Len(stack) <= MaxDepth
      /\ found = <<>> => End("failed") /\ config' = config
      /\ found # <<>> => UpdateFrom(files[found], found[1], config, Below(stack))
  BY MergeNextDoes
<1>2. found # <<>>
  BY <1>1 DEF End
<1>3. found \in DOMAIN files /\ found \in Paths /\ found[1] \in Dirs
  BY <1>2, FoundIs, FoundPath, FoundDir DEF Made
<1>4. d = files[found]
  <2>1. found # Recipe
    BY <1>3, RecipeFilesAssumption DEF Made
  <2> HIDE DEF found
  <2> QED BY <2>1 DEF Document
<1> HIDE DEF found
<1>5. f \in Frames /\ f = [dir |-> found[1], names |-> StringSlice(d, "merge")]
  <2>1. StringSlice(d, "merge") \in Seq(Scalars)
    BY <1>3, DocumentType, SliceType
  <2> QED BY <1>3, <2>1 DEF FrameOf, Frames
<1>6. ~Clash(config, d) /\ config' = Merge(config, d) /\ stack' = Append(Below(stack), f)
  <2>1. UpdateFrom(d, found[1], config, Below(stack))
    BY <1>1, <1>2, <1>4
  <2> HIDE DEF d, f
  <2> QED BY <1>5, <2>1 DEF UpdateFrom, End
<1>7. PICK done, rest \in Seq(Paths) :
        /\ LeftIs(stack, rest) /\ done \o rest = Visits[MaxDepth][Recipe]
        /\ Says(done, config)
  BY DEF InOrder
<1>8. PICK more \in Seq(Paths) :
        LeftIs(Append(Below(stack), f), more) /\ rest = <<found>> \o more
  <2>1. found = Found(Last(stack).dir, Head(Last(stack).names)) /\ f = FrameOf(found)
    BY DEF found
  <2>2. Last(stack).names # <<>> /\ LeftIs(stack, rest)
    BY <1>1, <1>7
  <2> HIDE DEF f, top
  <2> QED BY <1>1, <1>2, <1>5, <2>1, <2>2, LeftNext
<1> DEFINE o == <<found>>
           now == done \o o
<1>9. o \in Seq(Paths) /\ now \in Seq(Paths) /\ Then(done, found, now)
  <2>1. o \in Seq(Paths)
    BY <1>3
  <2>2. Then(done, found, done \o <<found>>)
    BY <1>3, <1>7, ThenIs
  <2>3. now \in Seq(Paths)
    BY <2>2 DEF Then
  <2> QED BY <2>1, <2>2, <2>3
<1> HIDE DEF d, f, o
<1>10. now \o more = Visits[MaxDepth][Recipe]
  <2>1. (done \o o) \o more = done \o (o \o more)
    BY <1>7, <1>8, <1>9, ConcatAssociative
  <2>2. o \o more = rest
    BY <1>8 DEF o
  <2> QED BY <1>7, <2>1, <2>2
<1>11. LeftIs(stack', more)
  BY <1>6, <1>8
<1> HIDE DEF now
<1>12. Says(now, config')
  <2>1. IsDocument(config, Scalars, Scalars) /\ Says(done, config)
    BY <1>7 DEF Made
  <2> QED BY <1>6, <1>9, <2>1, SaysThen DEF d
<1> QED BY <1>8, <1>9, <1>10, <1>11, <1>12 DEF InOrder

LEMMA ReturnStep ==
  ASSUME Made(Scalars, Scalars), stack \in Seq(Frames), InOrder(stack, config), Return
  PROVE  InOrder(stack', config')
<1>1. stack # <<>> /\ Last(stack).names = <<>> /\ stack' = Front(stack) /\ config' = config
  BY DEF Return
<1>2. PICK done, rest \in Seq(Paths) :
        /\ LeftIs(stack, rest) /\ done \o rest = Visits[MaxDepth][Recipe]
        /\ Says(done, config)
  BY DEF InOrder
<1>3. LeftIs(stack', rest)
  BY <1>1, <1>2, LeftReturn
<1> QED BY <1>1, <1>2, <1>3 DEF InOrder

LEMMA LoadedStep ==
  ASSUME InOrder(stack, config), stack = <<>>
  PROVE  AllSaid
<1> DEFINE all == Visits[MaxDepth][Recipe]
<1>1. PICK done, rest \in Seq(Paths) :
        LeftIs(stack, rest) /\ done \o rest = all /\ Says(done, config)
  BY DEF InOrder
<1>2. rest = <<>>
  BY <1>1 DEF LeftIs, Left
<1>3. done = all
  <2>1. done \o <<>> = done
    BY ConcatEmptySeq
  <2> QED BY <1>1, <1>2, <2>1
<1>4. /\ \A key : key \in DOMAIN config <=> key = "cache" \/ Having(all, key) # {}
      /\ \A key \in DOMAIN config \ {"cache"} : Reads(all, key, config[key])
  BY <1>1, <1>3 DEF Says
<1> HIDE DEF all
<1>5. \A key : Having(all, key) # {} <=> key \in UNION {DOMAIN Document(p) : p \in Range(all)}
  BY DEF Having, Range
<1>6. DOMAIN config = {"cache"} \cup UNION {DOMAIN Document(p) : p \in Range(all)}
  BY <1>4, <1>5
<1> QED BY <1>4, <1>6 DEF AllSaid, all

\* What LoadRecipe has loaded is what the files say, the recipe first and each
\* file (UpdateFrom) before those it merges and these before the next name: while
\* it loads, the files read and those the open calls still bring are all files.
THEOREM OrderOfLoad == Spec => []LoadsInOrder
<1> DEFINE Inv == /\ phase = "load" => InOrder(stack, config)
                  /\ phase = "loaded" => AllSaid
<1>1. Init => Inv
  BY DEF Init
<1>2. Made(Scalars, Scalars) /\ stack \in Seq(Frames) /\ Inv /\ [Next]_vars => Inv'
  <2> SUFFICES ASSUME Made(Scalars, Scalars), stack \in Seq(Frames), Inv, [Next]_vars
               PROVE  Inv'
    OBVIOUS
  <2> DEFINE Still == text' = text /\ files' = files
  <2>1. ASSUME Still, phase' = "load" => InOrder(stack', config'), phase' # "loaded"
        PROVE  Inv'
    BY <2>1, SameFiles
  <2>2. ASSUME Still, config' = config, phase' # "load", phase' = "loaded" => AllSaid
        PROVE  Inv'
    BY <2>2, SameFiles
  <2>3. ASSUME phase' \notin {"load", "loaded"} PROVE Inv'
    BY <2>3
  <2> HIDE DEF Inv
  <2>4. CASE LoadRecipe
    <3>1. Still /\ phase' # "loaded"
      BY <2>4 DEF LoadRecipe, UpdateFrom, End
    <3> QED BY <2>1, <2>4, <3>1, RecipeStep
  <2>5. CASE MergeNext
    <3>1. Still /\ phase' # "loaded" /\ InOrder(stack, config)
      BY <2>5 DEF MergeNext, UpdateFrom, End, Inv
    <3> QED BY <2>1, <2>5, <3>1, NextStep
  <2>6. CASE Return
    <3>1. Still /\ phase' # "loaded" /\ InOrder(stack, config)
      BY <2>6 DEF Return, Inv
    <3> QED BY <2>1, <2>6, <3>1, ReturnStep
  <2>7. CASE Loaded
    <3>1. /\ Still /\ config' = config /\ phase' # "load" /\ stack = <<>>
          /\ InOrder(stack, config)
      BY <2>7 DEF Loaded, Inv
    <3> QED BY <2>2, <3>1, LoadedStep
  <2>8. CASE Replace \/ NextSource \/ Resolved
    <3>1. /\ Still /\ config' = config /\ phase' # "load"
          /\ phase' = "loaded" => AllSaid
      BY <2>8 DEF Replace, NextSource, Resolved, Inv
    <3> QED BY <2>2, <3>1
  <2>9. CASE Interrupt
    BY <2>3, <2>9 DEF Interrupt, End
  <2>10. ASSUME NEW new \in Patches, RecordWorkspacePatches(new) PROVE Inv'
    BY <2>3, <2>10 DEF RecordWorkspacePatches
  <2>11. ASSUME NEW patch, ListByHand(patch) PROVE Inv'
    BY <2>3, <2>11 DEF ListByHand
  <2>12. CASE UNCHANGED vars
    <3>1. Still /\ config' = config /\ stack' = stack /\ phase' = phase
      BY <2>12 DEF vars
    <3> QED BY <2>1, <2>2, <3>1 DEF Inv
  <2> QED BY <2>4, <2>5, <2>6, <2>7, <2>8, <2>9, <2>10, <2>11, <2>12 DEF Next, Goes, People
<1>3. Inv => LoadsInOrder
  BY DEF AllSaid, LoadsInOrder
<1>4. TypeOK => stack \in Seq(Frames)
  BY DEF TypeOK, Frames
<1> HIDE DEF Inv
<1> QED BY <1>1, <1>2, <1>3, <1>4, MadeOfScalars, TypeCorrect, PTL DEF Spec

-----------------------------------------------------------------------------
(* What a source becomes, and what it is spelled out to. *)

SpelledOf(v, n, x) ==
    IF IsWord(x) \/ n = 0 THEN <<x>>
    ELSE FlattenSeq([k \in DOMAIN Means(x) |-> v[Means(x)[k]]])
SpelledTurn(v, n) == [x \in Piece |-> SpelledOf(v, n, x)]
SpelledTo(V, m) == V = [n \in 0 .. m |-> SpelledTurn(V[n - 1], n)]

\* There is such a function for every depth.
LEMMA SpelledGo == SpelledTo(Spelled, MaxPieces)
<1>0. MaxPieces \in Nat
  BY RecipeFilesAssumption
<1>1. \A u, v : SpelledTurn(u, 0) = SpelledTurn(v, 0)
  BY DEF SpelledTurn, SpelledOf
<1> DEFINE T == {m \in 0 .. MaxPieces : \E V : SpelledTo(V, m)}
<1>2. 0 \in T
  <2> DEFINE V == [n \in 0 .. 0 |-> SpelledTurn(<<>>, 0)]
  <2>1. DOMAIN V = {0} /\ V[0] = SpelledTurn(<<>>, 0)
    OBVIOUS
  <2>2. SpelledTurn(V[0 - 1], 0) = SpelledTurn(<<>>, 0)
    BY <1>1
  <2>3. V = [n \in 0 .. 0 |-> SpelledTurn(V[n - 1], n)]
    <3>1. \A n \in 0 .. 0 : n = 0
      OBVIOUS
    <3>2. \A n \in 0 .. 0 : SpelledTurn(V[n - 1], n) = SpelledTurn(<<>>, 0)
      <4> HIDE DEF V
      <4> QED BY <2>2, <3>1
    <3> QED BY <3>2
  <2> HIDE DEF V
  <2>4. SpelledTo(V, 0)
    BY <2>3 DEF SpelledTo
  <2>5. \E W : SpelledTo(W, 0)
    BY <2>4
  <2> QED BY <1>0, <2>5
<1>3. ASSUME NEW m \in 0 .. MaxPieces - 1, m \in T PROVE m + 1 \in T
  <2>0. m \in Nat /\ m + 1 \in 0 .. MaxPieces
    BY <1>0
  <2>1. PICK V : SpelledTo(V, m)
    BY <1>3
  <2>2. \A n \in 0 .. m : V[n] = SpelledTurn(V[n - 1], n)
    <3>1. V = [n \in 0 .. m |-> SpelledTurn(V[n - 1], n)]
      BY <2>1 DEF SpelledTo
    <3> QED BY <3>1
  <2> DEFINE W == [n \in 0 .. m + 1 |-> IF n <= m THEN V[n] ELSE SpelledTurn(V[m], m + 1)]
  <2>3. \A n \in 0 .. m : W[n] = V[n]
    BY <2>0
  <2>4. DOMAIN W = 0 .. m + 1 /\ W[m + 1] = SpelledTurn(V[m], m + 1)
    BY <2>0
  <2>5. W = [n \in 0 .. m + 1 |-> W[n]]
    OBVIOUS
  <2> HIDE DEF W
  <2>6. ASSUME NEW n \in 0 .. m + 1 PROVE W[n] = SpelledTurn(W[n - 1], n)
    <3>1. CASE n = 0
      <4>1. W[0] = V[0] /\ V[0] = SpelledTurn(V[0 - 1], 0)
        BY <2>0, <2>2, <2>3
      <4>2. SpelledTurn(V[0 - 1], 0) = SpelledTurn(W[0 - 1], 0)
        BY <1>1
      <4> QED BY <3>1, <4>1, <4>2
    <3>2. CASE n \in 1 .. m
      <4>1. W[n] = V[n] /\ V[n] = SpelledTurn(V[n - 1], n) /\ W[n - 1] = V[n - 1]
        BY <2>0, <2>2, <2>3, <3>2
      <4> QED BY <4>1
    <3>3. CASE n = m + 1
      <4>1. n - 1 = m /\ W[m] = V[m]
        BY <2>0, <2>3, <3>3
      <4> QED BY <2>4, <3>3, <4>1
    <3> QED BY <2>0, <3>1, <3>2, <3>3
  <2>7. SpelledTo(W, m + 1)
    BY <2>5, <2>6 DEF SpelledTo
  <2>8. \E U : SpelledTo(U, m + 1)
    BY <2>7
  <2> QED BY <2>0, <2>8
<1> HIDE DEF T
<1>4. \A k \in 0 .. MaxPieces : k \in T
  BY <1>0, <1>2, <1>3, Induct
<1>5. \E V : SpelledTo(V, MaxPieces)
  BY <1>0, <1>4 DEF T
<1>6. Spelled = CHOOSE V : SpelledTo(V, MaxPieces)
  BY DEF Spelled, SpelledTo, SpelledTurn, SpelledOf
<1> QED BY <1>5, <1>6

\* A source, each of its pieces spelled out n deep.
Each(n, s) == [k \in DOMAIN s |-> Spelled[n][s[k]]]
Deep(n, s) == FlattenSeq(Each(n, s))

LEMMA SpelledIs ==
  ASSUME NEW n \in 0 .. MaxPieces, NEW x \in Piece
  PROVE  Spelled[n][x] = IF IsWord(x) \/ n = 0 THEN <<x>> ELSE Deep(n - 1, Means(x))
<1>1. Spelled = [k \in 0 .. MaxPieces |-> SpelledTurn(Spelled[k - 1], k)]
  BY SpelledGo DEF SpelledTo
<1>2. Spelled[n] = SpelledTurn(Spelled[n - 1], n)
  BY <1>1
<1>3. Spelled[n][x] = SpelledOf(Spelled[n - 1], n, x)
  BY <1>2 DEF SpelledTurn
<1> QED BY <1>3 DEF SpelledOf, Deep, Each

\* The first of the mappings that has a name is where its value is from.
LEMMA MeaningIs ==
  ASSUME NEW name
  PROVE  Meaning(name) = IF name \in DOMAIN Variables THEN Variables[name] ELSE <<>>
<1> DEFINE b == [k \in {"build-dir"} |-> <<Word("_pkgupd_build_dir")>>]
           v == ScalarMap(config, "variables")
           t == TopScalars(config)
           g == Globals
           given == <<b, v, t, g>>
           has == {k \in DOMAIN given : name \in DOMAIN given[k]}
<1>1. Meaning(name) = IF has = {} THEN <<>> ELSE given[Min(has)][name]
  BY DEF Meaning
<1>2. Variables = Over(b, Over(v, Over(t, g)))
  BY DEF Variables
<1> HIDE DEF b, v, t, g
<1>3. /\ has \in SUBSET Nat /\ has \subseteq 1 .. 4
      /\ given[1] = b /\ given[2] = v /\ given[3] = t /\ given[4] = g
      /\ 1 \in has <=> name \in DOMAIN b
      /\ 2 \in has <=> name \in DOMAIN v
      /\ 3 \in has <=> name \in DOMAIN t
      /\ 4 \in has <=> name \in DOMAIN g
  OBVIOUS
<1> HIDE DEF given, has
<1>4. IsOver(t, g, Over(t, g))
  BY OverIs
<1>5. IsOver(v, Over(t, g), Over(v, Over(t, g)))
  BY OverIs
<1>6. IsOver(b, Over(v, Over(t, g)), Variables)
  BY <1>2, OverIs
<1>7. CASE has = {}
  <2>1. name \notin DOMAIN Variables
    BY <1>3, <1>4, <1>5, <1>6, <1>7 DEF IsOver
  <2> QED BY <1>1, <1>7, <2>1
<1>8. CASE has # {}
  <2>1. Min(has) \in has /\ \A k \in has : Min(has) <= k
    BY <1>3, <1>8, MinFacts
  <2> DEFINE m == Min(has)
  <2> HIDE DEF m
  <2>2. m \in {1, 2, 3, 4} /\ m \in has /\ \A k \in has : m <= k
    <3>1. \A k \in 1 .. 4 : k \in {1, 2, 3, 4}
      OBVIOUS
    <3>2. m \in has /\ \A k \in has : m <= k
      BY <2>1 DEF m
    <3>3. m \in 1 .. 4
      BY <1>3, <3>2
    <3> QED BY <3>1, <3>2, <3>3
  <2>3. name \in DOMAIN Variables /\ Variables[name] = given[m][name]
    <3>1. CASE m = 1
      BY <1>3, <1>6, <2>2, <3>1 DEF IsOver
    <3>2. CASE m = 2
      <4>1. name \notin DOMAIN b /\ name \in DOMAIN v
        BY <1>3, <2>2, <3>2
      <4> QED BY <1>3, <1>5, <1>6, <3>2, <4>1 DEF IsOver
    <3>3. CASE m = 3
      <4>1. name \notin DOMAIN b /\ name \notin DOMAIN v /\ name \in DOMAIN t
        BY <1>3, <2>2, <3>3
      <4> QED BY <1>3, <1>4, <1>5, <1>6, <3>3, <4>1 DEF IsOver
    <3>4. CASE m = 4
      <4>1. name \notin DOMAIN b /\ name \notin DOMAIN v /\ name \notin DOMAIN t /\ name \in DOMAIN g
        BY <1>3, <2>2, <3>4
      <4> QED BY <1>3, <1>4, <1>5, <1>6, <3>4, <4>1 DEF IsOver
    <3> QED BY <2>2, <3>1, <3>2, <3>3, <3>4
  <2> QED BY <1>1, <1>8, <2>3 DEF m
<1> QED BY <1>7, <1>8

LEMMA MeansType ==
  ASSUME Made(Scalars, Scalars), NEW x \in Piece, ~IsWord(x)
  PROVE  Means(x) \in Seq(Piece) /\ (Defined(x) => Means(x) = Value(x))
<1>1. \A name \in DOMAIN Variables : Variables[name] \in Seq(Piece)
  BY ScalarsClosed, VariablesType DEF Made, Scalars
<1>2. \A name : Meaning(name) \in Seq(Piece)
  <2>1. <<>> \in Seq(Piece)
    OBVIOUS
  <2> QED BY <1>1, <2>1, MeaningIs
<1>3. CASE "name" \in DOMAIN x
  BY <1>2, <1>3, MeaningIs DEF Means, Defined, Value
<1>4. CASE "name" \notin DOMAIN x
  <2> DEFINE v == Meaning("version")
             m == Min({x.part, Len(v)})
  <2>1. x.part \in Nat /\ v \in Seq(Piece) /\ Len(v) \in Nat
    BY <1>2, <1>4, RecipeFilesAssumption
  <2>2. Means(x) = SubSeq(v, 1, m)
    BY <1>4 DEF Means
  <2>3. m \in {x.part, Len(v)} /\ m <= x.part /\ m <= Len(v)
    <3> DEFINE both == {x.part, Len(v)}
    <3>1. both \in SUBSET Nat /\ both # {} /\ x.part \in both /\ Len(v) \in both
      BY <2>1
    <3> HIDE DEF both, v
    <3>2. Min(both) \in both /\ \A n \in both : Min(both) <= n
      BY <3>1, MinFacts
    <3> QED BY <3>1, <3>2 DEF both
  <2> HIDE DEF m
  <2>4. Means(x) \in Seq(Piece)
    BY <2>1, <2>2, <2>3, SubSeqType
  <2>5. ASSUME Defined(x) PROVE Means(x) = Value(x)
    <3>1. "version" \in DOMAIN Variables /\ x.part < Len(Variables["version"])
          /\ Value(x) = SubSeq(Variables["version"], 1, x.part)
      BY <1>4, <2>5 DEF Defined, Value
    <3>2. v = Variables["version"]
      BY <3>1, MeaningIs
    <3>3. m = x.part
      BY <2>1, <2>3, <3>1, <3>2
    <3> QED BY <2>2, <3>1, <3>2, <3>3
  <2> QED BY <2>4, <2>5
<1> QED BY <1>3, <1>4

LEMMA EachType ==
  ASSUME NEW n, \A x \in Piece : Spelled[n][x] \in Seq(Piece), NEW s \in Seq(Piece)
  PROVE  /\ Each(n, s) \in Seq(Seq(Piece)) /\ Deep(n, s) \in Seq(Piece)
         /\ Len(Each(n, s)) = Len(s)
         /\ \A k \in 1 .. Len(s) : Each(n, s)[k] = Spelled[n][s[k]]
<1> DEFINE e == Each(n, s)
<1>1. Len(s) \in Nat /\ DOMAIN s = 1 .. Len(s) /\ \A k \in 1 .. Len(s) : s[k] \in Piece
  OBVIOUS
<1>2. e = [k \in 1 .. Len(s) |-> Spelled[n][s[k]]]
  BY <1>1 DEF Each
<1>3. e \in Seq(Seq(Piece)) /\ Len(e) = Len(s)
      /\ \A k \in 1 .. Len(s) : e[k] = Spelled[n][s[k]]
  BY <1>1, <1>2
<1> HIDE DEF e
<1>4. FlattenSeq(e) \in Seq(Piece)
  BY <1>3, FlattenType
<1> QED BY <1>3, <1>4 DEF Deep, e

LEMMA SpelledType ==
  ASSUME Made(Scalars, Scalars)
  PROVE  \A n \in 0 .. MaxPieces : \A x \in Piece : Spelled[n][x] \in Seq(Piece)
<1>0. MaxPieces \in Nat
  BY RecipeFilesAssumption
<1> DEFINE T == {n \in 0 .. MaxPieces : \A x \in Piece : Spelled[n][x] \in Seq(Piece)}
<1>1. \A x \in Piece : <<x>> \in Seq(Piece)
  OBVIOUS
<1>2. 0 \in T
  <2>1. 0 \in 0 .. MaxPieces
    BY <1>0
  <2> QED BY <1>1, <2>1, SpelledIs
<1>3. ASSUME NEW n \in 0 .. MaxPieces - 1, n \in T PROVE n + 1 \in T
  <2>1. n + 1 \in 0 .. MaxPieces /\ n + 1 # 0 /\ (n + 1) - 1 = n
    BY <1>0
  <2>2. \A x \in Piece : Spelled[n][x] \in Seq(Piece)
    BY <1>3
  <2>3. ASSUME NEW x \in Piece PROVE Spelled[n + 1][x] \in Seq(Piece)
    <3>1. Spelled[n + 1][x] = IF IsWord(x) THEN <<x>> ELSE Deep(n, Means(x))
      BY <2>1, SpelledIs
    <3>2. ~IsWord(x) => Deep(n, Means(x)) \in Seq(Piece)
      BY <2>2, MeansType, EachType
    <3> QED BY <1>1, <3>1, <3>2
  <2> QED BY <2>1, <2>3
<1> HIDE DEF T
<1>4. \A n \in 0 .. MaxPieces : n \in T
  BY <1>0, <1>2, <1>3, Induct
<1> QED BY <1>4 DEF T

LEMMA DeepType ==
  ASSUME Made(Scalars, Scalars), NEW n \in 0 .. MaxPieces, NEW s \in Seq(Piece)
  PROVE  /\ Each(n, s) \in Seq(Seq(Piece)) /\ Deep(n, s) \in Seq(Piece)
         /\ Len(Each(n, s)) = Len(s)
         /\ \A k \in 1 .. Len(s) : Each(n, s)[k] = Spelled[n][s[k]]
BY SpelledType, EachType

LEMMA DeepConcat ==
  ASSUME Made(Scalars, Scalars), NEW n \in 0 .. MaxPieces,
         NEW s \in Seq(Piece), NEW t \in Seq(Piece)
  PROVE  Deep(n, s \o t) = Deep(n, s) \o Deep(n, t)
<1> DEFINE c == s \o t
           a == Each(n, s)
           b == Each(n, t)
           e == Each(n, c)
           f == a \o b
<1>1. /\ c \in Seq(Piece) /\ Len(c) = Len(s) + Len(t) /\ Len(s) \in Nat /\ Len(t) \in Nat
      /\ \A k \in 1 .. Len(s) + Len(t) : c[k] = IF k <= Len(s) THEN s[k] ELSE t[k - Len(s)]
  BY ConcatProperties
<1> HIDE DEF c
<1>2. /\ a \in Seq(Seq(Piece)) /\ Len(a) = Len(s)
      /\ \A k \in 1 .. Len(s) : a[k] = Spelled[n][s[k]]
  BY DeepType
<1>3. /\ b \in Seq(Seq(Piece)) /\ Len(b) = Len(t)
      /\ \A k \in 1 .. Len(t) : b[k] = Spelled[n][t[k]]
  BY DeepType
<1>4. /\ e \in Seq(Seq(Piece)) /\ Len(e) = Len(c)
      /\ \A k \in 1 .. Len(c) : e[k] = Spelled[n][c[k]]
  BY <1>1, DeepType
<1> HIDE DEF a, b, e
<1>5. /\ f \in Seq(Seq(Piece)) /\ Len(f) = Len(a) + Len(b)
      /\ \A k \in 1 .. Len(a) + Len(b) : f[k] = IF k <= Len(a) THEN a[k] ELSE b[k - Len(a)]
  BY <1>2, <1>3, ConcatProperties
<1>6. FlattenSeq(f) = FlattenSeq(a) \o FlattenSeq(b)
  BY <1>2, <1>3, FlattenConcat
<1> HIDE DEF f
<1>7. e = f
  <2>1. ASSUME NEW k \in 1 .. Len(e) PROVE e[k] = f[k]
    <3>1. CASE k <= Len(s)
      <4>1. k \in 1 .. Len(s) /\ k \in 1 .. Len(s) + Len(t)
        BY <1>1, <1>4, <2>1, <3>1
      <4>2. c[k] = s[k] /\ e[k] = Spelled[n][c[k]]
        BY <1>1, <1>4, <3>1, <4>1
      <4>3. f[k] = a[k] /\ a[k] = Spelled[n][s[k]]
        BY <1>2, <1>3, <1>5, <3>1, <4>1
      <4> QED BY <4>2, <4>3
    <3>2. CASE ~(k <= Len(s))
      <4>1. k - Len(s) \in 1 .. Len(t) /\ k \in 1 .. Len(s) + Len(t)
        BY <1>1, <1>4, <2>1, <3>2
      <4>2. c[k] = t[k - Len(s)] /\ e[k] = Spelled[n][c[k]]
        BY <1>1, <1>4, <3>2, <4>1
      <4>3. f[k] = b[k - Len(s)] /\ b[k - Len(s)] = Spelled[n][t[k - Len(s)]]
        BY <1>2, <1>3, <1>5, <3>2, <4>1
      <4> QED BY <4>2, <4>3
    <3> QED BY <3>1, <3>2
  <2> QED BY <1>1, <1>2, <1>3, <1>4, <1>5, <2>1, SeqEqual
<1> QED BY <1>6, <1>7 DEF Deep, a, b, c, e

LEMMA DeepOne ==
  ASSUME Made(Scalars, Scalars), NEW n \in 0 .. MaxPieces, NEW x \in Piece
  PROVE  Deep(n, <<x>>) = Spelled[n][x]
<1> DEFINE o == <<x>>
           v == Spelled[n][x]
<1>1. o \in Seq(Piece) /\ Len(o) = 1 /\ o[1] = x /\ v \in Seq(Piece)
  BY SpelledType
<1>2. Each(n, o) = <<v>>
  <2>1. DOMAIN o = 1 .. 1
    OBVIOUS
  <2>2. Each(n, o) = [k \in 1 .. 1 |-> v]
    <3>1. \A k \in 1 .. 1 : k = 1
      OBVIOUS
    <3> QED BY <2>1, <3>1 DEF Each
  <2>3. [k \in 1 .. 1 |-> v] = <<v>>
    OBVIOUS
  <2> QED BY <2>2, <2>3
<1> HIDE DEF o, v
<1> QED BY <1>1, <1>2, FlattenOne DEF Deep, o, v

\* There is no variable in these.
Plain == {x \in Piece : IsWord(x)}
Words(s) == Range(s) \subseteq Plain

LEMMA WordsOpen == ASSUME NEW s \in Seq(Piece) PROVE Words(s) <=> Open(s) = {}
BY DEF Words, Plain, Open, Range

LEMMA WordsConcat ==
  ASSUME NEW s \in Seq(Piece), NEW t \in Seq(Piece)
  PROVE  Words(s \o t) <=> Words(s) /\ Words(t)
BY RangeConcatenation DEF Words

LEMMA DeepWords ==
  ASSUME Made(Scalars, Scalars), NEW n \in 0 .. MaxPieces, NEW s \in Seq(Piece), Words(s)
  PROVE  Deep(n, s) = s
<1>1. ASSUME NEW k \in DOMAIN s PROVE Spelled[n][s[k]] = <<s[k]>>
  <2>1. s[k] \in Piece /\ IsWord(s[k])
    BY DEF Words, Plain, Range
  <2> QED BY <2>1, SpelledIs
<1>2. Each(n, s) = [k \in DOMAIN s |-> <<s[k]>>]
  BY <1>1 DEF Each
<1> QED BY <1>2, FlattenSingles DEF Deep

\* When each piece is spelled out, what a source is spelled out to has words only
\* if that of each piece has.
LEMMA DeepAllWords ==
  ASSUME Made(Scalars, Scalars), NEW n \in 0 .. MaxPieces, NEW s \in Seq(Piece),
         Words(Deep(n, s))
  PROVE  \A k \in 1 .. Len(s) : Words(Spelled[n][s[k]])
<1> DEFINE e == Each(n, s)
<1>1. /\ e \in Seq(Seq(Piece)) /\ Len(e) = Len(s)
      /\ \A k \in 1 .. Len(s) : e[k] = Spelled[n][s[k]]
  BY DeepType
<1>2. Range(FlattenSeq(e)) \subseteq Plain
  BY DEF Deep, Words
<1> HIDE DEF e
<1>3. \A x : x \in Range(FlattenSeq(e)) <=> \E k \in 1 .. Len(e) : x \in Range(e[k])
  BY <1>1, FlattenRange
<1>4. \A k \in 1 .. Len(s) : Range(e[k]) \subseteq Plain
  BY <1>1, <1>2, <1>3
<1> QED BY <1>1, <1>4 DEF Words

\* What is spelled out to words stays so one deeper.
Stays(n) == \A x \in Piece : Words(Spelled[n][x]) => Spelled[n + 1][x] = Spelled[n][x]

LEMMA DeepStays ==
  ASSUME Made(Scalars, Scalars), NEW n \in 0 .. MaxPieces, Stays(n),
         NEW s \in Seq(Piece), Words(Deep(n, s))
  PROVE  Deep(n + 1, s) = Deep(n, s)
<1>1. \A k \in 1 .. Len(s) : Words(Spelled[n][s[k]])
  BY DeepAllWords
<1>2. \A k \in DOMAIN s : Spelled[n + 1][s[k]] = Spelled[n][s[k]]
  BY <1>1 DEF Stays
<1>3. Each(n + 1, s) = Each(n, s)
  BY <1>2 DEF Each
<1> QED BY <1>3 DEF Deep

LEMMA SpelledStays ==
  ASSUME Made(Scalars, Scalars), NEW n \in Nat, n + 1 \in 0 .. MaxPieces
  PROVE  Stays(n)
<1>0. MaxPieces \in Nat
  BY RecipeFilesAssumption
<1> DEFINE T == {k \in Nat : k + 1 \in 0 .. MaxPieces => Stays(k)}
<1>1. 0 \in T
  <2> SUFFICES ASSUME 0 + 1 \in 0 .. MaxPieces, NEW x \in Piece, Words(Spelled[0][x])
               PROVE  Spelled[0 + 1][x] = Spelled[0][x]
    BY DEF Stays
  <2>1. 0 \in 0 .. MaxPieces
    BY <1>0
  <2>2. Spelled[0][x] = <<x>>
    BY <2>1, SpelledIs
  <2>3. IsWord(x)
    <3>1. x \in Range(<<x>>)
      <4>1. 1 \in DOMAIN <<x>> /\ <<x>>[1] = x
        OBVIOUS
      <4> QED BY <4>1 DEF Range
    <3> QED BY <2>2, <3>1 DEF Words, Plain
  <2>4. Spelled[0 + 1][x] = <<x>>
    BY <2>3, SpelledIs
  <2> QED BY <2>2, <2>4
<1>2. ASSUME NEW k \in 0 .. n - 1, k \in T PROVE k + 1 \in T
  <2> SUFFICES ASSUME (k + 1) + 1 \in 0 .. MaxPieces, NEW x \in Piece, Words(Spelled[k + 1][x])
               PROVE  Spelled[(k + 1) + 1][x] = Spelled[k + 1][x]
    BY DEF Stays
  <2> DEFINE m == k + 1
  <2>1. /\ k \in Nat /\ k \in 0 .. MaxPieces /\ m \in 0 .. MaxPieces /\ m + 1 \in 0 .. MaxPieces
        /\ m # 0 /\ m + 1 # 0 /\ m - 1 = k /\ (m + 1) - 1 = m
    BY <1>0
  <2>2. Stays(k)
    BY <1>2, <2>1
  <2> HIDE DEF m
  <2>3. Spelled[m][x] = IF IsWord(x) THEN <<x>> ELSE Deep(k, Means(x))
    BY <2>1, SpelledIs
  <2>4. Spelled[m + 1][x] = IF IsWord(x) THEN <<x>> ELSE Deep(m, Means(x))
    BY <2>1, SpelledIs
  <2>5. ASSUME ~IsWord(x) PROVE Deep(m, Means(x)) = Deep(k, Means(x))
    <3>1. Means(x) \in Seq(Piece)
      BY <2>5, MeansType
    <3>2. Words(Deep(k, Means(x)))
      BY <2>3, <2>5 DEF m
    <3>3. Deep(k + 1, Means(x)) = Deep(k, Means(x))
      BY <2>1, <2>2, <3>1, <3>2, DeepStays
    <3> QED BY <3>3 DEF m
  <2>6. Spelled[m + 1][x] = Spelled[m][x]
    BY <2>3, <2>4, <2>5
  <2> QED BY <2>6 DEF m
<1> HIDE DEF T
<1>3. \A k \in 0 .. n : k \in T
  BY <1>1, <1>2, Induct
<1> QED BY <1>3 DEF T

\* A variable that is replaced by its value is spelled out to the same.
LEMMA ValueSpells ==
  ASSUME Made(Scalars, Scalars), NEW x \in Piece, ~IsWord(x), Defined(x),
         Words(Spelled[MaxPieces][x])
  PROVE  Deep(MaxPieces, Value(x)) = Spelled[MaxPieces][x]
<1> DEFINE m == MaxPieces
<1>0. m \in Nat /\ m \in 0 .. MaxPieces
  BY RecipeFilesAssumption
<1>1. Means(x) \in Seq(Piece) /\ Means(x) = Value(x)
  BY MeansType
<1>2. m # 0
  <2> SUFFICES ASSUME m = 0 PROVE FALSE
    OBVIOUS
  <2>1. Spelled[m][x] = <<x>>
    BY <1>0, SpelledIs
  <2>2. x \in Range(<<x>>)
    <3>1. 1 \in DOMAIN <<x>> /\ <<x>>[1] = x
      OBVIOUS
    <3> QED BY <3>1 DEF Range
  <2> QED BY <2>1, <2>2 DEF Words, Plain
<1>3. m - 1 \in Nat /\ m - 1 \in 0 .. MaxPieces /\ (m - 1) + 1 = m
  BY <1>0, <1>2
<1>4. Spelled[m][x] = Deep(m - 1, Means(x))
  BY <1>0, <1>2, SpelledIs
<1>5. Stays(m - 1)
  BY <1>0, <1>3, SpelledStays
<1>6. Deep((m - 1) + 1, Means(x)) = Deep(m - 1, Means(x))
  BY <1>1, <1>3, <1>4, <1>5, DeepStays
<1> QED BY <1>1, <1>3, <1>4, <1>6

\* A sequence is what comes before a place, what is there and what comes after it.
LEMMA Split ==
  ASSUME NEW S, NEW s \in Seq(S), NEW n \in 1 .. Len(s)
  PROVE  /\ SubSeq(s, 1, n - 1) \in Seq(S) /\ SubSeq(s, n + 1, Len(s)) \in Seq(S)
         /\ s = (SubSeq(s, 1, n - 1) \o <<s[n]>>) \o SubSeq(s, n + 1, Len(s))
<1> DEFINE a == SubSeq(s, 1, n - 1)
           o == <<s[n]>>
           b == SubSeq(s, n + 1, Len(s))
           l == Len(s)
           i == n - 1
           j == n + 1
<1>1. /\ l \in Nat /\ i \in Nat /\ j \in Nat /\ n = i + 1 /\ j = i + 2 /\ n <= l
      /\ \A k \in 1 .. l : s[k] \in S
  OBVIOUS
<1>2. o \in Seq(S) /\ Len(o) = 1 /\ o[1] = s[n]
  OBVIOUS
<1> HIDE DEF i, j, l, o
<1>3. a \in Seq(S) /\ Len(a) = i /\ \A k \in 1 .. i : a[k] = s[k]
  <2> DEFINE t == SubSeq(s, 1, i)
  <2>1. \A k \in 1 .. i : s[k] \in S
    BY <1>1
  <2>2. 1 \in Int /\ i \in Int
    BY <1>1
  <2>3. /\ t \in Seq(S) /\ Len(t) = IF 1 <= i THEN i - 1 + 1 ELSE 0
        /\ \A k \in 1 .. i - 1 + 1 : t[k] = s[1 + k - 1]
    BY <2>1, <2>2, SubSeqProperties
  <2> HIDE DEF t
  <2>4. Len(t) = i /\ \A k \in 1 .. i : t[k] = s[k]
    BY <1>1, <2>3
  <2> QED BY <2>3, <2>4 DEF t, i
<1>4. b \in Seq(S) /\ Len(b) = l - n /\ \A k \in 1 .. l - n : b[k] = s[n + k]
  <2> DEFINE t == SubSeq(s, j, l)
  <2>1. \A k \in j .. l : s[k] \in S
    BY <1>1
  <2>2. l \in Int /\ j \in Int
    BY <1>1
  <2>3. /\ t \in Seq(S) /\ Len(t) = IF j <= l THEN l - j + 1 ELSE 0
        /\ \A k \in 1 .. l - j + 1 : t[k] = s[j + k - 1]
    BY <2>1, <2>2, SubSeqProperties
  <2> HIDE DEF t
  <2>4. Len(t) = l - n /\ \A k \in 1 .. l - n : t[k] = s[n + k]
    <3>1. l - j + 1 = l - n /\ \A k \in 1 .. l - n : j + k - 1 = n + k
      BY <1>1
    <3>2. Len(t) = l - n
      BY <1>1, <2>3
    <3> QED BY <2>3, <3>1, <3>2
  <2> QED BY <2>3, <2>4 DEF t, j, l
<1> DEFINE c == a \o o
           d == c \o b
<1> HIDE DEF a, b
<1>5. /\ c \in Seq(S) /\ Len(c) = n /\ \A k \in 1 .. n : c[k] = s[k]
  <2>1. /\ c \in Seq(S) /\ Len(c) = Len(a) + Len(o)
        /\ \A k \in 1 .. Len(a) + Len(o) : c[k] = IF k <= Len(a) THEN a[k] ELSE o[k - Len(a)]
    BY <1>2, <1>3, ConcatProperties
  <2>2. Len(a) + Len(o) = n
    BY <1>1, <1>2, <1>3
  <2> HIDE DEF c
  <2>3. ASSUME NEW k \in 1 .. n PROVE c[k] = s[k]
    <3>1. k \in 1 .. i \/ (k = n /\ ~(k <= i) /\ k - i = 1)
      BY <1>1
    <3> QED BY <1>2, <1>3, <2>1, <2>2, <3>1
  <2> QED BY <2>1, <2>2, <2>3
<1> HIDE DEF c
<1>6. /\ d \in Seq(S) /\ Len(d) = l /\ \A k \in 1 .. l : d[k] = s[k]
  <2>1. /\ d \in Seq(S) /\ Len(d) = Len(c) + Len(b)
        /\ \A k \in 1 .. Len(c) + Len(b) : d[k] = IF k <= Len(c) THEN c[k] ELSE b[k - Len(c)]
    BY <1>4, <1>5, ConcatProperties
  <2>2. Len(c) + Len(b) = l
    BY <1>1, <1>4, <1>5
  <2> HIDE DEF d
  <2>3. ASSUME NEW k \in 1 .. l PROVE d[k] = s[k]
    <3>1. CASE k <= n
      <4>1. k \in 1 .. n
        BY <1>1, <3>1
      <4> QED BY <1>5, <2>1, <2>2, <3>1, <4>1
    <3>2. CASE ~(k <= n)
      <4>1. k - n \in 1 .. l - n /\ n + (k - n) = k
        BY <1>1, <3>2
      <4>2. d[k] = b[k - n]
        BY <1>5, <2>1, <2>2, <3>2
      <4>3. b[k - n] = s[n + (k - n)]
        BY <1>4, <4>1
      <4> QED BY <4>1, <4>2, <4>3
    <3> QED BY <3>1, <3>2
  <2> QED BY <2>1, <2>2, <2>3
<1> HIDE DEF d
<1>7. s = d
  BY <1>6, SeqEqual DEF l
<1> QED BY <1>3, <1>4, <1>7 DEF a, b, c, d, o

\* One of its variables is replaced.
LEMMA ReplaceSpells ==
  ASSUME Made(Scalars, Scalars), NEW s \in Seq(Piece), NEW n \in Open(s), Defined(s[n]),
         Words(Deep(MaxPieces, s))
  PROVE  Deep(MaxPieces, (SubSeq(s, 1, n - 1) \o Value(s[n])) \o SubSeq(s, n + 1, Len(s)))
           = Deep(MaxPieces, s)
<1> DEFINE m == MaxPieces
           a == SubSeq(s, 1, n - 1)
           b == SubSeq(s, n + 1, Len(s))
           x == s[n]
           o == <<x>>
           v == Value(x)
           D(t) == Deep(m, t)
<1>0. m \in 0 .. MaxPieces
  BY RecipeFilesAssumption
<1>1. n \in 1 .. Len(s) /\ x \in Piece /\ ~IsWord(x)
  BY DEF Open
<1>2. a \in Seq(Piece) /\ b \in Seq(Piece) /\ s = (a \o o) \o b
  BY <1>1, Split
<1>3. o \in Seq(Piece) /\ v \in Seq(Piece) /\ D(o) = Spelled[m][x]
  <2>1. v \in Seq(Piece)
    BY <1>1, MeansType
  <2> QED BY <1>0, <1>1, <2>1, DeepOne
<1>4. Words(D(s))
  OBVIOUS
<1> HIDE DEF a, b, x, o, v, m
<1>5. a \o o \in Seq(Piece) /\ a \o v \in Seq(Piece)
  BY <1>2, <1>3, ConcatProperties
<1>6. D(a \o o) = D(a) \o D(o) /\ D(a \o v) = D(a) \o D(v)
  BY <1>0, <1>2, <1>3, DeepConcat
<1>7. D((a \o o) \o b) = D(a \o o) \o D(b) /\ D((a \o v) \o b) = D(a \o v) \o D(b)
  BY <1>0, <1>2, <1>5, DeepConcat
<1>8. D(a) \in Seq(Piece) /\ D(o) \in Seq(Piece) /\ D(b) \in Seq(Piece)
      /\ D(a \o o) \in Seq(Piece)
  BY <1>0, <1>2, <1>3, <1>5, DeepType
<1>9. Words(D(o))
  <2>1. Words(D(a \o o) \o D(b))
    BY <1>2, <1>4, <1>7
  <2>2. Words(D(a \o o))
    BY <1>8, <2>1, WordsConcat
  <2>3. Words(D(a) \o D(o))
    BY <1>6, <2>2
  <2> QED BY <1>8, <2>3, WordsConcat
<1>10. D(v) = D(o)
  BY <1>1, <1>3, <1>9, ValueSpells DEF m, v, x
<1>11. D((a \o v) \o b) = D(s)
  BY <1>2, <1>6, <1>7, <1>10
<1> QED BY <1>11 DEF m, a, b, v, x

\* Each of these is spelled out to what the source it comes from is, if this is
\* words only.
SpelledLike(s) ==
    LET raw == StringSlice(config, "sources")
    IN  /\ Len(s) = Len(raw)
        /\ \A k \in 1 .. Len(raw) :
              Words(Deep(MaxPieces, raw[k])) =>
                Deep(MaxPieces, s[k]) = Deep(MaxPieces, raw[k])

\* The first n of them are words only, in the end all of them.
DoneTo(s, n, how) ==
    (\A k \in 1 .. n : Open(s[k]) = {}) /\ (how = "ready" => n = Len(s))

Spelling ==
    phase \in {"loaded", "ready"} => SpelledLike(sources) /\ DoneTo(sources, at, phase)

LEMMA SameConfig ==
  ASSUME config' = config
  PROVE  SpelledLike(sources)' <=> SpelledLike(sources')
<1>1. Spelled' = Spelled
  BY DEF Spelled, Means, Meaning, ScalarMap, TopScalars
<1>2. \A n, s : Deep(n, s)' = Deep(n, s)
  BY <1>1 DEF Deep, Each
<1> QED BY <1>2 DEF SpelledLike

LEMMA SpellingStep ==
  ASSUME Made(Scalars, Scalars), Resolving, Spelling, Next
  PROVE  Spelling'
<1> DEFINE raw == StringSlice(config, "sources")
<1>0. /\ raw \in Seq(Scalars) /\ sources \in Seq(Scalars) /\ at \in 0 .. Len(sources)
      /\ Len(sources) \in Nat
  BY SliceType DEF Made, Resolving
<1>1. ASSUME config' = config, phase' \in {"loaded", "ready"} => SpelledLike(sources'),
             phase' \in {"loaded", "ready"} => DoneTo(sources', at', phase')
      PROVE  Spelling'
  BY <1>1, SameConfig DEF Spelling, DoneTo
<1>2. ASSUME phase' \notin {"loaded", "ready"} PROVE Spelling'
  BY <1>2 DEF Spelling
<1>3. CASE LoadRecipe \/ MergeNext \/ Interrupt
  BY <1>2, <1>3 DEF LoadRecipe, MergeNext, Interrupt, UpdateFrom, End
<1>4. CASE Return
  BY <1>2, <1>4 DEF Return
<1>5. CASE Loaded
  <2>1. config' = config /\ phase' \in {"loaded", "failed"} /\ (phase' = "loaded" => sources' = raw)
        /\ at' = 0
    BY <1>5 DEF Loaded, Resolving
  <2>2. SpelledLike(raw)
    BY DEF SpelledLike
  <2>3. phase' = "loaded" => DoneTo(sources', at', phase')
    BY <2>1 DEF DoneTo
  <2> HIDE DEF raw
  <2> QED BY <1>1, <2>1, <2>2, <2>3
<1>6. CASE Replace
  <2> DEFINE n == at + 1
             s == sources[n]
  <2>1. /\ n \in 1 .. Len(sources) /\ config' = config /\ at' = at /\ phase' \in {"loaded", "failed"}
        /\ phase = "loaded"
    BY <1>0, <1>6 DEF Replace
  <2>2. SpelledLike(sources) /\ DoneTo(sources, at, phase) /\ s \in Seq(Piece)
    BY <1>0, <2>1 DEF Spelling, Scalars
  <2>3. PICK i \in Open(s) :
          IF Defined(s[i])
          THEN sources' = [sources EXCEPT ![n] =
                  SubSeq(s, 1, i - 1) \o Value(s[i]) \o SubSeq(s, i + 1, Len(s))]
          ELSE sources' = sources /\ phase' = "failed"
    BY <1>6 DEF Replace
  <2>4. CASE ~Defined(s[i])
    BY <1>2, <2>3, <2>4
  <2>5. CASE Defined(s[i])
    <3> DEFINE r == (SubSeq(s, 1, i - 1) \o Value(s[i])) \o SubSeq(s, i + 1, Len(s))
    <3>1. Becomes(r, n)
      <4>1. sources' = [sources EXCEPT ![n] = r]
        BY <2>3, <2>5
      <4> HIDE DEF r
      <4> QED BY <2>1, <4>1 DEF Becomes
    <3>2. r \in Scalars
      <4>1. i \in 1 .. Len(s) /\ s[i] \in Piece /\ ~IsWord(s[i])
        BY <2>2 DEF Open
      <4>2. Value(s[i]) \in Seq(Piece)
        BY <2>5, <4>1, MeansType
      <4>3. SubSeq(s, 1, i - 1) \in Seq(Piece) /\ SubSeq(s, i + 1, Len(s)) \in Seq(Piece)
        BY <2>2, <4>1, Split
      <4> QED BY <4>2, <4>3, ConcatProperties DEF Scalars
    <3>3. Words(Deep(MaxPieces, s)) => Deep(MaxPieces, r) = Deep(MaxPieces, s)
      BY <2>2, <2>5, ReplaceSpells
    <3> HIDE DEF r, n, raw
    <3>4. /\ Len(sources') = Len(sources) /\ sources'[n] = r
          /\ \A k \in 1 .. Len(sources) : k # n => sources'[k] = sources[k]
      BY <1>0, <3>1, <3>2, BecomesType
    <3>5. /\ Len(sources) = Len(raw)
          /\ \A k \in 1 .. Len(raw) : Words(Deep(MaxPieces, raw[k])) =>
                Deep(MaxPieces, sources[k]) = Deep(MaxPieces, raw[k])
      BY <2>2 DEF SpelledLike, raw
    <3>6. ASSUME NEW k \in 1 .. Len(raw), Words(Deep(MaxPieces, raw[k]))
          PROVE  Deep(MaxPieces, sources'[k]) = Deep(MaxPieces, raw[k])
      <4>1. CASE k = n
        <5>1. Deep(MaxPieces, s) = Deep(MaxPieces, raw[k])
          BY <3>5, <3>6, <4>1
        <5> HIDE DEF s
        <5>2. Deep(MaxPieces, r) = Deep(MaxPieces, s)
          BY <3>3, <3>6, <5>1
        <5> QED BY <3>4, <4>1, <5>1, <5>2
      <4>2. CASE k # n
        BY <3>4, <3>5, <3>6, <4>2
      <4> QED BY <4>1, <4>2
    <3>7. SpelledLike(sources')
      BY <3>4, <3>5, <3>6 DEF SpelledLike, raw
    <3>8. DoneTo(sources', at', phase')
      <4>1. \A k \in 1 .. at : k # n /\ k \in 1 .. Len(sources)
        BY <1>0 DEF n
      <4> QED BY <2>1, <2>2, <3>4, <4>1 DEF DoneTo
    <3> QED BY <1>1, <2>1, <3>7, <3>8
  <2> QED BY <2>4, <2>5
<1>7. CASE NextSource
  <2>1. /\ UNCHANGED <<config, sources, phase>> /\ phase = "loaded" /\ at' = at + 1
        /\ Open(sources[at + 1]) = {}
    BY <1>7 DEF NextSource
  <2>2. SpelledLike(sources) /\ DoneTo(sources, at, phase)
    BY <2>1 DEF Spelling
  <2>3. \A k \in 1 .. at + 1 : k \in 1 .. at \/ k = at + 1
    BY <1>0
  <2>4. DoneTo(sources, at + 1, phase)
    BY <2>1, <2>2, <2>3 DEF DoneTo
  <2> QED BY <1>1, <2>1, <2>2, <2>4
<1>8. CASE Resolved
  <2>1. /\ UNCHANGED <<config, sources, at>> /\ phase = "loaded" /\ at = Len(sources)
    BY <1>8 DEF Resolved
  <2>2. SpelledLike(sources) /\ DoneTo(sources, at, phase)
    BY <2>1 DEF Spelling
  <2> QED BY <1>1, <2>1, <2>2 DEF DoneTo
<1>9. ASSUME NEW patch, ListByHand(patch) PROVE Spelling'
  BY <1>1, <1>9 DEF ListByHand, Spelling
<1>10. ASSUME NEW new \in Patches, RecordWorkspacePatches(new) PROVE Spelling'
  BY <1>2, <1>10 DEF RecordWorkspacePatches
<1> QED BY <1>3, <1>4, <1>5, <1>6, <1>7, <1>8, <1>9, <1>10 DEF Next, Goes, People

\* What ResolveSources makes of a source, replacing the leftmost variable time and
\* again (resolveTemplate), is each of its pieces spelled out on its own, from
\* whatever files the variables are: of any recipe in which no variable stands for
\* one that stands for another ... beyond the bound.  (Spelled is cut off there.)
THEOREM ResolvedAsSpelled == Spec => [](WithinBound => SourcesSpelled)
<1> DEFINE Inv == Resolving /\ Spelling
<1>1. Init => Inv
  <2>1. <<>> \in Seq(Scalars) /\ 0 \in 0 .. Len(<<>>)
    OBVIOUS
  <2> QED BY <2>1 DEF Init, Resolving, Spelling
<1>2. Made(Scalars, Scalars) /\ Inv /\ [Next]_vars => Inv'
  <2> SUFFICES ASSUME Made(Scalars, Scalars), Inv, [Next]_vars PROVE Inv'
    OBVIOUS
  <2>1. CASE Next
    BY <2>1, ResolvingStep, SpellingStep
  <2>2. CASE UNCHANGED vars
    <3>1. UNCHANGED <<phase, config, sources, at>>
      BY <2>2 DEF vars
    <3> QED BY <3>1, SameConfig DEF Resolving, Spelling, DoneTo
  <2> QED BY <2>1, <2>2
<1>3. Made(Scalars, Scalars) /\ Inv => (WithinBound => SourcesSpelled)
  <2> DEFINE raw == StringSlice(config, "sources")
             all == [n \in DOMAIN raw |-> SpelledOut(raw[n])]
  <2> SUFFICES ASSUME Made(Scalars, Scalars), Inv, WithinBound, phase = "ready"
               PROVE  sources = all
    BY DEF SourcesSpelled
  <2>1. raw \in Seq(Scalars) /\ sources \in Seq(Scalars) /\ at = Len(sources)
        /\ SpelledLike(sources) /\ DoneTo(sources, at, phase)
    BY SliceType DEF Made, Resolving, Spelling, DoneTo
  <2>2. \A s : SpelledOut(s) = Deep(MaxPieces, s)
    BY DEF SpelledOut, Deep, Each
  <2>3. MaxPieces \in 0 .. MaxPieces
    BY RecipeFilesAssumption
  <2>4. \A n \in DOMAIN raw : Open(Deep(MaxPieces, raw[n])) = {}
    BY <2>2 DEF WithinBound
  <2> HIDE DEF raw
  <2>5. Len(sources) = Len(raw) /\ DOMAIN raw = 1 .. Len(raw) /\ Len(raw) \in Nat
        /\ DOMAIN sources = 1 .. Len(raw)
    BY <2>1 DEF SpelledLike, raw
  <2>6. ASSUME NEW n \in 1 .. Len(raw) PROVE sources[n] = SpelledOut(raw[n])
    <3>1. raw[n] \in Seq(Piece) /\ sources[n] \in Seq(Piece)
      BY <2>1, <2>5 DEF Scalars
    <3>2. Deep(MaxPieces, raw[n]) \in Seq(Piece)
      BY <2>3, <3>1, DeepType
    <3>3. Words(Deep(MaxPieces, raw[n]))
      BY <2>4, <2>5, <3>2, WordsOpen
    <3>4. Deep(MaxPieces, sources[n]) = Deep(MaxPieces, raw[n])
      BY <2>1, <3>3 DEF SpelledLike, raw
    <3>5. Open(sources[n]) = {}
      BY <2>1, <2>5 DEF DoneTo
    <3>6. Deep(MaxPieces, sources[n]) = sources[n]
      BY <2>3, <3>1, <3>5, WordsOpen, DeepWords
    <3> QED BY <2>2, <3>4, <3>6
  <2>7. all = [n \in 1 .. Len(raw) |-> SpelledOut(raw[n])]
    BY <2>5
  <2>8. sources = [n \in 1 .. Len(raw) |-> sources[n]]
    BY <2>1, <2>5
  <2> QED BY <2>6, <2>7, <2>8
<1> HIDE DEF Inv
<1> QED BY <1>1, <1>2, <1>3, MadeOfScalars, PTL DEF Spec
=============================================================================
