-------------------------- MODULE WorkspaceProofs --------------------------
(***************************************************************************)
(* Proofs about Workspace, for any sets of items and any number of patches: *)
(* the types; an exported patch is never written over; the changes a finish *)
(* started on are in the workspace, in patches the recipe lists, or were    *)
(* made outside the quilt patches; and the patches of the project apply one *)
(* on the other to exactly the tree the last finish found.                  *)
(*                                                                         *)
(* The last two are about folds along the list of patches.  The folds of    *)
(* the community modules are functions on sets of positions chosen by their *)
(* equation: the first part shows that they exist and what they step        *)
(* through, by the least-number principle.                                  *)
(***************************************************************************)
EXTENDS Workspace, Integers, FiniteSetTheorems, WellFoundedInduction, TLAPS

USE WorkspaceAssumption

-----------------------------------------------------------------------------
(* Numbers and folds. *)

\* A set of numbers that is not empty has a least element.
LEMMA LeastNatural ==
  ASSUME NEW T \in SUBSET Nat, T # {}
  PROVE  \E m \in T : \A n \in T : m <= n
<1> DEFINE R == OpToRel(<, Nat)
<1>1. \E m \in T : \A n \in T : <<n, m>> \notin R
  <2>1. IsWellFoundedOn(R, Nat)
    BY NatLessThanWellFounded
  <2> HIDE DEF R
  <2> QED BY <2>1, WFMin
<1>2. \A m, n \in Nat : n < m => <<n, m>> \in R
  BY DEF OpToRel
<1> HIDE DEF R
<1>3. PICK m \in T : \A n \in T : <<n, m>> \notin R
  BY <1>1
<1>4. ASSUME NEW n \in T PROVE m <= n
  <2>1. ~(n < m) /\ m \in Nat /\ n \in Nat
    BY <1>2, <1>3
  <2> QED BY <2>1
<1> QED BY <1>4

\* What holds of 0, and of k + 1 whenever it holds of k, holds up to n.  (T is
\* the set of the numbers it holds of.)
LEMMA Induct ==
  ASSUME NEW n \in Nat, NEW T, 0 \in T, \A k \in 0 .. n - 1 : k \in T => k + 1 \in T
  PROVE  \A k \in 0 .. n : k \in T
<1> DEFINE U == {k \in 0 .. n : k \notin T}
<1> SUFFICES ASSUME U # {} PROVE FALSE
  OBVIOUS
<1>1. U \in SUBSET Nat
  OBVIOUS
<1>2. PICK m \in U : \A k \in U : m <= k
  BY <1>1, LeastNatural
<1>3. m \in 0 .. n /\ m # 0 /\ m \notin T
  BY <1>2
<1>4. m - 1 \in 0 .. n - 1 /\ m - 1 \in 0 .. n /\ ~(m <= m - 1) /\ (m - 1) + 1 = m
  BY <1>3
<1>5. m - 1 \in T
  BY <1>2, <1>4
<1> QED BY <1>3, <1>4, <1>5

\* The maximum of a bounded set of numbers is the largest of its elements.
LEMMA MaxFacts ==
  ASSUME NEW n \in Nat, NEW u \in SUBSET (0 .. n), u # {}
  PROVE  Max(u) \in u /\ \A x \in u : x <= Max(u)
<1>1. \E x \in u : \A y \in u : x >= y
  <2> DEFINE T == {n - x : x \in u}
  <2>1. T \in SUBSET Nat /\ T # {}
    <3>1. \A x \in u : n - x \in Nat
      OBVIOUS
    <3>2. PICK x \in u : TRUE
      OBVIOUS
    <3> QED BY <3>1, <3>2
  <2>2. PICK m \in T : \A k \in T : m <= k
    BY <2>1, LeastNatural
  <2>3. PICK x \in u : m = n - x
    BY <2>2
  <2>4. ASSUME NEW y \in u PROVE x >= y
    <3>1. m <= n - y
      BY <2>2
    <3> QED BY <2>3, <3>1
  <2> QED BY <2>4
<1>2. Max(u) \in u /\ \A y \in u : Max(u) >= y
  BY <1>1 DEF Max
<1> QED BY <1>2

\* A function on the sets of positions that applies the step of the last
\* position to its value without that position.
FoldsTo(S, b, n, F, f) ==
    /\ f \in [SUBSET (1 .. n) -> S]
    /\ \A u \in SUBSET (1 .. n) :
          f[u] = IF u = {} THEN b ELSE F[Max(u)][f[u \ {Max(u)}]]

\* What a fold is defined by exists.
LEMMA FoldExists ==
  ASSUME NEW S, NEW b \in S, NEW n \in Nat, NEW F \in [1 .. n -> [S -> S]]
  PROVE  \E f : FoldsTo(S, b, n, F, f)
<1> DEFINE Fold(m, f) == \A u \in SUBSET (1 .. m) :
              f[u] = IF u = {} THEN b ELSE F[Max(u)][f[u \ {Max(u)}]]
<1> DEFINE T == {m \in 0 .. n : \E f \in [SUBSET (1 .. m) -> S] : Fold(m, f)}
<1>1. 0 \in T
  <2> DEFINE f == [u \in SUBSET (1 .. 0) |-> b]
  <2>1. f \in [SUBSET (1 .. 0) -> S] /\ Fold(0, f)
    OBVIOUS
  <2> HIDE DEF f, Fold
  <2>2. \E h \in [SUBSET (1 .. 0) -> S] : Fold(0, h)
    BY <2>1, Zenon
  <2>3. 0 \in 0 .. n
    OBVIOUS
  <2> QED BY <2>2, <2>3, Zenon
<1>2. ASSUME NEW m \in 0 .. n - 1, m \in T PROVE m + 1 \in T
  <2>1. PICK f \in [SUBSET (1 .. m) -> S] : Fold(m, f)
    BY <1>2
  <2> DEFINE g == [u \in SUBSET (1 .. m + 1) |->
                     IF m + 1 \in u THEN F[m + 1][f[u \ {m + 1}]] ELSE f[u]]
  <2>2. ASSUME NEW u \in SUBSET (1 .. m + 1)
        PROVE  /\ m + 1 \in u => u \ {m + 1} \in SUBSET (1 .. m)
               /\ m + 1 \notin u => u \in SUBSET (1 .. m)
    OBVIOUS
  <2>3. g \in [SUBSET (1 .. m + 1) -> S]
    <3> SUFFICES ASSUME NEW u \in SUBSET (1 .. m + 1)
                 PROVE  (IF m + 1 \in u THEN F[m + 1][f[u \ {m + 1}]] ELSE f[u]) \in S
      OBVIOUS
    <3>1. CASE m + 1 \in u
      <4>1. f[u \ {m + 1}] \in S /\ m + 1 \in 1 .. n
        BY <2>2, <3>1
      <4> QED BY <3>1, <4>1
    <3> QED BY <2>2, <3>1
  <2>4. ASSUME NEW u \in SUBSET (1 .. m + 1)
        PROVE  g[u] = IF u = {} THEN b ELSE F[Max(u)][g[u \ {Max(u)}]]
    <3>1. u # {} => Max(u) \in u /\ \A x \in u : x <= Max(u)
      <4>1. u \in SUBSET (0 .. m + 1) /\ m + 1 \in Nat
        OBVIOUS
      <4> QED BY <4>1, MaxFacts
    <3>2. u # {} => Max(u) \in 1 .. m + 1
      BY <3>1
    <3>3. CASE m + 1 \in u
      <4>1. Max(u) = m + 1
        BY <3>1, <3>2, <3>3
      <4>2. g[u \ {m + 1}] = f[u \ {m + 1}]
        BY <2>2, <3>3
      <4> QED BY <3>3, <4>1, <4>2
    <3>4. CASE m + 1 \notin u
      <4>1. u \in SUBSET (1 .. m) /\ g[u] = f[u]
        BY <2>2, <3>4
      <4>2. u # {} => g[u \ {Max(u)}] = f[u \ {Max(u)}]
        BY <3>4, <4>1
      <4>3. f[u] = IF u = {} THEN b ELSE F[Max(u)][f[u \ {Max(u)}]]
        BY <2>1, <4>1
      <4> QED BY <4>1, <4>2, <4>3
    <3> QED BY <3>3, <3>4
  <2> HIDE DEF g
  <2>5. m + 1 \in 0 .. n
    OBVIOUS
  <2> QED BY <2>3, <2>4, <2>5
<1> HIDE DEF T
<1>3. \A k \in 0 .. n : k \in T
  BY <1>1, <1>2, Induct
<1>4. n \in T
  BY <1>3
<1> QED BY <1>4 DEF T, FoldsTo

-----------------------------------------------------------------------------
(* Unpacking a list of patches. *)

\* The trees of a set that the patch applies to, with the patch applied.
Patched(p, trees) == UNION {Applied(p, t) : t \in trees}

\* The trees that a recipe with these patches can unpack to, the one tree or
\* none: Prepared, when every source is pinned.
Unpacked(list, content) ==
    FoldLeft(LAMBDA trees, n : UNION {Applied(content[n], t) : t \in trees},
             {Upstream}, list)

\* What the patches of a list add.
AddedBy(list, content) == UNION {content[n].plus : n \in Range(list)}

\* The trees after each patch of the list.
UnpackSteps(list, content, J) ==
    /\ J[0] = {Upstream}
    /\ \A k \in 1 .. Len(list) : J[k] = Patched(content[list[k]], J[k - 1])

\* A patch turns trees of items into trees of items.
LEMMA PatchedType ==
  ASSUME NEW p \in Patch, NEW trees \in SUBSET SUBSET Items
  PROVE  Patched(p, trees) \in SUBSET SUBSET Items
<1>1. ASSUME NEW t \in SUBSET Items PROVE Applied(p, t) \in SUBSET SUBSET Items
  BY DEF Applied, Patch
<1> QED BY <1>1 DEF Patched

\* Unpacking goes through the patches of the list, one after the other.
LEMMA UnpackGoes ==
  ASSUME NEW list \in Seq(Names), NEW content \in [Names -> Patch]
  PROVE  \E J \in [0 .. Len(list) -> SUBSET SUBSET Items] :
            UnpackSteps(list, content, J) /\ Unpacked(list, content) = J[Len(list)]
<1> DEFINE S == SUBSET SUBSET Items
           n == Len(list)
           F == [k \in 1 .. n |-> [trees \in S |-> Patched(content[list[k]], trees)]]
           Eq(iter) == iter = [u \in SUBSET DOMAIN list |->
                         IF u = {} THEN {Upstream}
                         ELSE UNION {Applied(content[list[Max(u)]], t) :
                                       t \in iter[u \ {Max(u)}]}]
           it == CHOOSE iter : Eq(iter)
<1>1. n \in Nat /\ DOMAIN list = 1 .. n /\ {Upstream} \in S
  BY DEF Items
<1>2. \A k \in 1 .. n : content[list[k]] \in Patch
  OBVIOUS
<1>3. F \in [1 .. n -> [S -> S]]
  BY <1>2, PatchedType
<1>4. ASSUME NEW u \in SUBSET (1 .. n), u # {} PROVE Max(u) \in 1 .. n
  <2>1. u \in SUBSET (0 .. n)
    OBVIOUS
  <2> QED BY <1>1, <1>4, <2>1, MaxFacts
<1>5. PICK f : FoldsTo(S, {Upstream}, n, F, f)
  <2> HIDE DEF F, S, n
  <2> QED BY <1>1, <1>3, FoldExists
<1>6. Eq(f)
  <2>1. ASSUME NEW u \in SUBSET (1 .. n), u # {}
        PROVE  f[u] = Patched(content[list[Max(u)]], f[u \ {Max(u)}])
    <3>1. f[u \ {Max(u)}] \in S
      BY <1>5 DEF FoldsTo
    <3>2. F[Max(u)][f[u \ {Max(u)}]] = Patched(content[list[Max(u)]], f[u \ {Max(u)}])
      BY <1>4, <2>1, <3>1
    <3> QED BY <1>5, <2>1, <3>2 DEF FoldsTo
  <2> QED BY <1>1, <1>5, <2>1 DEF Patched, FoldsTo
<1>7. Eq(it)
  <2> HIDE DEF Eq
  <2> QED BY <1>6
<1>8. Unpacked(list, content) = it[1 .. n]
  BY <1>1 DEF Unpacked, FoldLeft, MapThenFoldSet
<1>9. it[{}] = {Upstream}
  BY <1>7
<1>10. ASSUME NEW k \in 1 .. n
       PROVE  it[1 .. k] = Patched(content[list[k]], it[1 .. k - 1])
  <2>1. 1 .. k \in SUBSET (0 .. n) /\ 1 .. k # {} /\ k \in 1 .. k
    <3>1. n \in Nat /\ k \in 1 .. n
      BY <1>1
    <3> HIDE DEF it, n
    <3>2. k \in 1 .. k
      BY <3>1
    <3>3. \A i \in 1 .. k : i \in 0 .. n
      BY <3>1
    <3> QED BY <3>2, <3>3
  <2>2. Max(1 .. k) = k
    <3>1. Max(1 .. k) \in 1 .. k /\ k <= Max(1 .. k)
      BY <1>1, <2>1, MaxFacts
    <3> QED BY <3>1
  <2>3. (1 .. k) \ {k} = 1 .. k - 1
    OBVIOUS
  <2>4. 1 .. k \in SUBSET DOMAIN list
    BY <1>1
  <2>5. it[1 .. k] = UNION {Applied(content[list[Max(1 .. k)]], t) :
                              t \in it[(1 .. k) \ {Max(1 .. k)}]}
    <3> HIDE DEF it
    <3> QED BY <1>7, <2>1, <2>4
  <2> HIDE DEF it
  <2> QED BY <2>2, <2>3, <2>5 DEF Patched
<1> DEFINE J == [k \in 0 .. n |-> it[1 .. k]]
           T == {k \in 0 .. n : J[k] \in S}
<1> HIDE DEF it
<1>11. UnpackSteps(list, content, J)
  <2>1. 1 .. 0 = {}
    OBVIOUS
  <2>2. J[0] = {Upstream}
    BY <1>1, <1>9, <2>1
  <2>3. ASSUME NEW k \in 1 .. n PROVE J[k] = Patched(content[list[k]], J[k - 1])
    BY <1>1, <1>10
  <2> QED BY <2>2, <2>3 DEF UnpackSteps
<1>12. 0 \in T
  BY <1>1, <1>11 DEF UnpackSteps
<1>13. \A k \in 0 .. n - 1 : k \in T => k + 1 \in T
  <2> SUFFICES ASSUME NEW k \in 0 .. n - 1, k \in T PROVE k + 1 \in T
    OBVIOUS
  <2>1. k + 1 \in 1 .. n /\ k + 1 \in 0 .. n /\ (k + 1) - 1 = k /\ J[k] \in S
    BY <1>1
  <2>2. J[k + 1] = Patched(content[list[k + 1]], J[k])
    BY <1>11, <2>1 DEF UnpackSteps
  <2>3. J[k + 1] \in S
    BY <1>2, <2>1, <2>2, PatchedType
  <2> QED BY <2>1, <2>3
<1> HIDE DEF T
<1>14. \A k \in 0 .. n : k \in T
  BY <1>1, <1>12, <1>13, Induct
<1>15. J \in [0 .. n -> S]
  BY <1>14 DEF T
<1>16. J[n] = it[1 .. n]
  BY <1>1
<1> QED BY <1>8, <1>11, <1>15, <1>16

\* Trees that follow the patches of the list end with what it unpacks to.
LEMMA UnpackEnds ==
  ASSUME NEW list \in Seq(Names), NEW content \in [Names -> Patch],
         NEW J, UnpackSteps(list, content, J)
  PROVE  Unpacked(list, content) = J[Len(list)]
<1> DEFINE n == Len(list)
<1>1. PICK H \in [0 .. n -> SUBSET SUBSET Items] :
         UnpackSteps(list, content, H) /\ Unpacked(list, content) = H[n]
  BY UnpackGoes
<1> DEFINE T == {k \in 0 .. n : H[k] = J[k]}
<1>2. n \in Nat
  OBVIOUS
<1>3. 0 \in T
  <2>1. H[0] = {Upstream} /\ J[0] = {Upstream}
    BY <1>1, Zenon DEF UnpackSteps
  <2> QED BY <1>2, <2>1
<1>4. \A k \in 0 .. n - 1 : k \in T => k + 1 \in T
  <2> SUFFICES ASSUME NEW k \in 0 .. n - 1, k \in T PROVE k + 1 \in T
    OBVIOUS
  <2>1. k + 1 \in 1 .. n /\ k + 1 \in 0 .. n /\ (k + 1) - 1 = k /\ H[k] = J[k]
    BY <1>2
  <2>2. H[k + 1] = Patched(content[list[k + 1]], H[k])
    BY <1>1, <2>1 DEF UnpackSteps
  <2>3. J[k + 1] = Patched(content[list[k + 1]], J[k])
    BY <2>1 DEF UnpackSteps
  <2> QED BY <2>1, <2>2, <2>3
<1> HIDE DEF T
<1>5. \A k \in 0 .. n : k \in T
  BY <1>2, <1>3, <1>4, Induct
<1> QED BY <1>1, <1>2, <1>5 DEF T

\* No patch: the upstream source.
LEMMA UnpackNone ==
  ASSUME NEW content \in [Names -> Patch]
  PROVE  Unpacked(<<>>, content) = {Upstream}
<1> DEFINE J == [k \in {0} |-> {Upstream}]
<1>1. <<>> \in Seq(Names) /\ Len(<<>>) = 0
  OBVIOUS
<1>2. UnpackSteps(<<>>, content, J)
  BY <1>1 DEF UnpackSteps
<1> HIDE DEF J
<1>3. Unpacked(<<>>, content) = J[0]
  BY <1>1, <1>2, UnpackEnds
<1> QED BY <1>3 DEF J

\* One patch more is applied to what the others unpack to.
LEMMA UnpackMore ==
  ASSUME NEW list \in Seq(Names), NEW content \in [Names -> Patch], NEW n \in Names
  PROVE  Unpacked(Append(list, n), content) = Patched(content[n], Unpacked(list, content))
<1> DEFINE more == Append(list, n)
           m == Len(list)
<1>1. /\ more \in Seq(Names) /\ Len(more) = m + 1 /\ m \in Nat /\ more[m + 1] = n
      /\ \A k \in 1 .. m : more[k] = list[k]
  OBVIOUS
<1> HIDE DEF more
<1>2. PICK J \in [0 .. Len(more) -> SUBSET SUBSET Items] :
         UnpackSteps(more, content, J) /\ Unpacked(more, content) = J[Len(more)]
  BY <1>1, UnpackGoes
<1>3. UnpackSteps(list, content, J)
  BY <1>1, <1>2 DEF UnpackSteps
<1>4. Unpacked(list, content) = J[m]
  BY <1>3, UnpackEnds
<1>5. J[m + 1] = Patched(content[n], J[m])
  <2>1. m + 1 \in 1 .. Len(more) /\ (m + 1) - 1 = m
    BY <1>1
  <2> QED BY <1>1, <1>2, <2>1 DEF UnpackSteps
<1> QED BY <1>1, <1>2, <1>4, <1>5 DEF more

\* What a list unpacks to is decided by its own patches.
LEMMA UnpackSame ==
  ASSUME NEW list \in Seq(Names), NEW content \in [Names -> Patch],
         NEW other \in [Names -> Patch], \A n \in Range(list) : other[n] = content[n]
  PROVE  Unpacked(list, other) = Unpacked(list, content)
<1>1. PICK J \in [0 .. Len(list) -> SUBSET SUBSET Items] :
         UnpackSteps(list, content, J) /\ Unpacked(list, content) = J[Len(list)]
  BY UnpackGoes
<1>2. \A k \in 1 .. Len(list) : list[k] \in Range(list)
  BY DEF Range
<1>3. UnpackSteps(list, other, J)
  BY <1>1, <1>2 DEF UnpackSteps
<1> QED BY <1>1, <1>3, UnpackEnds

\* A tree a recipe unpacks to holds items, and its changes are from its patches.
LEMMA UnpackedTree ==
  ASSUME NEW list \in Seq(Names), NEW content \in [Names -> Patch],
         NEW tree \in Unpacked(list, content)
  PROVE  tree \subseteq Items /\ tree \cap Changes \subseteq AddedBy(list, content)
<1> DEFINE n == Len(list)
           added == AddedBy(list, content)
<1>1. PICK J \in [0 .. n -> SUBSET SUBSET Items] :
         UnpackSteps(list, content, J) /\ Unpacked(list, content) = J[n]
  BY UnpackGoes
<1> DEFINE T == {k \in 0 .. n : \A t \in J[k] : t \cap Changes \subseteq added}
<1>2. n \in Nat
  OBVIOUS
<1>3. 0 \in T
  BY <1>1, <1>2 DEF UnpackSteps
<1>4. \A k \in 0 .. n - 1 : k \in T => k + 1 \in T
  <2> SUFFICES ASSUME NEW k \in 0 .. n - 1, k \in T, NEW t \in J[k + 1]
               PROVE  k + 1 \in 0 .. n /\ t \cap Changes \subseteq added
    OBVIOUS
  <2>1. k + 1 \in 1 .. n /\ k + 1 \in 0 .. n /\ (k + 1) - 1 = k
    BY <1>2
  <2>2. J[k + 1] = Patched(content[list[k + 1]], J[k])
    BY <1>1, <2>1 DEF UnpackSteps
  <2>3. PICK s \in J[k] : t \in Applied(content[list[k + 1]], s)
    BY <2>2 DEF Patched
  <2>4. t = (s \ content[list[k + 1]].minus) \cup content[list[k + 1]].plus
    BY <2>3 DEF Applied
  <2>5. content[list[k + 1]].plus \subseteq added
    <3>1. list[k + 1] \in Range(list)
      BY <2>1 DEF Range
    <3> QED BY <3>1 DEF AddedBy
  <2>6. s \cap Changes \subseteq added
    OBVIOUS
  <2> QED BY <2>1, <2>4, <2>5, <2>6
<1> HIDE DEF T
<1>5. \A k \in 0 .. n : k \in T
  BY <1>2, <1>3, <1>4, Induct
<1>6. tree \in J[n] /\ n \in T
  BY <1>1, <1>2, <1>5
<1> QED BY <1>1, <1>2, <1>6 DEF T

\* An appended element joins the elements.
LEMMA AppendedRange ==
  ASSUME NEW S, NEW l \in Seq(S), NEW x \in S
  PROVE  Range(Append(l, x)) = Range(l) \cup {x}
<1> DEFINE more == Append(l, x)
<1>1. /\ DOMAIN more = 1 .. Len(l) + 1 /\ DOMAIN l = 1 .. Len(l) /\ Len(l) \in Nat
      /\ more[Len(l) + 1] = x /\ \A k \in 1 .. Len(l) : more[k] = l[k]
  OBVIOUS
<1> HIDE DEF more
<1>2. Range(more) \subseteq Range(l) \cup {x}
  BY <1>1 DEF Range
<1>3. Range(l) \subseteq Range(more) /\ x \in Range(more)
  BY <1>1 DEF Range
<1> QED BY <1>2, <1>3 DEF more

-----------------------------------------------------------------------------
(* Adding the exported patches to the list. *)

\* The lists after each exported patch.
AddSteps(list, out, A) ==
    /\ A[0] = list
    /\ \A k \in 1 .. Len(out) : A[k] = AddSource(A[k - 1], out[k])

\* The patches are added one after the other.
LEMMA AddGoes ==
  ASSUME NEW list \in Seq(Names), NEW out \in Seq(Names)
  PROVE  \E A : AddSteps(list, out, A) /\ FoldLeft(AddSource, list, out) = A[Len(out)]
<1> DEFINE S == Seq(Names)
           n == Len(out)
           F == [k \in 1 .. n |-> [l \in S |-> AddSource(l, out[k])]]
           Eq(iter) == iter = [u \in SUBSET DOMAIN out |->
                         IF u = {} THEN list
                         ELSE AddSource(iter[u \ {Max(u)}], out[Max(u)])]
           it == CHOOSE iter : Eq(iter)
<1>1. n \in Nat /\ DOMAIN out = 1 .. n /\ list \in S
  OBVIOUS
<1>2. \A l \in S, k \in 1 .. n : AddSource(l, out[k]) \in S
  BY DEF AddSource
<1>3. F \in [1 .. n -> [S -> S]]
  BY <1>2
<1>4. ASSUME NEW u \in SUBSET (1 .. n), u # {} PROVE Max(u) \in 1 .. n
  <2>1. u \in SUBSET (0 .. n)
    OBVIOUS
  <2> QED BY <1>1, <1>4, <2>1, MaxFacts
<1>5. PICK f : FoldsTo(S, list, n, F, f)
  <2> HIDE DEF F, S, n
  <2> QED BY <1>1, <1>3, FoldExists
<1>6. Eq(f)
  <2>1. ASSUME NEW u \in SUBSET (1 .. n), u # {}
        PROVE  f[u] = AddSource(f[u \ {Max(u)}], out[Max(u)])
    <3>1. f[u \ {Max(u)}] \in S
      BY <1>5 DEF FoldsTo
    <3>2. F[Max(u)][f[u \ {Max(u)}]] = AddSource(f[u \ {Max(u)}], out[Max(u)])
      BY <1>4, <2>1, <3>1
    <3> QED BY <1>5, <2>1, <3>2 DEF FoldsTo
  <2> QED BY <1>1, <1>5, <2>1 DEF FoldsTo
<1>7. Eq(it)
  <2> HIDE DEF Eq
  <2> QED BY <1>6
<1>8. FoldLeft(AddSource, list, out) = it[1 .. n]
  BY <1>1 DEF FoldLeft, MapThenFoldSet
<1>9. it[{}] = list
  BY <1>7
<1>10. ASSUME NEW k \in 1 .. n
       PROVE  it[1 .. k] = AddSource(it[1 .. k - 1], out[k])
  <2>1. 1 .. k \in SUBSET (0 .. n) /\ 1 .. k # {} /\ k \in 1 .. k
    <3>1. n \in Nat /\ k \in 1 .. n
      BY <1>1
    <3> HIDE DEF it, n
    <3>2. k \in 1 .. k
      BY <3>1
    <3>3. \A i \in 1 .. k : i \in 0 .. n
      BY <3>1
    <3> QED BY <3>2, <3>3
  <2>2. Max(1 .. k) = k
    <3>1. Max(1 .. k) \in 1 .. k /\ k <= Max(1 .. k)
      BY <1>1, <2>1, MaxFacts
    <3> QED BY <3>1
  <2>3. (1 .. k) \ {k} = 1 .. k - 1
    OBVIOUS
  <2>4. 1 .. k \in SUBSET DOMAIN out
    BY <1>1
  <2>5. it[1 .. k] = AddSource(it[(1 .. k) \ {Max(1 .. k)}], out[Max(1 .. k)])
    <3> HIDE DEF it
    <3> QED BY <1>7, <2>1, <2>4
  <2> HIDE DEF it
  <2> QED BY <2>2, <2>3, <2>5
<1> DEFINE A == [k \in 0 .. n |-> it[1 .. k]]
<1> HIDE DEF it
<1>11. AddSteps(list, out, A)
  <2>1. 1 .. 0 = {}
    OBVIOUS
  <2>2. A[0] = list
    BY <1>1, <1>9, <2>1
  <2>3. ASSUME NEW k \in 1 .. n PROVE A[k] = AddSource(A[k - 1], out[k])
    BY <1>1, <1>10
  <2> QED BY <2>2, <2>3 DEF AddSteps
<1>12. A[n] = it[1 .. n]
  BY <1>1
<1> HIDE DEF A
<1> QED BY <1>8, <1>11, <1>12

\* A tree on which each patch of a sequence applies, and what comes of it.
Path(todo, from, to, h) ==
    /\ h[0] = from /\ h[Len(todo)] = to
    /\ \A k \in 1 .. Len(todo) : h[k] \in Applied(todo[k], h[k - 1])

\* The list of the recipe after a finish that exported these patches.
Relisted(list, out) == FoldLeft(AddSource, list, out)

\* If the list unpacks to a tree from which these patches lead to another one,
\* all the patches unpack to that one.
LeadsOn(list, out, all) ==
    \A content \in [Names -> Patch], todo \in Seq(Patch) : \A from, to, h :
       (/\ Unpacked(list, content) = {from}
        /\ Len(todo) = Len(out) /\ \A k \in DOMAIN out : content[out[k]] = todo[k]
        /\ Path(todo, from, to, h))
       => Unpacked(all, content) = {to}

\* Rewrite: new patches are listed behind the others, none twice.
LEMMA AddsToList ==
  ASSUME NEW list \in Seq(Names), NEW out \in Seq(Names),
         IsInjective(list), IsInjective(out), Range(out) \cap Range(list) = {}
  PROVE  /\ Relisted(list, out) \in Seq(Names) /\ IsInjective(Relisted(list, out))
         /\ Range(Relisted(list, out)) = Range(list) \cup Range(out)
         /\ LeadsOn(list, out, Relisted(list, out))
<1> DEFINE n == Len(out)
           Before(k) == {out[i] : i \in 1 .. k}
<1>1. PICK A : AddSteps(list, out, A) /\ Relisted(list, out) = A[n]
  BY AddGoes DEF Relisted
<1> DEFINE Good(k) == /\ A[k] \in Seq(Names) /\ IsInjective(A[k])
                      /\ Range(A[k]) = Range(list) \cup Before(k)
           T == {k \in 0 .. n : Good(k)}
<1>2. n \in Nat /\ DOMAIN out = 1 .. n /\ \A k \in 1 .. n : out[k] \in Names
  OBVIOUS
<1>3. 0 \in T
  <2>1. Before(0) = {}
    OBVIOUS
  <2>2. A[0] = list
    BY <1>1 DEF AddSteps
  <2> QED BY <1>2, <2>1, <2>2
<1>4. ASSUME NEW k \in 0 .. n - 1, Good(k)
      PROVE  A[k + 1] = Append(A[k], out[k + 1]) /\ out[k + 1] \notin Range(A[k])
  <2>1. k + 1 \in 1 .. n /\ (k + 1) - 1 = k
    BY <1>2
  <2>2. A[k + 1] = AddSource(A[k], out[k + 1])
    BY <1>1, <2>1 DEF AddSteps
  <2>3. out[k + 1] \in Range(out)
    BY <1>2, <2>1 DEF Range
  <2>4. out[k + 1] \notin Before(k)
    <3> SUFFICES ASSUME NEW i \in 1 .. k, out[i] = out[k + 1] PROVE FALSE
      OBVIOUS
    <3>1. i \in 1 .. n /\ i # k + 1
      BY <1>2
    <3> QED BY <1>2, <2>1, <3>1 DEF IsInjective
  <2>5. out[k + 1] \notin Range(A[k])
    BY <1>4, <2>3, <2>4
  <2> QED BY <2>2, <2>5 DEF AddSource
<1>5. \A k \in 0 .. n - 1 : k \in T => k + 1 \in T
  <2> SUFFICES ASSUME NEW k \in 0 .. n - 1, Good(k) PROVE k + 1 \in T
    OBVIOUS
  <2> DEFINE l == A[k]
             x == out[k + 1]
  <2>1. k + 1 \in 1 .. n /\ k + 1 \in 0 .. n
    BY <1>2
  <2>2. A[k + 1] = Append(l, x) /\ x \notin Range(l) /\ x \in Names
    BY <1>2, <1>4, <2>1
  <2>3. Before(k + 1) = Before(k) \cup {x}
    <3>1. 1 .. k + 1 = (1 .. k) \cup {k + 1}
      BY <2>1
    <3> QED BY <3>1
  <2>4. l \in Seq(Names) /\ IsInjective(l) /\ Range(l) = Range(list) \cup Before(k)
    BY <2>1
  <2> HIDE DEF l, x, Before
  <2>5. Append(l, x) \in Seq(Names) /\ IsInjective(Append(l, x))
    BY <2>2, <2>4 DEF IsInjective, Range
  <2>6. Range(Append(l, x)) = Range(l) \cup {x}
    BY <2>2, <2>4, AppendedRange
  <2> QED BY <2>1, <2>2, <2>3, <2>4, <2>5, <2>6
<1> HIDE DEF T
<1>6. \A k \in 0 .. n : k \in T
  BY <1>2, <1>3, <1>5, Induct
<1>7. \A k \in 0 .. n : Good(k)
  BY <1>6 DEF T
<1>8. Before(n) = Range(out)
  BY <1>2 DEF Range
<1>9. ASSUME NEW content \in [Names -> Patch], NEW todo \in Seq(Patch),
             NEW from, NEW to, NEW h,
             Unpacked(list, content) = {from}, Len(todo) = n,
             \A k \in DOMAIN out : content[out[k]] = todo[k], Path(todo, from, to, h)
      PROVE  Unpacked(A[n], content) = {to}
  <2> DEFINE U == {k \in 0 .. n : Unpacked(A[k], content) = {h[k]}}
  <2>1. 0 \in U
    <3>1. A[0] = list /\ h[0] = from
      BY <1>1, <1>9 DEF AddSteps, Path
    <3> QED BY <1>2, <1>9, <3>1
  <2>2. \A k \in 0 .. n - 1 : k \in U => k + 1 \in U
    <3> SUFFICES ASSUME NEW k \in 0 .. n - 1, Unpacked(A[k], content) = {h[k]}
                 PROVE  k + 1 \in 0 .. n /\ Unpacked(A[k + 1], content) = {h[k + 1]}
      OBVIOUS
    <3>1. k + 1 \in 1 .. n /\ k + 1 \in 0 .. n /\ k \in 0 .. n /\ (k + 1) - 1 = k
      BY <1>2
    <3>2. Good(k)
      BY <1>7, <3>1
    <3>3. A[k + 1] = Append(A[k], out[k + 1])
      BY <1>4, <3>2
    <3>4. A[k] \in Seq(Names) /\ out[k + 1] \in Names
      BY <1>2, <3>1, <3>2
    <3>5. Unpacked(A[k + 1], content) = Patched(content[out[k + 1]], {h[k]})
      <4>1. Unpacked(Append(A[k], out[k + 1]), content)
              = Patched(content[out[k + 1]], Unpacked(A[k], content))
        BY <3>4, UnpackMore, Zenon
      <4> QED BY <3>3, <4>1
    <3>6. Unpacked(A[k + 1], content) = Patched(todo[k + 1], {h[k]})
      BY <1>2, <1>9, <3>1, <3>5
    <3>7. h[k + 1] \in Applied(todo[k + 1], h[k])
      BY <1>9, <3>1 DEF Path
    <3>8. Patched(todo[k + 1], {h[k]}) = {h[k + 1]}
      BY <3>7 DEF Patched, Applied
    <3> QED BY <3>1, <3>6, <3>8
  <2> HIDE DEF U
  <2>3. \A k \in 0 .. n : k \in U
    BY <1>2, <2>1, <2>2, Induct
  <2>4. n \in U
    BY <1>2, <2>3
  <2>5. Unpacked(A[n], content) = {h[n]}
    BY <2>4, Zenon DEF U
  <2> QED BY <1>9, <2>5 DEF Path
<1>10. Good(n)
  <2>1. n \in 0 .. n
    BY <1>2
  <2> QED BY <1>7, <2>1, Zenon
<1> HIDE DEF Before
<1>11. LeadsOn(list, out, A[n])
  BY <1>9 DEF LeadsOn
<1> QED BY <1>1, <1>8, <1>10, <1>11

-----------------------------------------------------------------------------
(* The inductive invariant. *)

Recording == pc \in {"export", "record", "rewrite"}

\* A finish works on a workspace; it has room for what it exports, under names
\* that no file has and the recipe does not list; and once the recipe is
\* written, or there was nothing to write, the workspace is used up.
FinishInv ==
    /\ pc # "idle" => ws.there
    /\ pc = "refresh" =>
         /\ job.n \in 1 .. Len(ws.series) /\ job.out = <<>>
         /\ Cardinality(exported) + job.n <= MaxPatches
    /\ pc = "diff" => job.out = <<>> /\ Cardinality(exported) + 1 <= MaxPatches
    /\ pc = "export" =>
         /\ Len(job.out) < Len(job.todo) /\ 1 .. Len(job.out) \subseteq exported
         /\ Cardinality(exported) + (Len(job.todo) - Len(job.out)) <= MaxPatches
    /\ pc \in {"record", "rewrite"} => Len(job.out) = Len(job.todo)
    /\ Recording =>
         /\ IsInjective(job.out) /\ Range(job.out) \subseteq exported \ Range(listed)
         /\ \A k \in DOMAIN job.out : patch[job.out[k]] = job.todo[k]
    /\ pc \in {"lock", "relock", "remove"} => ws.used

\* Where the changes in the directory come from: the workspace was opened with
\* those the listed patches add; all others were made beside the quilt patches,
\* with the top one, or are in one.
TreeInv ==
    /\ ws.original \cap Changes \subseteq AddedBy(listed, patch)
    /\ ws.tree \cap Changes \subseteq AddedBy(listed, patch)
          \cup ws.plain \cup ws.tracked \cup UNION Range(ws.series)

\* What a finish that is to export the first n quilt patches will export or
\* leave: edits made meanwhile for a newer patch are not among it.
InHand(w, n) ==
    w.plain \cup (UNION {w.series[k] : k \in 1 .. n})
            \cup (IF n = Len(w.series) THEN w.tracked ELSE {})

\* What the finishes of this workspace started on is in the directory, in a
\* listed patch, or was met beside the quilt patches; while the patches are
\* exported it is in one of them instead, and then in a listed one.
Kept == AddedBy(listed, patch) \cup beside
OwedInv ==
    /\ ws.there => owed \subseteq ws.tree \cup Kept
    /\ pc = "refresh" => owed \subseteq InHand(ws, job.n) \cup Kept
    /\ Recording =>
         owed \subseteq (UNION {job.todo[k].plus : k \in DOMAIN job.todo}) \cup Kept
    /\ pc \in {"lock", "relock", "remove"} \/ ~ws.there => owed \subseteq Kept

\* Every source of the recipe is pinned, except while the lock is rewritten.
PinsInv ==
    "pins" \notin damage =>
      /\ pc \notin {"lock", "relock"} => {Source} \cup Range(listed) \subseteq pins
      /\ pc = "lock" => {Source} \cup (Range(listed) \ Range(job.out)) \subseteq pins
      /\ pc = "relock" =>
           {Source} \cup (Range(listed) \ Range(job.out)) \subseteq job.pins

\* The quilt patches of a workspace that is not used up lie side by side.
SideBySide(w) ==
    /\ \A k \in DOMAIN w.series : /\ w.series[k] \subseteq w.tree \ w.original
                                  /\ w.series[k] \cap w.tracked = {}
    /\ \A i, k \in DOMAIN w.series : i # k => w.series[i] \cap w.series[k] = {}
    /\ w.tracked \subseteq w.tree \ w.original
    /\ w.series = <<>> => w.tracked = {}
SeriesInv == ~ws.used => SideBySide(ws)

\* The recipe unpacks to the tree it was last written for, from which the
\* patches a finish is exporting lead to the tree it found; unless a finish had
\* to be started again on a workspace that is used up.
SavedInv ==
    "retried" \notin damage =>
      /\ Unpacked(listed, patch) = {saved}
      /\ ws.there /\ ~ws.used => ws.pristine /\ ws.original = saved
      /\ pc \in {"refresh", "diff"} \/ Recording => ~ws.used
      /\ Recording => \E h : Path(job.todo, saved, job.found, h)

Inv == /\ TypeOK /\ FinishInv /\ TreeInv /\ OwedInv
       /\ PinsInv /\ SeriesInv /\ SavedInv

\* Initially there is nothing but the recipe's own source.
LEMMA WorkspaceStarts == Init => Inv
<1> SUFFICES ASSUME Init PROVE Inv
  OBVIOUS
<1> USE DEF Init
<1>1. NoWorkspace \in WorkspaceType /\ NoJob \in JobType
  <2>1. <<>> \in Seq(SUBSET Changes) /\ <<>> \in Seq(Patch) /\ <<>> \in Seq(Names)
    OBVIOUS
  <2> QED BY <2>1 DEF NoWorkspace, NoJob, WorkspaceType, JobType
<1>2. patch \in [Names -> Patch]
  BY DEF Patch
<1>3. TypeOK
  <2>1. <<>> \in Seq(Names) /\ IsInjective(<<>>) /\ Range(<<>>) = {}
    BY DEF IsInjective, Range
  <2> QED BY <1>1, <1>2, <2>1 DEF TypeOK, NoWorkspace, Items
<1>4. FinishInv
  BY DEF FinishInv, Recording
<1>5. TreeInv /\ OwedInv
  BY DEF TreeInv, OwedInv, Recording, NoWorkspace
<1>6. PinsInv
  <2>1. Range(listed) = {}
    BY DEF Range
  <2> QED BY <2>1 DEF PinsInv
<1>7. SeriesInv
  BY DEF SeriesInv, SideBySide, NoWorkspace
<1>8. SavedInv
  <2>1. Unpacked(<<>>, patch) = {Upstream}
    BY <1>2, UnpackNone
  <2> QED BY <2>1 DEF SavedInv, Recording, NoWorkspace
<1> QED BY <1>3, <1>4, <1>5, <1>6, <1>7, <1>8 DEF Inv

\* What people do in an open directory: what it was opened with stays, the
\* quilt patches stay side by side, and what a finish started on stays unless
\* it is deleted.
LEMMA DirectoryStays ==
  ASSUME Inv, UNCHANGED <<project, pc, job, beside, saved, damage>>, ws.there,
         ws' \in WorkspaceType, ws'.there, ws'.original = ws.original,
         ws'.pristine = ws.pristine, ws'.used = ws.used,
         Len(ws'.series) >= Len(ws.series), ws.used \/ SideBySide(ws'),
         TreeInv', owed' \subseteq owed, owed' \cap ws.tree \subseteq ws'.tree,
         pc = "refresh" => InHand(ws, job.n) \subseteq InHand(ws', job.n)
  PROVE  Inv'
<1> USE DEF Inv, project
<1>1. TypeOK'
  BY DEF TypeOK
<1>2. FinishInv'
  <2>1. Len(ws.series) \in Nat /\ Len(ws'.series) \in Nat
    BY DEF TypeOK, WorkspaceType
  <2>2. job.n \in 1 .. Len(ws.series) => job.n \in 1 .. Len(ws'.series)
    BY <2>1
  <2> QED BY <2>2 DEF FinishInv, Recording
<1>3. OwedInv'
  <2>1. Kept' = Kept /\ (pc' = pc /\ job' = job) /\ (Recording' <=> Recording)
    BY DEF Kept, AddedBy, Recording
  <2>2. owed' \subseteq ws'.tree \cup Kept'
    BY <2>1 DEF OwedInv
  <2>3. pc' = "refresh" => owed' \subseteq InHand(ws', job'.n) \cup Kept'
    BY <2>1 DEF OwedInv
  <2>4. Recording' => owed' \subseteq
                (UNION {job'.todo[k].plus : k \in DOMAIN job'.todo}) \cup Kept'
    BY <2>1 DEF OwedInv
  <2>5. pc' \in {"lock", "relock", "remove"} => owed' \subseteq Kept'
    BY <2>1 DEF OwedInv
  <2> QED BY <2>2, <2>3, <2>4, <2>5 DEF OwedInv
<1>4. PinsInv'
  BY DEF PinsInv
<1>5. SeriesInv'
  BY DEF SeriesInv
<1>6. SavedInv'
  BY DEF SavedInv, Recording
<1> QED BY <1>1, <1>2, <1>3, <1>4, <1>5, <1>6

LEMMA EditStays ==
  ASSUME Inv, NEW c \in Changes, Edit(c) PROVE Inv'
<1> USE DEF Inv, Edit, project, history
<1>1. ws \in WorkspaceType /\ ws.there /\ c \in Items
  BY DEF TypeOK, NoWorkspace, Items
<1>2. ws' = [ws EXCEPT !.tree = @ \cup {c}, !.plain = @ \cup {c}]
  OBVIOUS
<1>3. /\ ws' \in WorkspaceType /\ ws'.there /\ ws'.original = ws.original
      /\ ws'.pristine = ws.pristine /\ ws'.used = ws.used
      /\ ws'.series = ws.series /\ ws'.tracked = ws.tracked
      /\ ws'.tree = ws.tree \cup {c} /\ ws'.plain = ws.plain \cup {c}
  <2> DEFINE t == ws.tree \cup {c}
             e == ws.plain \cup {c}
  <2>1. t \in SUBSET Items /\ e \in SUBSET Changes
    BY <1>1 DEF WorkspaceType
  <2>2. ws' = [ws EXCEPT !.tree = t, !.plain = e]
    BY <1>2
  <2> HIDE DEF t, e, Edit
  <2>3. ws' \in WorkspaceType
    BY <1>1, <2>1, <2>2 DEF WorkspaceType
  <2>4. ws'.tree = t /\ ws'.plain = e
    BY <1>1, <2>2 DEF WorkspaceType
  <2>5. /\ ws'.there = ws.there /\ ws'.original = ws.original
        /\ ws'.pristine = ws.pristine /\ ws'.used = ws.used
        /\ ws'.series = ws.series /\ ws'.tracked = ws.tracked
    BY <1>1, <2>2 DEF WorkspaceType
  <2> QED BY <1>1, <2>3, <2>4, <2>5 DEF t, e
<1>4. SideBySide(ws) => SideBySide(ws')
  BY <1>3 DEF SideBySide
<1>5. Len(ws'.series) >= Len(ws.series)
  BY <1>1, <1>3 DEF WorkspaceType
<1>6. TreeInv'
  BY <1>3 DEF TreeInv, AddedBy
<1>7. InHand(ws, job.n) \subseteq InHand(ws', job.n)
  BY <1>3 DEF InHand
<1> QED BY <1>1, <1>3, <1>4, <1>5, <1>6, <1>7, DirectoryStays DEF SeriesInv

LEMMA DeleteStays ==
  ASSUME Inv, NEW i \in Items, Delete(i) PROVE Inv'
<1> USE DEF Inv, Delete, project
<1>1. ws \in WorkspaceType /\ ws.there
  BY DEF TypeOK, NoWorkspace
<1>2. /\ ws' = [ws EXCEPT !.tree = @ \ {i}, !.plain = @ \ {i}]
      /\ ws.series = <<>> /\ owed' = owed \ {i}
  OBVIOUS
<1>3. /\ ws' \in WorkspaceType /\ ws'.there /\ ws'.original = ws.original
      /\ ws'.pristine = ws.pristine /\ ws'.used = ws.used
      /\ ws'.series = ws.series /\ ws'.tracked = ws.tracked
      /\ ws'.tree = ws.tree \ {i} /\ ws'.plain = ws.plain \ {i}
  BY <1>1, <1>2 DEF WorkspaceType
<1>4. SideBySide(ws) => SideBySide(ws')
  BY <1>2, <1>3 DEF SideBySide
<1>5. Len(ws'.series) >= Len(ws.series)
  BY <1>1, <1>3 DEF WorkspaceType
<1>6. TreeInv'
  BY <1>3 DEF TreeInv, AddedBy
<1>7. pc # "refresh"
  <2>1. Len(<<>>) = 0 /\ 1 .. 0 = {}
    OBVIOUS
  <2> QED BY <1>2, <2>1 DEF FinishInv
<1>8. owed' \subseteq owed /\ owed' \cap ws.tree \subseteq ws'.tree
  BY <1>2, <1>3
<1> QED BY <1>1, <1>3, <1>4, <1>5, <1>6, <1>7, <1>8, DirectoryStays DEF SeriesInv

LEMMA QuiltNewStays ==
  ASSUME Inv, NEW c \in Changes, QuiltNew(c) PROVE Inv'
<1> USE DEF Inv, QuiltNew, project, history
<1>1. ws \in WorkspaceType /\ ws.there /\ c \in Items /\ c \notin ws.tree \cup ws.original
  BY DEF TypeOK, NoWorkspace, Items
<1>2. ws' = [ws EXCEPT !.tree = @ \cup {c}, !.series = Append(@, {c}),
                       !.plain = @ \cup ws.tracked, !.tracked = {}]
  OBVIOUS
<1>3. /\ ws.series \in Seq(SUBSET Changes) /\ ws.tree \in SUBSET Items
      /\ ws.plain \in SUBSET Changes /\ ws.tracked \in SUBSET Changes
  BY <1>1 DEF WorkspaceType
<1>4. Append(ws.series, {c}) \in Seq(SUBSET Changes)
  BY <1>3
<1>5. /\ ws' \in WorkspaceType /\ ws'.there /\ ws'.original = ws.original
      /\ ws'.pristine = ws.pristine /\ ws'.used = ws.used
      /\ ws'.series = Append(ws.series, {c}) /\ ws'.tracked = {}
      /\ ws'.tree = ws.tree \cup {c} /\ ws'.plain = ws.plain \cup ws.tracked
  <2> DEFINE t == ws.tree \cup {c}
             l == Append(ws.series, {c})
             e == ws.plain \cup ws.tracked
  <2>1. t \in SUBSET Items /\ l \in Seq(SUBSET Changes) /\ e \in SUBSET Changes
    BY <1>1, <1>3, <1>4
  <2>2. ws' = [ws EXCEPT !.tree = t, !.series = l, !.plain = e, !.tracked = {}]
    BY <1>2
  <2> HIDE DEF t, l, e, QuiltNew
  <2>3. ws' \in WorkspaceType
    BY <1>1, <2>1, <2>2 DEF WorkspaceType
  <2>4. ws'.tree = t /\ ws'.series = l /\ ws'.plain = e /\ ws'.tracked = {}
    BY <1>1, <2>2 DEF WorkspaceType
  <2>5. /\ ws'.there = ws.there /\ ws'.original = ws.original
        /\ ws'.pristine = ws.pristine /\ ws'.used = ws.used
    BY <1>1, <2>2 DEF WorkspaceType
  <2> QED BY <1>1, <2>3, <2>4, <2>5 DEF t, l, e
<1>6. ASSUME SideBySide(ws) PROVE SideBySide(ws')
  <2> DEFINE n == Len(ws.series)
             s == ws'.series
  <2>1. /\ n \in Nat /\ DOMAIN ws.series = 1 .. n /\ DOMAIN s = 1 .. n + 1
        /\ s[n + 1] = {c} /\ \A k \in 1 .. n : s[k] = ws.series[k]
    BY <1>3, <1>5
  <2>2. \A k \in 1 .. n + 1 : k \in 1 .. n \/ k = n + 1
    BY <2>1
  <2>3. \A k \in 1 .. n : ws.series[k] \subseteq ws.tree \ ws.original
                          /\ ws.series[k] \cap ws.tracked = {}
    BY <1>6, <2>1 DEF SideBySide
  <2>4. \A i, k \in 1 .. n : i # k => ws.series[i] \cap ws.series[k] = {}
    BY <1>6, <2>1 DEF SideBySide
  <2> HIDE DEF n, s
  <2>6. \A k \in DOMAIN s : s[k] \subseteq ws'.tree \ ws'.original
                            /\ s[k] \cap ws'.tracked = {}
    BY <1>1, <1>5, <2>1, <2>2, <2>3
  <2>7. \A i, k \in DOMAIN s : i # k => s[i] \cap s[k] = {}
    BY <1>1, <2>1, <2>2, <2>3, <2>4
  <2>8. s # <<>>
    BY <2>1
  <2>9. s = ws'.series
    BY DEF s
  <2> QED BY <1>5, <2>6, <2>7, <2>8, <2>9 DEF SideBySide
<1>7. Len(ws'.series) = Len(ws.series) + 1 /\ Len(ws.series) \in Nat
  BY <1>3, <1>5
<1>8. Range(ws'.series) = Range(ws.series) \cup {{c}}
  <2>1. {c} \in SUBSET Changes
    OBVIOUS
  <2> HIDE DEF QuiltNew
  <2>2. ws.series \in Seq(SUBSET Changes)
    BY <1>3
  <2>3. Range(Append(ws.series, {c})) = Range(ws.series) \cup {{c}}
    BY <2>1, <2>2, AppendedRange, Zenon
  <2> QED BY <1>5, <2>3
<1>9. TreeInv'
  <2>1. UNION Range(ws'.series) = (UNION Range(ws.series)) \cup {c}
    BY <1>8
  <2>2. AddedBy(listed, patch)' = AddedBy(listed, patch)
    BY DEF AddedBy
  <2> HIDE DEF QuiltNew
  <2> QED BY <1>5, <2>1, <2>2 DEF TreeInv
<1>10. ASSUME pc = "refresh" PROVE InHand(ws, job.n) \subseteq InHand(ws', job.n)
  <2>1. job.n \in 1 .. Len(ws.series)
    BY <1>10 DEF FinishInv
  <2>2. \A k \in 1 .. job.n : ws'.series[k] = ws.series[k]
    BY <1>3, <1>5, <1>7, <2>1
  <2> HIDE DEF QuiltNew
  <2>3. UNION {ws'.series[k] : k \in 1 .. job.n} = UNION {ws.series[k] : k \in 1 .. job.n}
    BY <2>2
  <2> QED BY <1>5, <2>3 DEF InHand
<1> QED BY <1>1, <1>5, <1>6, <1>7, <1>9, <1>10, DirectoryStays DEF SeriesInv

LEMMA QuiltEditStays ==
  ASSUME Inv, NEW c \in Changes, QuiltEdit(c) PROVE Inv'
<1> USE DEF Inv, QuiltEdit, project, history
<1>1. ws \in WorkspaceType /\ ws.there /\ c \in Items /\ c \notin ws.tree \cup ws.original
  BY DEF TypeOK, NoWorkspace, Items
<1>2. /\ ws' = [ws EXCEPT !.tree = @ \cup {c}, !.tracked = @ \cup {c}]
      /\ ws.series # <<>>
  OBVIOUS
<1>3. /\ ws' \in WorkspaceType /\ ws'.there /\ ws'.original = ws.original
      /\ ws'.pristine = ws.pristine /\ ws'.used = ws.used
      /\ ws'.series = ws.series /\ ws'.tracked = ws.tracked \cup {c}
      /\ ws'.tree = ws.tree \cup {c} /\ ws'.plain = ws.plain
  <2> DEFINE t == ws.tree \cup {c}
             e == ws.tracked \cup {c}
  <2>1. t \in SUBSET Items /\ e \in SUBSET Changes
    BY <1>1 DEF WorkspaceType
  <2>2. ws' = [ws EXCEPT !.tree = t, !.tracked = e]
    BY <1>2
  <2> HIDE DEF t, e, QuiltEdit
  <2>3. ws' \in WorkspaceType
    BY <1>1, <2>1, <2>2 DEF WorkspaceType
  <2>4. ws'.tree = t /\ ws'.tracked = e
    BY <1>1, <2>2 DEF WorkspaceType
  <2>5. /\ ws'.there = ws.there /\ ws'.original = ws.original
        /\ ws'.pristine = ws.pristine /\ ws'.used = ws.used
        /\ ws'.series = ws.series /\ ws'.plain = ws.plain
    BY <1>1, <2>2 DEF WorkspaceType
  <2> QED BY <1>1, <2>3, <2>4, <2>5 DEF t, e
<1>4. SideBySide(ws) => SideBySide(ws')
  BY <1>1, <1>2, <1>3 DEF SideBySide
<1>5. Len(ws'.series) >= Len(ws.series)
  BY <1>1, <1>3 DEF WorkspaceType
<1>6. TreeInv'
  BY <1>3 DEF TreeInv, AddedBy
<1>7. InHand(ws, job.n) \subseteq InHand(ws', job.n)
  BY <1>3 DEF InHand
<1> QED BY <1>1, <1>3, <1>4, <1>5, <1>6, <1>7, DirectoryStays DEF SeriesInv

\* What Prepared yields are the trees the patches of the recipe unpack to.
LEMMA PreparedTrees ==
  ASSUME Inv
  PROVE  /\ Prepared \subseteq Unpacked(listed, patch)
         /\ {Source} \cup Range(listed) \subseteq pins
              => Prepared = Unpacked(listed, patch)
         /\ \A tree \in Prepared : tree \subseteq Items
                /\ tree \cap Changes \subseteq AddedBy(listed, patch)
<1>1. Prepared = IF {Source} \cup Range(listed) \subseteq pins
                 THEN Unpacked(listed, patch) ELSE {}
  BY DEF Prepared, Unpacked
<1>2. listed \in Seq(Names) /\ patch \in [Names -> Patch]
  BY DEF Inv, TypeOK
<1>3. \A tree \in Unpacked(listed, patch) : tree \subseteq Items
         /\ tree \cap Changes \subseteq AddedBy(listed, patch)
  BY <1>2, UnpackedTree
<1> QED BY <1>1, <1>3

LEMMA OpenStays ==
  ASSUME Inv, Open PROVE Inv'
<1> USE DEF Inv, Open, project
<1>1. PICK tree \in Prepared :
         ws' = [NoWorkspace EXCEPT !.there = TRUE, !.known = TRUE, !.tree = tree,
                                   !.original = tree, !.pristine = TRUE]
  OBVIOUS
<1>2. tree \in SUBSET Items /\ tree \cap Changes \subseteq AddedBy(listed, patch)
  BY <1>1, PreparedTrees
<1>3. /\ ws'.there /\ ws'.original = tree /\ ws'.pristine /\ ws'.series = <<>>
      /\ ws'.tracked = {} /\ ~ws'.used /\ ws'.tree = tree
  BY <1>1 DEF NoWorkspace
<1>4. ws' \in WorkspaceType
  <2>1. <<>> \in Seq(SUBSET Changes)
    OBVIOUS
  <2> QED BY <1>1, <1>2, <2>1 DEF NoWorkspace, WorkspaceType
<1>5. pc = "idle" /\ pc' = "idle" /\ ~ws.there
  OBVIOUS
<1>6. TypeOK'
  BY <1>3, <1>4 DEF TypeOK
<1>7. FinishInv'
  BY <1>5 DEF FinishInv, Recording
<1>8. TreeInv' /\ OwedInv'
  <2>1. owed' = {}
    OBVIOUS
  <2>2. TreeInv'
    BY <1>2, <1>3 DEF TreeInv, AddedBy
  <2> QED BY <2>1, <2>2 DEF OwedInv
<1>9. PinsInv'
  BY <1>5 DEF PinsInv
<1>10. SeriesInv'
  BY <1>3 DEF SeriesInv, SideBySide
<1>11. SavedInv'
  <2>1. "retried" \notin damage => tree = saved
    BY <1>1, PreparedTrees DEF SavedInv
  <2> QED BY <1>3, <1>5, <2>1 DEF SavedInv, Recording
<1> QED BY <1>6, <1>7, <1>8, <1>9, <1>10, <1>11

\* A directory that is gone holds nothing.
LEMMA NothingThere ==
  /\ NoWorkspace \in WorkspaceType /\ ~NoWorkspace.there
  /\ NoWorkspace.original = {} /\ NoWorkspace.series = <<>> /\ NoWorkspace.tracked = {}
  /\ NoWorkspace.tree = {}
  /\ NoJob \in JobType
<1>1. <<>> \in Seq(SUBSET Changes) /\ <<>> \in Seq(Patch) /\ <<>> \in Seq(Names)
  OBVIOUS
<1> QED BY <1>1 DEF NoWorkspace, NoJob, WorkspaceType, JobType

LEMMA DiscardStays ==
  ASSUME Inv, Discard PROVE Inv'
<1> USE DEF Inv, Discard, project
<1>1. TypeOK'
  BY NothingThere DEF TypeOK
<1>2. FinishInv'
  BY DEF FinishInv, Recording
<1>3. TreeInv' /\ OwedInv'
  BY NothingThere DEF TreeInv, OwedInv
<1>4. PinsInv'
  BY DEF PinsInv
<1>5. SeriesInv'
  BY NothingThere DEF SeriesInv, SideBySide
<1>6. SavedInv'
  BY NothingThere DEF SavedInv, Recording
<1> QED BY <1>1, <1>2, <1>3, <1>4, <1>5, <1>6

LEMMA FetchStays ==
  ASSUME Inv, Fetch PROVE Inv'
<1> USE DEF Inv, Fetch, history
<1>1. TypeOK'
  <2>1. Range(listed) \subseteq Names
    BY DEF TypeOK, Range
  <2> QED BY <2>1 DEF TypeOK
<1>2. FinishInv'
  BY DEF FinishInv, Recording
<1>3. TreeInv' /\ OwedInv'
  BY DEF TreeInv, OwedInv, Recording, Kept, AddedBy, InHand
<1>4. PinsInv'
  BY DEF PinsInv
<1>5. SeriesInv'
  BY DEF SeriesInv
<1>6. SavedInv'
  BY DEF SavedInv, Recording
<1> QED BY <1>1, <1>2, <1>3, <1>4, <1>5, <1>6

LEMMA StartFinishStays ==
  ASSUME Inv, StartFinish PROVE Inv'
<1> USE DEF Inv, StartFinish, project
<1> DEFINE n == Len(ws.series)
<1>1. ws \in WorkspaceType /\ n \in Nat /\ ws.series \in Seq(SUBSET Changes)
  BY DEF TypeOK, WorkspaceType
<1>2. Max({1, n}) >= 1 /\ Max({1, n}) >= n /\ Max({1, n}) \in Nat
  <2>1. {1, n} \in SUBSET (0 .. n + 1) /\ n + 1 \in Nat /\ {1, n} # {}
    BY <1>1
  <2> HIDE DEF n
  <2>2. Max({1, n}) \in {1, n} /\ \A x \in {1, n} : x <= Max({1, n})
    BY <2>1, MaxFacts
  <2> QED BY <1>1, <2>2
<1>3. Cardinality(exported) \in Nat
  BY FS_CardinalityType, FS_Interval, FS_Subset DEF TypeOK, Names
<1>4. Cardinality(exported) + n <= MaxPatches /\ Cardinality(exported) + 1 <= MaxPatches
  BY <1>1, <1>2, <1>3
<1>5. job'.n = n /\ job'.out = <<>> /\ job' \in JobType
  BY <1>1, NothingThere DEF NoJob, JobType
<1>6. pc' \in {"diff", "refresh"} /\ (pc' = "refresh" => n \in 1 .. n)
  BY <1>1 DEF Goto
<1>7. TypeOK'
  BY <1>5, <1>6 DEF TypeOK
<1>8. FinishInv'
  BY <1>4, <1>5, <1>6 DEF FinishInv, Recording
<1>9. TreeInv' /\ OwedInv'
  <2>1. /\ owed' = owed \cup (ws.tree \cap Changes) /\ owed \subseteq Changes
        /\ ws' = ws /\ ws.there /\ beside' = beside
    BY DEF TypeOK
  <2>2. Kept' = Kept /\ TreeInv' /\ AddedBy(listed, patch) \subseteq Kept
    BY DEF Kept, AddedBy, TreeInv
  <2>3. owed \subseteq ws.tree \cup Kept
    BY <2>1 DEF OwedInv
  <2>4. Range(ws.series) = {ws.series[k] : k \in 1 .. n}
    BY <1>1 DEF Range
  <2>5. ws.tree \cap Changes \subseteq InHand(ws, n) \cup Kept
    BY <2>2, <2>4 DEF TreeInv, InHand
  <2> HIDE DEF n
  <2>6. owed' \subseteq ws'.tree \cup Kept' /\ owed' \subseteq InHand(ws', job'.n) \cup Kept'
    BY <1>5, <2>1, <2>2, <2>3, <2>5
  <2> QED BY <1>6, <2>1, <2>2, <2>6 DEF OwedInv, Recording
<1>10. PinsInv'
  BY <1>6 DEF PinsInv
<1>11. SeriesInv'
  BY DEF SeriesInv
<1>12. SavedInv'
  BY <1>6 DEF SavedInv, Recording
<1> QED BY <1>7, <1>8, <1>9, <1>10, <1>11, <1>12

LEMMA DiffFailsStays ==
  ASSUME Inv, DiffFails PROVE Inv'
<1> USE DEF Inv, DiffFails, Finished, project, history
<1>1. TypeOK'
  BY NothingThere DEF TypeOK
<1>2. FinishInv'
  BY DEF FinishInv, Recording
<1>3. TreeInv' /\ OwedInv'
  BY DEF TreeInv, OwedInv, Recording, Kept, AddedBy, InHand
<1>4. PinsInv'
  BY DEF PinsInv
<1>5. SeriesInv'
  BY DEF SeriesInv
<1>6. SavedInv'
  BY DEF SavedInv, Recording
<1> QED BY <1>1, <1>2, <1>3, <1>4, <1>5, <1>6

LEMMA RecordStays ==
  ASSUME Inv, Record PROVE Inv'
<1> USE DEF Inv, Record, Goto, history
<1>1. TypeOK'
  BY DEF TypeOK
<1>2. FinishInv'
  BY DEF FinishInv, Recording
<1>3. TreeInv' /\ OwedInv'
  BY DEF TreeInv, OwedInv, Recording, Kept, AddedBy, InHand
<1>4. PinsInv'
  BY DEF PinsInv
<1>5. SeriesInv'
  BY DEF SeriesInv
<1>6. SavedInv'
  BY DEF SavedInv, Recording
<1> QED BY <1>1, <1>2, <1>3, <1>4, <1>5, <1>6

LEMMA LockStays ==
  ASSUME Inv, Lock PROVE Inv'
<1> USE DEF Inv, Lock, Goto, history
<1>1. job' = [job EXCEPT !.pins = pins] /\ pins \in SUBSET (Names \cup {Source})
  BY DEF TypeOK
<1>2. /\ job' \in JobType /\ job'.out = job.out /\ job'.todo = job.todo
      /\ job'.n = job.n /\ job'.found = job.found /\ job'.pins = pins
  <2>1. job \in JobType
    BY DEF TypeOK
  <2> HIDE DEF Lock
  <2> QED BY <1>1, <2>1 DEF JobType
<1>3. TypeOK'
  BY <1>2 DEF TypeOK
<1>4. FinishInv'
  BY <1>2 DEF FinishInv, Recording
<1>5. TreeInv' /\ OwedInv'
  BY <1>2 DEF TreeInv, OwedInv, Recording, Kept, AddedBy
<1>6. PinsInv'
  BY <1>2 DEF PinsInv
<1>7. SeriesInv'
  BY DEF SeriesInv
<1>8. SavedInv'
  BY <1>2 DEF SavedInv, Recording
<1> QED BY <1>3, <1>4, <1>5, <1>6, <1>7, <1>8

LEMMA RelockStays ==
  ASSUME Inv, Relock PROVE Inv'
<1> USE DEF Inv, Relock, Goto, history
<1>1. TypeOK'
  <2>1. Range(job.out) \subseteq Names /\ job.pins \subseteq Names \cup {Source}
    BY DEF TypeOK, JobType, Range
  <2> QED BY <2>1 DEF TypeOK
<1>2. FinishInv'
  BY DEF FinishInv, Recording
<1>3. TreeInv' /\ OwedInv'
  BY DEF TreeInv, OwedInv, Recording, Kept, AddedBy, InHand
<1>4. PinsInv'
  BY DEF PinsInv
<1>5. SeriesInv'
  BY DEF SeriesInv
<1>6. SavedInv'
  BY DEF SavedInv, Recording
<1> QED BY <1>1, <1>2, <1>3, <1>4, <1>5, <1>6

LEMMA CloseStays ==
  ASSUME Inv, Close PROVE Inv'
<1> USE DEF Inv, Close, Finished, project, history
<1>1. TypeOK'
  BY NothingThere DEF TypeOK
<1>2. FinishInv'
  BY DEF FinishInv, Recording
<1>3. TreeInv' /\ OwedInv'
  BY NothingThere DEF TreeInv, OwedInv, Recording, Kept, AddedBy
<1>4. PinsInv'
  BY DEF PinsInv
<1>5. SeriesInv'
  BY NothingThere DEF SeriesInv, SideBySide
<1>6. SavedInv'
  BY NothingThere DEF SavedInv, Recording
<1> QED BY <1>1, <1>2, <1>3, <1>4, <1>5, <1>6

\* nextPatchPath: there is room for the next patch under a name that no file
\* has, the preferred one if it is free.
LEMMA NameIsFree ==
  ASSUME Inv, pc = "export"
  PROVE  LET k == Len(job.out) + 1
             n == NextPatchPath(k)
         IN n \in Names \ exported /\ k \in exported \cup {n}
<1> DEFINE k == Len(job.out) + 1
           free == {n \in Names : n >= k /\ n \notin exported}
<1>1. /\ Len(job.out) \in Nat /\ Len(job.todo) \in Nat /\ exported \subseteq Names
      /\ MaxPatches \in Nat
  BY DEF Inv, TypeOK, JobType
<1>2. /\ Len(job.out) < Len(job.todo) /\ 1 .. Len(job.out) \subseteq exported
      /\ Cardinality(exported) + (Len(job.todo) - Len(job.out)) <= MaxPatches
  BY DEF Inv, FinishInv
<1>3. free # {}
  <2> SUFFICES ASSUME free = {} PROVE FALSE
    OBVIOUS
  <2>1. \A n \in Names : n \in exported
    <3> SUFFICES ASSUME NEW n \in Names, n \notin exported PROVE FALSE
      OBVIOUS
    <3>1. n >= k
      BY <1>1, <1>2 DEF Names
    <3> QED BY <3>1
  <2>2. exported = Names
    BY <1>1, <2>1
  <2>3. Cardinality(exported) = MaxPatches
    BY <1>1, <2>2, FS_Interval DEF Names
  <2> QED BY <1>1, <1>2, <2>3
<1>4. free \in SUBSET Nat
  BY DEF Names
<1>5. Min(free) \in free /\ \A x \in free : Min(free) <= x
  <2>1. \E m \in free : \A x \in free : m <= x
    BY <1>3, <1>4, LeastNatural
  <2> HIDE DEF free
  <2> QED BY <2>1 DEF Min
<1>6. k \in exported \/ k = Min(free)
  <2> SUFFICES ASSUME k \notin exported PROVE k = Min(free)
    OBVIOUS
  <2>1. Min(free) \in Nat /\ Min(free) >= k /\ Min(free) <= MaxPatches
    <3>1. \A x \in free : x \in Nat /\ x >= k /\ x <= MaxPatches
      BY <1>1 DEF Names
    <3> HIDE DEF free
    <3> QED BY <1>5, <3>1
  <2>2. k \in free
    BY <1>1, <2>1 DEF Names
  <2>3. Min(free) <= k
    BY <1>5, <2>2
  <2> QED BY <1>1, <2>1, <2>3
<1> HIDE DEF k
<1>7. NextPatchPath(k) = Min(free)
  BY DEF NextPatchPath
<1>8. Min(free) \in Names \ exported
  BY <1>5
<1> QED BY <1>6, <1>7, <1>8 DEF k

\* A new patch file changes neither what the recipe lists nor what it is worth.
LEMMA NewFile ==
  ASSUME Inv, NEW n \in Names \ exported, NEW p \in Patch,
         listed' = listed, patch' = [patch EXCEPT ![n] = p]
  PROVE  /\ patch' \in [Names -> Patch] /\ patch'[n] = p
         /\ \A m \in exported : patch'[m] = patch[m]
         /\ AddedBy(listed', patch') = AddedBy(listed, patch)
         /\ Unpacked(listed', patch') = Unpacked(listed, patch)
<1>1. /\ patch \in [Names -> Patch] /\ listed \in Seq(Names)
      /\ Range(listed) \subseteq exported /\ exported \subseteq Names
  BY DEF Inv, TypeOK
<1>2. /\ patch' \in [Names -> Patch] /\ patch'[n] = p
      /\ \A m \in exported : patch'[m] = patch[m]
  BY <1>1
<1>3. \A m \in Range(listed) : patch'[m] = patch[m]
  BY <1>1, <1>2
<1>4. Unpacked(listed, patch') = Unpacked(listed, patch)
  BY <1>1, <1>2, <1>3, UnpackSame
<1>5. AddedBy(listed, patch') = AddedBy(listed, patch)
  BY <1>3 DEF AddedBy
<1> QED BY <1>2, <1>4, <1>5

LEMMA ExportStays ==
  ASSUME Inv, Export PROVE Inv'
<1> DEFINE k == Len(job.out) + 1
           n == NextPatchPath(k)
           p == job.todo[k]
<1>1. /\ pc = "export" /\ exported' = exported \cup {n} /\ patch' = [patch EXCEPT ![n] = p]
      /\ job' = [job EXCEPT !.out = Append(@, n)]
      /\ UNCHANGED <<listed, readable, pins, ws, owed, beside, saved, damage>>
      /\ pc' = IF k = Len(job.todo) THEN "record" ELSE "export"
  BY DEF Export, Goto, history
<1>2. n \in Names /\ n \notin exported /\ k \in exported \cup {n}
  BY <1>1, NameIsFree
<1>3. /\ Len(job.out) \in Nat /\ Len(job.todo) \in Nat /\ exported \subseteq Names
      /\ job \in JobType /\ job.out \in Seq(Names) /\ job.todo \in Seq(Patch)
  BY DEF Inv, TypeOK, JobType
<1>4. /\ Len(job.out) < Len(job.todo) /\ 1 .. Len(job.out) \subseteq exported
      /\ Cardinality(exported) + (Len(job.todo) - Len(job.out)) <= MaxPatches
      /\ IsInjective(job.out) /\ Range(job.out) \subseteq exported \ Range(listed)
      /\ \A i \in DOMAIN job.out : patch[job.out[i]] = job.todo[i]
  BY <1>1 DEF Inv, FinishInv, Recording
<1>5. k \in 1 .. Len(job.todo) /\ p \in Patch
  BY <1>3, <1>4
<1> HIDE DEF n, p
<1>6. /\ patch' \in [Names -> Patch] /\ patch'[n] = p
      /\ \A m \in exported : patch'[m] = patch[m]
      /\ AddedBy(listed', patch') = AddedBy(listed, patch)
      /\ Unpacked(listed', patch') = Unpacked(listed, patch)
  BY <1>1, <1>2, <1>5, NewFile
<1>7. Append(job.out, n) \in Seq(Names)
  BY <1>2, <1>3
<1>8. /\ job' \in JobType /\ job'.out = Append(job.out, n) /\ job'.todo = job.todo
      /\ job'.found = job.found
  BY <1>1, <1>3, <1>7 DEF JobType
<1>9. /\ Len(job'.out) = k /\ DOMAIN job'.out = 1 .. k /\ DOMAIN job.out = 1 .. Len(job.out)
      /\ job'.out[k] = n /\ \A i \in 1 .. Len(job.out) : job'.out[i] = job.out[i]
  BY <1>2, <1>3, <1>8
<1>10. TypeOK'
  <2>1. pc' \in {"record", "export"}
    BY <1>1
  <2> QED BY <1>1, <1>2, <1>3, <1>6, <1>8, <2>1 DEF Inv, TypeOK
<1>11. FinishInv'
  <2>1. ws'.there
    BY <1>1 DEF Inv, FinishInv
  <2>2. Cardinality(exported') = Cardinality(exported) + 1 /\ Cardinality(exported) \in Nat
    <3>1. IsFiniteSet(exported)
      <4>1. IsFiniteSet(Names)
        BY FS_Interval DEF Names
      <4> QED BY <1>3, <4>1, FS_Subset
    <3>2. Cardinality(exported) \in Nat
      BY <3>1, FS_CardinalityType
    <3>3. Cardinality(exported \cup {n}) = Cardinality(exported) + 1
      BY <1>2, <3>1, FS_AddElement
    <3> QED BY <1>1, <3>2, <3>3
  <2>3. pc' = "export" =>
          /\ Len(job'.out) < Len(job'.todo) /\ 1 .. Len(job'.out) \subseteq exported'
          /\ Cardinality(exported') + (Len(job'.todo) - Len(job'.out)) <= MaxPatches
    <3> SUFFICES ASSUME pc' = "export"
                 PROVE  /\ k < Len(job.todo) /\ 1 .. k \subseteq exported'
                        /\ Cardinality(exported') + (Len(job.todo) - k) <= MaxPatches
      BY <1>8, <1>9
    <3>1. k < Len(job.todo)
      BY <1>1, <1>3, <1>4
    <3>2. 1 .. k = (1 .. Len(job.out)) \cup {k}
      BY <1>3
    <3>3. Cardinality(exported') + (Len(job.todo) - k) <= MaxPatches
      <4>1. Cardinality(exported) + (Len(job.todo) - Len(job.out)) <= MaxPatches
        BY <1>4
      <4>2. \A c, t, o, m \in Int : c + (t - o) <= m => (c + 1) + (t - (o + 1)) <= m
        OBVIOUS
      <4>3. /\ Cardinality(exported) \in Int /\ Len(job.todo) \in Int
            /\ Len(job.out) \in Int /\ MaxPatches \in Int
        BY <1>3, <2>2
      <4>4. (Cardinality(exported) + 1) + (Len(job.todo) - (Len(job.out) + 1)) <= MaxPatches
        BY <4>1, <4>2, <4>3
      <4> QED BY <2>2, <4>4
    <3>4. k \in exported' /\ 1 .. Len(job.out) \subseteq exported'
      BY <1>1, <1>2, <1>4
    <3> HIDE DEF k
    <3> QED BY <3>1, <3>2, <3>3, <3>4
  <2>4. pc' = "record" => Len(job'.out) = Len(job'.todo)
    BY <1>1, <1>8, <1>9
  <2>5. IsInjective(job'.out)
    <3>1. \A i \in 1 .. Len(job.out) : job.out[i] \in exported
      BY <1>4, <1>9 DEF Range
    <3>2. \A i \in 1 .. k : i = k \/ i \in 1 .. Len(job.out)
      BY <1>3
    <3> HIDE DEF k
    <3> QED BY <1>2, <1>4, <1>9, <3>1, <3>2 DEF IsInjective
  <2>6. Range(job'.out) \subseteq exported' \ Range(listed')
    <3>1. Range(job'.out) = Range(job.out) \cup {n}
      BY <1>2, <1>3, <1>8, AppendedRange
    <3>2. Range(listed) \subseteq exported
      BY DEF Inv, TypeOK
    <3> QED BY <1>1, <1>2, <1>4, <3>1, <3>2
  <2>7. \A i \in DOMAIN job'.out : patch'[job'.out[i]] = job'.todo[i]
    <3> SUFFICES ASSUME NEW i \in 1 .. k PROVE patch'[job'.out[i]] = job.todo[i]
      BY <1>8, <1>9
    <3>1. CASE i = k
      BY <1>6, <1>9, <3>1 DEF p
    <3>2. CASE i \in 1 .. Len(job.out)
      <4>1. job.out[i] \in exported /\ patch[job.out[i]] = job.todo[i]
        BY <1>4, <1>9, <3>2 DEF Range
      <4> QED BY <1>6, <1>9, <3>2, <4>1
    <3> QED BY <1>3, <3>1, <3>2
  <2>8. pc' = "record" \/ pc' = "export"
    BY <1>1
  <2> HIDE DEF k
  <2> QED BY <2>1, <2>3, <2>4, <2>5, <2>6, <2>7, <2>8 DEF FinishInv, Recording
<1>12. TreeInv' /\ OwedInv'
  <2>1. ws'.there /\ pc' \in {"record", "export"}
    BY <1>1 DEF Inv, FinishInv
  <2>2. /\ owed \subseteq (UNION {job.todo[i].plus : i \in DOMAIN job.todo}) \cup Kept
        /\ owed \subseteq ws.tree \cup Kept
    BY <1>1, <2>1 DEF Inv, OwedInv, Recording
  <2>3. /\ owed' = owed /\ ws' = ws /\ job'.todo = job.todo
        /\ AddedBy(listed, patch)' = AddedBy(listed, patch)
    BY <1>1, <1>6, <1>8
  <2>4. Kept' = Kept
    BY <1>1, <2>3 DEF Kept
  <2>5. TreeInv'
    BY <2>3 DEF Inv, TreeInv
  <2> QED BY <2>1, <2>2, <2>3, <2>4, <2>5 DEF OwedInv
<1>13. PinsInv'
  BY <1>1 DEF Inv, PinsInv
<1>14. SeriesInv'
  BY <1>1 DEF Inv, SeriesInv
<1>15. SavedInv'
  BY <1>1, <1>6, <1>8 DEF Inv, SavedInv, Recording
<1> QED BY <1>10, <1>11, <1>12, <1>13, <1>14, <1>15 DEF Inv

\* Quilt patches that lie side by side still do when the top patch has taken in
\* the edits that were tracked for it.
LEMMA RefreshStays ==
  ASSUME Inv, Refresh PROVE Inv'
<1> DEFINE top == Len(ws.series)
           series == [ws.series EXCEPT ![top] = @ \cup ws.tracked]
           n == job.n
           todo == [k \in 1 .. n |-> [plus |-> series[k], minus |-> {}]]
           found == ws.original \cup UNION {series[k] : k \in 1 .. n}
<1>1. /\ pc = "refresh" /\ pc' = "export"
      /\ ws' = [ws EXCEPT !.series = series, !.tracked = {}]
      /\ job' = [job EXCEPT !.todo = todo, !.found = found]
      /\ beside' = beside \cup ws.plain
      /\ UNCHANGED <<listed, readable, pins, exported, patch, owed, saved, damage>>
  BY DEF Refresh, Goto, project
<1>2. /\ ws \in WorkspaceType /\ ws.there /\ job \in JobType
      /\ ws.series \in Seq(SUBSET Changes) /\ ws.tracked \in SUBSET Changes
      /\ ws.original \in SUBSET Items /\ ws.tree \in SUBSET Items
      /\ ws.plain \in SUBSET Changes /\ top \in Nat /\ DOMAIN ws.series = 1 .. top
  BY <1>1 DEF Inv, TypeOK, FinishInv, WorkspaceType
<1>3. n \in 1 .. top /\ job.out = <<>> /\ Cardinality(exported) + n <= MaxPatches
  BY <1>1 DEF Inv, FinishInv
<1>4. /\ series \in Seq(SUBSET Changes) /\ DOMAIN series = 1 .. top /\ Len(series) = top
      /\ series[top] = ws.series[top] \cup ws.tracked
      /\ \A k \in 1 .. top : k # top => series[k] = ws.series[k]
      /\ \A k \in 1 .. top : series[k] \in SUBSET Changes
  BY <1>2, <1>3
<1>5. /\ todo \in Seq(Patch) /\ Len(todo) = n /\ DOMAIN todo = 1 .. n
      /\ \A k \in 1 .. n : todo[k].plus = series[k] /\ todo[k].minus = {}
  <2>1. \A k \in 1 .. n : [plus |-> series[k], minus |-> {}] \in Patch
    BY <1>2, <1>3, <1>4 DEF Patch, Items
  <2>2. n \in Nat
    BY <1>2, <1>3
  <2> QED BY <2>1, <2>2
<1>6. found \in SUBSET Items
  BY <1>2, <1>3, <1>4 DEF Items
<1> HIDE DEF series, todo, found
<1>7. /\ ws' \in WorkspaceType /\ ws'.there = ws.there /\ ws'.original = ws.original
      /\ ws'.pristine = ws.pristine /\ ws'.used = ws.used /\ ws'.tree = ws.tree
      /\ ws'.series = series /\ ws'.tracked = {} /\ ws'.plain = ws.plain
  BY <1>1, <1>2, <1>4 DEF WorkspaceType
<1>8. job' \in JobType /\ job'.todo = todo /\ job'.found = found /\ job'.out = <<>>
  BY <1>1, <1>2, <1>3, <1>5, <1>6 DEF JobType
<1>9. SideBySide(ws) => SideBySide(ws')
  <2> SUFFICES ASSUME SideBySide(ws) PROVE SideBySide(ws')
    OBVIOUS
  <2> USE DEF SideBySide
  <2>1. \A k \in 1 .. top : series[k] \subseteq ws.tree \ ws.original
    BY <1>2, <1>4
  <2>2. ASSUME NEW i \in 1 .. top, NEW k \in 1 .. top, i # k
        PROVE  series[i] \cap series[k] = {}
    <3>1. /\ ws.series[i] \cap ws.series[k] = {}
          /\ ws.series[i] \cap ws.tracked = {} /\ ws.series[k] \cap ws.tracked = {}
      BY <1>2, <2>2
    <3>2. series[i] = ws.series[i] \/ (i = top /\ series[i] = ws.series[i] \cup ws.tracked)
      BY <1>4, Zenon
    <3>3. series[k] = ws.series[k] \/ (k = top /\ series[k] = ws.series[k] \cup ws.tracked)
      BY <1>4, Zenon
    <3> QED BY <2>2, <3>1, <3>2, <3>3
  <2> QED BY <1>4, <1>7, <2>1, <2>2
<1>10. TypeOK'
  BY <1>1, <1>2, <1>6, <1>7, <1>8 DEF Inv, TypeOK
<1>11. FinishInv'
  <2>1. Len(<<>>) = 0 /\ DOMAIN <<>> = {} /\ 1 .. 0 = {} /\ n \in Nat /\ n >= 1
    BY <1>2, <1>3
  <2>2. Len(job'.out) < Len(job'.todo) /\ 1 .. Len(job'.out) \subseteq exported'
    BY <1>5, <1>8, <2>1
  <2>3. Len(job'.todo) - Len(job'.out) = n
    BY <1>5, <1>8, <2>1
  <2>4. Cardinality(exported') + (Len(job'.todo) - Len(job'.out)) <= MaxPatches
    BY <1>1, <1>3, <2>3
  <2>5. IsInjective(job'.out) /\ Range(job'.out) = {}
    BY <1>8, <2>1 DEF IsInjective, Range
  <2> QED BY <1>1, <1>2, <1>7, <1>8, <2>1, <2>2, <2>4, <2>5 DEF FinishInv, Recording
<1>12. TreeInv' /\ OwedInv'
  <2>1. Kept' = Kept \cup ws.plain /\ AddedBy(listed, patch)' = AddedBy(listed, patch)
    BY <1>1 DEF Kept, AddedBy
  <2>2. UNION Range(series) = (UNION Range(ws.series)) \cup ws.tracked
    <3>1. \A k \in 1 .. top : series[k] =
             IF k = top THEN ws.series[k] \cup ws.tracked ELSE ws.series[k]
      BY <1>4
    <3>2. top \in 1 .. top
      BY <1>2, <1>3
    <3> QED BY <1>2, <1>4, <3>1, <3>2 DEF Range
  <2>3. TreeInv'
    BY <1>7, <2>1, <2>2 DEF Inv, TreeInv
  <2>4. InHand(ws, n) \subseteq ws.plain \cup UNION {series[k] : k \in 1 .. n}
    <3>1. \A k \in 1 .. n : k \in 1 .. top /\ ws.series[k] \subseteq series[k]
      BY <1>2, <1>3, <1>4
    <3>2. n = top => ws.tracked \subseteq series[n] /\ n \in 1 .. n
      BY <1>3, <1>4
    <3> HIDE DEF top, n
    <3> QED BY <3>1, <3>2 DEF InHand, top
  <2>5. owed \subseteq InHand(ws, n) \cup Kept /\ owed \subseteq ws.tree \cup Kept
    BY <1>1, <1>2 DEF Inv, OwedInv
  <2>6. UNION {series[k] : k \in 1 .. n} = UNION {todo[k].plus : k \in DOMAIN todo}
    BY <1>5
  <2> HIDE DEF n
  <2>7. owed' \subseteq (UNION {job'.todo[k].plus : k \in DOMAIN job'.todo}) \cup Kept'
    BY <1>1, <1>8, <2>1, <2>4, <2>5, <2>6
  <2>8. owed' \subseteq ws'.tree \cup Kept'
    BY <1>1, <1>7, <2>1, <2>5
  <2> QED BY <1>1, <1>2, <1>7, <2>3, <2>7, <2>8 DEF OwedInv
<1>13. PinsInv'
  BY <1>1 DEF Inv, PinsInv
<1>14. SeriesInv'
  BY <1>7, <1>9 DEF Inv, SeriesInv
<1>15. SavedInv'
  <2> SUFFICES ASSUME "retried" \notin damage PROVE SavedInv'
    BY <1>1 DEF SavedInv
  <2>1. /\ ~ws.used /\ ws.original = saved /\ ws.pristine
        /\ Unpacked(listed, patch) = {saved} /\ SideBySide(ws)
    BY <1>1, <1>2 DEF Inv, SavedInv, SeriesInv
  <2> DEFINE h == [k \in 0 .. n |-> ws.original \cup UNION {series[i] : i \in 1 .. k}]
  <2>2. /\ \A k \in 1 .. n : series[k] \cap ws.original = {}
        /\ \A i, k \in 1 .. n : i # k => series[i] \cap series[k] = {}
    <3>1. 1 .. n \subseteq DOMAIN ws'.series
      BY <1>2, <1>3, <1>4, <1>7
    <3> QED BY <1>7, <1>9, <2>1, <3>1 DEF SideBySide
  <2>3. h[0] = saved /\ h[n] = found
    <3>1. n \in Nat /\ 1 .. 0 = {}
      BY <1>2, <1>3
    <3> QED BY <2>1, <3>1 DEF found
  <2>4. ASSUME NEW k \in 1 .. n PROVE h[k] \in Applied(todo[k], h[k - 1])
    <3>1. n \in Nat /\ 1 .. k = (1 .. k - 1) \cup {k} /\ k - 1 \in 0 .. n /\ k \in 0 .. n
      BY <1>2, <1>3
    <3>2. h[k] = h[k - 1] \cup series[k]
      BY <3>1
    <3>3. \A i \in 1 .. k - 1 : i \in 1 .. n /\ i # k
      BY <3>1
    <3>4. series[k] \cap h[k - 1] = {}
      BY <2>2, <3>1, <3>3
    <3> HIDE DEF h
    <3> QED BY <1>5, <3>2, <3>4 DEF Applied
  <2> HIDE DEF h
  <2>5. Path(job'.todo, saved', job'.found, h)
    BY <1>1, <1>5, <1>8, <2>3, <2>4 DEF Path
  <2> QED BY <1>1, <1>7, <2>1, <2>5 DEF SavedInv, Recording
<1> QED BY <1>10, <1>11, <1>12, <1>13, <1>14, <1>15 DEF Inv

LEMMA DiffStays ==
  ASSUME Inv, Diff PROVE Inv'
<1>1. PICK base \in DiffBase :
        IF base = ws.tree
        THEN /\ pc' = "remove"
             /\ job' = [job EXCEPT !.found = ws.tree]
             /\ ws' = [ws EXCEPT !.used = TRUE]
        ELSE /\ pc' = "export"
             /\ job' = [job EXCEPT !.found = ws.tree,
                                   !.todo = <<[plus |-> ws.tree \ base,
                                               minus |-> base \ ws.tree]>>]
             /\ ws' = ws
  BY DEF Diff, Goto
<1>2. /\ pc = "diff"
      /\ UNCHANGED <<listed, readable, pins, exported, patch, owed, beside, saved,
                     damage>>
  BY DEF Diff, project, history
<1>3. /\ ws \in WorkspaceType /\ ws.there /\ job \in JobType /\ job.out = <<>>
      /\ ws.tree \in SUBSET Items /\ ws.original \in SUBSET Items
      /\ Cardinality(exported) + 1 <= MaxPatches
  BY <1>2 DEF Inv, TypeOK, FinishInv, WorkspaceType
<1>4. base \in SUBSET Items /\ base \cap Changes \subseteq AddedBy(listed, patch)
  <2>1. ws.original \cap Changes \subseteq AddedBy(listed, patch)
    BY DEF Inv, TreeInv
  <2> QED BY <1>1, <1>3, <2>1, PreparedTrees DEF DiffBase
<1>5. PinsInv'
  <2>1. pc' \notin {"lock", "relock"}
    BY <1>1
  <2> QED BY <1>2, <2>1 DEF Inv, PinsInv
<1>6. /\ owed \subseteq (ws.tree \cap Changes) \cup Kept
       /\ Kept' = Kept /\ AddedBy(listed, patch)' = AddedBy(listed, patch)
       /\ AddedBy(listed, patch) \subseteq Kept
  <2>1. owed \subseteq ws.tree \cup Kept /\ owed \subseteq Changes
    BY <1>3 DEF Inv, TypeOK, OwedInv
  <2> QED BY <1>2, <2>1 DEF Kept, AddedBy
<1>7. CASE base = ws.tree
  <2>1. /\ pc' = "remove" /\ job' = [job EXCEPT !.found = ws.tree]
        /\ ws' = [ws EXCEPT !.used = TRUE]
    BY <1>1, <1>7
  <2>2. /\ ws' \in WorkspaceType /\ ws'.there /\ ws'.original = ws.original /\ ws'.used
        /\ ws'.tree = ws.tree /\ ws'.plain = ws.plain
        /\ ws'.tracked = ws.tracked /\ ws'.series = ws.series
    BY <1>3, <2>1 DEF WorkspaceType
  <2>3. job' \in JobType
    BY <1>3, <2>1 DEF JobType
  <2>4. TypeOK'
    BY <1>2, <1>3, <2>1, <2>2, <2>3 DEF Inv, TypeOK
  <2>5. FinishInv'
    BY <2>1, <2>2 DEF FinishInv, Recording
  <2>6. TreeInv' /\ OwedInv'
    <3>1. TreeInv'
      BY <1>6, <2>2 DEF Inv, TreeInv
    <3>2. owed' \subseteq Kept'
      BY <1>2, <1>4, <1>6, <1>7
    <3> QED BY <2>1, <3>1, <3>2 DEF OwedInv, Recording
  <2>7. SeriesInv'
    BY <2>2 DEF SeriesInv
  <2>8. SavedInv'
    BY <1>2, <2>1, <2>2 DEF Inv, SavedInv, Recording
  <2> QED BY <1>5, <2>4, <2>5, <2>6, <2>7, <2>8 DEF Inv
<1>8. CASE base # ws.tree
  <2> DEFINE p == [plus |-> ws.tree \ base, minus |-> base \ ws.tree]
             todo == <<p>>
  <2>1. /\ pc' = "export" /\ job' = [job EXCEPT !.found = ws.tree, !.todo = todo]
        /\ ws' = ws
    BY <1>1, <1>8
  <2>2. p \in Patch /\ p.plus = ws.tree \ base /\ p.minus = base \ ws.tree
    BY <1>3, <1>4 DEF Patch
  <2> HIDE DEF p
  <2>3. todo \in Seq(Patch) /\ Len(todo) = 1 /\ todo[1] = p /\ DOMAIN todo = 1 .. 1
    BY <2>2
  <2> HIDE DEF todo
  <2>4. job' \in JobType /\ job'.todo = todo /\ job'.found = ws.tree /\ job'.out = <<>>
    BY <1>3, <2>1, <2>3 DEF JobType
  <2>5. TypeOK'
    BY <1>2, <1>3, <2>1, <2>4 DEF Inv, TypeOK
  <2>6. FinishInv'
    <3>1. Len(<<>>) = 0 /\ DOMAIN <<>> = {} /\ 1 .. 0 = {}
      OBVIOUS
    <3>2. Len(job'.out) < Len(job'.todo) /\ 1 .. Len(job'.out) \subseteq exported'
      <4>1. Len(job'.out) = 0 /\ Len(job'.todo) = 1
        BY <2>3, <2>4, <3>1
      <4> QED BY <3>1, <4>1
    <3>3. Len(job'.todo) - Len(job'.out) = 1
      BY <2>3, <2>4, <3>1
    <3>4. Cardinality(exported') + (Len(job'.todo) - Len(job'.out)) <= MaxPatches
      BY <1>2, <1>3, <3>3
    <3>5. IsInjective(job'.out) /\ Range(job'.out) = {}
      BY <2>4, <3>1 DEF IsInjective, Range
    <3> QED BY <1>3, <2>1, <2>4, <3>1, <3>2, <3>4, <3>5 DEF FinishInv, Recording
  <2>7. TreeInv' /\ OwedInv'
    <3>1. TreeInv'
      BY <1>6, <2>1 DEF Inv, TreeInv
    <3>2. UNION {todo[k].plus : k \in DOMAIN todo} = ws.tree \ base
      BY <2>2, <2>3
    <3>3. owed' \subseteq (UNION {job'.todo[k].plus : k \in DOMAIN job'.todo}) \cup Kept'
      BY <1>2, <1>4, <1>6, <2>4, <3>2
    <3>4. owed' \subseteq ws'.tree \cup Kept'
      BY <1>2, <1>6, <2>1
    <3> QED BY <1>3, <2>1, <3>1, <3>3, <3>4 DEF OwedInv
  <2>8. SeriesInv'
    BY <2>1 DEF Inv, SeriesInv
  <2>9. SavedInv'
    <3> SUFFICES ASSUME "retried" \notin damage PROVE SavedInv'
      BY <1>2 DEF SavedInv
    <3>1. /\ ~ws.used /\ ws.original = saved /\ ws.pristine
          /\ Unpacked(listed, patch) = {saved}
      BY <1>2, <1>3 DEF Inv, SavedInv
    <3>2. base = saved
      BY <1>1, <3>1 DEF DiffBase
    <3> DEFINE h == [k \in 0 .. 1 |-> IF k = 0 THEN base ELSE ws.tree]
    <3>3. h[0] = base /\ h[1] = ws.tree
      OBVIOUS
    <3>4. ws.tree \in Applied(p, base)
      BY <2>2 DEF Applied
    <3> HIDE DEF h
    <3>5. \A k \in 1 .. 1 : h[k] \in Applied(todo[k], h[k - 1])
      <4>1. h[1] \in Applied(todo[1], h[1 - 1])
        BY <2>3, <3>3, <3>4
      <4> QED BY <4>1
    <3>6. Path(job'.todo, saved', job'.found, h)
      BY <1>2, <2>3, <2>4, <3>2, <3>3, <3>5 DEF Path
    <3> QED BY <1>2, <2>1, <3>1, <3>6 DEF SavedInv, Recording
  <2> QED BY <1>5, <2>5, <2>6, <2>7, <2>8, <2>9 DEF Inv
<1> QED BY <1>7, <1>8

\* The recipe is written with the patches the finish has exported: it then
\* unpacks to the tree the finish found.
LEMMA RewriteStays ==
  ASSUME Inv, Rewrite PROVE Inv'
<1>1. /\ pc = "rewrite" /\ pc' = "lock" /\ saved' = job.found
      /\ listed' = FoldLeft(AddSource, listed, job.out)
      /\ ws' = [ws EXCEPT !.used = TRUE]
      /\ readable' = TRUE /\ UNCHANGED <<pins, exported, patch, job, owed, beside, damage>>
  BY DEF Rewrite, Goto
<1>2. /\ listed \in Seq(Names) /\ IsInjective(listed) /\ Range(listed) \subseteq exported
      /\ job.out \in Seq(Names) /\ job.todo \in Seq(Patch) /\ patch \in [Names -> Patch]
      /\ ws \in WorkspaceType /\ job.found \subseteq Items
  BY DEF Inv, TypeOK, JobType
<1>3. /\ IsInjective(job.out) /\ Range(job.out) \subseteq exported \ Range(listed)
      /\ \A k \in DOMAIN job.out : patch[job.out[k]] = job.todo[k]
      /\ Len(job.out) = Len(job.todo) /\ ws.there
  BY <1>1 DEF Inv, FinishInv, Recording
<1>4. /\ listed' \in Seq(Names) /\ IsInjective(listed')
      /\ Range(listed') = Range(listed) \cup Range(job.out)
      /\ LeadsOn(listed, job.out, listed')
  <2>1. Range(job.out) \cap Range(listed) = {}
    BY <1>3
  <2>2. listed' = Relisted(listed, job.out)
    BY <1>1 DEF Relisted
  <2> QED BY <1>2, <1>3, <2>1, <2>2, AddsToList
<1>5. /\ ws' \in WorkspaceType /\ ws'.there /\ ws'.original = ws.original /\ ws'.used
      /\ ws'.tree = ws.tree /\ ws'.plain = ws.plain
      /\ ws'.tracked = ws.tracked /\ ws'.series = ws.series
  BY <1>1, <1>2, <1>3 DEF WorkspaceType
<1>6. TypeOK'
  BY <1>1, <1>2, <1>3, <1>4, <1>5 DEF Inv, TypeOK
<1>7. FinishInv'
  BY <1>1, <1>5 DEF FinishInv, Recording
<1>8. TreeInv' /\ OwedInv'
  <2>1. AddedBy(listed, patch) \subseteq AddedBy(listed', patch')
    BY <1>1, <1>4 DEF AddedBy
  <2>2. UNION {job.todo[k].plus : k \in DOMAIN job.todo} \subseteq AddedBy(listed', patch')
    <3>1. \A k \in DOMAIN job.todo : k \in DOMAIN job.out
      BY <1>2, <1>3
    <3>2. \A k \in DOMAIN job.out : job.out[k] \in Range(listed')
      BY <1>4 DEF Range
    <3> QED BY <1>1, <1>3, <3>1, <3>2 DEF AddedBy
  <2>3. TreeInv'
    BY <1>5, <2>1 DEF Inv, TreeInv
  <2>4. owed \subseteq (UNION {job.todo[k].plus : k \in DOMAIN job.todo}) \cup Kept
    BY <1>1 DEF Inv, OwedInv, Recording
  <2>5. owed' \subseteq Kept'
    BY <1>1, <2>1, <2>2, <2>4 DEF Kept
  <2> QED BY <1>1, <2>3, <2>5 DEF OwedInv, Recording
<1>9. PinsInv'
  BY <1>1, <1>4 DEF Inv, PinsInv
<1>10. SeriesInv'
  BY <1>5 DEF SeriesInv
<1>11. SavedInv'
  <2> SUFFICES ASSUME "retried" \notin damage PROVE SavedInv'
    BY <1>1 DEF SavedInv
  <2>1. Unpacked(listed, patch) = {saved}
    BY DEF Inv, SavedInv
  <2>2. PICK h : Path(job.todo, saved, job.found, h)
    BY <1>1 DEF Inv, SavedInv, Recording
  <2>3. Unpacked(listed', patch) = {job.found}
    <3>1. /\ patch \in [Names -> Patch] /\ job.todo \in Seq(Patch)
          /\ Len(job.todo) = Len(job.out)
          /\ \A k \in DOMAIN job.out : patch[job.out[k]] = job.todo[k]
      BY <1>2, <1>3
    <3>2. \A todo \in Seq(Patch) : \A from, to, g :
             (/\ Unpacked(listed, patch) = {from}
              /\ Len(todo) = Len(job.out)
              /\ \A k \in DOMAIN job.out : patch[job.out[k]] = todo[k]
              /\ Path(todo, from, to, g))
             => Unpacked(listed', patch) = {to}
      BY <1>4, <3>1, Zenon DEF LeadsOn
    <3>3. \A from, to, g :
             Unpacked(listed, patch) = {from} /\ Path(job.todo, from, to, g)
             => Unpacked(listed', patch) = {to}
      BY <3>1, <3>2, Zenon
    <3> QED BY <2>1, <2>2, <3>3, Zenon
  <2> QED BY <1>1, <1>5, <2>3 DEF SavedInv, Recording
<1> QED BY <1>6, <1>7, <1>8, <1>9, <1>10, <1>11 DEF Inv

\* A killed finish leaves the patch files it has made; what is left of a
\* directory that was being removed is used up.
LEMMA KilledStays ==
  ASSUME Inv, Killed PROVE Inv'
<1>1. /\ pc # "idle" /\ pc' = "idle" /\ job' = NoJob
      /\ UNCHANGED <<listed, readable, pins, patch, owed, beside, saved>>
      /\ damage' = IF pc \in {"lock", "relock"} THEN damage \cup {"pins"} ELSE damage
  BY DEF Killed, Finished, history
<1>2. /\ ws \in WorkspaceType /\ exported \subseteq Names
      /\ Range(listed) \subseteq exported /\ ws.there
  BY <1>1 DEF Inv, TypeOK, FinishInv
<1>3. exported \subseteq exported' /\ exported' \subseteq Names
  <2>1. CASE pc = "export"
    <3>1. NextPatchPath(Len(job.out) + 1) \in Names
      BY <2>1, NameIsFree
    <3> QED BY <1>2, <2>1, <3>1 DEF Killed
  <2>2. CASE pc # "export"
    BY <1>2, <2>2 DEF Killed
  <2> QED BY <2>1, <2>2
<1>4. /\ ws' \in WorkspaceType /\ ws'.there /\ ws'.original \subseteq ws.original
      /\ ws' = ws \/ (ws'.used /\ pc = "remove")
      /\ ws'.tree = {} \/ (/\ ws'.tree \subseteq ws.tree /\ ws'.plain = ws.plain
                           /\ ws'.tracked = ws.tracked /\ ws'.series = ws.series)
  <2>1. CASE pc = "remove"
    <3>1. ws.used
      BY <2>1 DEF Inv, FinishInv
    <3>2. ws' \in Remains
      BY <2>1 DEF Killed
    <3>3. CASE ws' = [NoWorkspace EXCEPT !.there = TRUE, !.used = TRUE]
      <4>1. <<>> \in Seq(SUBSET Changes)
        OBVIOUS
      <4>2. ws' \in WorkspaceType
        BY <3>3, <4>1 DEF NoWorkspace, WorkspaceType
      <4>3. ws'.there /\ ws'.original = {} /\ ws'.used /\ ws'.tree = {}
        BY <3>3 DEF NoWorkspace
      <4> QED BY <2>1, <4>2, <4>3
    <3>4. CASE ws' # [NoWorkspace EXCEPT !.there = TRUE, !.used = TRUE]
      <4>1. PICK r \in [tree : SUBSET ws.tree, original : SUBSET ws.original,
                         pristine : BOOLEAN] :
               ws' = [ws EXCEPT !.tree = r.tree, !.original = r.original,
                                !.pristine = r.pristine]
        BY <3>2, <3>4, Zenon DEF Remains
      <4>2. /\ r.tree \in SUBSET Items /\ r.original \in SUBSET Items
            /\ r.pristine \in BOOLEAN /\ r.original \subseteq ws.original
        BY <1>2 DEF WorkspaceType
      <4>3. ws' \in WorkspaceType
        BY <1>2, <4>1, <4>2 DEF WorkspaceType
      <4>4. /\ ws'.there = ws.there /\ ws'.original = r.original /\ ws'.used = ws.used
            /\ ws'.tree = r.tree /\ ws'.plain = ws.plain
            /\ ws'.tracked = ws.tracked /\ ws'.series = ws.series
        BY <1>2, <4>1 DEF WorkspaceType
      <4>5. r.tree \subseteq ws.tree
        BY <4>1
      <4> QED BY <1>2, <2>1, <3>1, <4>2, <4>3, <4>4, <4>5
    <3> QED BY <3>3, <3>4
  <2>2. CASE pc # "remove"
    BY <1>2, <2>2 DEF Killed
  <2> QED BY <2>1, <2>2
<1>5. TypeOK'
  <2>1. damage' \subseteq {"pins", "retried"}
    BY <1>1 DEF Inv, TypeOK
  <2> QED BY <1>1, <1>2, <1>3, <1>4, <2>1, NothingThere DEF Inv, TypeOK
<1>6. FinishInv'
  BY <1>1 DEF FinishInv, Recording
<1>7. TreeInv' /\ OwedInv'
  <2>1. AddedBy(listed, patch)' = AddedBy(listed, patch) /\ Kept' = Kept
    BY <1>1 DEF AddedBy, Kept
  <2>2. TreeInv'
    BY <1>4, <2>1 DEF Inv, TreeInv
  <2>3. owed \subseteq ws.tree \cup Kept /\ (pc = "remove" => owed \subseteq Kept)
    BY <1>2 DEF Inv, OwedInv
  <2>4. owed' \subseteq ws'.tree \cup Kept'
    BY <1>1, <1>4, <2>1, <2>3
  <2> QED BY <1>1, <1>4, <2>2, <2>4 DEF OwedInv, Recording
<1>8. PinsInv'
  <2>1. pc \in {"lock", "relock"} => "pins" \in damage'
    BY <1>1
  <2> QED BY <1>1, <2>1 DEF Inv, PinsInv
<1>9. SeriesInv'
  <2>1. ws' = ws \/ ws'.used
    BY <1>4
  <2> QED BY <2>1 DEF Inv, SeriesInv
<1>10. SavedInv'
  <2>1. "retried" \notin damage' => "retried" \notin damage
    BY <1>1
  <2>2. CASE ws' = ws
    BY <1>1, <2>1, <2>2 DEF Inv, SavedInv, Recording
  <2>3. CASE ws'.used
    BY <1>1, <2>1, <2>3 DEF Inv, SavedInv, Recording
  <2> QED BY <1>4, <2>2, <2>3
<1> QED BY <1>5, <1>6, <1>7, <1>8, <1>9, <1>10 DEF Inv

\* Every step keeps the invariant.
LEMMA WorkspaceSteps == Inv /\ [Next]_vars => Inv'
<1> SUFFICES ASSUME Inv, [Next]_vars PROVE Inv'
  OBVIOUS
<1>1. CASE People
  <2>1. CASE Discard
    BY <2>1, DiscardStays
  <2>2. ASSUME NEW c \in Items, Delete(c) PROVE Inv'
    BY <2>2, DeleteStays
  <2>3. ASSUME NEW c \in Changes, Edit(c) PROVE Inv'
    BY <2>3, EditStays
  <2>4. ASSUME NEW c \in Changes, QuiltNew(c) PROVE Inv'
    BY <2>4, QuiltNewStays
  <2>5. ASSUME NEW c \in Changes, QuiltEdit(c) PROVE Inv'
    BY <2>5, QuiltEditStays
  <2> QED BY <1>1, <2>1, <2>2, <2>3, <2>4, <2>5, Zenon DEF People
<1>2. CASE Command
  BY <1>2, OpenStays, FetchStays, StartFinishStays, RefreshStays, DiffStays,
     DiffFailsStays, ExportStays, RecordStays, RewriteStays, LockStays,
     RelockStays, CloseStays, Zenon DEF Command
<1>3. CASE Killed
  BY <1>3, KilledStays
<1>4. CASE UNCHANGED vars
  <2> USE <1>4 DEF vars, Inv
  <2>1. TypeOK'
    BY DEF TypeOK
  <2>2. FinishInv'
    BY DEF FinishInv, Recording
  <2>3. TreeInv' /\ OwedInv'
    BY DEF TreeInv, OwedInv, Recording, Kept, AddedBy, InHand
  <2>4. PinsInv'
    BY DEF PinsInv
  <2>5. SeriesInv'
    BY DEF SeriesInv
  <2>6. SavedInv'
    BY DEF SavedInv, Recording
  <2> QED BY <2>1, <2>2, <2>3, <2>4, <2>5, <2>6
<1> QED BY <1>1, <1>2, <1>3, <1>4 DEF Next

LEMMA WorkspaceInvariant == Spec => []Inv
<1>1. Init => Inv
  BY WorkspaceStarts
<1>2. Inv /\ [Next]_vars => Inv'
  BY WorkspaceSteps
<1> QED BY <1>1, <1>2, PTL DEF Spec

-----------------------------------------------------------------------------
(* The theorems. *)

\* Type correctness: no patch is listed twice, every patch the recipe lists is
\* a file of the project, and a workspace that is gone holds nothing.
THEOREM WorkspaceTypes == Spec => []TypeOK
<1>1. Inv => TypeOK
  BY DEF Inv
<1> QED BY <1>1, WorkspaceInvariant, PTL

\* Whatever is killed and started again, all that was in the directory when a
\* finish started is in patches the recipe lists once the directory is gone,
\* except edits made outside the quilt patches of a workspace that has some:
\* those are lost (WorkspaceFinish, ignite.go), and they alone.
THEOREM OnlyStrayWorkIsLost == Spec => []WorkIsSomewhere
<1>1. Inv => WorkIsSomewhere
  BY DEF Inv, OwedInv, Kept, WorkIsSomewhere, InPatches, AddedBy
<1> QED BY <1>1, WorkspaceInvariant, PTL

\* Over any number of workspaces, of any number of quilt patches or a diff
\* each, the exported patches apply one on the other to exactly the tree the
\* last finish found.
THEOREM PatchesRebuildTheTree == Spec => []ClosedRebuilds
<1>1. Inv => ClosedRebuilds
  <2> SUFFICES ASSUME Inv, pc = "idle", damage = {} PROVE Prepared = {saved}
    BY DEF ClosedRebuilds
  <2>1. {Source} \cup Range(listed) \subseteq pins
    BY DEF Inv, PinsInv
  <2>2. Unpacked(listed, patch) = {saved}
    BY DEF Inv, SavedInv
  <2> QED BY <2>1, <2>2, PreparedTrees
<1> QED BY <1>1, WorkspaceInvariant, PTL

\* No step, of a finish or of a kill, writes over a patch file of the project.
THEOREM PatchesStay == Spec => PatchFilesStay
<1> DEFINE FilesKept == \A n \in exported : n \in exported' /\ patch'[n] = patch[n]
<1>1. Inv /\ [Next]_vars => [FilesKept]_vars
  <2> SUFFICES ASSUME Inv, Next PROVE FilesKept
    OBVIOUS
  <2>1. CASE UNCHANGED <<exported, patch>>
    BY <2>1
  <2>2. CASE Export
    <3> DEFINE k == Len(job.out) + 1
               n == NextPatchPath(k)
               p == job.todo[k]
    <3>1. pc = "export" /\ exported' = exported \cup {n} /\ patch' = [patch EXCEPT ![n] = p]
      BY <2>2 DEF Export
    <3>2. n \notin exported
      BY <3>1, NameIsFree
    <3>3. patch \in [Names -> Patch] /\ exported \subseteq Names
      BY DEF Inv, TypeOK
    <3> HIDE DEF n, p
    <3> QED BY <3>1, <3>2, <3>3
  <2>3. CASE Killed
    <3>1. exported \subseteq exported' /\ patch' = patch
      BY <2>3 DEF Killed
    <3> QED BY <3>1
  <2>4. People => UNCHANGED <<exported, patch>>
    BY DEF People, Discard, Delete, Edit, QuiltNew, QuiltEdit, project
  <2>5. Command => Export \/ UNCHANGED <<exported, patch>>
    BY DEF Command, Open, Fetch, StartFinish, Refresh, Diff, DiffFails, Record,
           Rewrite, Lock, Relock, Close, project
  <2> QED BY <2>1, <2>2, <2>3, <2>4, <2>5 DEF Next
<1> QED BY <1>1, WorkspaceInvariant, PTL DEF Spec, PatchFilesStay
=============================================================================
