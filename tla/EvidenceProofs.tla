---------------------------- MODULE EvidenceProofs ----------------------------
(***************************************************************************)
(* What others take from this system as evidence: the Safe's owners, who   *)
(* are brought to the members of an epoch by the calls of a plan, and the  *)
(* bundle that proves an entry of a ledger.                                *)
(*                                                                         *)
(* The Safe.  A plan has five phases of calls: lower the threshold, swap,  *)
(* add, remove, and raise the threshold.  For every phase the owners after *)
(* i calls are written down (Swapped, Added, Shrunk) and each call is      *)
(* shown to lead from one to the next; runs of calls are joined into the   *)
(* run of the plan.  SafeInv, that the Safe stays one with distinct owners *)
(* and a threshold within their number and that what is derived is a call, *)
(* makes this apply in every state.                                        *)
(*                                                                         *)
(* The bundle.  IsTree says node by node what the tree of some entries is; *)
(* no two trees are the tree of the same entries, the canonical tree is    *)
(* one, and insert leads from the tree of S to that of S and one key more, *)
(* at an empty branch or by moving the leaf that is met to where the keys  *)
(* part.  Hashes are terms, so a proof that verifies runs along nodes of   *)
(* the tree whose root it is checked against, down to a leaf.              *)
(***************************************************************************)
EXTENDS SafeProjection, SpvBundle, FiniteSetTheorems, SequenceTheorems, WellFoundedInduction, TLAPS

-------------------------------------------------------------------------------
(* Sets of numbers in ascending order.                                     *)

Below(S, m) == {x \in S : x < m}

\* The elements of a finite set of numbers have the ranks 0, 1, ..., each once.
LEMMA RanksAreOnce ==
    ASSUME NEW S \in SUBSET Nat, IsFiniteSet(S)
    PROVE  /\ Cardinality(S) \in Nat
           /\ \A m \in S : Cardinality(Below(S, m)) \in 0 .. Cardinality(S) - 1
           /\ \A m, n \in S : m < n <=> Cardinality(Below(S, m)) < Cardinality(Below(S, n))
           /\ \A i \in 0 .. Cardinality(S) - 1 : \E m \in S : Cardinality(Below(S, m)) = i
<1>1. Cardinality(S) \in Nat
  BY FS_CardinalityType
<1>2. \A m \in S : IsFiniteSet(Below(S, m)) /\ Cardinality(Below(S, m)) \in Nat
  BY FS_Subset, FS_CardinalityType DEF Below
<1>3. ASSUME NEW m \in S PROVE Cardinality(Below(S, m)) \in 0 .. Cardinality(S) - 1
  <2>1. Below(S, m) \in SUBSET S /\ Below(S, m) # S
    BY DEF Below
  <2>2. Cardinality(Below(S, m)) <= Cardinality(S) /\ Cardinality(Below(S, m)) # Cardinality(S)
    BY <2>1, FS_Subset
  <2> QED
    BY <1>1, <1>2, <2>2
<1>4. ASSUME NEW m \in S, NEW n \in S, m < n
      PROVE  Cardinality(Below(S, m)) < Cardinality(Below(S, n))
  <2>1. Below(S, m) \in SUBSET Below(S, n) /\ Below(S, m) # Below(S, n)
    <3>1. \A x \in S : x < m => x < n
      <4> TAKE x \in S
      <4>1. x \in Nat /\ m \in Nat /\ n \in Nat
        OBVIOUS
      <4> QED
        BY <1>4, <4>1
    <3>2. m \in Below(S, n) /\ m \notin Below(S, m)
      BY <1>4 DEF Below
    <3> QED
      BY <3>1, <3>2 DEF Below
  <2>2. /\ Cardinality(Below(S, m)) <= Cardinality(Below(S, n))
        /\ Cardinality(Below(S, m)) # Cardinality(Below(S, n))
    BY <1>2, <2>1, FS_Subset
  <2> QED
    BY <1>2, <2>2
<1>5. ASSUME NEW m \in S, NEW n \in S
      PROVE  m < n <=> Cardinality(Below(S, m)) < Cardinality(Below(S, n))
  <2>1. CASE m < n
    BY <1>4, <2>1
  <2>2. CASE n < m
    BY <1>2, <1>4, <2>2
  <2>3. CASE m = n
    BY <1>2, <2>3
  <2> QED
    BY <2>1, <2>2, <2>3
<1> DEFINE rank == [m \in S |-> Cardinality(Below(S, m))]
           R == 0 .. Cardinality(S) - 1
<1>6. IsFiniteSet(R) /\ Cardinality(R) = Cardinality(S)
  <2>1. 0 \in Int /\ Cardinality(S) - 1 \in Int
    BY <1>1
  <2> HIDE DEF R
  <2>2. IsFiniteSet(R) /\ Cardinality(R) = IF 0 > Cardinality(S) - 1 THEN 0
                                           ELSE Cardinality(S) - 1 - 0 + 1
    BY <2>1, FS_Interval DEF R
  <2> QED
    BY <1>1, <2>2
<1>7. rank \in Injection(S, R)
  <2>1. rank \in [S -> R]
    BY <1>3
  <2>2. \A m, n \in S : rank[m] = rank[n] => m = n
    BY <1>2, <1>5
  <2> QED
    BY <2>1, <2>2 DEF Injection, IsInjective
<1>8. rank \in Surjection(S, R)
  BY <1>6, <1>7, FS_Injection
<1> QED
  BY <1>1, <1>3, <1>5, <1>8 DEF Surjection

\* Ascending lists the set, each element once and in the order of the numbers.
LEMMA AscendingLists ==
    ASSUME NEW S \in SUBSET Nat, IsFiniteSet(S)
    PROVE  /\ Cardinality(S) \in Nat /\ Ascending(S) \in [1 .. Cardinality(S) -> S]
           /\ \A i, j \in 1 .. Cardinality(S) : i < j => Ascending(S)[i] < Ascending(S)[j]
           /\ \A i, j \in 1 .. Cardinality(S) : Ascending(S)[i] = Ascending(S)[j] => i = j
           /\ \A m \in S : \E i \in 1 .. Cardinality(S) : Ascending(S)[i] = m
<1>1. Cardinality(S) \in Nat
  BY RanksAreOnce
<1>2. ASSUME NEW i \in 1 .. Cardinality(S)
      PROVE  Ascending(S)[i] \in S /\ Cardinality(Below(S, Ascending(S)[i])) = i - 1
  <2>1. \E m \in S : Cardinality(Below(S, m)) = i - 1
    BY <1>1, RanksAreOnce
  <2>2. Ascending(S)[i] = CHOOSE m \in S : Cardinality(Below(S, m)) = i - 1
    BY DEF Ascending, Below
  <2> QED
    BY <2>1, <2>2
<1>3. Ascending(S) \in [1 .. Cardinality(S) -> S]
  BY <1>2 DEF Ascending
<1>4. ASSUME NEW i \in 1 .. Cardinality(S), NEW j \in 1 .. Cardinality(S), i < j
      PROVE  Ascending(S)[i] < Ascending(S)[j]
  <2>1. /\ Ascending(S)[i] \in S /\ Cardinality(Below(S, Ascending(S)[i])) = i - 1
        /\ Ascending(S)[j] \in S /\ Cardinality(Below(S, Ascending(S)[j])) = j - 1
    BY <1>2
  <2>2. i - 1 < j - 1
    BY <1>1, <1>4
  <2> QED
    BY <2>1, <2>2, RanksAreOnce
<1>5. ASSUME NEW i \in 1 .. Cardinality(S), NEW j \in 1 .. Cardinality(S), 
             Ascending(S)[i] = Ascending(S)[j]
      PROVE  i = j
  BY <1>1, <1>2, <1>5
<1>6. ASSUME NEW m \in S PROVE \E i \in 1 .. Cardinality(S) : Ascending(S)[i] = m
  <2>1. PICK r \in 0 .. Cardinality(S) - 1 : r = Cardinality(Below(S, m))
    BY RanksAreOnce
  <2>2. r + 1 \in 1 .. Cardinality(S) /\ Ascending(S)[r + 1] \in S
        /\ Cardinality(Below(S, Ascending(S)[r + 1])) = r
    BY <1>1, <1>2
  <2>3. ~(Ascending(S)[r + 1] < m) /\ ~(m < Ascending(S)[r + 1])
    <3>1. ~(r < r)
      OBVIOUS
    <3> QED
      BY <2>1, <2>2, <3>1, RanksAreOnce
  <2>4. Ascending(S)[r + 1] = m
    <3>1. Ascending(S)[r + 1] \in Nat /\ m \in Nat
      BY <2>2
    <3> QED
      BY <2>3, <3>1
  <2> QED
    BY <2>2, <2>4
<1> QED
  BY <1>1, <1>3, <1>4, <1>5, <1>6

\* A strictly growing listing of a set is the ascending one.
LEMMA AscendingOnly ==
    ASSUME NEW S \in SUBSET Nat, IsFiniteSet(S), NEW n \in Nat, NEW f \in [1 .. n -> S],
           \A i, j \in 1 .. n : i < j => f[i] < f[j],
           \A m \in S : \E i \in 1 .. n : f[i] = m
    PROVE  n = Cardinality(S) /\ f = Ascending(S)
<1>1. \A i, j \in 1 .. n : f[i] = f[j] => i = j
  <2> SUFFICES ASSUME NEW i \in 1 .. n, NEW j \in 1 .. n, f[i] = f[j] PROVE i = j
    OBVIOUS
  <2>1. f[i] \in Nat /\ ~(f[i] < f[j]) /\ ~(f[j] < f[i])
    <3>1. f[i] \in Nat
      OBVIOUS
    <3> QED
      BY <3>1
  <2>2. ~(i < j) /\ ~(j < i)
    BY <2>1
  <2> QED
    BY <2>2
<1>2. \A i \in 1 .. n : Cardinality(Below(S, f[i])) = i - 1
  <2> SUFFICES ASSUME NEW i \in 1 .. n PROVE Cardinality(Below(S, f[i])) = i - 1
    OBVIOUS
  <2> DEFINE g == [j \in 1 .. i - 1 |-> f[j]]
  <2>1. g \in [1 .. i - 1 -> Below(S, f[i])]
    BY DEF Below
  <2>2. \A x, y \in 1 .. i - 1 : g[x] = g[y] => x = y
    BY <1>1
  <2>3. \A m \in Below(S, f[i]) : \E j \in 1 .. i - 1 : g[j] = m
    <3> SUFFICES ASSUME NEW m \in Below(S, f[i]) PROVE \E j \in 1 .. i - 1 : g[j] = m
      OBVIOUS
    <3>1. m \in S /\ m < f[i]
      BY DEF Below
    <3>2. PICK j \in 1 .. n : f[j] = m
      BY <3>1
    <3>3. ~(i < j) /\ i # j
      <4>1. f[i] \in Nat /\ f[j] \in Nat /\ f[j] < f[i]
        BY <3>1, <3>2
      <4>2. ~(f[i] < f[j]) /\ f[i] # f[j]
        BY <4>1
      <4> QED
        BY <4>2
    <3>4. j \in 1 .. i - 1
      BY <3>3
    <3> QED
      BY <3>2, <3>4
  <2>4. g \in Bijection(1 .. i - 1, Below(S, f[i]))
    BY <2>1, <2>2, <2>3 DEF Bijection, Injection, Surjection, IsInjective
  <2>5. IsFiniteSet(1 .. i - 1) /\ Cardinality(1 .. i - 1) = i - 1
    BY FS_Interval
  <2> QED
    BY <2>4, <2>5, FS_Bijection DEF ExistsBijection
<1>3. n = Cardinality(S)
  <2>1. f \in Bijection(1 .. n, S)
    BY <1>1 DEF Bijection, Injection, Surjection, IsInjective
  <2>2. IsFiniteSet(1 .. n) /\ Cardinality(1 .. n) = n
    BY FS_Interval
  <2> QED
    BY <2>1, <2>2, FS_Bijection DEF ExistsBijection
<1>4. ASSUME NEW i \in 1 .. n PROVE f[i] = Ascending(S)[i]
  <2>1. \A m \in S : Cardinality(Below(S, m)) = i - 1 => m = f[i]
    <3> SUFFICES ASSUME NEW m \in S, Cardinality(Below(S, m)) = i - 1 PROVE m = f[i]
      OBVIOUS
    <3>1. ~(m < f[i]) /\ ~(f[i] < m)
      BY <1>2, RanksAreOnce
    <3> QED
      BY <3>1
  <2>2. Ascending(S)[i] = CHOOSE m \in S : Cardinality(Below(S, m)) = i - 1
    BY <1>3 DEF Ascending, Below
  <2> QED
    BY <1>2, <2>1, <2>2
<1> QED
  BY <1>3, <1>4 DEF Ascending

-------------------------------------------------------------------------------
(* Lists.                                                                  *)

\* A list without repetitions is as long as its set of entries is large.
LEMMA LengthOfOnce ==
    ASSUME NEW M, NEW l \in Seq(M), IsInjective(l)
    PROVE  IsFiniteSet(Range(l)) /\ Cardinality(Range(l)) = Len(l)
<1>1. l \in [1 .. Len(l) -> Range(l)] /\ DOMAIN l = 1 .. Len(l) /\ Len(l) \in Nat
  BY DEF Range
<1>2. l \in Bijection(1 .. Len(l), Range(l))
  <2>1. \A r \in Range(l) : \E i \in 1 .. Len(l) : l[i] = r
    BY DEF Range
  <2> QED
    BY <1>1, <2>1 DEF Bijection, Injection, Surjection, IsInjective
<1>3. IsFiniteSet(1 .. Len(l)) /\ Cardinality(1 .. Len(l)) = Len(l)
  <2>1. 1 \in Int /\ Len(l) \in Int
    BY <1>1
  <2>2. /\ IsFiniteSet(1 .. Len(l))
        /\ Cardinality(1 .. Len(l)) = IF 1 > Len(l) THEN 0 ELSE Len(l) - 1 + 1
    BY <2>1, FS_Interval
  <2> QED
    BY <1>1, <2>2
<1> QED
  BY <1>2, <1>3, FS_Bijection DEF ExistsBijection

KeptAt(l, gone) == {i \in DOMAIN l : l[i] \notin gone}

\* The positions that stay are a finite set of numbers.
LEMMA KeptFinite ==
    ASSUME NEW M, NEW l \in Seq(M), NEW gone
    PROVE  /\ KeptAt(l, gone) \in SUBSET (1 .. Len(l)) /\ KeptAt(l, gone) \in SUBSET Nat
           /\ IsFiniteSet(KeptAt(l, gone)) /\ Cardinality(KeptAt(l, gone)) \in Nat
<1>1. DOMAIN l = 1 .. Len(l) /\ Len(l) \in Nat
  OBVIOUS
<1>2. KeptAt(l, gone) \in SUBSET (1 .. Len(l))
  BY <1>1 DEF KeptAt
<1>3. IsFiniteSet(1 .. Len(l))
  <2>1. 1 \in Int /\ Len(l) \in Int
    BY <1>1
  <2> QED
    BY <2>1, FS_Interval
<1> QED
  BY <1>2, <1>3, FS_Subset, FS_CardinalityType

\* Shrunk goes through the positions that stay in their order.
LEMMA ShrunkIs ==
    ASSUME NEW M, NEW l \in Seq(M), NEW gone
    PROVE  LET P == KeptAt(l, gone)
           IN  /\ Shrunk(l, gone) \in Seq(M) /\ Len(Shrunk(l, gone)) = Cardinality(P)
               /\ Ascending(P) \in [1 .. Cardinality(P) -> P]
               /\ Shrunk(l, gone) = [i \in 1 .. Cardinality(P) |-> l[Ascending(P)[i]]]
<1> DEFINE P == KeptAt(l, gone)
<1>1. /\ P \in SUBSET (1 .. Len(l)) /\ P \in SUBSET Nat /\ IsFiniteSet(P)
      /\ Cardinality(P) \in Nat
  BY KeptFinite
<1>2. Ascending(P) \in [1 .. Cardinality(P) -> P]
  BY <1>1, AscendingLists
<1>3. Shrunk(l, gone) = [i \in 1 .. Cardinality(P) |-> l[Ascending(P)[i]]]
  BY <1>2 DEF Shrunk, KeptAt
<1>4. \A i \in 1 .. Cardinality(P) : l[Ascending(P)[i]] \in M
  <2> TAKE i \in 1 .. Cardinality(P)
  <2>1. Ascending(P)[i] \in 1 .. Len(l)
    BY <1>1, <1>2
  <2> QED
    BY <2>1
<1> HIDE DEF P
<1>5. Shrunk(l, gone) \in [1 .. Cardinality(P) -> M]
  BY <1>3, <1>4
<1>6. Shrunk(l, gone) \in Seq(M) /\ Len(Shrunk(l, gone)) = Cardinality(P)
  BY <1>1, <1>5
<1> QED
  BY <1>2, <1>3, <1>6 DEF P

\* What stays in a list is what was in it and is not gone; nothing comes up twice.
LEMMA ShrunkKeeps ==
    ASSUME NEW M, NEW l \in Seq(M), NEW gone
    PROVE  /\ Shrunk(l, gone) \in Seq(M) /\ Range(Shrunk(l, gone)) = Range(l) \ gone
           /\ IsInjective(l) => IsInjective(Shrunk(l, gone))
<1> DEFINE P == KeptAt(l, gone)
           a == Ascending(P)
           s == Shrunk(l, gone)
<1>1. /\ P \in SUBSET (1 .. Len(l)) /\ P \in SUBSET Nat /\ IsFiniteSet(P)
      /\ Cardinality(P) \in Nat
  BY KeptFinite
<1>2. /\ a \in [1 .. Cardinality(P) -> P]
      /\ \A i, j \in 1 .. Cardinality(P) : a[i] = a[j] => i = j
      /\ \A m \in P : \E i \in 1 .. Cardinality(P) : a[i] = m
  BY <1>1, AscendingLists
<1>3. s \in Seq(M) /\ s = [i \in 1 .. Cardinality(P) |-> l[a[i]]]
  BY ShrunkIs
<1>4. \A i \in P : i \in DOMAIN l /\ l[i] \notin gone
  BY DEF KeptAt
<1>5. \A i \in DOMAIN l : l[i] \notin gone => i \in P
  BY DEF KeptAt
<1> HIDE DEF P, a, s
<1>6. Range(s) = Range(l) \ gone
  <2>1. ASSUME NEW x \in Range(s) PROVE x \in Range(l) \ gone
    BY <1>2, <1>3, <1>4 DEF Range
  <2>2. ASSUME NEW x \in Range(l) \ gone PROVE x \in Range(s)
    <3>1. PICK i \in DOMAIN l : l[i] = x
      BY DEF Range
    <3>2. i \in P
      BY <1>5, <3>1
    <3>3. PICK j \in 1 .. Cardinality(P) : a[j] = i
      BY <1>2, <3>2
    <3> QED
      BY <1>3, <3>1, <3>3 DEF Range
  <2> QED
    BY <2>1, <2>2
<1>7. ASSUME IsInjective(l) PROVE IsInjective(s)
  BY <1>2, <1>3, <1>4, <1>7 DEF IsInjective
<1> QED
  BY <1>3, <1>6, <1>7 DEF s

\* Taking entries out one set after the other is taking out both at once.
LEMMA ShrunkTwice ==
    ASSUME NEW M, NEW l \in Seq(M), NEW A, NEW B
    PROVE  Shrunk(Shrunk(l, A), B) = Shrunk(l, A \cup B)
<1> DEFINE P == KeptAt(l, A)
           a == Ascending(P)
           s == Shrunk(l, A)
           Q == KeptAt(s, B)
           b == Ascending(Q)
           R == KeptAt(l, A \cup B)
           f == [i \in 1 .. Cardinality(Q) |-> a[b[i]]]
<1>1. /\ P \in SUBSET Nat /\ IsFiniteSet(P) /\ Cardinality(P) \in Nat
      /\ R \in SUBSET Nat /\ IsFiniteSet(R)
  BY KeptFinite
<1>2. /\ a \in [1 .. Cardinality(P) -> P]
      /\ \A i, j \in 1 .. Cardinality(P) : i < j => a[i] < a[j]
      /\ \A m \in P : \E i \in 1 .. Cardinality(P) : a[i] = m
  BY <1>1, AscendingLists
<1>3. s \in Seq(M) /\ Len(s) = Cardinality(P) /\ s = [i \in 1 .. Cardinality(P) |-> l[a[i]]]
  BY ShrunkIs
<1>4. /\ Q \in SUBSET (1 .. Cardinality(P)) /\ Q \in SUBSET Nat /\ IsFiniteSet(Q)
      /\ Cardinality(Q) \in Nat
  BY <1>3, KeptFinite
<1>5. /\ b \in [1 .. Cardinality(Q) -> Q]
      /\ \A i, j \in 1 .. Cardinality(Q) : i < j => b[i] < b[j]
      /\ \A m \in Q : \E i \in 1 .. Cardinality(Q) : b[i] = m
  BY <1>4, AscendingLists
<1>6. Shrunk(s, B) = [i \in 1 .. Cardinality(Q) |-> s[b[i]]]
  <2> HIDE DEF s
  <2>1. \A g : Shrunk(s, g) = [i \in 1 .. Cardinality(KeptAt(s, g)) |-> s[Ascending(KeptAt(s, g))[i]]]
    <3>1. s \in Seq(M)
      BY <1>3
    <3> QED
      BY <3>1, ShrunkIs
  <2> QED
    BY <2>1
<1>7. Shrunk(l, A \cup B) = [i \in 1 .. Cardinality(R) |-> l[Ascending(R)[i]]]
  <2>1. \A g : Shrunk(l, g) = [i \in 1 .. Cardinality(KeptAt(l, g)) |-> l[Ascending(KeptAt(l, g))[i]]]
    BY ShrunkIs
  <2> QED
    BY <2>1
<1>8. \A i \in 1 .. Cardinality(P) : i \in Q <=> a[i] \in R
  <2> TAKE i \in 1 .. Cardinality(P)
  <2>1. a[i] \in P
    BY <1>2
  <2>2. a[i] \in DOMAIN l /\ l[a[i]] \notin A /\ DOMAIN s = 1 .. Cardinality(P) /\ s[i] = l[a[i]]
    BY <1>3, <2>1 DEF KeptAt
  <2>3. i \in Q <=> s[i] \notin B
    BY <2>2 DEF KeptAt
  <2>4. a[i] \in R <=> l[a[i]] \notin B
    BY <2>2 DEF KeptAt
  <2> QED
    BY <2>2, <2>3, <2>4
<1>9. R \subseteq P
  BY DEF KeptAt
<1> HIDE DEF P, a, s, Q, b, R
<1>10. f \in [1 .. Cardinality(Q) -> R]
  BY <1>4, <1>5, <1>8
<1>11. \A i, j \in 1 .. Cardinality(Q) : i < j => f[i] < f[j]
  BY <1>2, <1>4, <1>5
<1>12. \A m \in R : \E i \in 1 .. Cardinality(Q) : f[i] = m
  <2> TAKE m \in R
  <2>1. PICK p \in 1 .. Cardinality(P) : a[p] = m
    BY <1>2, <1>9
  <2>2. p \in Q
    BY <1>8, <2>1
  <2>3. PICK i \in 1 .. Cardinality(Q) : b[i] = p
    BY <1>5, <2>2
  <2> QED
    BY <2>1, <2>3
<1> HIDE DEF f
<1>13. Cardinality(Q) = Cardinality(R) /\ f = Ascending(R)
  BY <1>1, <1>4, <1>10, <1>11, <1>12, AscendingOnly
<1>14. \A i \in 1 .. Cardinality(Q) : s[b[i]] = l[Ascending(R)[i]]
  <2> TAKE i \in 1 .. Cardinality(Q)
  <2>1. b[i] \in 1 .. Cardinality(P)
    BY <1>4, <1>5
  <2>2. s[b[i]] = l[a[b[i]]]
    BY <1>3, <2>1
  <2> QED
    BY <1>13, <2>2 DEF f
<1> QED
  BY <1>6, <1>7, <1>13, <1>14 DEF s

-------------------------------------------------------------------------------
(* Calls one after the other.                                              *)

\* A set of numbers that is not empty has a least one.
LEMMA LeastNumber ==
    ASSUME NEW S \in SUBSET Nat, NEW a \in S
    PROVE  \E m \in S : \A y \in Nat : y < m => y \notin S
<1>1. \E x \in S : \A y \in S : ~(<<y, x>> \in OpToRel(<, Nat))
  BY NatLessThanWellFounded, WFMin
<1> QED
  BY <1>1 DEF OpToRel

IsRun(R, s, ops) ==
    R = [i \in 0 .. Len(ops) |-> IF i = 0 THEN s ELSE OwnerCall(R[i - 1], ops[i])]

\* The calls take the Safe from s to e.
Leads(s, ops, e) == \E R : IsRun(R, s, ops) /\ R[Len(ops)] = e

\* There is one run of a sequence of calls.
LEMMA OneRun ==
    ASSUME NEW X, NEW ops \in Seq(X), NEW s, NEW Q, NEW R, IsRun(Q, s, ops), IsRun(R, s, ops),
           NEW n \in 0 .. Len(ops)
    PROVE  Q[n] = R[n]
<1> DEFINE Bad == {i \in 0 .. Len(ops) : Q[i] # R[i]}
<1>1. Len(ops) \in Nat /\ Bad \in SUBSET Nat
  OBVIOUS
<1>2. \A i \in 0 .. Len(ops) : /\ Q[i] = IF i = 0 THEN s ELSE OwnerCall(Q[i - 1], ops[i])
                               /\ R[i] = IF i = 0 THEN s ELSE OwnerCall(R[i - 1], ops[i])
  BY DEF IsRun
<1>3. ASSUME n \in Bad PROVE FALSE
  <2> HIDE DEF Bad
  <2>1. PICK m \in Bad : \A y \in Nat : y < m => y \notin Bad
    BY <1>1, <1>3, LeastNumber
  <2> USE DEF Bad
  <2>2. CASE m = 0
    BY <1>2, <2>1, <2>2
  <2>3. CASE m # 0
    <3>1. m - 1 \in 0 .. Len(ops) /\ m - 1 \in Nat /\ m - 1 < m
      BY <1>1, <2>1, <2>3
    <3>2. Q[m - 1] = R[m - 1]
      BY <2>1, <3>1
    <3> QED
      BY <1>2, <2>1, <2>3, <3>2
  <2> QED
    BY <2>2, <2>3
<1> QED
  BY <1>3

\* A run ends where the calls end.
LEMMA RunEnds ==
    ASSUME NEW X, NEW ops \in Seq(X), NEW s, NEW e, Leads(s, ops, e)
    PROVE  AfterCalls(s, ops) = e
<1>1. PICK R : IsRun(R, s, ops) /\ R[Len(ops)] = e
  BY DEF Leads
<1> DEFINE C == CHOOSE Q : IsRun(Q, s, ops)
<1>2. AfterCalls(s, ops) = C[Len(ops)]
  BY Zenon DEF AfterCalls, IsRun
<1>3. IsRun(C, s, ops)
  BY <1>1
<1> HIDE DEF C
<1>4. C[Len(ops)] = R[Len(ops)]
  <2>1. Len(ops) \in 0 .. Len(ops)
    OBVIOUS
  <2> QED
    BY <1>1, <1>3, <2>1, OneRun
<1> QED
  BY <1>1, <1>2, <1>4

\* States that follow one another by the calls are a run.
LEMMA RunOf ==
    ASSUME NEW X, NEW ops \in Seq(X), NEW R,
           \A i \in 1 .. Len(ops) : OwnerCall(R[i - 1], ops[i]) = R[i]
    PROVE  Leads(R[0], ops, R[Len(ops)])
<1> DEFINE Q == [i \in 0 .. Len(ops) |-> R[i]]
<1>1. Len(ops) \in Nat
  OBVIOUS
<1>2. \A i \in 0 .. Len(ops) : Q[i] = IF i = 0 THEN R[0] ELSE OwnerCall(Q[i - 1], ops[i])
  <2> SUFFICES ASSUME NEW i \in 0 .. Len(ops), i # 0 PROVE Q[i] = OwnerCall(Q[i - 1], ops[i])
    OBVIOUS
  <2>1. i \in 1 .. Len(ops) /\ i - 1 \in 0 .. Len(ops)
    BY <1>1
  <2> QED
    BY <2>1
<1>3. Q = [i \in 0 .. Len(ops) |-> IF i = 0 THEN R[0] ELSE OwnerCall(Q[i - 1], ops[i])]
  <2> DEFINE G == [i \in 0 .. Len(ops) |-> IF i = 0 THEN R[0] ELSE OwnerCall(Q[i - 1], ops[i])]
  <2>1. \A i \in 0 .. Len(ops) : Q[i] = G[i]
    BY <1>2
  <2>2. Q = [i \in 0 .. Len(ops) |-> Q[i]] /\ G = [i \in 0 .. Len(ops) |-> G[i]]
    OBVIOUS
  <2> HIDE DEF Q, G
  <2>3. Q = G
    BY <2>1, <2>2
  <2> QED
    BY <2>3 DEF G
<1>4. Q[Len(ops)] = R[Len(ops)]
  BY <1>1
<1> HIDE DEF Q
<1> QED
  BY <1>3, <1>4 DEF Leads, IsRun

\* Runs are joined end to end.
LEMMA RunJoin ==
    ASSUME NEW X, NEW a \in Seq(X), NEW b \in Seq(X), NEW s, NEW m, NEW e,
           Leads(s, a, m), Leads(m, b, e)
    PROVE  Leads(s, a \o b, e)
<1>1. PICK Q : IsRun(Q, s, a) /\ Q[Len(a)] = m
  BY DEF Leads
<1>2. PICK R : IsRun(R, m, b) /\ R[Len(b)] = e
  BY DEF Leads
<1> DEFINE ops == a \o b
           F == [i \in 0 .. Len(ops) |-> IF i <= Len(a) THEN Q[i] ELSE R[i - Len(a)]]
<1>3. /\ ops \in Seq(X) /\ Len(a) \in Nat /\ Len(b) \in Nat /\ Len(ops) = Len(a) + Len(b)
      /\ \A i \in 1 .. Len(a) : ops[i] = a[i]
      /\ \A i \in 1 .. Len(b) : ops[Len(a) + i] = b[i]
  OBVIOUS
<1>4. \A i \in 0 .. Len(a) : Q[i] = IF i = 0 THEN s ELSE OwnerCall(Q[i - 1], a[i])
  BY <1>1 DEF IsRun
<1>5. \A i \in 0 .. Len(b) : R[i] = IF i = 0 THEN m ELSE OwnerCall(R[i - 1], b[i])
  BY <1>2 DEF IsRun
<1> HIDE DEF ops
<1>6. ASSUME NEW i \in 1 .. Len(ops) PROVE OwnerCall(F[i - 1], ops[i]) = F[i]
  <2>0. F[i] = (IF i <= Len(a) THEN Q[i] ELSE R[i - Len(a)])
        /\ F[i - 1] = (IF i - 1 <= Len(a) THEN Q[i - 1] ELSE R[i - 1 - Len(a)])
    BY <1>3
  <2> HIDE DEF F
  <2>1. CASE i <= Len(a)
    <3>1. i \in 1 .. Len(a) /\ i \in 0 .. Len(a) /\ i # 0 /\ i - 1 <= Len(a)
      BY <1>3, <2>1
    <3> QED
      BY <1>3, <1>4, <2>0, <2>1, <3>1
  <2>2. CASE i = Len(a) + 1
    <3>1. /\ ~(i <= Len(a)) /\ i - 1 = Len(a) /\ i - Len(a) = 1 /\ 1 \in 0 .. Len(b)
          /\ 1 \in 1 .. Len(b) /\ 0 \in 0 .. Len(b)
      BY <1>3, <2>2
    <3>2. F[i - 1] = m
      <4>1. Len(a) <= Len(a)
        BY <1>3
      <4> QED
        BY <1>1, <2>0, <3>1, <4>1
    <3>3. F[i] = R[1] /\ R[1] = OwnerCall(R[0], b[1]) /\ R[0] = m
      BY <1>5, <2>0, <3>1
    <3>4. ops[i] = b[1]
      BY <1>3, <2>2, <3>1
    <3> QED
      BY <3>2, <3>3, <3>4
  <2>3. CASE i > Len(a) + 1
    <3> DEFINE j == i - Len(a)
    <3>1. /\ ~(i <= Len(a)) /\ ~(i - 1 <= Len(a)) /\ j \in 1 .. Len(b) /\ j \in 0 .. Len(b)
          /\ j # 0 /\ i - 1 - Len(a) = j - 1 /\ i = Len(a) + j
      BY <1>3, <2>3
    <3> HIDE DEF j
    <3>2. F[i] = R[j] /\ F[i - 1] = R[j - 1]
      BY <2>0, <3>1 DEF j
    <3>3. R[j] = OwnerCall(R[j - 1], b[j])
      BY <1>5, <3>1
    <3>4. ops[i] = b[j]
      BY <1>3, <3>1
    <3> QED
      BY <3>2, <3>3, <3>4
  <2> QED
    BY <1>3, <2>1, <2>2, <2>3
<1>7. F[0] = s
  BY <1>3, <1>4
<1>8. F[Len(ops)] = e
  <2>1. CASE Len(b) = 0
    BY <1>1, <1>2, <1>3, <1>5, <2>1
  <2>2. CASE Len(b) # 0
    BY <1>2, <1>3, <2>2
  <2> QED
    BY <2>1, <2>2
<1> HIDE DEF F
<1>9. Leads(F[0], ops, F[Len(ops)])
  BY <1>3, <1>6, RunOf
<1> QED
  BY <1>7, <1>8, <1>9 DEF ops

-------------------------------------------------------------------------------
(* The owners while pairs are swapped.                                     *)

\* The first k of the owners that go, paired with as many that come.
Pairs(l, out, in, k) ==
    /\ {l, out, in} \subseteq Seq(SafeMembers)
    /\ IsInjective(l) /\ IsInjective(out) /\ IsInjective(in)
    /\ Range(out) \subseteq Range(l) /\ Range(in) \cap Range(l) = {}
    /\ k \in Nat /\ k <= Len(out) /\ k <= Len(in)

\* The first i pairs are swapped, every other owner is where it was.
LEMMA SwappedEntry ==
    ASSUME NEW l, NEW out, NEW in, NEW k, Pairs(l, out, in, k), NEW i \in 0 .. k,
           NEW j \in 1 .. Len(l)
    PROVE  /\ \A s \in 1 .. i : out[s] = l[j] => Swapped(l, out, in, i)[j] = in[s]
           /\ (\A s \in 1 .. i : out[s] # l[j]) => Swapped(l, out, in, i)[j] = l[j]
<1>1. /\ l \in Seq(SafeMembers) /\ out \in Seq(SafeMembers) /\ in \in Seq(SafeMembers)
      /\ k \in Nat /\ k <= Len(out) /\ k <= Len(in)
      /\ \A a, b \in 1 .. Len(out) : out[a] = out[b] => a = b
  BY DEF Pairs, IsInjective
<1>2. Swapped(l, out, in, i)[j] = IF \E s \in 1 .. i : out[s] = l[j]
                                  THEN in[CHOOSE s \in 1 .. i : out[s] = l[j]] ELSE l[j]
  <2>1. DOMAIN l = 1 .. Len(l)
    BY <1>1
  <2> QED
    BY <2>1 DEF Swapped
<1>3. ASSUME NEW s \in 1 .. i, out[s] = l[j] PROVE Swapped(l, out, in, i)[j] = in[s]
  <2> DEFINE c == CHOOSE u \in 1 .. i : out[u] = l[j]
  <2>1. c \in 1 .. i /\ out[c] = l[j]
    BY <1>3
  <2> HIDE DEF c
  <2>2. c \in 1 .. Len(out) /\ s \in 1 .. Len(out)
    BY <1>1, <2>1
  <2>3. c = s
    BY <1>1, <1>3, <2>1, <2>2
  <2> QED
    BY <1>2, <1>3, <2>3 DEF c
<1> QED
  BY <1>2, <1>3

\* What a list is after some swaps, and who is in it.
LEMMA SwappedList ==
    ASSUME NEW l, NEW out, NEW in, NEW k, Pairs(l, out, in, k), NEW i \in 0 .. k
    PROVE  LET L == Swapped(l, out, in, i)
           IN  /\ L \in Seq(SafeMembers) /\ Len(L) = Len(l) /\ IsInjective(L)
               /\ Range(L) = (Range(l) \ {out[s] : s \in 1 .. i}) \cup {in[s] : s \in 1 .. i}
<1> DEFINE L == Swapped(l, out, in, i)
<1>1. /\ l \in Seq(SafeMembers) /\ out \in Seq(SafeMembers) /\ in \in Seq(SafeMembers)
      /\ k \in Nat /\ k <= Len(out) /\ k <= Len(in) /\ Len(l) \in Nat
      /\ \A a, b \in 1 .. Len(l) : l[a] = l[b] => a = b
      /\ \A a, b \in 1 .. Len(out) : out[a] = out[b] => a = b
      /\ \A a, b \in 1 .. Len(in) : in[a] = in[b] => a = b
      /\ \A a \in 1 .. Len(in), b \in 1 .. Len(l) : in[a] # l[b]
      /\ \A a \in 1 .. Len(out) : \E b \in 1 .. Len(l) : out[a] = l[b]
  <2>1. /\ l \in Seq(SafeMembers) /\ out \in Seq(SafeMembers) /\ in \in Seq(SafeMembers)
        /\ k \in Nat /\ k <= Len(out) /\ k <= Len(in)
        /\ IsInjective(l) /\ IsInjective(out) /\ IsInjective(in)
        /\ Range(out) \subseteq Range(l) /\ Range(in) \cap Range(l) = {}
    BY DEF Pairs
  <2>2. DOMAIN l = 1 .. Len(l) /\ DOMAIN out = 1 .. Len(out) /\ DOMAIN in = 1 .. Len(in)
    BY <2>1
  <2>3. /\ \A a, b \in 1 .. Len(l) : l[a] = l[b] => a = b
        /\ \A a, b \in 1 .. Len(out) : out[a] = out[b] => a = b
        /\ \A a, b \in 1 .. Len(in) : in[a] = in[b] => a = b
    BY <2>1, <2>2 DEF IsInjective
  <2>4. \A a \in 1 .. Len(in), b \in 1 .. Len(l) : in[a] \in Range(in) /\ l[b] \in Range(l)
    BY <2>2 DEF Range
  <2>5. \A a \in 1 .. Len(in), b \in 1 .. Len(l) : in[a] # l[b]
    BY <2>1, <2>4
  <2>6. \A a \in 1 .. Len(out) : out[a] \in Range(out)
    BY <2>2 DEF Range
  <2>7. \A x \in Range(l) : \E b \in 1 .. Len(l) : x = l[b]
    BY <2>2 DEF Range
  <2>8. Len(l) \in Nat
    BY <2>1
  <2> QED
    BY <2>1, <2>3, <2>5, <2>6, <2>7, <2>8
<1>2. \A s \in 1 .. i : s \in 1 .. Len(out) /\ s \in 1 .. Len(in)
  BY <1>1
<1>3. \A j \in 1 .. Len(l) :
          \/ \E s \in 1 .. i : out[s] = l[j] /\ L[j] = in[s]
          \/ (\A s \in 1 .. i : out[s] # l[j]) /\ L[j] = l[j]
  BY SwappedEntry
<1>4. L = [j \in 1 .. Len(l) |-> L[j]]
  <2>1. DOMAIN l = 1 .. Len(l)
    BY <1>1
  <2> QED
    BY <2>1 DEF Swapped
<1> HIDE DEF L
<1>5. \A j \in 1 .. Len(l) : L[j] \in SafeMembers
  <2>1. /\ \A s \in 1 .. Len(in) : in[s] \in SafeMembers
        /\ \A j \in 1 .. Len(l) : l[j] \in SafeMembers
    BY <1>1, ElementOfSeq
  <2> QED
    BY <1>2, <1>3, <2>1
<1>6. L \in Seq(SafeMembers) /\ Len(L) = Len(l) /\ DOMAIN L = 1 .. Len(l)
  <2>1. L \in [1 .. Len(l) -> SafeMembers] /\ Len(l) \in Nat
    BY <1>1, <1>4, <1>5
  <2> QED
    BY <2>1
<1>7. IsInjective(L)
  <2> SUFFICES ASSUME NEW a \in 1 .. Len(l), NEW b \in 1 .. Len(l), L[a] = L[b] PROVE a = b
    BY <1>6 DEF IsInjective
  <2>1. CASE \E s \in 1 .. i : out[s] = l[a] /\ L[a] = in[s]
    <3>1. PICK s \in 1 .. i : out[s] = l[a] /\ L[a] = in[s]
      BY <2>1
    <3>2. PICK u \in 1 .. i : out[u] = l[b] /\ L[b] = in[u]
      <4>1. in[s] # l[b]
        BY <1>1, <1>2
      <4> QED
        BY <1>3, <3>1, <4>1
    <3>3. s = u
      <4>1. in[s] = in[u]
        BY <3>1, <3>2
      <4> QED
        BY <1>1, <1>2, <4>1
    <3> QED
      BY <1>1, <3>1, <3>2, <3>3
  <2>2. CASE (\A s \in 1 .. i : out[s] # l[a]) /\ L[a] = l[a]
    <3>1. L[b] = l[b]
      BY <1>1, <1>2, <1>3, <2>2
    <3> QED
      BY <1>1, <2>2, <3>1
  <2> QED
    BY <1>3, <2>1, <2>2
<1>8. Range(L) = (Range(l) \ {out[s] : s \in 1 .. i}) \cup {in[s] : s \in 1 .. i}
  <2>1. ASSUME NEW x \in Range(L)
        PROVE  x \in (Range(l) \ {out[s] : s \in 1 .. i}) \cup {in[s] : s \in 1 .. i}
    <3>1. PICK j \in 1 .. Len(l) : x = L[j]
      BY <1>6 DEF Range
    <3>2. l[j] \in Range(l)
      BY <1>1 DEF Range
    <3> QED
      BY <1>3, <3>1, <3>2
  <2>2. ASSUME NEW x \in Range(l), x \notin {out[s] : s \in 1 .. i} PROVE x \in Range(L)
    <3>1. PICK j \in 1 .. Len(l) : x = l[j]
      BY <1>1 DEF Range
    <3>2. L[j] = x
      BY <1>3, <2>2, <3>1
    <3> QED
      BY <1>6, <3>2 DEF Range
  <2>3. ASSUME NEW s \in 1 .. i PROVE in[s] \in Range(L)
    <3>1. PICK j \in 1 .. Len(l) : out[s] = l[j]
      BY <1>1, <1>2
    <3>2. PICK u \in 1 .. i : out[u] = l[j] /\ L[j] = in[u]
      BY <1>3, <3>1
    <3>3. u = s
      BY <1>1, <1>2, <3>1, <3>2
    <3> QED
      BY <1>6, <3>2, <3>3 DEF Range
  <2> QED
    BY <2>1, <2>2, <2>3
<1> QED
  BY <1>6, <1>7, <1>8 DEF L

Held(o, t) == [owners |-> o, threshold |-> t]

\* One swap takes the owners after i - 1 pairs to the owners after i.
LEMMA SwapOne ==
    ASSUME NEW l, NEW out, NEW in, NEW k, Pairs(l, out, in, k), NEW i \in 1 .. k
    PROVE  LET L == Swapped(l, out, in, i - 1)
           IN  /\ out[i] \in Range(L) /\ in[i] \notin Range(L)
               /\ Swapped(L, <<out[i]>>, <<in[i]>>, 1) = Swapped(l, out, in, i)
<1> DEFINE L == Swapped(l, out, in, i - 1)
           N == Swapped(l, out, in, i)
           W == Swapped(L, <<out[i]>>, <<in[i]>>, 1)
<1>1. /\ l \in Seq(SafeMembers) /\ out \in Seq(SafeMembers) /\ in \in Seq(SafeMembers)
      /\ k \in Nat /\ k <= Len(out) /\ k <= Len(in) /\ Len(l) \in Nat
      /\ \A a, b \in 1 .. Len(out) : out[a] = out[b] => a = b
      /\ \A a, b \in 1 .. Len(in) : in[a] = in[b] => a = b
      /\ Range(out) \subseteq Range(l) /\ Range(in) \cap Range(l) = {}
  BY DEF Pairs, IsInjective
<1>2. i \in 0 .. k /\ i - 1 \in 0 .. k /\ i \in 1 .. Len(out) /\ i \in 1 .. Len(in)
      /\ \A s \in 1 .. i - 1 : s \in 1 .. Len(out) /\ s \in 1 .. Len(in) /\ s # i /\ s \in 1 .. i
      /\ \A h \in 1 .. i : h = i \/ h \in 1 .. i - 1
  BY <1>1
<1>3. /\ L \in Seq(SafeMembers) /\ Len(L) = Len(l)
      /\ Range(L) = (Range(l) \ {out[s] : s \in 1 .. i - 1}) \cup {in[s] : s \in 1 .. i - 1}
      /\ N \in Seq(SafeMembers) /\ Len(N) = Len(l)
  BY <1>2, SwappedList
<1>4. \A j \in 1 .. Len(l) :
          /\ \A s \in 1 .. i - 1 : out[s] = l[j] => L[j] = in[s]
          /\ (\A s \in 1 .. i - 1 : out[s] # l[j]) => L[j] = l[j]
          /\ \A s \in 1 .. i : out[s] = l[j] => N[j] = in[s]
          /\ (\A s \in 1 .. i : out[s] # l[j]) => N[j] = l[j]
  BY <1>2, SwappedEntry
<1>5. \A j \in 1 .. Len(l) : W[j] = IF out[i] = L[j] THEN in[i] ELSE L[j]
  <2> TAKE j \in 1 .. Len(l)
  <2>1. DOMAIN L = 1 .. Len(l)
    BY <1>3
  <2> HIDE DEF L
  <2>2. W[j] = IF \E s \in 1 .. 1 : <<out[i]>>[s] = L[j]
               THEN <<in[i]>>[CHOOSE s \in 1 .. 1 : <<out[i]>>[s] = L[j]] ELSE L[j]
    BY <2>1 DEF Swapped
  <2>3. CASE out[i] = L[j]
    <3>1. 1 \in 1 .. 1 /\ <<out[i]>>[1] = L[j] /\ \A s \in 1 .. 1 : s = 1
      BY <2>3
    <3>2. (CHOOSE s \in 1 .. 1 : <<out[i]>>[s] = L[j]) = 1
      BY <3>1
    <3> QED
      BY <2>2, <2>3, <3>1, <3>2
  <2>4. CASE out[i] # L[j]
    <3>1. \A s \in 1 .. 1 : <<out[i]>>[s] # L[j]
      BY <2>4
    <3> QED
      BY <2>2, <2>4, <3>1
  <2> QED
    BY <2>3, <2>4
<1>6. W = [j \in 1 .. Len(l) |-> W[j]] /\ N = [j \in 1 .. Len(l) |-> N[j]]
  BY <1>1, <1>3 DEF Swapped
<1> HIDE DEF L, N, W
<1>7. out[i] \in Range(L)
  <2>1. out[i] \in Range(l)
    <3>1. i \in DOMAIN out
      BY <1>1, <1>2
    <3>2. out[i] \in Range(out)
      BY <3>1 DEF Range
    <3> QED
      BY <1>1, <3>2
  <2>2. \A s \in 1 .. i - 1 : out[s] # out[i]
    BY <1>1, <1>2
  <2> QED
    BY <1>3, <2>1, <2>2
<1>8. in[i] \notin Range(L)
  <2>1. in[i] \notin Range(l)
    <3>1. in[i] \in Range(in)
      BY <1>1, <1>2 DEF Range
    <3> QED
      BY <1>1, <3>1
  <2>2. \A s \in 1 .. i - 1 : in[s] # in[i]
    BY <1>1, <1>2
  <2> QED
    BY <1>3, <2>1, <2>2
<1>9. \A j \in 1 .. Len(l) : W[j] = N[j]
  <2> TAKE j \in 1 .. Len(l)
  <2>1. CASE \E s \in 1 .. i - 1 : out[s] = l[j]
    <3>1. PICK s \in 1 .. i - 1 : out[s] = l[j]
      BY <2>1
    <3>2. L[j] = in[s] /\ N[j] = in[s]
      BY <1>2, <1>4, <3>1
    <3>3. in[s] # out[i]
      <4>1. in[s] \in Range(in) /\ out[i] \in Range(out)
        <5>1. s \in DOMAIN in /\ i \in DOMAIN out
          BY <1>1, <1>2
        <5> QED
          BY <5>1 DEF Range
      <4> QED
        BY <1>1, <4>1
    <3> QED
      BY <1>5, <3>2, <3>3
  <2>2. CASE ~\E s \in 1 .. i - 1 : out[s] = l[j]
    <3>1. L[j] = l[j]
      BY <1>4, <2>2
    <3>2. CASE out[i] = l[j]
      <4>1. i \in 1 .. i
        BY <1>2
      <4> QED
        BY <1>4, <1>5, <3>1, <3>2, <4>1
    <3>3. CASE out[i] # l[j]
      <4>1. \A s \in 1 .. i : out[s] # l[j]
        BY <1>2, <2>2, <3>3
      <4> QED
        BY <1>4, <1>5, <3>1, <3>3, <4>1
    <3> QED
      BY <3>2, <3>3
  <2> QED
    BY <2>1, <2>2
<1>10. W = N
  BY <1>6, <1>9
<1> QED
  BY <1>7, <1>8, <1>10 DEF L, N, W

-------------------------------------------------------------------------------
(* The parts of a plan.                                                    *)

Prevs == SafeMembers \cup {Sentinel}

Calls ==
    [call : {"swap"}, prev : Prevs, owner : SafeMembers, arg : SafeMembers]
      \cup [call : {"add", "remove"}, prev : Prevs, owner : SafeMembers, arg : Nat]
      \cup [call : {"threshold"}, prev : {Sentinel}, owner : {Sentinel}, arg : Nat]

\* An owner of a list has a place in it.
LEMMA PositionIn ==
    ASSUME NEW M, NEW l \in Seq(M), NEW o \in Range(l)
    PROVE  Position(l, o) \in 1 .. Len(l) /\ l[Position(l, o)] = o
<1>1. \E i \in DOMAIN l : l[i] = o
  BY DEF Range
<1>2. DOMAIN l = 1 .. Len(l)
  OBVIOUS
<1> QED
  BY <1>1, <1>2 DEF Position

\* What a plan names as the owner before another may stand there.
LEMMA BeforeType ==
    ASSUME NEW l \in Seq(SafeMembers), NEW first, NEW o \in Range(l)
    PROVE  Before(l, first, o) \in Prevs
<1>1. Position(l, o) \in 1 .. Len(l)
  BY PositionIn
<1>2. CASE Position(l, o) # 1
  <2>1. Position(l, o) - 1 \in 1 .. Len(l)
    BY <1>1, <1>2
  <2>2. l[Position(l, o) - 1] \in SafeMembers
    BY <2>1, ElementOfSeq
  <2> QED
    BY <1>2, <2>2 DEF Before, Prevs
<1> QED
  BY <1>2 DEF Before, Prevs

\* A Safe with a threshold is none that has refused.
LEMMA HeldIsNotRefused ==
    ASSUME NEW o, NEW t \in Nat \ {0}
    PROVE  Held(o, t) # Refused /\ Held(o, t).owners = o /\ Held(o, t).threshold = t
<1>1. Held(o, t).threshold = t /\ Refused.threshold = 0 /\ t # 0
  BY DEF Held, Refused
<1> QED
  BY <1>1 DEF Held

\* No calls leave the Safe as it is.
LEMMA NoCalls ==
    ASSUME NEW s PROVE Leads(s, <<>>, s)
<1> DEFINE R == [i \in 0 .. Len(<<>>) |-> s]
<1>1. Len(<<>>) = 0 /\ <<>> \in Seq({})
  OBVIOUS
<1>2. \A i \in 1 .. Len(<<>>) : OwnerCall(R[i - 1], <<>>[i]) = R[i]
  BY <1>1
<1>3. R[0] = s /\ R[Len(<<>>)] = s
  BY <1>1
<1> HIDE DEF R
<1> QED
  BY <1>1, <1>2, <1>3, RunOf

\* A threshold that the owners can meet is set.
LEMMA ThresholdRun ==
    ASSUME NEW M, NEW l \in Seq(M), NEW t \in Nat \ {0}, NEW u \in 1 .. Len(l)
    PROVE  /\ ChangeThreshold(u) \in Seq(Calls)
           /\ Leads(Held(l, t), ChangeThreshold(u), Held(l, u))
<1> DEFINE op == [call |-> "threshold", prev |-> Sentinel, owner |-> Sentinel, arg |-> u]
           R == [i \in 0 .. 1 |-> IF i = 0 THEN Held(l, t) ELSE Held(l, u)]
<1>0. u \in Nat /\ op \in Calls
  <2>1. u \in Nat
    OBVIOUS
  <2> QED
    BY <2>1 DEF Calls
<1>1. op.call = "threshold" /\ op.arg = u
  OBVIOUS
<1>2. Held(l, t) # Refused /\ Held(l, t).owners = l
  BY HeldIsNotRefused
<1> HIDE DEF op
<1>3. OwnerCall(Held(l, t), op) = WithThreshold(l, u)
  BY <1>1, <1>2 DEF OwnerCall
<1>4. WithThreshold(l, u) = Held(l, u)
  BY DEF WithThreshold, Held
<1>5. ChangeThreshold(u) = <<op>>
  BY DEF ChangeThreshold, op
<1>6. <<op>> \in Seq(Calls) /\ Len(<<op>>) = 1 /\ <<op>>[1] = op
  BY <1>0
<1>7. \A i \in 1 .. Len(<<op>>) : OwnerCall(R[i - 1], <<op>>[i]) = R[i]
  <2>1. R[0] = Held(l, t) /\ R[1] = Held(l, u)
    OBVIOUS
  <2>2. \A i \in 1 .. Len(<<op>>) : i = 1 /\ i - 1 = 0
    BY <1>6
  <2> HIDE DEF R
  <2> QED
    BY <1>3, <1>4, <1>6, <2>1, <2>2
<1>8. R[0] = Held(l, t) /\ R[1] = Held(l, u)
  OBVIOUS
<1> HIDE DEF R
<1> QED
  BY <1>5, <1>6, <1>7, <1>8, RunOf

\* The swaps of a plan all succeed, one after the other (plan_reconciliation, phase 2).
LEMMA SwapRun ==
    ASSUME NEW l, NEW out, NEW in, NEW k, Pairs(l, out, in, k), NEW t \in Nat \ {0}
    PROVE  /\ SwapOps(l, out, in, k) \in Seq(Calls)
           /\ Leads(Held(l, t), SwapOps(l, out, in, k), Held(Swapped(l, out, in, k), t))
<1> DEFINE ops == SwapOps(l, out, in, k)
           R == [i \in 0 .. k |-> Held(Swapped(l, out, in, i), t)]
<1>1. /\ l \in Seq(SafeMembers) /\ out \in Seq(SafeMembers) /\ in \in Seq(SafeMembers)
      /\ k \in Nat /\ k <= Len(out) /\ k <= Len(in)
  BY DEF Pairs
<1>2. \A i \in 1 .. k : i - 1 \in 0 .. k /\ i \in 0 .. k /\ i \in 1 .. Len(out) /\ i \in 1 .. Len(in)
  BY <1>1
<1>3. ASSUME NEW i \in 1 .. k
      PROVE  ops[i] \in Calls /\ OwnerCall(R[i - 1], ops[i]) = R[i]
  <2> DEFINE L == Swapped(l, out, in, i - 1)
  <2>1. /\ out[i] \in Range(L) /\ in[i] \notin Range(L)
        /\ Swapped(L, <<out[i]>>, <<in[i]>>, 1) = Swapped(l, out, in, i)
    BY SwapOne
  <2>2. L \in Seq(SafeMembers)
    BY <1>2, SwappedList
  <2>3. ops[i] = [call |-> "swap", prev |-> Before(L, l, out[i]), owner |-> out[i], arg |-> in[i]]
    BY DEF SwapOps
  <2>4. R[i - 1] = Held(L, t) /\ R[i] = Held(Swapped(l, out, in, i), t)
    BY <1>2
  <2> HIDE DEF L, ops, R
  <2>5. out[i] \in SafeMembers /\ in[i] \in SafeMembers /\ Before(L, l, out[i]) \in Prevs
    BY <1>1, <1>2, <2>1, <2>2, BeforeType, ElementOfSeq
  <2>6. ops[i] \in Calls
    BY <2>3, <2>5 DEF Calls
  <2>7. Held(L, t) # Refused /\ Held(L, t).owners = L
    BY HeldIsNotRefused
  <2>8. Follows(L, Before(L, l, out[i]), out[i])
    BY <2>1 DEF Follows, Before
  <2>9. /\ ops[i].call = "swap" /\ ops[i].prev = Before(L, l, out[i])
        /\ ops[i].owner = out[i] /\ ops[i].arg = in[i]
    BY <2>3
  <2>10. OwnerCall(Held(L, t), ops[i])
           = [Held(L, t) EXCEPT !.owners = Swapped(L, <<out[i]>>, <<in[i]>>, 1)]
    BY <2>1, <2>7, <2>8, <2>9 DEF OwnerCall
  <2>11. OwnerCall(Held(L, t), ops[i]) = Held(Swapped(l, out, in, i), t)
    BY <2>1, <2>10 DEF Held
  <2> QED
    BY <2>4, <2>6, <2>11
<1>4. ops \in Seq(Calls) /\ Len(ops) = k
  <2>1. ops = [i \in 1 .. k |-> ops[i]]
    BY DEF SwapOps
  <2> HIDE DEF ops
  <2>2. ops \in [1 .. k -> Calls]
    BY <1>3, <2>1
  <2> QED
    BY <1>1, <2>2
<1>5. R[0] = Held(l, t) /\ R[k] = Held(Swapped(l, out, in, k), t)
  <2>1. Swapped(l, out, in, 0) = l
    <3>1. \A j \in DOMAIN l : ~\E s \in 1 .. 0 : out[s] = l[j]
      OBVIOUS
    <3>2. l = [j \in DOMAIN l |-> l[j]]
      BY <1>1
    <3> QED
      BY <3>1, <3>2 DEF Swapped
  <2> QED
    BY <1>1, <2>1
<1> HIDE DEF ops, R
<1> QED
  BY <1>3, <1>4, <1>5, RunOf DEF ops

\* The list after the first i of more have been put in front.
Added(l, more, i) == [j \in 1 .. i + Len(l) |-> IF j <= i THEN more[i + 1 - j] ELSE l[j - i]]

\* What a list is after some additions, and who is in it.
LEMMA AddedList ==
    ASSUME NEW l \in Seq(SafeMembers), NEW more \in Seq(SafeMembers), NEW i \in 0 .. Len(more),
           IsInjective(l), IsInjective(more), Range(more) \cap Range(l) = {}
    PROVE  LET L == Added(l, more, i)
           IN  /\ L \in Seq(SafeMembers) /\ Len(L) = i + Len(l) /\ IsInjective(L)
               /\ Range(L) = {more[s] : s \in 1 .. i} \cup Range(l)
<1> DEFINE L == Added(l, more, i)
<1>1. /\ Len(l) \in Nat /\ Len(more) \in Nat /\ DOMAIN l = 1 .. Len(l)
      /\ DOMAIN more = 1 .. Len(more) /\ i \in Nat
      /\ \A j \in 1 .. Len(l) : l[j] \in SafeMembers
      /\ \A j \in 1 .. Len(more) : more[j] \in SafeMembers
  BY ElementOfSeq
<1>2. /\ \A a, b \in 1 .. Len(l) : l[a] = l[b] => a = b
      /\ \A a, b \in 1 .. Len(more) : more[a] = more[b] => a = b
  BY <1>1 DEF IsInjective
<1>3. \A a \in 1 .. Len(more), b \in 1 .. Len(l) : more[a] # l[b]
  <2>1. \A a \in 1 .. Len(more), b \in 1 .. Len(l) : more[a] \in Range(more) /\ l[b] \in Range(l)
    BY <1>1 DEF Range
  <2> QED
    BY <2>1
<1>4. \A j \in 1 .. i + Len(l) :
          \/ j <= i /\ i + 1 - j \in 1 .. i /\ i + 1 - j \in 1 .. Len(more) /\ L[j] = more[i + 1 - j]
          \/ j > i /\ j - i \in 1 .. Len(l) /\ L[j] = l[j - i]
  BY <1>1 DEF Added
<1>5. L = [j \in 1 .. i + Len(l) |-> L[j]]
  BY DEF Added
<1> HIDE DEF L
<1>6. \A j \in 1 .. i + Len(l) : L[j] \in SafeMembers
  BY <1>1, <1>4
<1>7. L \in Seq(SafeMembers) /\ Len(L) = i + Len(l) /\ DOMAIN L = 1 .. i + Len(l)
  <2>1. L \in [1 .. i + Len(l) -> SafeMembers] /\ i + Len(l) \in Nat
    BY <1>1, <1>5, <1>6
  <2> QED
    BY <2>1
<1>8. IsInjective(L)
  <2> SUFFICES ASSUME NEW a \in 1 .. i + Len(l), NEW b \in 1 .. i + Len(l), L[a] = L[b]
               PROVE  a = b
    BY <1>7 DEF IsInjective
  <2>1. CASE a <= i /\ b <= i
    <3>0. ~(a > i) /\ ~(b > i)
      BY <1>1, <2>1
    <3>1. i + 1 - a = i + 1 - b
      BY <1>2, <1>4, <3>0
    <3> QED
      BY <1>1, <3>1
  <2>2. CASE a > i /\ b > i
    <3>1. a - i = b - i
      BY <1>1, <1>2, <1>4, <2>2
    <3> QED
      BY <1>1, <3>1
  <2>3. CASE (a <= i /\ b > i) \/ (a > i /\ b <= i)
    BY <1>1, <1>3, <1>4, <2>3
  <2> QED
    BY <1>1, <2>1, <2>2, <2>3
<1>9. Range(L) = {more[s] : s \in 1 .. i} \cup Range(l)
  <2>1. ASSUME NEW x \in Range(L) PROVE x \in {more[s] : s \in 1 .. i} \cup Range(l)
    <3>1. PICK j \in 1 .. i + Len(l) : x = L[j]
      BY <1>7 DEF Range
    <3>2. \A b \in 1 .. Len(l) : l[b] \in Range(l)
      BY <1>1 DEF Range
    <3> QED
      BY <1>4, <3>1, <3>2
  <2>2. ASSUME NEW s \in 1 .. i PROVE more[s] \in Range(L)
    <3> DEFINE j == i + 1 - s
    <3>1. j \in 1 .. i + Len(l) /\ j <= i /\ i + 1 - j = s
      BY <1>1
    <3> HIDE DEF j
    <3>2. ~(j > i)
      BY <1>1, <3>1
    <3>3. L[j] = more[s]
      BY <1>4, <3>1, <3>2
    <3> QED
      BY <1>7, <3>1, <3>3 DEF Range
  <2>3. ASSUME NEW x \in Range(l) PROVE x \in Range(L)
    <3>1. PICK b \in 1 .. Len(l) : x = l[b]
      BY <1>1 DEF Range
    <3> DEFINE j == b + i
    <3>2. j \in 1 .. i + Len(l) /\ j > i /\ j - i = b
      BY <1>1
    <3> HIDE DEF j
    <3>3. L[j] = x
      BY <1>1, <1>4, <3>1, <3>2
    <3> QED
      BY <1>7, <3>2, <3>3 DEF Range
  <2> QED
    BY <2>1, <2>2, <2>3
<1> QED
  BY <1>7, <1>8, <1>9 DEF L

\* The additions of a plan all succeed (plan_reconciliation, phase 3).
LEMMA AddRun ==
    ASSUME NEW l \in Seq(SafeMembers), NEW more \in Seq(SafeMembers), NEW t \in 1 .. Len(l),
           IsInjective(l), IsInjective(more), Range(more) \cap Range(l) = {}
    PROVE  /\ AddOps(more, t) \in Seq(Calls)
           /\ Leads(Held(l, t), AddOps(more, t), Held(Added(l, more, Len(more)), t))
<1> DEFINE ops == AddOps(more, t)
           k == Len(more)
           R == [i \in 0 .. k |-> Held(Added(l, more, i), t)]
<1>1. /\ k \in Nat /\ Len(l) \in Nat /\ DOMAIN more = 1 .. k /\ t \in Nat \ {0} /\ t <= Len(l)
      /\ \A j \in 1 .. k : more[j] \in SafeMembers
      /\ \A a, b \in 1 .. k : more[a] = more[b] => a = b
  BY ElementOfSeq DEF IsInjective
<1> HIDE DEF k
<1>2. \A i \in 1 .. k : i - 1 \in 0 .. k /\ i \in 0 .. k
  BY <1>1
<1>3. ASSUME NEW i \in 1 .. k
      PROVE  ops[i] \in Calls /\ OwnerCall(R[i - 1], ops[i]) = R[i]
  <2> DEFINE L == Added(l, more, i - 1)
             N == Added(l, more, i)
  <2>1. /\ L \in Seq(SafeMembers) /\ Len(L) = i - 1 + Len(l)
        /\ Range(L) = {more[s] : s \in 1 .. i - 1} \cup Range(l)
        /\ N \in Seq(SafeMembers) /\ Len(N) = i + Len(l)
    BY <1>2, AddedList DEF k
  <2>2. ops[i] = [call |-> "add", prev |-> Sentinel, owner |-> more[i], arg |-> t]
    BY <1>1 DEF AddOps
  <2>3. R[i - 1] = Held(L, t) /\ R[i] = Held(N, t)
    BY <1>2
  <2>4. /\ \A j \in 1 .. i - 1 + Len(l) : L[j] = IF j <= i - 1 THEN more[i - j] ELSE l[j - (i - 1)]
        /\ \A j \in 1 .. i + Len(l) : N[j] = IF j <= i THEN more[i + 1 - j] ELSE l[j - i]
    <3>1. \A j \in 1 .. i - 1 + Len(l) : (i - 1) + 1 - j = i - j
      BY <1>1
    <3> QED
      BY <3>1 DEF Added
  <2> HIDE DEF L, N, ops, R
  <2>5. more[i] \notin Range(L)
    <3>1. \A s \in 1 .. i - 1 : s \in 1 .. k /\ s # i
      BY <1>1
    <3>2. more[i] \in Range(more)
      BY <1>1 DEF Range
    <3> QED
      BY <1>1, <2>1, <3>1, <3>2
  <2>6. <<more[i]>> \o L = N
    <3> DEFINE Z == <<more[i]>> \o L
    <3>0. <<more[i]>> \in Seq(SafeMembers) /\ Len(<<more[i]>>) = 1 /\ <<more[i]>>[1] = more[i]
      BY <1>1
    <3>1. /\ Z \in Seq(SafeMembers) /\ Len(Z) = 1 + Len(L)
          /\ Z[1] = more[i] /\ \A j \in 2 .. 1 + Len(L) : Z[j] = L[j - 1]
      BY <2>1, <3>0
    <3>2. Len(Z) = Len(N) /\ Len(Z) = i + Len(l)
      BY <1>1, <2>1, <3>1
    <3> HIDE DEF Z
    <3>3. ASSUME NEW j \in 1 .. i + Len(l) PROVE Z[j] = N[j]
      <4>1. CASE j = 1
        <5>1. 1 <= i /\ i + 1 - 1 = i
          BY <1>1
        <5> QED
          BY <2>4, <3>1, <4>1, <5>1
      <4>2. CASE j # 1
        <5>1. j \in 2 .. 1 + Len(L) /\ j - 1 \in 1 .. i - 1 + Len(l)
          BY <1>1, <2>1, <4>2
        <5>2. Z[j] = IF j - 1 <= i - 1 THEN more[i - (j - 1)] ELSE l[(j - 1) - (i - 1)]
          BY <2>4, <3>1, <5>1
        <5>3. (j - 1 <= i - 1) = (j <= i) /\ i - (j - 1) = i + 1 - j /\ (j - 1) - (i - 1) = j - i
          BY <1>1
        <5> QED
          BY <2>4, <5>2, <5>3
      <4> QED
        BY <4>1, <4>2
    <3>4. Z = N
      BY <2>1, <3>1, <3>2, <3>3, SeqEqual
    <3> QED
      BY <3>4 DEF Z
  <2>7. ops[i] \in Calls
    BY <1>1, <2>2 DEF Calls, Prevs
  <2>8. Held(L, t) # Refused /\ Held(L, t).owners = L
    BY <1>1, HeldIsNotRefused
  <2>9. ops[i].call = "add" /\ ops[i].owner = more[i] /\ ops[i].arg = t
    BY <2>2
  <2>10. OwnerCall(Held(L, t), ops[i]) = WithThreshold(N, t)
    BY <2>5, <2>6, <2>8, <2>9 DEF OwnerCall
  <2>11. t \in 1 .. Len(N)
    BY <1>1, <2>1
  <2>12. WithThreshold(N, t) = Held(N, t)
    BY <2>11 DEF WithThreshold, Held
  <2> QED
    BY <2>3, <2>7, <2>10, <2>12
<1>4. ops \in Seq(Calls) /\ Len(ops) = k
  <2>1. ops = [i \in 1 .. k |-> ops[i]]
    BY <1>1 DEF AddOps
  <2> HIDE DEF ops
  <2>2. ops \in [1 .. k -> Calls]
    BY <1>3, <2>1
  <2> QED
    BY <1>1, <2>2
<1>5. R[0] = Held(l, t) /\ R[k] = Held(Added(l, more, k), t)
  <2>1. Added(l, more, 0) = l
    <3>1. 0 + Len(l) = Len(l) /\ \A j \in 1 .. Len(l) : ~(j <= 0) /\ j - 0 = j
      BY <1>1
    <3>2. l = [j \in 1 .. Len(l) |-> l[j]]
      OBVIOUS
    <3> QED
      BY <3>1, <3>2 DEF Added
  <2> QED
    BY <1>1, <2>1
<1> HIDE DEF ops, R
<1> QED
  BY <1>3, <1>4, <1>5, RunOf DEF ops, k

\* Nothing gone, nothing changed.
LEMMA ShrunkByNone ==
    ASSUME NEW M, NEW l \in Seq(M) PROVE Shrunk(l, {}) = l
<1> DEFINE P == KeptAt(l, {})
           f == [i \in 1 .. Len(l) |-> i]
<1>1. Len(l) \in Nat /\ DOMAIN l = 1 .. Len(l)
  OBVIOUS
<1>2. P = 1 .. Len(l) /\ P \in SUBSET Nat /\ IsFiniteSet(P)
  <2>1. P = 1 .. Len(l)
    BY <1>1 DEF KeptAt
  <2> QED
    BY <2>1, KeptFinite
<1> HIDE DEF P
<1>3. /\ f \in [1 .. Len(l) -> P] /\ \A i, j \in 1 .. Len(l) : i < j => f[i] < f[j]
      /\ \A m \in P : \E i \in 1 .. Len(l) : f[i] = m
  BY <1>2
<1> HIDE DEF f
<1>4. Len(l) = Cardinality(P) /\ f = Ascending(P)
  BY <1>1, <1>2, <1>3, AscendingOnly
<1>5. Shrunk(l, {}) = [i \in 1 .. Cardinality(P) |-> l[Ascending(P)[i]]]
  BY ShrunkIs DEF P
<1>6. \A i \in 1 .. Len(l) : Ascending(P)[i] = i
  BY <1>4 DEF f
<1>7. l = [i \in 1 .. Len(l) |-> l[i]]
  OBVIOUS
<1> QED
  BY <1>4, <1>5, <1>6, <1>7

\* The removals of a plan all succeed while the threshold leaves room
\* (plan_reconciliation, phase 4): each names the owner before it in the list that the
\* earlier removals have left.
LEMMA RemoveRun ==
    ASSUME NEW l \in Seq(SafeMembers), NEW less \in Seq(SafeMembers), NEW t \in Nat \ {0},
           IsInjective(l), IsInjective(less), Range(less) \subseteq Range(l),
           less = <<>> \/ Len(l) - Len(less) >= t
    PROVE  /\ RemoveOps(l, less, t) \in Seq(Calls)
           /\ Leads(Held(l, t), RemoveOps(l, less, t), Held(Shrunk(l, Range(less)), t))
<1> DEFINE ops == RemoveOps(l, less, t)
           k == Len(less)
           G(i) == {less[j] : j \in 1 .. i}
           R == [i \in 0 .. k |-> Held(Shrunk(l, G(i)), t)]
<1>1. /\ k \in Nat /\ Len(l) \in Nat /\ DOMAIN less = 1 .. k
      /\ \A j \in 1 .. k : less[j] \in SafeMembers
      /\ \A a, b \in 1 .. k : less[a] = less[b] => a = b
      /\ k # 0 => Len(l) - k >= t
  <2>1. less = <<>> => k = 0
    OBVIOUS
  <2> QED
    BY <2>1, ElementOfSeq DEF IsInjective
<1> HIDE DEF k
<1>2. \A i \in 1 .. k : i - 1 \in 0 .. k /\ i \in 0 .. k
  BY <1>1
<1>3. ASSUME NEW i \in 0 .. k
      PROVE  LET L == Shrunk(l, G(i))
             IN  /\ L \in Seq(SafeMembers) /\ IsInjective(L) /\ Range(L) = Range(l) \ G(i)
                 /\ Len(L) = Len(l) - i
  <2> DEFINE L == Shrunk(l, G(i))
             g == [j \in 1 .. i |-> less[j]]
  <2>1. L \in Seq(SafeMembers) /\ IsInjective(L) /\ Range(L) = Range(l) \ G(i)
    BY ShrunkKeeps
  <2>2. /\ IsFiniteSet(Range(l)) /\ Cardinality(Range(l)) = Len(l)
        /\ Cardinality(Range(L)) = Len(L)
    BY <2>1, LengthOfOnce
  <2>3. \A j \in 1 .. i : j \in 1 .. k
    BY <1>1
  <2>4. IsFiniteSet(G(i)) /\ Cardinality(G(i)) = i
    <3>1. g \in [1 .. i -> G(i)] /\ (\A a, b \in 1 .. i : g[a] = g[b] => a = b)
          /\ \A x \in G(i) : \E j \in 1 .. i : g[j] = x
      BY <1>1, <2>3
    <3> HIDE DEF g, G
    <3>2. g \in Bijection(1 .. i, G(i))
      BY <3>1 DEF Bijection, Injection, Surjection, IsInjective
    <3>3. 1 \in Int /\ i \in Int
      BY <1>1
    <3>4. IsFiniteSet(1 .. i) /\ Cardinality(1 .. i) = IF 1 > i THEN 0 ELSE i - 1 + 1
      BY <3>3, FS_Interval
    <3>5. Cardinality(1 .. i) = i
      BY <1>1, <3>4
    <3> QED
      BY <3>2, <3>4, <3>5, FS_Bijection DEF ExistsBijection
  <2>5. G(i) \subseteq Range(l)
    <3>1. \A j \in 1 .. i : less[j] \in Range(less)
      BY <1>1, <2>3 DEF Range
    <3> QED
      BY <3>1
  <2> HIDE DEF G, L
  <2>6. Range(l) \cap G(i) = G(i)
    BY <2>5
  <2>7. Cardinality(Range(l) \ G(i)) = Len(l) - i
    <3>1. Cardinality(Range(l) \ G(i)) = Cardinality(Range(l)) - Cardinality(Range(l) \cap G(i))
      BY <2>2, FS_Difference
    <3> QED
      BY <2>2, <2>4, <2>6, <3>1
  <2> QED
    BY <2>1, <2>2, <2>7 DEF L
<1>4. ASSUME NEW i \in 1 .. k
      PROVE  ops[i] \in Calls /\ OwnerCall(R[i - 1], ops[i]) = R[i]
  <2> DEFINE L == Shrunk(l, G(i - 1))
             N == Shrunk(l, G(i))
  <2>1. /\ L \in Seq(SafeMembers) /\ IsInjective(L) /\ Range(L) = Range(l) \ G(i - 1)
        /\ Len(L) = Len(l) - (i - 1) /\ N \in Seq(SafeMembers) /\ Len(N) = Len(l) - i
    BY <1>2, <1>3
  <2>2. ops[i] = [call |-> "remove", prev |-> Before(L, l, less[i]), owner |-> less[i], arg |-> t]
    BY <1>1 DEF RemoveOps
  <2>3. R[i - 1] = Held(L, t) /\ R[i] = Held(N, t)
    BY <1>2
  <2>4. G(i - 1) \cup {less[i]} = G(i)
    <3>1. \A j \in 1 .. i : j = i \/ j \in 1 .. i - 1
      BY <1>1
    <3>2. i \in 1 .. i /\ \A j \in 1 .. i - 1 : j \in 1 .. i
      BY <1>1
    <3> QED
      BY <3>1, <3>2
  <2>5. less[i] \in Range(L)
    <3>1. less[i] \in Range(less)
      BY <1>1 DEF Range
    <3>2. less[i] \notin G(i - 1)
      <4>1. \A s \in 1 .. i - 1 : s \in 1 .. k /\ s # i
        BY <1>1
      <4> QED
        BY <1>1, <4>1
    <3> QED
      BY <2>1, <3>1, <3>2
  <2>6. Shrunk(L, {less[i]}) = N
    <3>1. Shrunk(Shrunk(l, G(i - 1)), {less[i]}) = Shrunk(l, G(i - 1) \cup {less[i]})
      BY ShrunkTwice
    <3> QED
      BY <2>4, <3>1
  <2> HIDE DEF L, N, ops, R, G
  <2>7. less[i] \in SafeMembers /\ Before(L, l, less[i]) \in Prevs
    BY <1>1, <2>1, <2>5, BeforeType
  <2>8. ops[i] \in Calls
    BY <1>1, <2>2, <2>7 DEF Calls
  <2>9. Held(L, t) # Refused /\ Held(L, t).owners = L
    BY HeldIsNotRefused
  <2>10. Follows(L, Before(L, l, less[i]), less[i])
    BY <2>5 DEF Follows, Before
  <2>11. /\ ops[i].call = "remove" /\ ops[i].prev = Before(L, l, less[i])
         /\ ops[i].owner = less[i] /\ ops[i].arg = t
    BY <2>2
  <2>12. Len(L) - 1 >= t /\ t \in 1 .. Len(N)
    BY <1>1, <2>1
  <2>13. OwnerCall(Held(L, t), ops[i]) = WithThreshold(N, t)
    BY <2>6, <2>9, <2>10, <2>11, <2>12 DEF OwnerCall
  <2>14. WithThreshold(N, t) = Held(N, t)
    BY <2>12 DEF WithThreshold, Held
  <2> QED
    BY <2>3, <2>8, <2>13, <2>14
<1>5. ops \in Seq(Calls) /\ Len(ops) = k
  <2>1. ops = [i \in 1 .. k |-> ops[i]]
    BY <1>1 DEF RemoveOps
  <2> HIDE DEF ops
  <2>2. ops \in [1 .. k -> Calls]
    BY <1>4, <2>1
  <2> QED
    BY <1>1, <2>2
<1>6. R[0] = Held(l, t) /\ R[k] = Held(Shrunk(l, Range(less)), t)
  <2>1. G(0) = {} /\ G(k) = Range(less)
    BY <1>1 DEF Range
  <2>2. Shrunk(l, {}) = l
    BY ShrunkByNone
  <2> HIDE DEF G
  <2> QED
    BY <1>1, <2>1, <2>2
<1> HIDE DEF ops, R
<1> QED
  BY <1>4, <1>5, <1>6, RunOf DEF ops

\* The owners that come and the ones that go, of two lists without repetitions.
LEMMA InAndOut ==
    ASSUME NEW owners \in Seq(SafeMembers), NEW want \in Seq(SafeMembers),
           IsInjective(owners), IsInjective(want)
    PROVE  LET in == Shrunk(want, Range(owners))
               out == Shrunk(owners, Range(want))
           IN  /\ in \in Seq(SafeMembers) /\ IsInjective(in) /\ Range(in) = Range(want) \ Range(owners)
               /\ out \in Seq(SafeMembers) /\ IsInjective(out) /\ Range(out) = Range(owners) \ Range(want)
               /\ Len(owners) - Len(out) + Len(in) = Len(want)
<1> DEFINE in == Shrunk(want, Range(owners))
           out == Shrunk(owners, Range(want))
           O == Range(owners)
           W == Range(want)
<1>1. /\ in \in Seq(SafeMembers) /\ IsInjective(in) /\ Range(in) = W \ O
      /\ out \in Seq(SafeMembers) /\ IsInjective(out) /\ Range(out) = O \ W
  BY ShrunkKeeps
<1>2. /\ IsFiniteSet(O) /\ Cardinality(O) = Len(owners) /\ IsFiniteSet(W)
      /\ Cardinality(W) = Len(want) /\ Cardinality(W \ O) = Len(in) /\ Cardinality(O \ W) = Len(out)
  <2> HIDE DEF in, out
  <2>1. /\ IsFiniteSet(Range(owners)) /\ Cardinality(Range(owners)) = Len(owners)
        /\ IsFiniteSet(Range(want)) /\ Cardinality(Range(want)) = Len(want)
    BY LengthOfOnce
  <2>2. Cardinality(Range(in)) = Len(in) /\ Cardinality(Range(out)) = Len(out)
    BY <1>1, LengthOfOnce
  <2> QED
    BY <1>1, <2>1, <2>2
<1>3. Len(owners) \in Nat /\ Len(want) \in Nat /\ Len(in) \in Nat /\ Len(out) \in Nat
  BY <1>1
<1> HIDE DEF in, out, O, W
<1>4. /\ Cardinality(O \ W) = Cardinality(O) - Cardinality(O \cap W)
      /\ Cardinality(W \ O) = Cardinality(W) - Cardinality(W \cap O)
  BY <1>2, FS_Difference
<1>5. O \cap W = W \cap O /\ Cardinality(O \cap W) \in Nat
  BY <1>2, FS_Intersection, FS_CardinalityType
<1>6. Len(owners) - Len(out) + Len(in) = Len(want)
  <2>1. PICK c \in Nat : c = Cardinality(O \cap W) /\ c = Cardinality(W \cap O)
    BY <1>5
  <2>2. Len(out) = Len(owners) - c /\ Len(in) = Len(want) - c
    BY <1>2, <1>4, <2>1
  <2> QED
    BY <1>3, <2>2
<1> QED
  BY <1>1, <1>6 DEF in, out, O, W

\* A part of a list without repetitions is one.
LEMMA PartOfOnce ==
    ASSUME NEW s \in Seq(SafeMembers), IsInjective(s), NEW k \in 0 .. Len(s)
    PROVE  LET r == SubSeq(s, k + 1, Len(s))
           IN  /\ r \in Seq(SafeMembers) /\ IsInjective(r) /\ Len(r) = Len(s) - k
               /\ Range(r) = Range(s) \ {s[i] : i \in 1 .. k}
<1> DEFINE r == SubSeq(s, k + 1, Len(s))
<1>1. Len(s) \in Nat /\ k \in Nat /\ k <= Len(s) /\ DOMAIN s = 1 .. Len(s)
      /\ \A a, b \in 1 .. Len(s) : s[a] = s[b] => a = b
  BY DEF IsInjective
<1>2. /\ r \in Seq(SafeMembers) /\ Len(r) = Len(s) - k
      /\ \A i \in 1 .. Len(s) - k : r[i] = s[k + i]
  <2>1. k + 1 \in 1 .. Len(s) + 1 /\ Len(s) \in k .. Len(s) + 1 /\ k + 1 - 1 = k
    BY <1>1
  <2>2. /\ r \in Seq(SafeMembers)
        /\ Len(r) = IF k + 1 <= Len(s) THEN Len(s) - (k + 1) + 1 ELSE 0
        /\ \A i \in 1 .. Len(s) - (k + 1) + 1 : r[i] = s[k + 1 + i - 1]
    <3>1. \A i \in k + 1 .. Len(s) : s[i] \in SafeMembers
      BY <1>1, ElementOfSeq
    <3> QED
      BY <1>1, <3>1
  <2>3. Len(s) - (k + 1) + 1 = Len(s) - k /\ \A i \in 1 .. Len(s) - k : k + 1 + i - 1 = k + i
    BY <1>1
  <2> HIDE DEF r
  <2>4. Len(r) = Len(s) - k
    <3>1. CASE k + 1 <= Len(s)
      BY <1>1, <2>2, <2>3, <3>1
    <3>2. CASE ~(k + 1 <= Len(s))
      <4>1. Len(r) = 0
        BY <2>2, <3>2
      <4>2. k = Len(s)
        <5>1. \A x, y \in Nat : x <= y /\ ~(x + 1 <= y) => x = y
          OBVIOUS
        <5>2. k \in Nat /\ Len(s) \in Nat /\ k <= Len(s)
          BY <1>1
        <5> QED
          BY <3>2, <5>1, <5>2
      <4> QED
        BY <1>1, <4>1, <4>2
    <3> QED
      BY <3>1, <3>2
  <2>5. \A i \in 1 .. Len(s) - k : r[i] = s[k + i]
    <3> TAKE i \in 1 .. Len(s) - k
    <3>1. i \in 1 .. Len(s) - (k + 1) + 1 /\ k + 1 + i - 1 = k + i
      BY <2>3
    <3> QED
      BY <2>2, <3>1
  <2> QED
    BY <2>2, <2>4, <2>5
<1> HIDE DEF r
<1>3. DOMAIN r = 1 .. Len(s) - k
  BY <1>2
<1>4. \A i \in 1 .. Len(s) - k : k + i \in 1 .. Len(s)
  BY <1>1
<1>5. IsInjective(r)
  <2> SUFFICES ASSUME NEW a \in 1 .. Len(s) - k, NEW b \in 1 .. Len(s) - k, r[a] = r[b]
               PROVE  a = b
    BY <1>3 DEF IsInjective
  <2>1. k + a = k + b
    BY <1>1, <1>2, <1>4
  <2> QED
    BY <1>1, <2>1
<1>6. Range(r) = Range(s) \ {s[i] : i \in 1 .. k}
  <2>1. ASSUME NEW x \in Range(r) PROVE x \in Range(s) \ {s[i] : i \in 1 .. k}
    <3>1. PICK a \in 1 .. Len(s) - k : x = r[a]
      BY <1>3 DEF Range
    <3>2. x = s[k + a] /\ k + a \in 1 .. Len(s)
      BY <1>2, <1>4, <3>1
    <3>3. \A i \in 1 .. k : i \in 1 .. Len(s) /\ i # k + a
      BY <1>1
    <3>4. x \in Range(s)
      BY <1>1, <3>2 DEF Range
    <3> QED
      BY <1>1, <3>2, <3>3, <3>4
  <2>2. ASSUME NEW x \in Range(s) \ {s[i] : i \in 1 .. k} PROVE x \in Range(r)
    <3>1. PICK b \in 1 .. Len(s) : x = s[b]
      BY <1>1 DEF Range
    <3>2. b \notin 1 .. k
      BY <3>1
    <3>3. b - k \in 1 .. Len(s) - k /\ k + (b - k) = b
      BY <1>1, <3>2
    <3>4. r[b - k] = x
      BY <1>2, <3>1, <3>3
    <3> QED
      BY <1>3, <3>3, <3>4 DEF Range
  <2> QED
    BY <2>1, <2>2
<1> QED
  BY <1>2, <1>5, <1>6 DEF r

\* What a plan is made of: the owners that come and go, how many are swapped, the list
\* after that, the rest on either side and the threshold meanwhile.
PlanParts(owners, threshold, want, goal, in, out, k, working, list, more, less) ==
    /\ in = Shrunk(want, Range(owners)) /\ out = Shrunk(owners, Range(want))
    /\ k = (IF Len(in) < Len(out) THEN Len(in) ELSE Len(out))
    /\ working = (IF goal < threshold THEN goal ELSE threshold)
    /\ list = Swapped(owners, out, in, k)
    /\ more = SubSeq(in, k + 1, Len(in)) /\ less = SubSeq(out, k + 1, Len(out))

\* A plan, phase by phase.
LEMMA PlanIs ==
    ASSUME NEW owners, NEW threshold, NEW want, NEW goal, NEW in, NEW out, NEW k, NEW working,
           NEW list, NEW more, NEW less,
           PlanParts(owners, threshold, want, goal, in, out, k, working, list, more, less)
    PROVE  LET plan == PlanReconciliation(owners, threshold, want, goal)
           IN  /\ plan.ok = (goal \in 1 .. Len(want)
                                /\ (less = <<>> \/ Len(list) - Len(less) >= working))
               /\ plan.ops = (IF goal < threshold THEN ChangeThreshold(goal) ELSE <<>>)
                               \o SwapOps(owners, out, in, k) \o AddOps(more, working)
                               \o RemoveOps(list, less, working)
                               \o (IF goal > threshold THEN ChangeThreshold(goal) ELSE <<>>)
BY DEF PlanParts, PlanReconciliation

\* The parts: one of more and less is empty, and the list has left to lose what less
\* names and to gain what more names.
LEMMA PartsFit ==
    ASSUME NEW owners \in Seq(SafeMembers), NEW want \in Seq(SafeMembers),
           IsInjective(owners), IsInjective(want), NEW threshold, NEW goal,
           NEW in, NEW out, NEW k, NEW working, NEW list, NEW more, NEW less,
           PlanParts(owners, threshold, want, goal, in, out, k, working, list, more, less)
    PROVE  /\ Pairs(owners, out, in, k)
           /\ list \in Seq(SafeMembers) /\ IsInjective(list) /\ Len(list) = Len(owners)
           /\ more \in Seq(SafeMembers) /\ IsInjective(more) /\ Range(more) \cap Range(list) = {}
           /\ less \in Seq(SafeMembers) /\ IsInjective(less) /\ Range(less) \subseteq Range(list)
           /\ more = <<>> \/ less = <<>>
           /\ (Range(list) \ Range(less)) \cup Range(more) = Range(want)
           /\ less # <<>> => Len(list) - Len(less) = Len(want)
<1> DEFINE O == Range(owners)
           W == Range(want)
           C == {in[s] : s \in 1 .. k}
           G == {out[s] : s \in 1 .. k}
<1>1. /\ in \in Seq(SafeMembers) /\ IsInjective(in) /\ Range(in) = W \ O
      /\ out \in Seq(SafeMembers) /\ IsInjective(out) /\ Range(out) = O \ W
      /\ Len(owners) - Len(out) + Len(in) = Len(want)
  BY InAndOut DEF PlanParts
<1>2. Len(in) \in Nat /\ Len(out) \in Nat /\ k = IF Len(in) < Len(out) THEN Len(in) ELSE Len(out)
  BY <1>1 DEF PlanParts
<1>3. k \in Nat /\ k <= Len(in) /\ k <= Len(out) /\ k \in 0 .. Len(in) /\ k \in 0 .. Len(out)
      /\ k \in 0 .. k /\ (k = Len(in) \/ k = Len(out))
  BY <1>2
<1>4. Pairs(owners, out, in, k)
  BY <1>1, <1>3 DEF Pairs
<1>5. /\ list \in Seq(SafeMembers) /\ Len(list) = Len(owners) /\ IsInjective(list)
      /\ Range(list) = (O \ G) \cup C
  <2>1. list = Swapped(owners, out, in, k)
    BY DEF PlanParts
  <2>2. LET L == Swapped(owners, out, in, k)
        IN  /\ L \in Seq(SafeMembers) /\ Len(L) = Len(owners) /\ IsInjective(L)
            /\ Range(L) = (Range(owners) \ {out[s] : s \in 1 .. k}) \cup {in[s] : s \in 1 .. k}
    BY <1>3, <1>4, SwappedList
  <2> QED
    BY <2>1, <2>2
<1>6. /\ more \in Seq(SafeMembers) /\ IsInjective(more) /\ Len(more) = Len(in) - k
      /\ Range(more) = Range(in) \ C
  BY <1>1, <1>3, PartOfOnce DEF PlanParts
<1>7. /\ less \in Seq(SafeMembers) /\ IsInjective(less) /\ Len(less) = Len(out) - k
      /\ Range(less) = Range(out) \ G
  BY <1>1, <1>3, PartOfOnce DEF PlanParts
<1>8. C \subseteq Range(in) /\ G \subseteq Range(out)
  <2>1. \A s \in 1 .. k : s \in DOMAIN in /\ s \in DOMAIN out
    BY <1>1, <1>3
  <2> QED
    BY <2>1 DEF Range
<1> HIDE DEF C, G, O, W
<1>9. /\ Range(more) \cap Range(list) = {} /\ Range(less) \subseteq Range(list)
      /\ (Range(list) \ Range(less)) \cup Range(more) = W
  BY <1>1, <1>5, <1>6, <1>7, <1>8
<1>10. more = <<>> \/ less = <<>>
  <2>1. Len(more) = 0 => more = <<>>
    BY <1>6
  <2>2. Len(less) = 0 => less = <<>>
    BY <1>7
  <2> QED
    BY <1>2, <1>3, <1>6, <1>7, <2>1, <2>2
<1>11. less # <<>> => Len(list) - Len(less) = Len(want)
  <2>1. Len(less) = 0 => less = <<>>
    BY <1>7
  <2>2. SUFFICES ASSUME Len(less) # 0 PROVE Len(list) - Len(less) = Len(want)
    BY <2>1
  <2>3. k = Len(in)
    BY <1>2, <1>3, <1>7, <2>2
  <2>4. Len(owners) \in Nat /\ Len(want) \in Nat
    OBVIOUS
  <2> QED
    BY <1>1, <1>2, <1>5, <1>7, <2>3, <2>4
<1> QED
  BY <1>4, <1>5, <1>6, <1>7, <1>9, <1>10, <1>11 DEF W

\* Every plan is a sequence of calls, whatever the threshold.
LEMMA AddType ==
    ASSUME NEW more \in Seq(SafeMembers), NEW t \in Nat
    PROVE  AddOps(more, t) \in Seq(Calls)
<1>1. DOMAIN more = 1 .. Len(more) /\ Len(more) \in Nat /\ \A i \in 1 .. Len(more) : more[i] \in SafeMembers
  BY ElementOfSeq
<1>2. \A i \in 1 .. Len(more) :
          [call |-> "add", prev |-> Sentinel, owner |-> more[i], arg |-> t] \in Calls
  BY <1>1 DEF Calls, Prevs
<1>3. AddOps(more, t) \in [1 .. Len(more) -> Calls]
  BY <1>1, <1>2 DEF AddOps
<1> QED
  BY <1>1, <1>3

\* The removals are calls.
LEMMA RemoveType ==
    ASSUME NEW l \in Seq(SafeMembers), NEW less \in Seq(SafeMembers), NEW t \in Nat,
           IsInjective(less), Range(less) \subseteq Range(l)
    PROVE  RemoveOps(l, less, t) \in Seq(Calls)
<1>1. /\ DOMAIN less = 1 .. Len(less) /\ Len(less) \in Nat
      /\ \A i \in 1 .. Len(less) : less[i] \in SafeMembers
  BY ElementOfSeq
<1>2. ASSUME NEW i \in 1 .. Len(less)
      PROVE  Before(Shrunk(l, {less[j] : j \in 1 .. i - 1}), l, less[i]) \in Prevs
  <2> DEFINE G == {less[j] : j \in 1 .. i - 1}
  <2>1. Shrunk(l, G) \in Seq(SafeMembers) /\ Range(Shrunk(l, G)) = Range(l) \ G
    BY ShrunkKeeps
  <2>2. less[i] \in Range(less)
    BY <1>1 DEF Range
  <2>3. less[i] \notin G
    <3>1. \A j \in 1 .. i - 1 : j \in DOMAIN less /\ j # i
      BY <1>1
    <3>2. i \in DOMAIN less
      BY <1>1
    <3> QED
      BY <3>1, <3>2 DEF IsInjective
  <2> HIDE DEF G
  <2>4. Before(Shrunk(l, G), l, less[i]) \in Prevs
    BY <2>1, <2>2, <2>3, BeforeType
  <2> QED
    BY <2>4 DEF G
<1>3. \A i \in 1 .. Len(less) :
          [call |-> "remove", prev |-> Before(Shrunk(l, {less[j] : j \in 1 .. i - 1}), l, less[i]),
           owner |-> less[i], arg |-> t] \in Calls
  BY <1>1, <1>2 DEF Calls
<1>4. RemoveOps(l, less, t) \in [1 .. Len(less) -> Calls]
  BY <1>1, <1>3 DEF RemoveOps
<1> QED
  BY <1>1, <1>4

\* The parts of a plan exist.
LEMMA PartsExist ==
    ASSUME NEW owners, NEW threshold, NEW want, NEW goal
    PROVE  \E in, out, k, working, list, more, less :
              PlanParts(owners, threshold, want, goal, in, out, k, working, list, more, less)
BY DEF PlanParts

\* Five sequences in a row are a sequence.
LEMMA FiveParts ==
    ASSUME NEW X, NEW a \in Seq(X), NEW b \in Seq(X), NEW c \in Seq(X), NEW d \in Seq(X), NEW e \in Seq(X)
    PROVE  a \o b \in Seq(X) /\ a \o b \o c \in Seq(X) /\ a \o b \o c \o d \in Seq(X)
           /\ a \o b \o c \o d \o e \in Seq(X)
OBVIOUS

\* A plan is a sequence of calls.
LEMMA PlanType ==
    ASSUME NEW owners \in Seq(SafeMembers), NEW want \in Seq(SafeMembers),
           IsInjective(owners), IsInjective(want), NEW threshold \in Nat, NEW goal \in Nat
    PROVE  PlanReconciliation(owners, threshold, want, goal).ops \in Seq(Calls)
<1>1. PICK in, out, k, working, list, more, less :
          PlanParts(owners, threshold, want, goal, in, out, k, working, list, more, less)
  BY PartsExist
<1> DEFINE a == IF goal < threshold THEN ChangeThreshold(goal) ELSE <<>>
           e == IF goal > threshold THEN ChangeThreshold(goal) ELSE <<>>
           plan == PlanReconciliation(owners, threshold, want, goal)
<1>2. /\ Pairs(owners, out, in, k) /\ list \in Seq(SafeMembers)
      /\ more \in Seq(SafeMembers) /\ less \in Seq(SafeMembers) /\ IsInjective(less)
      /\ Range(less) \subseteq Range(list)
  BY <1>1, PartsFit
<1>3. working \in Nat
  BY <1>1 DEF PlanParts
<1>4. ChangeThreshold(goal) \in Seq(Calls)
  <2>1. [call |-> "threshold", prev |-> Sentinel, owner |-> Sentinel, arg |-> goal] \in Calls
    BY DEF Calls
  <2> QED
    BY <2>1 DEF ChangeThreshold
<1>5. a \in Seq(Calls) /\ e \in Seq(Calls)
  BY <1>4
<1>6. SwapOps(owners, out, in, k) \in Seq(Calls)
  <2>1. 1 \in Nat \ {0}
    OBVIOUS
  <2> QED
    BY <1>2, <2>1, SwapRun
<1>7. AddOps(more, working) \in Seq(Calls) /\ RemoveOps(list, less, working) \in Seq(Calls)
  BY <1>2, <1>3, AddType, RemoveType
<1>8. plan.ops = a \o SwapOps(owners, out, in, k) \o AddOps(more, working)
                   \o RemoveOps(list, less, working) \o e
  BY <1>1 DEF PlanParts, PlanReconciliation
<1> HIDE DEF a, e, plan
<1>9. plan.ops \in Seq(Calls)
  BY <1>5, <1>6, <1>7, <1>8, FiveParts
<1> QED
  BY <1>9 DEF plan

\* Concatenation is associative.
LEMMA Regroup ==
    ASSUME NEW X, NEW p \in Seq(X), NEW q \in Seq(X), NEW r \in Seq(X)
    PROVE  p \o (q \o r) = (p \o q) \o r
<1> DEFINE m == p \o (q \o r)
           n == (p \o q) \o r
<1>0. Len(p) \in Nat /\ Len(q) \in Nat /\ Len(r) \in Nat
  OBVIOUS
<1>1. q \o r \in Seq(X) /\ p \o q \in Seq(X) /\ Len(q \o r) = Len(q) + Len(r)
      /\ Len(p \o q) = Len(p) + Len(q)
  OBVIOUS
<1>2. m \in Seq(X) /\ Len(m) = Len(p) + (Len(q) + Len(r)) /\ n \in Seq(X)
      /\ Len(n) = Len(p) + Len(q) + Len(r)
  BY <1>1
<1>3. ASSUME NEW i \in 1 .. Len(m) PROVE m[i] = n[i]
  <2>1. CASE i <= Len(p)
    BY <1>0, <1>1, <1>2, <2>1
  <2>2. CASE i > Len(p) /\ i <= Len(p) + Len(q)
    BY <1>0, <1>1, <1>2, <2>2
  <2>3. CASE i > Len(p) + Len(q)
    BY <1>0, <1>1, <1>2, <2>3
  <2> QED
    BY <1>0, <1>2, <2>1, <2>2, <2>3
<1>4. Len(m) = Len(n)
  BY <1>0, <1>2
<1> HIDE DEF m, n
<1>5. m = n
  BY <1>2, <1>3, <1>4, SeqEqual
<1> QED
  BY <1>5 DEF m, n

\* The heart of the matter: a plan from owners without repetitions and a threshold they
\* meet, to members and a threshold they meet, is accepted call by call.
LEMMA PlanRuns ==
    ASSUME NEW owners \in Seq(SafeMembers), NEW want \in Seq(SafeMembers),
           IsInjective(owners), IsInjective(want),
           NEW threshold \in 1 .. Len(owners), NEW goal \in 1 .. Len(want)
    PROVE  LET plan == PlanReconciliation(owners, threshold, want, goal)
           IN  /\ plan.ok
               /\ \E f : /\ AfterCalls(Held(owners, threshold), plan.ops) = Held(f, goal)
                         /\ Range(f) = Range(want)
<1>1. PICK in, out, k, working, list, more, less :
          PlanParts(owners, threshold, want, goal, in, out, k, working, list, more, less)
  BY PartsExist
<1> DEFINE a == IF goal < threshold THEN ChangeThreshold(goal) ELSE <<>>
           b == SwapOps(owners, out, in, k)
           c == AddOps(more, working)
           d == RemoveOps(list, less, working)
           e == IF goal > threshold THEN ChangeThreshold(goal) ELSE <<>>
           plan == PlanReconciliation(owners, threshold, want, goal)
           f == IF less = <<>> THEN Added(list, more, Len(more)) ELSE Shrunk(list, Range(less))
<1>2. /\ Pairs(owners, out, in, k)
      /\ list \in Seq(SafeMembers) /\ IsInjective(list) /\ Len(list) = Len(owners)
      /\ more \in Seq(SafeMembers) /\ IsInjective(more) /\ Range(more) \cap Range(list) = {}
      /\ less \in Seq(SafeMembers) /\ IsInjective(less) /\ Range(less) \subseteq Range(list)
      /\ more = <<>> \/ less = <<>>
      /\ (Range(list) \ Range(less)) \cup Range(more) = Range(want)
      /\ less # <<>> => Len(list) - Len(less) = Len(want)
  BY <1>1, PartsFit
<1>3. /\ Len(owners) \in Nat /\ Len(want) \in Nat /\ threshold \in Nat \ {0} /\ goal \in Nat \ {0}
      /\ threshold <= Len(owners) /\ goal <= Len(want)
  OBVIOUS
<1>4. /\ working = (IF goal < threshold THEN goal ELSE threshold)
      /\ list = Swapped(owners, out, in, k)
  BY <1>1 DEF PlanParts
<1>5. working \in Nat \ {0} /\ working \in 1 .. Len(list) /\ working <= goal
      /\ working \in 1 .. Len(owners)
  BY <1>2, <1>3, <1>4
<1>6. less = <<>> \/ Len(list) - Len(less) >= working
  BY <1>2, <1>3, <1>5
<1>7. plan.ok /\ plan.ops = a \o b \o c \o d \o e
  BY <1>1, <1>6, PlanIs
<1>8. a \in Seq(Calls) /\ Leads(Held(owners, threshold), a, Held(owners, working))
  <2>1. CASE goal < threshold
    <3>1. a = ChangeThreshold(working) /\ working = goal
      BY <1>4, <2>1
    <3> QED
      BY <1>3, <1>5, <3>1, ThresholdRun
  <2>2. CASE ~(goal < threshold)
    BY <1>4, <2>2, NoCalls
  <2> QED
    BY <2>1, <2>2
<1>9. b \in Seq(Calls) /\ Leads(Held(owners, working), b, Held(list, working))
  BY <1>2, <1>4, <1>5, SwapRun
<1>10. c \in Seq(Calls) /\ Leads(Held(list, working), c, Held(Added(list, more, Len(more)), working))
  BY <1>2, <1>5, AddRun
<1>11. d \in Seq(Calls) /\ Leads(Held(list, working), d, Held(Shrunk(list, Range(less)), working))
  BY <1>2, <1>5, <1>6, RemoveRun
<1>12. Leads(Held(list, working), c \o d, Held(f, working)) /\ c \o d \in Seq(Calls)
  <2>0. c \o d \in Seq(Calls)
    BY <1>10, <1>11
  <2>1. CASE less = <<>>
    <3>1. d = <<>>
      <4>1. DOMAIN less = {}
        BY <2>1
      <4>2. d = [i \in {} |-> d[i]]
        BY <4>1 DEF RemoveOps
      <4>3. d \in Seq(Calls) /\ DOMAIN d = {}
        BY <1>11, <4>2
      <4> HIDE DEF d
      <4>4. Len(d) = 0
        BY <4>3
      <4> QED
        BY <4>3, <4>4
    <3> HIDE DEF d, c
    <3>2. c \o d = c
      BY <1>10, <3>1
    <3> QED
      BY <1>10, <2>0, <2>1, <3>2
  <2>2. CASE less # <<>>
    <3>0. more = <<>>
      BY <1>2, <2>2
    <3>1. c = <<>>
      <4>1. DOMAIN more = {}
        BY <3>0
      <4>2. c = [i \in {} |-> c[i]]
        BY <4>1 DEF AddOps
      <4>3. c \in Seq(Calls) /\ DOMAIN c = {}
        BY <1>10, <4>2
      <4> HIDE DEF c
      <4>4. Len(c) = 0
        BY <4>3
      <4> QED
        BY <4>3, <4>4
    <3> HIDE DEF d, c
    <3>2. c \o d = d
      BY <1>11, <3>1
    <3> QED
      BY <1>11, <2>0, <2>2, <3>2
  <2> QED
    BY <2>1, <2>2
<1>13. f \in Seq(SafeMembers) /\ IsInjective(f) /\ Range(f) = Range(want)
  <2>1. CASE less = <<>>
    <3>1. Len(more) \in 0 .. Len(more)
      BY <1>2
    <3>2. LET L == Added(list, more, Len(more))
          IN  /\ L \in Seq(SafeMembers) /\ IsInjective(L)
              /\ Range(L) = {more[s] : s \in 1 .. Len(more)} \cup Range(list)
      BY <1>2, <3>1, AddedList
    <3>3. {more[s] : s \in 1 .. Len(more)} = Range(more) /\ Range(less) = {}
      BY <1>2, <2>1 DEF Range
    <3> QED
      BY <1>2, <2>1, <3>2, <3>3
  <2>2. CASE less # <<>>
    <3>1. Shrunk(list, Range(less)) \in Seq(SafeMembers) /\ IsInjective(Shrunk(list, Range(less)))
          /\ Range(Shrunk(list, Range(less))) = Range(list) \ Range(less)
      BY <1>2, ShrunkKeeps
    <3>2. Range(more) = {}
      BY <1>2, <2>2 DEF Range
    <3> QED
      BY <1>2, <2>2, <3>1, <3>2
  <2> QED
    BY <2>1, <2>2
<1> HIDE DEF f
<1>14. e \in Seq(Calls) /\ Leads(Held(f, working), e, Held(f, goal))
  <2>1. CASE goal > threshold
    <3>1. e = ChangeThreshold(goal)
      BY <2>1
    <3>2. Len(f) = Len(want)
      <4>1. Cardinality(Range(f)) = Len(f) /\ Cardinality(Range(want)) = Len(want)
        BY <1>13, LengthOfOnce
      <4> QED
        BY <1>13, <4>1
    <3>3. goal \in 1 .. Len(f)
      BY <3>2
    <3> QED
      BY <1>5, <1>13, <3>1, <3>3, ThresholdRun
  <2>2. CASE ~(goal > threshold)
    <3>1. e = <<>> /\ working = goal
      BY <1>3, <1>4, <2>2
    <3>2. Leads(Held(f, goal), <<>>, Held(f, goal)) /\ <<>> \in Seq(Calls)
      BY NoCalls
    <3> QED
      BY <3>1, <3>2
  <2> QED
    BY <2>1, <2>2
<1> HIDE DEF a, b, c, d, e, plan
<1> DEFINE ab == a \o b
           cd == c \o d
           abcd == ab \o cd
<1>15. ab \in Seq(Calls) /\ Leads(Held(owners, threshold), ab, Held(list, working))
  BY <1>8, <1>9, RunJoin
<1>16. cd \in Seq(Calls) /\ Leads(Held(list, working), cd, Held(f, working))
  BY <1>12
<1>17. ab \o cd = a \o b \o c \o d
  <2> HIDE DEF ab
  <2>1. ab \o (c \o d) = (ab \o c) \o d
    <3>1. ab \in Seq(Calls) /\ c \in Seq(Calls) /\ d \in Seq(Calls)
      BY <1>10, <1>11, <1>15
    <3> QED
      BY <3>1, Regroup
  <2> QED
    BY <2>1 DEF ab
<1> HIDE DEF ab, cd
<1>18. abcd \in Seq(Calls) /\ Leads(Held(owners, threshold), abcd, Held(f, working))
  BY <1>15, <1>16, RunJoin
<1>19. plan.ops = abcd \o e
  BY <1>7, <1>17
<1> HIDE DEF abcd
<1>20. abcd \o e \in Seq(Calls) /\ Leads(Held(owners, threshold), abcd \o e, Held(f, goal))
  BY <1>14, <1>18, RunJoin
<1>21. AfterCalls(Held(owners, threshold), plan.ops) = Held(f, goal)
  BY <1>19, <1>20, RunEnds
<1> QED
  BY <1>7, <1>13, <1>21 DEF plan

-------------------------------------------------------------------------------
(* The Safe in every state.                                                *)

Lists == {l \in Seq(SafeMembers) : IsInjective(l)}

\* The members in ascending order are a list without repetitions.
LEMMA ProjectedList ==
    ASSUME NEW S \in SUBSET SafeMembers
    PROVE  /\ ProjectOwnerSet(S) \in Lists /\ Len(ProjectOwnerSet(S)) = Cardinality(S)
           /\ Range(ProjectOwnerSet(S)) = S
<1>1. S \in SUBSET Nat /\ IsFiniteSet(S)
  BY SafeAssumption, FS_Subset
<1>2. /\ Cardinality(S) \in Nat /\ Ascending(S) \in [1 .. Cardinality(S) -> S]
      /\ \A i, j \in 1 .. Cardinality(S) : Ascending(S)[i] = Ascending(S)[j] => i = j
      /\ \A m \in S : \E i \in 1 .. Cardinality(S) : Ascending(S)[i] = m
  BY <1>1, AscendingLists
<1>3. Ascending(S) \in Seq(SafeMembers) /\ Len(Ascending(S)) = Cardinality(S)
  BY <1>2
<1>4. Range(Ascending(S)) = S /\ IsInjective(Ascending(S))
  BY <1>2 DEF Range, IsInjective
<1> QED
  BY <1>3, <1>4 DEF ProjectOwnerSet, Lists

Sound(s) ==
    \E o \in Lists : \E t \in 1 .. Len(o) : s = Held(o, t)

\* A call that the Safe accepts leaves owners without repetitions and a threshold that
\* they meet.
LEMMA CallKeeps ==
    ASSUME NEW s, Sound(s), NEW op \in Calls, OwnerCall(s, op) # Refused
    PROVE  Sound(OwnerCall(s, op))
<1>0. PICK o \in Lists : \E t \in 1 .. Len(o) : s = Held(o, t)
  BY DEF Sound
<1>1. PICK t \in 1 .. Len(o) : s = Held(o, t)
  BY <1>0
<1>2. /\ o \in Seq(SafeMembers) /\ IsInjective(o) /\ Len(o) \in Nat /\ t \in Nat \ {0}
      /\ DOMAIN o = 1 .. Len(o)
  BY DEF Lists
<1>3. s # Refused /\ s.owners = o /\ s.threshold = t
  BY <1>1, <1>2, HeldIsNotRefused
<1>4. ASSUME NEW l \in Lists, NEW u, WithThreshold(l, u) # Refused
      PROVE  Sound(WithThreshold(l, u))
  BY <1>4 DEF WithThreshold, Sound, Held
<1>5. CASE op.call = "threshold"
  <2>1. OwnerCall(s, op) = WithThreshold(o, op.arg)
    BY <1>3, <1>5 DEF OwnerCall
  <2> QED
    BY <1>4, <2>1
<1>6. CASE op.call = "add"
  <2> DEFINE l == <<op.owner>> \o o
  <2>1. op.owner \in SafeMembers
    BY <1>6 DEF Calls
  <2>2. op.owner \notin Range(o) /\ OwnerCall(s, op) = WithThreshold(l, op.arg)
    BY <1>3, <1>6 DEF OwnerCall
  <2>3. l \in Seq(SafeMembers) /\ Len(l) = 1 + Len(o) /\ l[1] = op.owner
        /\ \A i \in 2 .. 1 + Len(o) : l[i] = o[i - 1] /\ i - 1 \in 1 .. Len(o)
    BY <1>2, <2>1
  <2> HIDE DEF l
  <2>4. \A i \in 1 .. Len(o) : o[i] # op.owner
    BY <1>2, <2>2 DEF Range
  <2>5. ASSUME NEW a \in 1 .. 1 + Len(o), NEW b \in 1 .. 1 + Len(o), l[a] = l[b] PROVE a = b
    <3>1. CASE a = 1 /\ b = 1
      BY <3>1
    <3>2. CASE a # 1 /\ b # 1
      <4>1. a \in 2 .. 1 + Len(o) /\ b \in 2 .. 1 + Len(o)
        BY <1>2, <3>2
      <4>2. o[a - 1] = o[b - 1] /\ a - 1 \in DOMAIN o /\ b - 1 \in DOMAIN o
        BY <1>2, <2>3, <2>5, <4>1
      <4>3. a - 1 = b - 1
        BY <1>2, <4>2 DEF IsInjective
      <4> QED
        BY <4>1, <4>3
    <3>3. CASE a = 1 /\ b # 1
      <4>1. b \in 2 .. 1 + Len(o)
        BY <1>2, <3>3
      <4> QED
        BY <2>3, <2>4, <2>5, <3>3, <4>1
    <3>4. CASE a # 1 /\ b = 1
      <4>1. a \in 2 .. 1 + Len(o)
        BY <1>2, <3>4
      <4> QED
        BY <2>3, <2>4, <2>5, <3>4, <4>1
    <3> QED
      BY <3>1, <3>2, <3>3, <3>4
  <2>6. l \in Lists
    <3>1. DOMAIN l = 1 .. 1 + Len(o)
      BY <2>3
    <3> QED
      BY <2>3, <2>5, <3>1 DEF Lists, IsInjective
  <2> QED
    BY <1>4, <2>2, <2>6
<1>7. CASE op.call = "swap"
  <2> DEFINE out == <<op.owner>>
             in == <<op.arg>>
  <2>1. op.owner \in SafeMembers /\ op.arg \in SafeMembers
    BY <1>7 DEF Calls
  <2>2. /\ op.owner \in Range(o) /\ op.arg \notin Range(o)
        /\ OwnerCall(s, op) = [s EXCEPT !.owners = Swapped(o, out, in, 1)]
    BY <1>3, <1>7 DEF OwnerCall, Follows
  <2>3. /\ out \in Seq(SafeMembers) /\ in \in Seq(SafeMembers) /\ Len(out) = 1 /\ Len(in) = 1
        /\ out[1] = op.owner /\ in[1] = op.arg /\ DOMAIN out = {1} /\ DOMAIN in = {1}
    BY <2>1
  <2> HIDE DEF out, in
  <2>4. Pairs(o, out, in, 1)
    BY <1>2, <2>2, <2>3 DEF Pairs, Range, IsInjective
  <2>5. LET L == Swapped(o, out, in, 1)
        IN  L \in Seq(SafeMembers) /\ Len(L) = Len(o) /\ IsInjective(L)
    BY <2>4, SwappedList
  <2>6. OwnerCall(s, op) = Held(Swapped(o, out, in, 1), t)
    BY <1>1, <2>2 DEF Held
  <2> QED
    BY <2>5, <2>6 DEF Sound, Lists
<1>8. CASE op.call = "remove"
  <2>1. OwnerCall(s, op) = WithThreshold(Shrunk(o, {op.owner}), op.arg)
    BY <1>3, <1>8 DEF OwnerCall
  <2>2. Shrunk(o, {op.owner}) \in Lists
    BY <1>2, ShrunkKeeps DEF Lists
  <2> QED
    BY <1>4, <2>1, <2>2
<1> QED
  BY <1>5, <1>6, <1>7, <1>8 DEF Calls

\* What a node is doing about the Safe.
SafeTask ==
    [at : {"idle", "owners", "threshold", "epoch"}, kind : {"none", "derive", "attest"},
     epoch : Epochs \cup {0}, step : AskedSteps \cup {0}, nonce : Nat,
     want : Lists, owners : Lists, op : Calls \cup {NoOp}]

\* The inductive invariant: the Safe can be used, and every step that is under way or
\* derived is a call.
SafeInv ==
    /\ safe \in [owners : Lists, threshold : Nat, nonce : Nat]
    /\ safe.threshold \in 1 .. Len(safe.owners)
    /\ sealed \in [SafeNodes -> Epochs] /\ task \in [SafeNodes -> SafeTask]
    /\ \A n \in SafeNodes : /\ task[n].kind = "derive" => task[n].epoch \in Epochs
                            /\ task[n].kind = "derive" /\ task[n].at = "epoch" => task[n].op \in Calls
    /\ \A d \in derived : d.op \in Calls

\* A node that does nothing has a task of the right shape.
LEMMA IdleTask ==
    NoTask \in SafeTask /\ NoTask.kind = "none"
<1>1. <<>> \in Lists
  BY DEF Lists, IsInjective
<1> QED
  BY <1>1 DEF SafeTask, NoTask

\* The invariant holds at the start.
LEMMA SafeInvInit == SafeInit => SafeInv
<1> SUFFICES ASSUME SafeInit PROVE SafeInv
  OBVIOUS
<1>1. PICK s \in FirstSafes : safe = [owners |-> s.owners, threshold |-> s.threshold, nonce |-> 0]
  BY DEF SafeInit
<1>2. /\ s.owners \in Seq(SafeMembers) /\ IsInjective(s.owners)
      /\ s.threshold \in 1 .. Len(s.owners) /\ 1 \in Epochs
  BY SafeAssumption
<1>3. safe \in [owners : Lists, threshold : Nat, nonce : Nat] /\ safe.threshold \in 1 .. Len(safe.owners)
  <2>1. s.threshold \in Nat
    BY <1>2
  <2> QED
    BY <1>1, <1>2, <2>1 DEF Lists
<1>4. sealed \in [SafeNodes -> Epochs] /\ derived = {} /\ task = [n \in SafeNodes |-> NoTask]
  BY <1>2 DEF SafeInit
<1> QED
  BY <1>3, <1>4, IdleTask DEF SafeInv

\* What a step does to the Safe, it does by a call that it accepts, or to the nonce.
LEMMA SafeStep ==
    ASSUME SafeInv, NEW op, OwnerCall(Current, op) # Refused, Spend(OwnerCall(Current, op)),
           op \in Calls
    PROVE  /\ safe' \in [owners : Lists, threshold : Nat, nonce : Nat]
           /\ safe'.threshold \in 1 .. Len(safe'.owners)
           /\ derived' \subseteq derived
<1>0. /\ safe.owners \in Lists /\ safe.threshold \in 1 .. Len(safe.owners) /\ safe.nonce \in Nat
  BY DEF SafeInv
<1>1. Sound(Current)
  BY <1>0 DEF Current, Sound, Held
<1>2. Sound(OwnerCall(Current, op))
  BY <1>1, CallKeeps
<1>3. PICK o \in Lists : \E t \in 1 .. Len(o) : OwnerCall(Current, op) = Held(o, t)
  BY <1>2 DEF Sound
<1>4. PICK t \in 1 .. Len(o) : OwnerCall(Current, op) = Held(o, t)
  BY <1>3
<1>5. safe' = [owners |-> o, threshold |-> t, nonce |-> safe.nonce + 1] /\ derived' \subseteq derived
  BY <1>4 DEF Spend, Held
<1>6. t \in Nat /\ safe.nonce + 1 \in Nat
  BY <1>0
<1> QED
  BY <1>5, <1>6

\* Every step keeps the invariant.
LEMMA SafeInvNext == SafeInv /\ [SafeNext]_safeVars => SafeInv'
<1> SUFFICES ASSUME SafeInv, [SafeNext]_safeVars PROVE SafeInv'
  OBVIOUS
<1> USE DEF SafeInv
<1>1. CASE UNCHANGED safeVars
  BY <1>1 DEF safeVars
<1>2. ASSUME NEW n \in SafeNodes, Seal(n) PROVE SafeInv'
  BY <1>2 DEF Seal
<1>3. ASSUME NEW n \in SafeNodes, NEW t \in SafeTask, SetTask(n, t),
             t.kind = "derive" => t.epoch \in Epochs,
             t.kind = "derive" /\ t.at = "epoch" => t.op \in Calls,
             UNCHANGED <<safe, sealed>>,
             \A d \in derived' : d \in derived \/ d.op \in Calls
      PROVE  SafeInv'
  <2>1. task' \in [SafeNodes -> SafeTask]
    BY <1>3 DEF SetTask
  <2>2. \A m \in SafeNodes : task'[m] = IF m = n THEN t ELSE task[m]
    BY <1>3 DEF SetTask
  <2> QED
    BY <1>3, <2>1, <2>2
<1>4. ASSUME NEW n \in SafeNodes PROVE ProjectOwnerSet(SealedSet[sealed[n]]) \in Lists
  <2>1. sealed[n] \in Epochs
    OBVIOUS
  <2>2. SealedSet[sealed[n]] \in SUBSET SafeMembers
    BY <2>1, SafeAssumption
  <2> QED
    BY <2>2, ProjectedList
<1>5. NoTask \in SafeTask /\ NoTask.kind = "none"
  BY IdleTask
<1>6. ASSUME NEW n \in SafeNodes, NEW e \in Epochs, NEW i \in AskedSteps, StartDerive(n, e, i)
      PROVE  SafeInv'
  <2> DEFINE t == [NoTask EXCEPT !.at = "owners", !.kind = "derive", !.epoch = e, !.step = i,
                       !.nonce = safe.nonce + i - 1,
                       !.want = ProjectOwnerSet(SealedSet[sealed[n]])]
  <2>1. safe.nonce + i - 1 \in Nat
    BY SafeAssumption
  <2>2. t \in SafeTask /\ t.epoch = e /\ t.at = "owners"
    BY <1>4, <1>5, <2>1 DEF SafeTask
  <2>3. SetTask(n, t) /\ UNCHANGED <<safe, sealed, derived>>
    BY <1>6 DEF StartDerive
  <2> HIDE DEF t
  <2> QED
    BY <1>3, <2>2, <2>3
<1>7. ASSUME NEW n \in SafeNodes, StartAttest(n) PROVE SafeInv'
  <2> DEFINE t == [NoTask EXCEPT !.at = "epoch", !.kind = "attest",
                       !.want = ProjectOwnerSet(SealedSet[sealed[n]])]
  <2>1. t \in SafeTask /\ t.kind = "attest"
    BY <1>4, <1>5 DEF SafeTask
  <2>2. SetTask(n, t) /\ UNCHANGED <<safe, sealed, derived>>
    BY <1>7 DEF StartAttest
  <2> HIDE DEF t
  <2> QED
    BY <1>3, <2>1, <2>2
<1>8. ASSUME NEW n \in SafeNodes, ReadOwners(n) PROVE SafeInv'
  <2> DEFINE t == [task[n] EXCEPT !.at = "threshold", !.owners = safe.owners]
  <2>1. t \in SafeTask /\ t.kind = task[n].kind /\ t.epoch = task[n].epoch /\ t.at = "threshold"
    BY DEF SafeTask
  <2>2. SetTask(n, t) /\ UNCHANGED <<safe, sealed, derived>>
    BY <1>8 DEF ReadOwners
  <2> HIDE DEF t
  <2> QED
    BY <1>3, <2>1, <2>2
<1>9. ASSUME NEW n \in SafeNodes, PlanStep(n) PROVE SafeInv'
  <2> DEFINE t == task[n]
             plan == PlanReconciliation(t.owners, safe.threshold, t.want, Target[t.epoch])
             u == [t EXCEPT !.at = "epoch", !.op = plan.ops[t.step]]
  <2>1. /\ t \in SafeTask /\ t.kind = "derive" /\ t.epoch \in Epochs
        /\ UNCHANGED <<safe, sealed, derived>>
        /\ IF plan.ok /\ t.step \in DOMAIN plan.ops THEN SetTask(n, u) ELSE SetTask(n, NoTask)
    BY <1>9 DEF PlanStep
  <2>2. Target[t.epoch] \in Nat
    BY <2>1, SafeAssumption
  <2>3. t.owners \in Lists /\ t.want \in Lists /\ safe.threshold \in Nat
    BY <2>1 DEF SafeTask
  <2>4. plan.ops \in Seq(Calls)
    BY <2>2, <2>3, PlanType DEF Lists
  <2> HIDE DEF plan, t
  <2>5. CASE plan.ok /\ t.step \in DOMAIN plan.ops
    <3>1. plan.ops[t.step] \in Calls
      BY <2>4, <2>5, ElementOfSeq
    <3>2. u \in SafeTask /\ u.kind = "derive" /\ u.epoch = t.epoch /\ u.op \in Calls
      BY <2>1, <3>1 DEF SafeTask
    <3>3. SetTask(n, u)
      BY <2>1, <2>5
    <3> HIDE DEF u
    <3> QED
      BY <1>3, <2>1, <3>2, <3>3
  <2>6. CASE ~(plan.ok /\ t.step \in DOMAIN plan.ops)
    <3>1. SetTask(n, NoTask)
      BY <2>1, <2>6
    <3> QED
      BY <1>3, <1>5, <2>1, <3>1
  <2> QED
    BY <2>5, <2>6
<1>10. ASSUME NEW n \in SafeNodes, FinishDerive(n) PROVE SafeInv'
  <2>1. SetTask(n, NoTask) /\ UNCHANGED <<safe, sealed>> /\ task[n].op \in Calls
    BY <1>10 DEF FinishDerive
  <2>2. \A d \in derived' : d \in derived \/ d.op \in Calls
    BY <1>10, <2>1 DEF FinishDerive
  <2> QED
    BY <1>3, <1>5, <2>1, <2>2
<1>11. ASSUME NEW n \in SafeNodes, AttestEpoch(n) PROVE SafeInv'
  <2> DEFINE t == [task[n] EXCEPT !.at = "owners", !.epoch = sealed[n]]
  <2>1. t \in SafeTask /\ t.kind = task[n].kind /\ t.at = "owners" /\ task[n].kind = "attest"
    BY <1>11 DEF SafeTask, AttestEpoch
  <2>2. SetTask(n, t) /\ UNCHANGED <<safe, sealed, derived>>
    BY <1>11 DEF AttestEpoch
  <2> HIDE DEF t
  <2> QED
    BY <1>3, <2>1, <2>2
<1>12. ASSUME NEW n \in SafeNodes, FinishAttest(n) \/ DropTask(n) PROVE SafeInv'
  <2>1. SetTask(n, NoTask) /\ UNCHANGED <<safe, sealed, derived>>
    BY <1>12 DEF FinishAttest, DropTask
  <2> QED
    BY <1>3, <1>5, <2>1
<1>13. ASSUME NEW n \in SafeNodes, NEW a \in attested, RecordProjection(n, a) PROVE SafeInv'
  BY <1>13 DEF RecordProjection
<1>14. ASSUME NEW n \in Publishers, ReadLatest(n) \/ ReadNonce(n) \/ CommitInEnclave(n) PROVE SafeInv'
  <2>1. UNCHANGED <<safe, sealed, task, derived>>
    BY <1>14 DEF ReadLatest, ReadNonce, CommitInEnclave
  <2> QED
    BY <2>1
<1>15. ASSUME NEW n \in Publishers, SubmitReserves(n) PROVE SafeInv'
  <2>1. UNCHANGED <<sealed, task>>
    BY <1>15 DEF SubmitReserves
  <2>2. CASE UNCHANGED <<safe, derived>>
    BY <2>1, <2>2
  <2>3. CASE Spend(Current)
    <3>1. /\ safe' = [owners |-> safe.owners, threshold |-> safe.threshold, nonce |-> safe.nonce + 1]
          /\ derived' \subseteq derived
      BY <2>3 DEF Spend, Current
    <3>2. safe.nonce + 1 \in Nat
      OBVIOUS
    <3>3. /\ safe' \in [owners : Lists, threshold : Nat, nonce : Nat]
          /\ safe'.threshold \in 1 .. Len(safe'.owners)
      BY <3>1, <3>2
    <3> QED
      BY <2>1, <3>1, <3>3
  <2> QED
    BY <1>15, <2>2, <2>3 DEF SubmitReserves
<1>16. ASSUME NEW d \in derived, NEW S \in SUBSET SafeMembers, ExecStep(d.op, S) PROVE SafeInv'
  <2>1. /\ OwnerCall(Current, d.op) # Refused /\ Spend(OwnerCall(Current, d.op))
        /\ UNCHANGED <<sealed, task>> /\ d.op \in Calls
    BY <1>16 DEF ExecStep
  <2>2. /\ safe' \in [owners : Lists, threshold : Nat, nonce : Nat]
        /\ safe'.threshold \in 1 .. Len(safe'.owners) /\ derived' \subseteq derived
    BY <2>1, SafeStep
  <2> QED
    BY <2>1, <2>2
<1> QED
  BY <1>1, <1>2, <1>6, <1>7, <1>8, <1>9, <1>10, <1>11, <1>12, <1>13, <1>14, <1>15, <1>16
     DEF SafeNext

\* Whatever the steps, of one epoch's plan or another's, in whatever order and stopped
\* wherever, the Safe has owners without repetitions, all of them members, and a
\* threshold they can meet: it is never bricked (safe_projection.rs:168-288).
THEOREM SafeStaysUsable == SafeSpec => []SafeInv
<1>1. SafeInit => SafeInv
  BY SafeInvInit
<1>2. SafeInv /\ [SafeNext]_safeVars => SafeInv'
  BY SafeInvNext
<1> QED
  BY <1>1, <1>2, PTL DEF SafeSpec

\* From every state the plan for every epoch is accepted by the Safe operation by
\* operation and ends with the owners and the threshold asked for, for every number of
\* members, epochs, nodes and publishers (safe_projection.rs:168-288).
THEOREM PlanExecutesAlways == SafeSpec => []PlanExecutes
<1>1. SafeInv => PlanExecutes
  <2> SUFFICES ASSUME SafeInv, NEW e \in Epochs
               PROVE  LET want == ProjectOwnerSet(SealedSet[e])
                          plan == PlanReconciliation(safe.owners, safe.threshold, want, Target[e])
                          end  == AfterCalls(Current, plan.ops)
                      IN  plan.ok /\ end # Refused /\ InSync(end.owners, end.threshold, want, Target[e])
    BY DEF PlanExecutes
  <2> DEFINE want == ProjectOwnerSet(SealedSet[e])
             plan == PlanReconciliation(safe.owners, safe.threshold, want, Target[e])
  <2>1. /\ safe.owners \in Seq(SafeMembers) /\ IsInjective(safe.owners)
        /\ safe.threshold \in 1 .. Len(safe.owners)
    BY DEF SafeInv, Lists
  <2>2. SealedSet[e] \in SUBSET SafeMembers /\ Target[e] \in 1 .. Cardinality(SealedSet[e])
    BY SafeAssumption
  <2>3. want \in Seq(SafeMembers) /\ IsInjective(want) /\ Target[e] \in 1 .. Len(want)
    BY <2>2, ProjectedList DEF Lists
  <2>4. Current = Held(safe.owners, safe.threshold)
    BY DEF Current, Held
  <2> HIDE DEF want
  <2>5. /\ plan.ok
        /\ \E f : /\ AfterCalls(Held(safe.owners, safe.threshold), plan.ops) = Held(f, Target[e])
                  /\ Range(f) = Range(want)
    BY <2>1, <2>3, PlanRuns
  <2> HIDE DEF plan
  <2>6. PICK f : AfterCalls(Current, plan.ops) = Held(f, Target[e]) /\ Range(f) = Range(want)
    BY <2>4, <2>5
  <2>7. Target[e] \in Nat \ {0}
    BY <2>3
  <2>8. /\ AfterCalls(Current, plan.ops) # Refused
        /\ AfterCalls(Current, plan.ops).owners = f /\ AfterCalls(Current, plan.ops).threshold = Target[e]
    BY <2>6, <2>7, HeldIsNotRefused
  <2> QED
    BY <2>5, <2>6, <2>8 DEF InSync, want, plan
<1> QED
  BY <1>1, SafeStaysUsable, PTL

-------------------------------------------------------------------------------
(* Keys and their prefixes.                                                *)

Paths(d) == [1 .. d -> Nibbles]
KeySpace == Paths(KeyLen)

\* Two keys agree on their first d nibbles.
Agree(j, k, d) == \A i \in 1 .. d : j[i] = k[i]

\* What a prefix is, and when two of them are one.
LEMMA PrefixIs ==
    ASSUME NEW k \in KeySpace, NEW d \in 0 .. KeyLen
    PROVE  /\ Prefix(k, d) = [i \in 1 .. d |-> k[i]]
           /\ Prefix(k, d) \in Paths(d) /\ Prefix(k, d) \in Seq(Nibbles)
           /\ Len(Prefix(k, d)) = d
<1>1. KeyLen \in Nat /\ d \in Nat
  BY SpvBundleAssumption
<1>2. Prefix(k, d) = [i \in 1 .. d |-> k[i]]
  <2>1. \A i \in 1 .. d : i - 1 + 1 = i
    BY <1>1
  <2> QED
    BY <2>1 DEF Prefix, Nibble
<1>3. \A i \in 1 .. d : k[i] \in Nibbles
  <2> TAKE i \in 1 .. d
  <2>1. i \in 1 .. KeyLen
    BY <1>1
  <2> QED
    BY <2>1 DEF KeySpace, Paths
<1> QED
  BY <1>1, <1>2, <1>3 DEF Paths

\* Every key starts at the root.
LEMMA PrefixZero ==
    ASSUME NEW k \in KeySpace
    PROVE  Prefix(k, 0) = <<>>
<1>1. Prefix(k, 0) \in Seq(Nibbles) /\ Len(Prefix(k, 0)) = 0
  BY PrefixIs, SpvBundleAssumption
<1> QED
  BY <1>1

\* A prefix is the one before it and a nibble.
LEMMA PrefixNext ==
    ASSUME NEW k \in KeySpace, NEW d \in 0 .. KeyLen - 1
    PROVE  Prefix(k, d + 1) = Append(Prefix(k, d), Nibble(k, d)) /\ Nibble(k, d) \in Nibbles
<1>1. KeyLen \in Nat /\ d \in Nat /\ d \in 0 .. KeyLen /\ d + 1 \in 0 .. KeyLen /\ d + 1 \in 1 .. KeyLen
  BY SpvBundleAssumption
<1>2. Nibble(k, d) \in Nibbles
  BY <1>1 DEF Nibble, KeySpace, Paths
<1>3. /\ Prefix(k, d) = [i \in 1 .. d |-> k[i]] /\ Prefix(k, d) \in Seq(Nibbles)
      /\ Len(Prefix(k, d)) = d
      /\ Prefix(k, d + 1) = [i \in 1 .. d + 1 |-> k[i]] /\ Prefix(k, d + 1) \in Seq(Nibbles)
      /\ Len(Prefix(k, d + 1)) = d + 1
  BY <1>1, PrefixIs
<1>4. Append(Prefix(k, d), Nibble(k, d)) \in Seq(Nibbles)
  BY <1>2, <1>3
<1>5. Len(Append(Prefix(k, d), Nibble(k, d))) = d + 1
  BY <1>2, <1>3
<1>6. \A i \in 1 .. d + 1 : Append(Prefix(k, d), Nibble(k, d))[i] = Prefix(k, d + 1)[i]
  <2> TAKE i \in 1 .. d + 1
  <2>1. CASE i = d + 1
    BY <1>1, <1>2, <1>3, <2>1 DEF Nibble
  <2>2. CASE i # d + 1
    <3>1. i \in 1 .. d
      BY <1>1, <2>2
    <3> QED
      BY <1>1, <1>2, <1>3, <3>1
  <2> QED
    BY <2>1, <2>2
<1> HIDE DEF Prefix
<1> QED
  BY <1>1, <1>3, <1>4, <1>5, <1>6, SeqEqual

\* Two prefixes are one when they are as long and the keys agree so far.
LEMMA PrefixEqual ==
    ASSUME NEW j \in KeySpace, NEW k \in KeySpace, NEW d \in 0 .. KeyLen, NEW e \in 0 .. KeyLen
    PROVE  Prefix(j, d) = Prefix(k, e) <=> d = e /\ Agree(j, k, d)
<1>1. /\ Prefix(j, d) = [i \in 1 .. d |-> j[i]] /\ Len(Prefix(j, d)) = d
      /\ Prefix(k, e) = [i \in 1 .. e |-> k[i]] /\ Len(Prefix(k, e)) = e
  BY PrefixIs
<1>2. CASE d = e
  BY <1>1, <1>2 DEF Agree
<1>3. CASE d # e
  BY <1>1, <1>3
<1> QED
  BY <1>2, <1>3

-------------------------------------------------------------------------------
(* Hashes.                                                                 *)

\* One level of hashes, from the one below it.
Level(T, i, under) ==
    [p \in [1 .. KeyLen - i -> Nibbles] |->
        LET n == NodeAt(T, p)
        IN  IF n.node = "leaf" THEN LeafHash(n.key, n.data)
            ELSE IF n.node = "inner" /\ i > 0
            THEN InnerHash([b \in Nibbles |-> under[Append(p, b)]])
            ELSE ZeroHash]

IsHashes(T, f, n) == f = [i \in 0 .. n |-> Level(T, i, f[i - 1])]

\* The deepest level has none below it.
LEMMA LowestLevel ==
    \A T, x, y : Level(T, 0, x) = Level(T, 0, y)
<1> TAKE T, x, y
<1>1. ~(0 > 0)
  OBVIOUS
<1> QED
  BY <1>1 DEF Level

\* There are hashes of any number of levels.
LEMMA HashesExist ==
    ASSUME NEW T, NEW n \in Nat
    PROVE  \E f : IsHashes(T, f, n)
<1> DEFINE Bad == {m \in Nat : ~\E f : IsHashes(T, f, m)}
<1>1. 0 \notin Bad
  <2> DEFINE f == [i \in 0 .. 0 |-> Level(T, 0, 0)]
  <2>1. \A i \in 0 .. 0 : i = 0
    OBVIOUS
  <2>2. Level(T, 0, 0) = Level(T, 0, f[0 - 1])
    BY LowestLevel
  <2>3. f = [i \in 0 .. 0 |-> Level(T, i, f[i - 1])]
    <3> HIDE DEF f
    <3>1. \A i \in 0 .. 0 : Level(T, 0, 0) = Level(T, i, f[i - 1])
      BY <2>1, <2>2
    <3>2. f = [i \in 0 .. 0 |-> Level(T, 0, 0)]
      BY DEF f
    <3> QED
      BY <3>1, <3>2
  <2> QED
    BY <2>3 DEF IsHashes
<1>2. ASSUME NEW m \in Nat, m \notin Bad PROVE m + 1 \notin Bad
  <2>1. PICK f : IsHashes(T, f, m)
    BY <1>2
  <2> DEFINE g == [i \in 0 .. m + 1 |-> IF i = m + 1 THEN Level(T, m + 1, f[m]) ELSE f[i]]
  <2>2. ASSUME NEW i \in 0 .. m + 1 PROVE g[i] = Level(T, i, g[i - 1])
    <3>1. CASE i = m + 1
      <4>1. i - 1 = m /\ m \in 0 .. m + 1 /\ m # m + 1
        BY <3>1
      <4>2. g[m] = f[m]
        BY <4>1
      <4>3. g[m + 1] = Level(T, m + 1, f[m])
        OBVIOUS
      <4> HIDE DEF g
      <4> QED
        BY <3>1, <4>1, <4>2, <4>3
    <3>2. CASE i # m + 1
      <4>1. i \in 0 .. m /\ i \in Nat
        BY <3>2
      <4>2. f[i] = Level(T, i, f[i - 1])
        BY <2>1, <4>1 DEF IsHashes
      <4>3. g[i] = f[i]
        BY <3>2
      <4>4. CASE i = 0
        <5>1. Level(T, 0, f[i - 1]) = Level(T, 0, g[i - 1])
          BY LowestLevel
        <5> HIDE DEF g
        <5> QED
          BY <4>2, <4>3, <4>4, <5>1
      <4>5. CASE i # 0
        <5>1. i - 1 \in 0 .. m + 1 /\ i - 1 # m + 1
          BY <4>1, <4>5
        <5>2. g[i - 1] = f[i - 1]
          BY <5>1
        <5> HIDE DEF g
        <5> QED
          BY <4>2, <4>3, <5>2
      <4> QED
        BY <4>4, <4>5
    <3> QED
      BY <3>1, <3>2
  <2>3. g = [i \in 0 .. m + 1 |-> g[i]]
    OBVIOUS
  <2>4. g = [i \in 0 .. m + 1 |-> Level(T, i, g[i - 1])]
    <3> HIDE DEF g
    <3> QED
      BY <2>2, <2>3
  <2> QED
    BY <2>4 DEF IsHashes
<1>3. Bad = {}
  <2> SUFFICES ASSUME Bad # {} PROVE FALSE
    OBVIOUS
  <2>1. Bad \in SUBSET Nat
    OBVIOUS
  <2> HIDE DEF Bad
  <2>2. PICK m \in Bad : \A y \in Nat : y < m => y \notin Bad
    BY <2>1, LeastNumber
  <2>3. m \in Nat /\ m # 0
    BY <1>1, <2>1
  <2>4. m - 1 \in Nat /\ m - 1 < m /\ m - 1 + 1 = m
    BY <2>3
  <2> QED
    BY <1>2, <2>2, <2>4
<1> QED
  BY <1>3

\* The hashes of a tree satisfy the equations that define them.
LEMMA HashesAre ==
    ASSUME NEW T
    PROVE  IsHashes(T, Hashes(T), KeyLen)
<1>1. \E f : IsHashes(T, f, KeyLen)
  BY HashesExist, SpvBundleAssumption
<1>2. Hashes(T) = CHOOSE f : IsHashes(T, f, KeyLen)
  BY Zenon DEF Hashes, IsHashes, Level
<1> QED
  BY <1>1, <1>2

\* The hash of a node is computed from the node, and for an inner node from its children.
LEMMA HashOfNode ==
    ASSUME NEW T, NEW d \in 0 .. KeyLen, NEW p \in Paths(d)
    PROVE  /\ NodeAt(T, p).node = "leaf"
                => HashOf(T, p) = LeafHash(NodeAt(T, p).key, NodeAt(T, p).data)
           /\ NodeAt(T, p).node = "inner" /\ d < KeyLen => HashOf(T, p) = InnerHash(FlatChildren(T, p))
           /\ NodeAt(T, p).node # "leaf" /\ ~(NodeAt(T, p).node = "inner" /\ d < KeyLen)
                => HashOf(T, p) = ZeroHash
<1>1. KeyLen \in Nat /\ d \in Nat /\ p \in Seq(Nibbles) /\ Len(p) = d
  BY SpvBundleAssumption DEF Paths
<1> DEFINE i == KeyLen - d
<1>2. i \in 0 .. KeyLen /\ KeyLen - i = d /\ (i > 0 <=> d < KeyLen)
  BY <1>1
<1>3. Hashes(T)[i] = Level(T, i, Hashes(T)[i - 1])
  BY HashesAre, <1>2 DEF IsHashes
<1>4. HashOf(T, p) = Level(T, i, Hashes(T)[i - 1])[p]
  BY <1>1, <1>3 DEF HashOf
<1>5. p \in [1 .. KeyLen - i -> Nibbles]
  BY <1>2 DEF Paths
<1>6. ASSUME d < KeyLen
      PROVE  FlatChildren(T, p) = [b \in Nibbles |-> Hashes(T)[i - 1][Append(p, b)]]
  <2>1. \A b \in Nibbles : Len(Append(p, b)) = d + 1
    BY <1>1
  <2>2. KeyLen - (d + 1) = i - 1
    BY <1>1
  <2> QED
    BY <2>1, <2>2 DEF FlatChildren, HashOf
<1> HIDE DEF i
<1> DEFINE n == NodeAt(T, p)
<1>7. HashOf(T, p) = IF n.node = "leaf" THEN LeafHash(n.key, n.data)
                     ELSE IF n.node = "inner" /\ i > 0
                     THEN InnerHash([b \in Nibbles |-> Hashes(T)[i - 1][Append(p, b)]])
                     ELSE ZeroHash
  BY <1>4, <1>5 DEF Level
<1> HIDE DEF n
<1>8. n = NodeAt(T, p)
  BY DEF n
<1> QED
  BY <1>2, <1>6, <1>7, <1>8

\* A hash is the term it is computed from: no two terms are one hash.
LEMMA HashKinds ==
    \A k, d, f : /\ LeafHash(k, d) # InnerHash(f) /\ LeafHash(k, d) # ZeroHash
                /\ InnerHash(f) # ZeroHash
<1> TAKE k, d, f
<1>1. LeafHash(k, d).hash = "leaf" /\ InnerHash(f).hash = "inner" /\ ZeroHash.hash = "zero"
  BY DEF LeafHash, InnerHash, ZeroHash
<1>2. "leaf" # "inner" /\ "leaf" # "zero" /\ "inner" # "zero"
  OBVIOUS
<1> QED
  BY <1>1, <1>2

\* What a leaf's hash stands for.
LEMMA LeafHashOnce ==
    \A k, d, j, e : LeafHash(k, d) = LeafHash(j, e) => k = j /\ d = e
<1> TAKE k, d, j, e
<1>1. /\ LeafHash(k, d).key = k /\ LeafHash(k, d).data = d
      /\ LeafHash(j, e).key = j /\ LeafHash(j, e).data = e
  BY DEF LeafHash
<1> QED
  BY <1>1

\* What an inner node's hash stands for.
LEMMA InnerHashOnce ==
    \A f, g : InnerHash(f) = InnerHash(g) => f = g
<1> TAKE f, g
<1>1. InnerHash(f).flat = f /\ InnerHash(g).flat = g
  BY DEF InnerHash
<1> QED
  BY <1>1

-------------------------------------------------------------------------------
(* Proofs of inclusion.                                                    *)

\* A proof that verifies against the root of a tree is about a leaf of that tree,
\* whatever the tree and whoever made the proof.
LEMMA VerifiedIsLeaf ==
    ASSUME NEW T, NEW p, p.key \in KeySpace, Len(p.inner) \in Nat,
           VerifyInclusion(p, RootHash(T))
    PROVE  \E d \in 0 .. KeyLen : LET n == NodeAt(T, Prefix(p.key, d))
                                  IN  n.node = "leaf" /\ n.key = p.key /\ n.data = p.data
<1> DEFINE k == p.key
           L == Len(p.inner)
           Bad == {d \in 0 .. L : ~(d <= KeyLen /\ RunningHash(p, d) = HashOf(T, Prefix(k, d)))}
<1>1. KeyLen \in Nat /\ L \in Nat
  BY SpvBundleAssumption
<1>2. 0 \notin Bad
  <2>1. Prefix(k, 0) = <<>>
    BY PrefixZero
  <2> QED
    BY <1>1, <2>1 DEF VerifyInclusion, RootHash
<1>3. ASSUME NEW d \in 0 .. L - 1, d \notin Bad PROVE d + 1 \notin Bad
  <2>1. d \in Nat /\ d \in 0 .. L /\ d + 1 \in 1 .. L /\ d # L
    BY <1>1
  <2>2. d <= KeyLen /\ RunningHash(p, d) = HashOf(T, Prefix(k, d))
    BY <1>3, <2>1
  <2>3. RunningHash(p, d) = InnerHash(p.inner[d + 1])
    BY <2>1 DEF RunningHash
  <2>4. d \in 0 .. KeyLen /\ Prefix(k, d) \in Paths(d)
    <3>1. d \in 0 .. KeyLen
      BY <1>1, <2>1, <2>2
    <3> QED
      BY <3>1, PrefixIs
  <2>5. d < KeyLen /\ HashOf(T, Prefix(k, d)) = InnerHash(FlatChildren(T, Prefix(k, d)))
    <3>1. HashOf(T, Prefix(k, d)) # ZeroHash
      BY <2>2, <2>3, HashKinds
    <3>2. \A j, e : HashOf(T, Prefix(k, d)) # LeafHash(j, e)
      BY <2>2, <2>3, HashKinds
    <3> HIDE DEF k
    <3> QED
      BY <2>4, <3>1, <3>2, HashOfNode
  <2>6. p.inner[d + 1] = FlatChildren(T, Prefix(k, d))
    BY <2>2, <2>3, <2>5, InnerHashOnce
  <2>7. d \in 0 .. KeyLen - 1
    BY <1>1, <2>1, <2>5
  <2>8. p.inner[d + 1][Nibble(k, d)] = HashOf(T, Prefix(k, d + 1))
    BY <2>6, <2>7, PrefixNext DEF FlatChildren
  <2>9. d + 1 - 1 = d
    BY <2>1
  <2>10. p.inner[d + 1][Nibble(k, d)] = RunningHash(p, d + 1)
    BY <2>1, <2>9 DEF VerifyInclusion, BranchHolds
  <2> QED
    BY <1>1, <2>1, <2>5, <2>8, <2>10
<1>4. Bad = {}
  <2> SUFFICES ASSUME NEW a \in Bad PROVE FALSE
    OBVIOUS
  <2>1. Bad \in SUBSET Nat /\ Bad \in SUBSET (0 .. L)
    BY <1>1
  <2> HIDE DEF Bad
  <2>2. PICK m \in Bad : \A y \in Nat : y < m => y \notin Bad
    BY <2>1, LeastNumber
  <2>3. m \in Nat /\ m # 0 /\ m \in 0 .. L
    BY <1>2, <2>1
  <2>4. m - 1 \in 0 .. L - 1 /\ m - 1 \in Nat /\ m - 1 < m /\ m - 1 + 1 = m
    BY <1>1, <2>3
  <2> QED
    BY <1>3, <2>2, <2>4
<1>5. L <= KeyLen /\ RunningHash(p, L) = HashOf(T, Prefix(k, L))
  <2>1. L \in 0 .. L
    BY <1>1
  <2> QED
    BY <1>4, <2>1
<1>6. L \in 0 .. KeyLen
  BY <1>1, <1>5
<1>7. Prefix(k, L) \in Paths(L)
  BY <1>6, PrefixIs
<1>8. HashOf(T, Prefix(k, L)) = LeafHash(k, p.data)
  BY <1>5 DEF RunningHash
<1> DEFINE n == NodeAt(T, Prefix(k, L))
<1>9. n.node = "leaf" /\ LeafHash(n.key, n.data) = LeafHash(k, p.data)
  <2> HIDE DEF L, k
  <2> QED
    BY <1>6, <1>7, <1>8, HashOfNode, HashKinds
<1>10. n.key = k /\ n.data = p.data
  BY <1>9, LeafHashOnce
<1> QED
  BY <1>6, <1>9, <1>10

\* The walk of a key ends at a node that is not an inner one, all before it being so.
LEMMA WalkEnds ==
    ASSUME NEW T, NEW k
    PROVE  /\ WalkEnd(T, k) \in 0 .. KeyLen
           /\ WalkEnd(T, k) = KeyLen \/ NodeAt(T, Prefix(k, WalkEnd(T, k))).node # "inner"
           /\ \A i \in 0 .. KeyLen : i < WalkEnd(T, k) => NodeAt(T, Prefix(k, i)).node = "inner"
<1> DEFINE S == {i \in 0 .. KeyLen : i = KeyLen \/ NodeAt(T, Prefix(k, i)).node # "inner"}
<1>1. KeyLen \in Nat /\ KeyLen \in S /\ S \in SUBSET Nat
  BY SpvBundleAssumption
<1>2. PICK m \in S : \A y \in S : m <= y
  <2> HIDE DEF S
  <2>1. PICK m \in S : \A y \in Nat : y < m => y \notin S
    BY <1>1, LeastNumber
  <2>2. \A y \in S : m <= y
    BY <1>1, <2>1
  <2> QED
    BY <2>2
<1>3. WalkEnd(T, k) \in S /\ \A y \in S : WalkEnd(T, k) <= y
  BY <1>2 DEF WalkEnd, Min
<1>4. ASSUME NEW i \in 0 .. KeyLen, i < WalkEnd(T, k) PROVE NodeAt(T, Prefix(k, i)).node = "inner"
  <2>1. i \in Nat /\ WalkEnd(T, k) \in Nat
    BY <1>1, <1>3
  <2>2. i \notin S
    BY <1>3, <1>4, <2>1
  <2> QED
    BY <2>2
<1> QED
  BY <1>3, <1>4

\* The walk ends at the depth that separates the inner nodes from the others.
LEMMA WalkEndIs ==
    ASSUME NEW T, NEW k, NEW d \in 0 .. KeyLen, NodeAt(T, Prefix(k, d)).node # "inner",
           \A i \in 0 .. KeyLen : i < d => NodeAt(T, Prefix(k, i)).node = "inner"
    PROVE  WalkEnd(T, k) = d
<1>1. KeyLen \in Nat /\ d \in Nat /\ d <= KeyLen
  BY SpvBundleAssumption
<1>2. WalkEnd(T, k) \in 0 .. KeyLen /\ WalkEnd(T, k) \in Nat
  BY <1>1, WalkEnds
<1>3. ~(d < WalkEnd(T, k))
  BY WalkEnds
<1>4. ~(WalkEnd(T, k) < d)
  <2> SUFFICES ASSUME WalkEnd(T, k) < d PROVE FALSE
    OBVIOUS
  <2>1. WalkEnd(T, k) # KeyLen
    BY <1>1, <1>2
  <2> QED
    BY <1>2, <2>1, WalkEnds
<1> QED
  BY <1>1, <1>2, <1>3, <1>4

\* A proof made for a leaf that the walk finds verifies against the root.
LEMMA ProofVerifies ==
    ASSUME NEW T, NEW k \in KeySpace,
           NodeAt(T, Prefix(k, WalkEnd(T, k))).node = "leaf",
           NodeAt(T, Prefix(k, WalkEnd(T, k))).key = k
    PROVE  VerifyInclusion(ProofOf(T, k), RootHash(T))
<1> DEFINE D == WalkEnd(T, k)
           n == NodeAt(T, Prefix(k, D))
           p == ProofOf(T, k)
<1>1. KeyLen \in Nat /\ D \in 0 .. KeyLen /\ D \in Nat /\ D <= KeyLen
  BY SpvBundleAssumption, WalkEnds
<1>2. p = [key |-> k, data |-> n.data, ok |-> TRUE,
           inner |-> [i \in 1 .. D |-> FlatChildren(T, Prefix(k, i - 1))]]
  BY DEF ProofOf
<1>3. /\ p.key = k /\ p.data = n.data /\ p.ok = TRUE
      /\ p.inner = [i \in 1 .. D |-> FlatChildren(T, Prefix(k, i - 1))] /\ Len(p.inner) = D
  <2> HIDE DEF p, D, n
  <2>1. /\ p.key = k /\ p.data = n.data /\ p.ok = TRUE
        /\ p.inner = [i \in 1 .. D |-> FlatChildren(T, Prefix(k, i - 1))]
    BY <1>2
  <2>2. Len(p.inner) = D
    BY <1>1, <2>1
  <2> QED
    BY <2>1, <2>2
<1> HIDE DEF p
<1>4. ASSUME NEW d \in 0 .. D PROVE RunningHash(p, d) = HashOf(T, Prefix(k, d))
  <2>1. d \in Nat /\ d \in 0 .. KeyLen /\ Prefix(k, d) \in Paths(d)
    <3>1. d \in Nat /\ d \in 0 .. KeyLen
      BY <1>1
    <3> QED
      BY <3>1, PrefixIs
  <2>2. CASE d = D
    <3>1. RunningHash(p, d) = LeafHash(k, n.data)
      BY <1>3, <2>2 DEF RunningHash
    <3>2. NodeAt(T, Prefix(k, d)).node = "leaf" /\ NodeAt(T, Prefix(k, d)).key = k
          /\ NodeAt(T, Prefix(k, d)).data = n.data
      BY <2>2
    <3> HIDE DEF D, n
    <3> QED
      BY <2>1, <3>1, <3>2, HashOfNode
  <2>3. CASE d # D
    <3>1. d < D /\ d < KeyLen /\ d + 1 \in 1 .. D /\ d + 1 - 1 = d
      BY <1>1, <2>1, <2>3
    <3>2. NodeAt(T, Prefix(k, d)).node = "inner"
      BY <2>1, <3>1, WalkEnds
    <3> HIDE DEF D, n
    <3>3. RunningHash(p, d) = InnerHash(FlatChildren(T, Prefix(k, d)))
      <4>1. p.inner[d + 1] = FlatChildren(T, Prefix(k, d + 1 - 1))
        BY <1>3, <3>1
      <4>2. p.inner[d + 1] = FlatChildren(T, Prefix(k, d))
        BY <3>1, <4>1
      <4> QED
        BY <1>3, <2>3, <4>2 DEF RunningHash
    <3> QED
      BY <2>1, <3>1, <3>2, <3>3, HashOfNode
  <2> QED
    BY <2>2, <2>3
<1>5. RunningHash(p, 0) = RootHash(T)
  <2>1. 0 \in 0 .. D
    BY <1>1
  <2> HIDE DEF D
  <2> QED
    BY <1>4, <2>1, PrefixZero DEF RootHash
<1>6. ASSUME NEW d \in 1 .. D PROVE BranchHolds(p, d)
  <2>1. d \in 0 .. D /\ d - 1 \in 0 .. KeyLen - 1 /\ d - 1 + 1 = d
    BY <1>1
  <2>2. /\ Prefix(k, d) = Append(Prefix(k, d - 1), Nibble(k, d - 1))
        /\ Nibble(k, d - 1) \in Nibbles
    BY <2>1, PrefixNext
  <2> HIDE DEF D
  <2>3. p.inner[d][Nibble(k, d - 1)] = HashOf(T, Prefix(k, d))
    BY <1>3, <2>2 DEF FlatChildren
  <2> QED
    BY <1>3, <1>4, <2>1, <2>3 DEF BranchHolds
<1> HIDE DEF D
<1> QED
  BY <1>3, <1>5, <1>6 DEF VerifyInclusion, p

\* A proof that was made is one for a leaf that the walk found.
LEMMA ProofIsOfLeaf ==
    ASSUME NEW T, NEW k, ProofOf(T, k).ok
    PROVE  NodeAt(T, Prefix(k, WalkEnd(T, k))).node = "leaf"
           /\ NodeAt(T, Prefix(k, WalkEnd(T, k))).key = k
  BY DEF ProofOf, NoProof

-------------------------------------------------------------------------------
(* The canonical tree.                                                     *)

\* The node that the first i nibbles of a key lead to parts keys of S.
Deep(S, k, i) == i = 0 \/ \E h, j \in S : h # j /\ Agree(h, k, i) /\ Agree(j, k, i)

\* Where keys part, in terms of what they agree on.
LEMMA PartsIs ==
    ASSUME NEW S \in SUBSET KeySpace, NEW k \in KeySpace, NEW i \in 0 .. KeyLen
    PROVE  Parts(S, Prefix(k, i)) <=> Deep(S, k, i)
<1>1. KeyLen \in Nat /\ i \in Nat /\ Len(Prefix(k, i)) = i
  BY PrefixIs, SpvBundleAssumption
<1>2. \A j \in S : Prefix(j, i) = Prefix(k, i) <=> Agree(j, k, i)
  BY PrefixEqual
<1>3. Prefix(k, i) = <<>> <=> i = 0
  <2>1. Prefix(k, i) \in Seq(Nibbles)
    BY PrefixIs
  <2> QED
    BY <1>1, <2>1
<1> QED
  BY <1>1, <1>2, <1>3 DEF Parts, Deep

\* Agreement is an equivalence that is easier at less depth.
LEMMA AgreeFacts ==
    /\ \A j, k, d : Agree(j, k, d) => Agree(k, j, d)
    /\ \A h, j, k, d : Agree(h, j, d) /\ Agree(j, k, d) => Agree(h, k, d)
    /\ \A j, k : \A d, e \in Nat : e <= d /\ Agree(j, k, d) => Agree(j, k, e)
    /\ \A k, d : Agree(k, k, d)
<1>1. \A j, k, d : Agree(j, k, d) => Agree(k, j, d)
  BY DEF Agree
<1>2. \A h, j, k, d : Agree(h, j, d) /\ Agree(j, k, d) => Agree(h, k, d)
  BY DEF Agree
<1>3. ASSUME NEW j, NEW k, NEW d \in Nat, NEW e \in Nat, e <= d, Agree(j, k, d)
      PROVE  Agree(j, k, e)
  <2>1. \A i \in 1 .. e : i \in 1 .. d
    BY <1>3
  <2> QED
    BY <1>3, <2>1 DEF Agree
<1>4. \A k, d : Agree(k, k, d)
  BY DEF Agree
<1> QED
  BY <1>1, <1>2, <1>3, <1>4

\* Above an inner node are inner nodes, and keys that agree share their nodes.
LEMMA DeepFacts ==
    ASSUME NEW S
    PROVE  /\ \A k : \A d, e \in Nat : e <= d /\ Deep(S, k, d) => Deep(S, k, e)
           /\ \A j, k, d : Agree(j, k, d) /\ Deep(S, k, d) => Deep(S, j, d)
<1>1. ASSUME NEW k, NEW d \in Nat, NEW e \in Nat, e <= d, Deep(S, k, d) PROVE Deep(S, k, e)
  <2>1. CASE d = 0
    BY <1>1, <2>1 DEF Deep
  <2>2. CASE d # 0
    <3>1. PICK h \in S, j \in S : h # j /\ Agree(h, k, d) /\ Agree(j, k, d)
      BY <1>1, <2>2 DEF Deep
    <3>2. Agree(h, k, e) /\ Agree(j, k, e)
      BY <1>1, <3>1, AgreeFacts
    <3> QED
      BY <3>1, <3>2 DEF Deep
  <2> QED
    BY <2>1, <2>2
<1>2. ASSUME NEW j, NEW k, NEW d, Agree(j, k, d), Deep(S, k, d) PROVE Deep(S, j, d)
  <2>1. CASE d = 0
    BY <2>1 DEF Deep
  <2>2. CASE d # 0
    <3>1. PICK g \in S, h \in S : g # h /\ Agree(g, k, d) /\ Agree(h, k, d)
      BY <1>2, <2>2 DEF Deep
    <3>2. Agree(k, j, d)
      BY <1>2, AgreeFacts
    <3>3. Agree(g, j, d) /\ Agree(h, j, d)
      BY <3>1, <3>2, AgreeFacts
    <3> QED
      BY <3>1, <3>3 DEF Deep
  <2> QED
    BY <2>1, <2>2
<1> QED
  BY <1>1, <1>2

\* T is the tree of the keys S with the data e.
IsTree(T, S, e) ==
    /\ T = [p \in DOMAIN T |-> T[p]]
    /\ \A p : p \in DOMAIN T <=>
          p = <<>> \/ \E j \in S : \E i \in 1 .. KeyLen : p = Prefix(j, i) /\ Deep(S, j, i - 1)
    /\ T[<<>>] = InnerNode
    /\ \A j \in S : \A i \in 1 .. KeyLen :
          Deep(S, j, i - 1) => T[Prefix(j, i)] = IF Deep(S, j, i) THEN InnerNode ELSE Leaf(j, e[j])

\* No two trees are both the tree of the same entries.
LEMMA OneTree ==
    ASSUME NEW T, NEW U, NEW S, NEW e, IsTree(T, S, e), IsTree(U, S, e)
    PROVE  T = U
<1>1. DOMAIN T = DOMAIN U
  BY DEF IsTree
<1>2. ASSUME NEW p \in DOMAIN T PROVE T[p] = U[p]
  <2>1. CASE p = <<>>
    BY <2>1 DEF IsTree
  <2>2. CASE p # <<>>
    <3>1. PICK j \in S : \E i \in 1 .. KeyLen : p = Prefix(j, i) /\ Deep(S, j, i - 1)
      BY <2>2 DEF IsTree
    <3>2. PICK i \in 1 .. KeyLen : p = Prefix(j, i) /\ Deep(S, j, i - 1)
      BY <3>1
    <3> QED
      BY <3>2 DEF IsTree
  <2> QED
    BY <2>1, <2>2
<1>3. T = [p \in DOMAIN T |-> T[p]] /\ U = [p \in DOMAIN U |-> U[p]]
  BY DEF IsTree
<1> QED
  BY <1>1, <1>2, <1>3

\* A root without branches is the tree of no entries.
LEMMA EmptyIsTree == \A e : IsTree(EmptyInner, {}, e)
<1>1. /\ EmptyInner = [p \in DOMAIN EmptyInner |-> EmptyInner[p]]
      /\ DOMAIN EmptyInner = {<<>>} /\ EmptyInner[<<>>] = InnerNode
  BY DEF EmptyInner
<1> QED
  BY <1>1 DEF IsTree

\* The canonical tree is a tree of its entries.
LEMMA CanonicalIsTree ==
    ASSUME NEW e, DOMAIN e \in SUBSET KeySpace, DOMAIN e # {}
    PROVE  IsTree(CanonicalTree(e), DOMAIN e, e)
<1> DEFINE S == DOMAIN e
           X == {x \in S \X (1 .. KeyLen) : Parts(S, Prefix(x[1], x[2] - 1))}
           at == {<<>> : k \in S} \cup {Prefix(k[1], k[2]) : k \in X}
           Owner(p) == CHOOSE k \in S : Prefix(k, Len(p)) = p
           Node(p) == IF Parts(S, p) THEN InnerNode ELSE Leaf(Owner(p), e[Owner(p)])
           C == [p \in at |-> Node(p)]
<1>1. CanonicalTree(e) = C
  BY DEF CanonicalTree
<1>2. KeyLen \in Nat
  BY SpvBundleAssumption
<1>3. ASSUME NEW p
      PROVE  p \in at <=>
                p = <<>> \/ \E j \in S : \E i \in 1 .. KeyLen : p = Prefix(j, i) /\ Deep(S, j, i - 1)
  <2>1. p \in {<<>> : k \in S} <=> p = <<>>
    OBVIOUS
  <2>2. ASSUME NEW j \in S, NEW i \in 1 .. KeyLen
        PROVE  Parts(S, Prefix(j, i - 1)) <=> Deep(S, j, i - 1)
    <3>1. i - 1 \in 0 .. KeyLen
      BY <1>2
    <3> QED
      BY <3>1, PartsIs
  <2>3. ASSUME p \in {Prefix(k[1], k[2]) : k \in X}
        PROVE  \E j \in S : \E i \in 1 .. KeyLen : p = Prefix(j, i) /\ Deep(S, j, i - 1)
    <3>1. PICK x \in X : p = Prefix(x[1], x[2])
      BY <2>3
    <3>2. x[1] \in S /\ x[2] \in 1 .. KeyLen /\ Parts(S, Prefix(x[1], x[2] - 1))
      BY <3>1
    <3> QED
      BY <2>2, <3>1, <3>2
  <2>4. ASSUME NEW j \in S, NEW i \in 1 .. KeyLen, p = Prefix(j, i), Deep(S, j, i - 1)
        PROVE  p \in {Prefix(k[1], k[2]) : k \in X}
    <3>1. <<j, i>> \in X
      BY <2>2, <2>4
    <3>2. <<j, i>>[1] = j /\ <<j, i>>[2] = i
      OBVIOUS
    <3> QED
      BY <2>4, <3>1, <3>2
  <2> HIDE DEF X
  <2> QED
    BY <2>1, <2>3, <2>4
<1>4. ASSUME NEW j \in S, NEW i \in 1 .. KeyLen, Deep(S, j, i - 1)
      PROVE  C[Prefix(j, i)] = IF Deep(S, j, i) THEN InnerNode ELSE Leaf(j, e[j])
  <2>1. Prefix(j, i) \in at
    <3> HIDE DEF at
    <3> QED
      BY <1>3, <1>4
  <2>2. C[Prefix(j, i)] = Node(Prefix(j, i))
    <3> HIDE DEF at, Node
    <3> QED
      BY <2>1
  <2>3. i \in 0 .. KeyLen /\ i \in Nat /\ i # 0 /\ j \in KeySpace
    BY <1>2
  <2>4. Parts(S, Prefix(j, i)) <=> Deep(S, j, i)
    BY <2>3, PartsIs
  <2>5. CASE Deep(S, j, i)
    BY <2>2, <2>4, <2>5
  <2>6. CASE ~Deep(S, j, i)
    <3>1. Len(Prefix(j, i)) = i
      BY <2>3, PrefixIs
    <3>2. \A k \in S : Prefix(k, Len(Prefix(j, i))) = Prefix(j, i) <=> k = j
      <4> TAKE k \in S
      <4>1. Prefix(k, i) = Prefix(j, i) <=> Agree(k, j, i)
        BY <2>3, PrefixEqual
      <4>2. Agree(j, j, i)
        BY AgreeFacts
      <4>3. Agree(k, j, i) => k = j
        BY <2>3, <2>6, <4>2 DEF Deep
      <4> QED
        BY <3>1, <4>1, <4>2, <4>3
    <3>3. Owner(Prefix(j, i)) = j
      BY <3>2
    <3> HIDE DEF Owner, C
    <3> QED
      BY <2>2, <2>4, <2>6, <3>3
  <2> QED
    BY <2>5, <2>6
<1>5. C[<<>>] = InnerNode
  <2>1. <<>> \in at
    <3> HIDE DEF at
    <3> QED
      BY <1>3
  <2>2. Node(<<>>) = InnerNode
    BY DEF Parts
  <2> HIDE DEF at, Node
  <2> QED
    BY <2>1, <2>2
<1>6. DOMAIN C = at /\ C = [p \in DOMAIN C |-> C[p]]
  <2> HIDE DEF at, Node
  <2> QED
    OBVIOUS
<1> HIDE DEF C, at
<1> QED
  BY <1>1, <1>3, <1>4, <1>5, <1>6 DEF IsTree

\* What is found where a key leads to.
LEMMA NodeInTree ==
    ASSUME NEW T, NEW S \in SUBSET KeySpace, NEW e, IsTree(T, S, e),
           NEW k \in KeySpace, NEW i \in 0 .. KeyLen
    PROVE  /\ Deep(S, k, i) => NodeAt(T, Prefix(k, i)) = InnerNode
           /\ \A j \in S : i > 0 /\ Deep(S, k, i - 1) /\ ~Deep(S, k, i) /\ Agree(j, k, i)
                => NodeAt(T, Prefix(k, i)) = Leaf(j, e[j])
           /\ ~Deep(S, k, i) /\ (\A j \in S : ~Agree(j, k, i)) => NodeAt(T, Prefix(k, i)) = NoNode
           /\ ~Deep(S, k, i) => NodeAt(T, Prefix(k, i)).node # "inner"
<1>1. KeyLen \in Nat /\ i \in Nat
  BY SpvBundleAssumption
<1>2. ASSUME NEW j \in S, Agree(j, k, i), i > 0, Deep(S, j, i - 1)
      PROVE  NodeAt(T, Prefix(k, i)) = IF Deep(S, k, i) THEN InnerNode ELSE Leaf(j, e[j])
  <2>1. Prefix(k, i) = Prefix(j, i)
    BY <1>2, PrefixEqual, AgreeFacts
  <2>2. i \in 1 .. KeyLen
    BY <1>1, <1>2
  <2>3. Deep(S, j, i) <=> Deep(S, k, i)
    BY <1>2, AgreeFacts, DeepFacts
  <2>4. Prefix(j, i) \in DOMAIN T
    BY <1>2, <2>2 DEF IsTree
  <2>5. T[Prefix(j, i)] = IF Deep(S, j, i) THEN InnerNode ELSE Leaf(j, e[j])
    BY <1>2, <2>2 DEF IsTree
  <2> QED
    BY <2>1, <2>3, <2>4, <2>5 DEF NodeAt
<1>3. i > 0 => i - 1 \in Nat /\ i - 1 <= i
  BY <1>1
<1>4. ASSUME Deep(S, k, i) PROVE NodeAt(T, Prefix(k, i)) = InnerNode
  <2>1. CASE i = 0
    <3>1. Prefix(k, i) = <<>>
      BY <2>1, PrefixZero
    <3>2. <<>> \in DOMAIN T /\ T[<<>>] = InnerNode
      BY DEF IsTree
    <3> QED
      BY <3>1, <3>2 DEF NodeAt
  <2>2. CASE i # 0
    <3>1. i > 0
      BY <1>1, <2>2
    <3>2. PICK j \in S : Agree(j, k, i)
      BY <1>4, <2>2 DEF Deep
    <3>3. Deep(S, j, i)
      BY <1>4, <3>2, DeepFacts
    <3>4. Deep(S, j, i - 1)
      BY <1>1, <1>3, <3>1, <3>3, DeepFacts
    <3> QED
      BY <1>2, <1>4, <3>1, <3>2, <3>4
  <2> QED
    BY <2>1, <2>2
<1>5. ASSUME NEW j \in S, i > 0, Deep(S, k, i - 1), ~Deep(S, k, i), Agree(j, k, i)
      PROVE  NodeAt(T, Prefix(k, i)) = Leaf(j, e[j])
  <2>1. Agree(j, k, i - 1)
    BY <1>1, <1>3, <1>5, AgreeFacts
  <2>2. Deep(S, j, i - 1)
    BY <1>5, <2>1, DeepFacts
  <2> QED
    BY <1>2, <1>5, <2>2
<1>6. ASSUME ~Deep(S, k, i), Prefix(k, i) \in DOMAIN T
      PROVE  \E j \in S : Agree(j, k, i) /\ NodeAt(T, Prefix(k, i)) = Leaf(j, e[j])
  <2>1. i # 0
    BY <1>6 DEF Deep
  <2>2. Prefix(k, i) # <<>>
    <3>1. Prefix(k, i) \in Seq(Nibbles) /\ Len(Prefix(k, i)) = i
      BY PrefixIs
    <3> QED
      BY <2>1, <3>1
  <2>3. PICK j \in S : \E a \in 1 .. KeyLen : Prefix(k, i) = Prefix(j, a) /\ Deep(S, j, a - 1)
    BY <1>6, <2>2 DEF IsTree
  <2>4. PICK a \in 1 .. KeyLen : Prefix(k, i) = Prefix(j, a) /\ Deep(S, j, a - 1)
    BY <2>3
  <2>5. a \in 0 .. KeyLen
    BY <1>1
  <2>6. a = i /\ Agree(k, j, i)
    BY <2>4, <2>5, PrefixEqual
  <2>7. Agree(j, k, i) /\ i > 0
    BY <1>1, <2>1, <2>6, AgreeFacts
  <2> QED
    BY <1>2, <1>6, <2>4, <2>6, <2>7
<1>7. InnerNode.node = "inner" /\ NoNode.node = "empty" /\ \A j, d : Leaf(j, d).node = "leaf"
  BY DEF InnerNode, NoNode, Leaf
<1>8. ~Deep(S, k, i) /\ (\A j \in S : ~Agree(j, k, i)) => NodeAt(T, Prefix(k, i)) = NoNode
  BY <1>6 DEF NodeAt
<1>9. ~Deep(S, k, i) => NodeAt(T, Prefix(k, i)).node # "inner"
  <2> SUFFICES ASSUME ~Deep(S, k, i) PROVE NodeAt(T, Prefix(k, i)).node # "inner"
    OBVIOUS
  <2>1. CASE Prefix(k, i) \in DOMAIN T
    BY <1>6, <1>7, <2>1
  <2>2. CASE Prefix(k, i) \notin DOMAIN T
    BY <1>7, <2>2 DEF NodeAt
  <2> QED
    BY <2>1, <2>2
<1> QED
  BY <1>4, <1>5, <1>8, <1>9

\* The keys of the ledgers are keys.
LEMMA KeysInSpace == Keys \cup {Escrow} \in SUBSET KeySpace
  BY SpvBundleAssumption DEF KeySpace, Paths

\* Keys that part at their last nibble agree before it.
LEMMA ClashIs ==
    \A S : Clash(S) <=> \E j, k \in S : j # k /\ Agree(j, k, KeyLen - 1)
  BY DEF Clash, Agree

\* The way of a key leaves the inner nodes, and before its last nibble unless two keys
\* of the tree part there.
LEMMA WayEnds ==
    ASSUME NEW S \in SUBSET KeySpace, NEW k \in KeySpace
    PROVE  \E D \in 1 .. KeyLen :
              Deep(S, k, D - 1) /\ ~Deep(S, k, D) /\ (~Clash(S) => D \in 1 .. KeyLen - 1)
<1>1. KeyLen \in Nat /\ KeyLen - 1 \in Nat /\ KeyLen - 1 # 0 /\ KeyLen # 0
  BY SpvBundleAssumption
<1>2. ~Deep(S, k, KeyLen)
  <2> SUFFICES ASSUME Deep(S, k, KeyLen) PROVE FALSE
    OBVIOUS
  <2>1. PICK h \in S, j \in S : h # j /\ Agree(h, k, KeyLen) /\ Agree(j, k, KeyLen)
    BY <1>1 DEF Deep
  <2>2. Agree(h, j, KeyLen)
    BY <2>1, AgreeFacts
  <2>3. h = [i \in 1 .. KeyLen |-> h[i]] /\ j = [i \in 1 .. KeyLen |-> j[i]]
    BY DEF KeySpace, Paths
  <2>4. \A i \in 1 .. KeyLen : h[i] = j[i]
    BY <2>2 DEF Agree
  <2> QED
    BY <2>1, <2>3, <2>4
<1> DEFINE Out == {i \in 0 .. KeyLen : ~Deep(S, k, i)}
<1>3. KeyLen \in Out /\ Out \in SUBSET Nat /\ 0 \notin Out
  BY <1>1, <1>2 DEF Deep
<1>4. PICK D \in Out : \A y \in Nat : y < D => y \notin Out
  <2> HIDE DEF Out
  <2> QED
    BY <1>3, LeastNumber
<1>5. D \in 0 .. KeyLen /\ D # 0 /\ ~Deep(S, k, D)
  BY <1>3
<1>6. D - 1 \in Nat /\ D - 1 < D /\ D - 1 \in 0 .. KeyLen /\ D \in 1 .. KeyLen
  BY <1>1, <1>5
<1>7. Deep(S, k, D - 1)
  BY <1>4, <1>6
<1>8. ASSUME ~Clash(S) PROVE D \in 1 .. KeyLen - 1
  <2>1. D # KeyLen
    <3> SUFFICES ASSUME D = KeyLen PROVE FALSE
      OBVIOUS
    <3>1. PICK h \in S, j \in S : h # j /\ Agree(h, k, KeyLen - 1) /\ Agree(j, k, KeyLen - 1)
      BY <1>1, <1>7 DEF Deep
    <3>2. Agree(h, j, KeyLen - 1)
      BY <3>1, AgreeFacts
    <3> QED
      BY <1>8, <3>1, <3>2, ClashIs
  <2> QED
    BY <1>1, <1>6, <2>1
<1> QED
  BY <1>5, <1>6, <1>7, <1>8

\* That is where the walk of the key ends.
LEMMA WalkInTree ==
    ASSUME NEW T, NEW S \in SUBSET KeySpace, NEW e, IsTree(T, S, e), NEW k \in KeySpace,
           NEW D \in 1 .. KeyLen, Deep(S, k, D - 1), ~Deep(S, k, D)
    PROVE  WalkEnd(T, k) = D
<1>1. KeyLen \in Nat /\ D \in Nat /\ D \in 0 .. KeyLen /\ D - 1 \in Nat
  BY SpvBundleAssumption
<1>2. NodeAt(T, Prefix(k, D)).node # "inner"
  BY <1>1, NodeInTree
<1>3. ASSUME NEW i \in 0 .. KeyLen, i < D PROVE NodeAt(T, Prefix(k, i)).node = "inner"
  <2>1. i \in Nat /\ i <= D - 1
    BY <1>1, <1>3
  <2>2. Deep(S, k, i)
    BY <1>1, <2>1, DeepFacts
  <2>3. NodeAt(T, Prefix(k, i)) = InnerNode
    BY <2>2, NodeInTree
  <2> QED
    BY <2>3 DEF InnerNode
<1> QED
  BY <1>1, <1>2, <1>3, WalkEndIs

\* Two keys that agree at first part at the depth of the split.
LEMMA PartingIs ==
    ASSUME NEW j \in KeySpace, NEW k \in KeySpace, NEW D \in 1 .. KeyLen - 1,
           Agree(j, k, D), ~Agree(j, k, KeyLen - 1)
    PROVE  /\ Parting(j, k, D) \in D .. KeyLen - 2
           /\ Agree(j, k, Parting(j, k, D)) /\ ~Agree(j, k, Parting(j, k, D) + 1)
<1> DEFINE P == {i \in D .. KeyLen - 1 : Nibble(j, i) # Nibble(k, i)}
<1>1. KeyLen \in Nat /\ D \in Nat /\ P \in SUBSET Nat
  BY SpvBundleAssumption
<1>2. PICK a \in 1 .. KeyLen - 1 : j[a] # k[a]
  BY DEF Agree
<1>3. a \in Nat /\ ~(a <= D)
  <2>1. a <= D => a \in 1 .. D
    BY <1>1
  <2> QED
    BY <1>1, <1>2, <2>1 DEF Agree
<1>4. a - 1 \in D .. KeyLen - 2 /\ a - 1 \in D .. KeyLen - 1 /\ a - 1 + 1 = a
  BY <1>1, <1>3
<1>5. a - 1 \in P
  BY <1>2, <1>4 DEF Nibble
<1>6. PICK m \in P : \A y \in P : m <= y
  <2> HIDE DEF P
  <2>1. PICK m \in P : \A y \in Nat : y < m => y \notin P
    BY <1>1, <1>5, LeastNumber
  <2>2. \A y \in P : m <= y
    BY <1>1, <2>1
  <2> QED
    BY <2>2
<1> DEFINE M == Parting(j, k, D)
<1>7. M \in P /\ \A y \in P : M <= y
  BY <1>6 DEF Parting, Min
<1>8. M \in D .. KeyLen - 1 /\ Nibble(j, M) # Nibble(k, M) /\ M <= a - 1
  BY <1>5, <1>7
<1>9. M \in D .. KeyLen - 2 /\ M \in Nat
  BY <1>1, <1>4, <1>8
<1>10. ASSUME NEW i \in 1 .. M PROVE j[i] = k[i]
  <2>1. i \in Nat /\ i # 0 /\ i <= M
    BY <1>9
  <2>2. CASE i <= D
    <3>1. i \in 1 .. D
      BY <1>1, <2>1, <2>2
    <3> QED
      BY <3>1 DEF Agree
  <2>3. CASE ~(i <= D)
    <3>1. i - 1 \in D .. KeyLen - 1 /\ ~(M <= i - 1) /\ i - 1 + 1 = i
      BY <1>1, <1>9, <2>1, <2>3
    <3>2. i - 1 \notin P
      BY <1>7, <3>1
    <3> QED
      BY <3>1, <3>2 DEF Nibble
  <2> QED
    BY <2>2, <2>3
<1>11. M + 1 \in 1 .. M + 1 /\ j[M + 1] # k[M + 1]
  BY <1>8, <1>9 DEF Nibble
<1> QED
  BY <1>9, <1>10, <1>11 DEF Agree

\* Two keys that agree but for their last nibble part there.
LEMMA PartingLast ==
    ASSUME NEW j \in KeySpace, NEW k \in KeySpace, j # k, NEW D \in 1 .. KeyLen - 1,
           Agree(j, k, KeyLen - 1)
    PROVE  Parting(j, k, D) = KeyLen - 1
<1> DEFINE P == {i \in D .. KeyLen - 1 : Nibble(j, i) # Nibble(k, i)}
<1>1. KeyLen \in Nat /\ D \in Nat /\ KeyLen - 1 \in D .. KeyLen - 1 /\ KeyLen - 1 + 1 = KeyLen
  BY SpvBundleAssumption
<1>2. j[KeyLen] # k[KeyLen]
  <2>1. j = [i \in 1 .. KeyLen |-> j[i]] /\ k = [i \in 1 .. KeyLen |-> k[i]]
    BY DEF KeySpace, Paths
  <2>2. PICK a \in 1 .. KeyLen : j[a] # k[a]
    BY <2>1
  <2>3. a \notin 1 .. KeyLen - 1
    BY <2>2 DEF Agree
  <2>4. a = KeyLen
    BY <1>1, <2>3
  <2> QED
    BY <2>2, <2>4
<1>3. KeyLen - 1 \in P
  BY <1>1, <1>2 DEF Nibble
<1>4. ASSUME NEW i \in P PROVE i = KeyLen - 1
  <2>1. i \in D .. KeyLen - 1 /\ j[i + 1] # k[i + 1]
    BY DEF Nibble
  <2>2. i + 1 \notin 1 .. KeyLen - 1
    BY <2>1 DEF Agree
  <2> QED
    BY <1>1, <2>1, <2>2
<1>5. P = {KeyLen - 1}
  BY <1>3, <1>4
<1>6. Parting(j, k, D) = Min(P)
  BY DEF Parting
<1> HIDE DEF P
<1> QED
  BY <1>1, <1>5, <1>6 DEF Min

\* A key that joins others makes the nodes inner ones as far as it agrees with one.
LEMMA DeepGrows ==
    ASSUME NEW S, NEW k, k \notin S, NEW m \in Nat, m = 0 \/ \E j \in S : Agree(j, k, m),
           \A h \in S : ~Agree(h, k, m + 1)
    PROVE  \A x : \A i \in Nat :
              Deep(S \cup {k}, x, i) <=> Deep(S, x, i) \/ (i <= m /\ Agree(x, k, i))
<1> TAKE x
<1> TAKE i \in Nat
<1>1. Deep(S, x, i) => Deep(S \cup {k}, x, i)
  BY DEF Deep
<1>2. ASSUME i <= m, Agree(x, k, i) PROVE Deep(S \cup {k}, x, i)
  <2>1. CASE i = 0
    BY <2>1 DEF Deep
  <2>2. CASE i # 0
    <3>1. PICK j \in S : Agree(j, k, m)
      BY <1>2, <2>2
    <3>2. Agree(j, k, i) /\ Agree(k, x, i)
      BY <1>2, <3>1, AgreeFacts
    <3>3. Agree(j, x, i) /\ j # k
      BY <3>2, AgreeFacts
    <3> QED
      BY <3>2, <3>3 DEF Deep
  <2> QED
    BY <2>1, <2>2
<1>3. ASSUME Deep(S \cup {k}, x, i), ~Deep(S, x, i) PROVE i <= m /\ Agree(x, k, i)
  <2>1. i # 0
    BY <1>3 DEF Deep
  <2>2. PICK g \in S \cup {k}, h \in S \cup {k} : g # h /\ Agree(g, x, i) /\ Agree(h, x, i)
    BY <1>3, <2>1 DEF Deep
  <2>3. ~(g \in S /\ h \in S)
    BY <1>3, <2>2 DEF Deep
  <2>4. PICK j \in S : Agree(j, x, i) /\ Agree(k, x, i)
    BY <2>2, <2>3
  <2>5. Agree(x, k, i)
    BY <2>4, AgreeFacts
  <2>6. Agree(j, k, i)
    BY <2>4, <2>5, AgreeFacts
  <2>7. ~(m + 1 <= i)
    <3>1. m + 1 \in Nat
      OBVIOUS
    <3> QED
      BY <2>6, <3>1, AgreeFacts
  <2> QED
    BY <2>5, <2>7
<1> QED
  BY <1>1, <1>2, <1>3

\* The tree after a key has found an empty branch.
LEMMA PutEmpty ==
    ASSUME NEW T, NEW S \in SUBSET Keys, NEW e, IsTree(T, S, e), NEW k \in Keys, k \notin S,
           NEW D \in 1 .. KeyLen - 1, Deep(S, k, D - 1), ~Deep(S, k, D),
           \A h \in S : ~Agree(h, k, D), NEW f, \A h \in S : f[h] = e[h]
    PROVE  IsTree(Overlay(T, [p \in {Prefix(k, D)} |-> Leaf(k, f[k])]), S \cup {k}, f)
<1> DEFINE N == [p \in {Prefix(k, D)} |-> Leaf(k, f[k])]
           O == Overlay(T, N)
           U == S \cup {k}
<1>1. /\ KeyLen \in Nat /\ D \in Nat /\ D - 1 \in Nat /\ D \in 0 .. KeyLen /\ D \in 1 .. KeyLen
      /\ D - 1 + 1 = D
  BY SpvBundleAssumption
<1>2. S \in SUBSET KeySpace /\ k \in KeySpace /\ U \in SUBSET KeySpace
  BY KeysInSpace
<1>3. ASSUME NEW x, NEW i \in Nat PROVE Deep(U, x, i) <=> Deep(S, x, i)
  <2>1. D - 1 = 0 \/ \E j \in S : Agree(j, k, D - 1)
    BY DEF Deep
  <2>2. Deep(U, x, i) <=> Deep(S, x, i) \/ (i <= D - 1 /\ Agree(x, k, i))
    BY <1>1, <2>1, DeepGrows
  <2>3. i <= D - 1 /\ Agree(x, k, i) => Deep(S, x, i)
    BY <1>1, DeepFacts
  <2> QED
    BY <2>2, <2>3
<1>4. /\ DOMAIN O = DOMAIN T \cup {Prefix(k, D)} /\ O = [p \in DOMAIN O |-> O[p]]
      /\ O[Prefix(k, D)] = Leaf(k, f[k])
      /\ \A p \in DOMAIN T : p # Prefix(k, D) => O[p] = T[p]
  <2>1. DOMAIN N = {Prefix(k, D)} /\ N[Prefix(k, D)] = Leaf(k, f[k])
    OBVIOUS
  <2> HIDE DEF N
  <2>2. /\ DOMAIN O = DOMAIN T \cup DOMAIN N /\ O = [p \in DOMAIN O |-> O[p]]
        /\ \A p \in DOMAIN N : O[p] = N[p]
        /\ \A p \in DOMAIN T : p \notin DOMAIN N => O[p] = T[p]
    BY DEF Overlay
  <2> HIDE DEF O
  <2>3. O[Prefix(k, D)] = Leaf(k, f[k])
    BY <2>1, <2>2
  <2>4. \A p \in DOMAIN T : p # Prefix(k, D) => O[p] = T[p]
    BY <2>1, <2>2
  <2> QED
    BY <2>1, <2>2, <2>3, <2>4
<1> HIDE DEF O, N
<1>5. ASSUME NEW i \in 1 .. KeyLen, Deep(S, k, i - 1), i # D
      PROVE  Prefix(k, i) \in DOMAIN T /\ T[Prefix(k, i)] = InnerNode /\ Deep(S, k, i)
  <2>1. i \in Nat /\ i - 1 \in Nat /\ i \in 0 .. KeyLen
    BY <1>1
  <2>2. ~(D <= i - 1)
    BY <1>1, <1>5, <2>1, DeepFacts
  <2>3. i <= D - 1
    BY <1>1, <1>5, <2>1, <2>2
  <2>4. Deep(S, k, i)
    BY <1>1, <2>1, <2>3, DeepFacts
  <2>5. NodeAt(T, Prefix(k, i)) = InnerNode
    BY <1>2, <2>1, <2>4, NodeInTree
  <2>6. InnerNode # NoNode
    <3>1. InnerNode.node = "inner" /\ NoNode.node = "empty" /\ "inner" # "empty"
      BY DEF InnerNode, NoNode
    <3> QED
      BY <3>1
  <2> QED
    BY <2>4, <2>5, <2>6 DEF NodeAt
<1>6. Prefix(k, D) # <<>>
  <2>1. Prefix(k, D) \in Seq(Nibbles) /\ Len(Prefix(k, D)) = D /\ D # 0
    BY <1>1, <1>2, PrefixIs
  <2> QED
    BY <2>1
<1>7. ASSUME NEW p
      PROVE  p \in DOMAIN O <=>
                p = <<>> \/ \E j \in U : \E i \in 1 .. KeyLen : p = Prefix(j, i) /\ Deep(U, j, i - 1)
  <2>1. \A j, i : i \in 1 .. KeyLen => (Deep(U, j, i - 1) <=> Deep(S, j, i - 1))
    <3> TAKE j, i
    <3>1. i \in 1 .. KeyLen => i - 1 \in Nat
      BY <1>1
    <3> QED
      BY <1>3, <3>1
  <2>2. ASSUME p \in DOMAIN T
        PROVE  p = <<>> \/ \E j \in U : \E i \in 1 .. KeyLen : p = Prefix(j, i) /\ Deep(U, j, i - 1)
    <3>1. CASE p = <<>>
      BY <3>1
    <3>2. CASE p # <<>>
      <4>1. PICK j \in S : \E i \in 1 .. KeyLen : p = Prefix(j, i) /\ Deep(S, j, i - 1)
        BY <2>2, <3>2 DEF IsTree
      <4> QED
        BY <2>1, <4>1
    <3> QED
      BY <3>1, <3>2
  <2>3. ASSUME p = Prefix(k, D)
        PROVE  \E j \in U : \E i \in 1 .. KeyLen : p = Prefix(j, i) /\ Deep(U, j, i - 1)
    BY <1>1, <2>1, <2>3
  <2>4. p = <<>> => p \in DOMAIN T
    BY DEF IsTree
  <2>5. ASSUME NEW j \in U, NEW i \in 1 .. KeyLen, p = Prefix(j, i), Deep(U, j, i - 1)
        PROVE  p \in DOMAIN O
    <3>1. Deep(S, j, i - 1)
      BY <2>1, <2>5
    <3>2. CASE j \in S
      <4>1. p \in DOMAIN T
        BY <2>5, <3>1, <3>2 DEF IsTree
      <4> QED
        BY <1>4, <4>1
    <3>3. CASE j = k
      BY <1>4, <1>5, <2>5, <3>1, <3>3
    <3> QED
      BY <3>2, <3>3
  <2> QED
    BY <1>4, <2>2, <2>3, <2>4, <2>5
<1>8. O[<<>>] = InnerNode
  <2>1. <<>> \in DOMAIN T /\ T[<<>>] = InnerNode
    BY DEF IsTree
  <2> QED
    BY <1>4, <1>6, <2>1
<1>9. ASSUME NEW j \in U, NEW i \in 1 .. KeyLen, Deep(U, j, i - 1)
      PROVE  O[Prefix(j, i)] = IF Deep(U, j, i) THEN InnerNode ELSE Leaf(j, f[j])
  <2>1. i \in Nat /\ i - 1 \in Nat /\ i \in 0 .. KeyLen
    BY <1>1
  <2>2. Deep(S, j, i - 1) /\ (Deep(U, j, i) <=> Deep(S, j, i))
    BY <1>3, <1>9, <2>1
  <2>3. CASE j \in S
    <3>1. Prefix(j, i) # Prefix(k, D)
      <4>1. j \in KeySpace /\ k \in KeySpace
        BY <1>2
      <4> QED
        BY <1>1, <2>1, <2>3, <4>1, PrefixEqual
    <3>2. /\ Prefix(j, i) \in DOMAIN T
          /\ T[Prefix(j, i)] = IF Deep(S, j, i) THEN InnerNode ELSE Leaf(j, e[j])
      BY <2>2, <2>3 DEF IsTree
    <3>3. f[j] = e[j]
      BY <2>3
    <3> QED
      BY <1>4, <2>2, <3>1, <3>2, <3>3
  <2>4. CASE j = k /\ i = D
    BY <1>4, <2>2, <2>4
  <2>5. CASE j = k /\ i # D
    <3>1. Prefix(k, i) # Prefix(k, D)
      BY <1>1, <1>2, <2>1, <2>5, PrefixEqual
    <3> QED
      BY <1>4, <1>5, <2>2, <2>5, <3>1
  <2> QED
    BY <2>3, <2>4, <2>5
<1> HIDE DEF U
<1>10. IsTree(O, U, f)
  BY <1>4, <1>7, <1>8, <1>9 DEF IsTree
<1> QED
  BY <1>10 DEF O, N, U

\* The tree after a key has met the leaf of another, which is moved down.
LEMMA PutSplit ==
    ASSUME NEW T, NEW S \in SUBSET Keys, NEW e, IsTree(T, S, e), NEW k \in Keys, k \notin S,
           NEW D \in 1 .. KeyLen - 1, Deep(S, k, D - 1), ~Deep(S, k, D),
           NEW j0 \in S, Agree(j0, k, D),
           NEW m \in D .. KeyLen - 2, Agree(j0, k, m), ~Agree(j0, k, m + 1),
           NEW f, \A h \in S : f[h] = e[h]
    PROVE  IsTree(Overlay(Overlay(T, Split(Leaf(j0, e[j0]), k, D, m)),
                          [p \in {Prefix(k, m + 1)} |-> Leaf(k, f[k])]), S \cup {k}, f)
<1> DEFINE n == Leaf(j0, e[j0])
           M == Split(n, k, D, m)
           N == [p \in {Prefix(k, m + 1)} |-> Leaf(k, f[k])]
           O1 == Overlay(T, M)
           O == Overlay(O1, N)
           U == S \cup {k}
           way == {Prefix(k, i) : i \in D .. m}
           pk == Prefix(k, m + 1)
           pj == Prefix(j0, m + 1)
<1>1. /\ KeyLen \in Nat /\ D \in Nat /\ D - 1 \in Nat /\ D \in 0 .. KeyLen /\ D \in 1 .. KeyLen
      /\ D - 1 + 1 = D /\ m \in Nat /\ m + 1 \in Nat /\ m + 1 \in 1 .. KeyLen /\ m + 1 \in 0 .. KeyLen
      /\ D <= m /\ m + 1 - 1 = m
  BY SpvBundleAssumption
<1>2. S \in SUBSET KeySpace /\ k \in KeySpace /\ U \in SUBSET KeySpace /\ j0 \in KeySpace
  BY KeysInSpace
<1>3. ASSUME NEW h \in S, NEW i \in Nat, D <= i, Agree(h, k, i) PROVE h = j0
  <2>1. Agree(h, k, D)
    BY <1>1, <1>3, AgreeFacts
  <2>2. D # 0
    BY <1>1
  <2> QED
    BY <2>1, <2>2 DEF Deep
<1>4. ASSUME NEW x, NEW i \in Nat
      PROVE  Deep(U, x, i) <=> Deep(S, x, i) \/ (i <= m /\ Agree(x, k, i))
  <2>1. \A h \in S : ~Agree(h, k, m + 1)
    <3>1. D <= m + 1
      BY <1>1
    <3> QED
      BY <1>1, <1>3, <3>1
  <2> QED
    BY <1>1, <2>1, DeepGrows
<1>5. /\ DOMAIN O = DOMAIN T \cup way \cup {pj} \cup {pk} /\ O = [p \in DOMAIN O |-> O[p]]
      /\ O[pk] = Leaf(k, f[k])
      /\ pj # pk => O[pj] = n
      /\ \A p \in way : p # pk /\ p # pj => O[p] = InnerNode
      /\ \A p \in DOMAIN T : p # pk /\ p # pj /\ p \notin way => O[p] = T[p]
  <2>1. DOMAIN N = {pk} /\ N[pk] = Leaf(k, f[k])
    OBVIOUS
  <2>2. n.key = j0
    BY DEF Leaf
  <2>3. /\ DOMAIN M = way \cup {pj} /\ M[pj] = n
        /\ \A p \in way : p # pj => M[p] = InnerNode
    <3> HIDE DEF n
    <3>1. M = [p \in way \cup {pj} |-> IF p = pj THEN n ELSE InnerNode]
      BY <2>2 DEF Split
    <3> HIDE DEF M, way, pj
    <3> QED
      BY <3>1
  <2> HIDE DEF N, M, way, pj, pk, n
  <2>4. /\ DOMAIN O1 = DOMAIN T \cup DOMAIN M
        /\ \A p \in DOMAIN M : O1[p] = M[p]
        /\ \A p \in DOMAIN T : p \notin DOMAIN M => O1[p] = T[p]
    BY DEF Overlay
  <2> HIDE DEF O1
  <2>5. /\ DOMAIN O = DOMAIN O1 \cup DOMAIN N /\ O = [p \in DOMAIN O |-> O[p]]
        /\ \A p \in DOMAIN N : O[p] = N[p]
        /\ \A p \in DOMAIN O1 : p \notin DOMAIN N => O[p] = O1[p]
    BY DEF Overlay
  <2> HIDE DEF O
  <2>6. O[pk] = Leaf(k, f[k])
    BY <2>1, <2>5
  <2>7. pj # pk => O[pj] = n
    BY <2>1, <2>3, <2>4, <2>5
  <2>8. \A p \in way : p # pk /\ p # pj => O[p] = InnerNode
    BY <2>1, <2>3, <2>4, <2>5
  <2>9. \A p \in DOMAIN T : p # pk /\ p # pj /\ p \notin way => O[p] = T[p]
    BY <2>1, <2>3, <2>4, <2>5
  <2>10. DOMAIN O = DOMAIN T \cup way \cup {pj} \cup {pk}
    BY <2>1, <2>3, <2>4, <2>5
  <2> QED
    BY <2>5, <2>6, <2>7, <2>8, <2>9, <2>10
<1> HIDE DEF O, O1, N, M
<1>6. ASSUME NEW i \in 1 .. KeyLen, i < D
      PROVE  Prefix(k, i) \in DOMAIN T /\ T[Prefix(k, i)] = InnerNode
  <2>1. i \in Nat /\ i <= D - 1 /\ i \in 0 .. KeyLen
    BY <1>1, <1>6
  <2>4. Deep(S, k, i)
    BY <1>1, <2>1, DeepFacts
  <2>5. NodeAt(T, Prefix(k, i)) = InnerNode
    BY <1>2, <2>1, <2>4, NodeInTree
  <2>6. InnerNode # NoNode
    <3>1. InnerNode.node = "inner" /\ NoNode.node = "empty" /\ "inner" # "empty"
      BY DEF InnerNode, NoNode
    <3> QED
      BY <3>1
  <2> QED
    BY <2>4, <2>5, <2>6 DEF NodeAt
<1>7. ASSUME NEW j \in U, NEW i \in 1 .. KeyLen
      PROVE  /\ Prefix(j, i) = pk <=> i = m + 1 /\ Agree(j, k, i)
             /\ Prefix(j, i) = pj <=> i = m + 1 /\ Agree(j, j0, i)
             /\ Prefix(j, i) \in way <=> i \in D .. m /\ Agree(j, k, i)
             /\ Prefix(j, i) # <<>>
  <2>1. i \in 0 .. KeyLen /\ i \in Nat /\ i # 0 /\ j \in KeySpace
    BY <1>1, <1>2
  <2>2. \A a \in D .. m : a \in 0 .. KeyLen
    BY <1>1
  <2>3. \A a \in D .. m : Prefix(j, i) = Prefix(k, a) <=> i = a /\ Agree(j, k, i)
    BY <1>2, <2>1, <2>2, PrefixEqual
  <2>4. Prefix(j, i) \in Seq(Nibbles) /\ Len(Prefix(j, i)) = i
    BY <2>1, PrefixIs
  <2>5. Prefix(j, i) = pk <=> i = m + 1 /\ Agree(j, k, i)
    BY <1>1, <1>2, <2>1, PrefixEqual
  <2>6. Prefix(j, i) = pj <=> i = m + 1 /\ Agree(j, j0, i)
    BY <1>1, <1>2, <2>1, PrefixEqual
  <2>7. Prefix(j, i) # <<>>
    BY <2>1, <2>4
  <2>8. Prefix(j, i) \in way <=> i \in D .. m /\ Agree(j, k, i)
    BY <2>3
  <2> QED
    BY <2>5, <2>6, <2>7, <2>8
\* A node of the new tree that was not in the old one.
<1>8. ASSUME NEW j \in U, NEW i \in 1 .. KeyLen, Deep(U, j, i - 1), ~(j \in S /\ Deep(S, j, i - 1))
      PROVE  \/ j = k /\ i < D
             \/ i \in D .. m /\ Agree(j, k, i)
             \/ i = m + 1 /\ (j = k \/ j = j0)
  <2>1. i \in Nat /\ i - 1 \in Nat
    BY <1>1
  <2>2. Deep(S, j, i - 1) \/ (i - 1 <= m /\ Agree(j, k, i - 1))
    BY <1>4, <1>8, <2>1
  <2>3. CASE j = k
    <3>1. i <= m + 1
      <4>1. CASE Deep(S, k, i - 1)
        <5>1. ~(D <= i - 1)
          BY <1>1, <2>1, <4>1, DeepFacts
        <5> QED
          BY <1>1, <2>1, <5>1
      <4>2. CASE ~Deep(S, k, i - 1)
        BY <1>1, <2>1, <2>2, <2>3, <4>2
      <4> QED
        BY <4>1, <4>2
    <3>2. Agree(k, k, i)
      BY AgreeFacts
    <3>3. i < D \/ i \in D .. m \/ i = m + 1
      BY <1>1, <2>1, <3>1
    <3> QED
      BY <2>3, <3>2, <3>3
  <2>4. CASE j # k
    <3>1. j \in S /\ ~Deep(S, j, i - 1) /\ i - 1 <= m /\ Agree(j, k, i - 1)
      BY <1>8, <2>2, <2>4
    <3>2. D <= i - 1
      <4>1. i - 1 <= D - 1 => Deep(S, k, i - 1)
        BY <1>1, <2>1, DeepFacts
      <4>2. ~(i - 1 <= D - 1)
        BY <3>1, <4>1, DeepFacts
      <4> QED
        BY <1>1, <2>1, <4>2
    <3>3. j = j0
      BY <1>3, <2>1, <3>1, <3>2
    <3>4. CASE i = m + 1
      BY <3>3, <3>4
    <3>5. CASE i # m + 1
      <4>1. i <= m /\ i \in D .. m
        BY <1>1, <2>1, <3>1, <3>2, <3>5
      <4>2. Agree(j0, k, i)
        BY <1>1, <2>1, <4>1, AgreeFacts
      <4> QED
        BY <3>3, <4>1, <4>2
    <3> QED
      BY <3>4, <3>5
  <2> QED
    BY <2>3, <2>4
<1>9. ASSUME NEW p
      PROVE  p \in DOMAIN O <=>
                p = <<>> \/ \E j \in U : \E i \in 1 .. KeyLen : p = Prefix(j, i) /\ Deep(U, j, i - 1)
  <2> DEFINE Has == \E j \in U : \E i \in 1 .. KeyLen : p = Prefix(j, i) /\ Deep(U, j, i - 1)
  <2>1. ASSUME p \in DOMAIN T PROVE p = <<>> \/ Has
    <3>1. CASE p = <<>>
      BY <3>1
    <3>2. CASE p # <<>>
      <4>1. PICK j \in S : \E i \in 1 .. KeyLen : p = Prefix(j, i) /\ Deep(S, j, i - 1)
        BY <2>1, <3>2 DEF IsTree
      <4>2. PICK i \in 1 .. KeyLen : p = Prefix(j, i) /\ Deep(S, j, i - 1)
        BY <4>1
      <4>3. i - 1 \in Nat
        BY <1>1
      <4>4. Deep(U, j, i - 1)
        BY <1>4, <4>2, <4>3
      <4> QED
        BY <4>2, <4>4
    <3> QED
      BY <3>1, <3>2
  <2>2. ASSUME NEW i \in 1 .. KeyLen, i <= m + 1, p = Prefix(k, i) PROVE Has
    <3>1. i - 1 \in Nat /\ i - 1 <= m
      BY <1>1, <2>2
    <3>2. Deep(U, k, i - 1)
      BY <1>4, <3>1, AgreeFacts
    <3> QED
      BY <2>2, <3>2
  <2>3. p \in way => Has
    <3>1. \A i \in D .. m : i \in 1 .. KeyLen /\ i <= m + 1
      BY <1>1
    <3> HIDE DEF Has
    <3> QED
      BY <2>2, <3>1
  <2>4. p = pk => Has
    <3>1. m + 1 <= m + 1
      BY <1>1
    <3> HIDE DEF Has
    <3> QED
      BY <1>1, <2>2, <3>1
  <2>5. p = pj => Has
    <3>1. m <= m
      BY <1>1
    <3>2. Deep(U, j0, m + 1 - 1)
      BY <1>1, <1>4, <3>1
    <3> QED
      BY <1>1, <3>2
  <2>6. p = <<>> => p \in DOMAIN T
    BY DEF IsTree
  <2>7. ASSUME NEW j \in U, NEW i \in 1 .. KeyLen, p = Prefix(j, i), Deep(U, j, i - 1)
        PROVE  p \in DOMAIN O
    <3>1. CASE j \in S /\ Deep(S, j, i - 1)
      <4>1. p \in DOMAIN T
        BY <2>7, <3>1 DEF IsTree
      <4> QED
        BY <1>5, <4>1
    <3>2. CASE ~(j \in S /\ Deep(S, j, i - 1))
      <4>1. CASE j = k /\ i < D
        BY <1>5, <1>6, <2>7, <4>1
      <4>2. CASE i \in D .. m /\ Agree(j, k, i)
        <5>1. p \in way
          BY <1>7, <2>7, <4>2
        <5> QED
          BY <1>5, <5>1
      <4>3. CASE i = m + 1 /\ (j = k \/ j = j0)
        BY <1>5, <2>7, <4>3
      <4> QED
        BY <1>8, <2>7, <3>2, <4>1, <4>2, <4>3
    <3> QED
      BY <3>1, <3>2
  <2>8. p \in DOMAIN O => p = <<>> \/ Has
    <3> HIDE DEF Has, way, pj, pk
    <3> QED
      BY <1>5, <2>1, <2>3, <2>4, <2>5
  <2>9. p = <<>> => p \in DOMAIN O
    BY <1>5, <2>6
  <2> QED
    BY <2>7, <2>8, <2>9
<1>10. O[<<>>] = InnerNode
  <2>1. <<>> \in DOMAIN T /\ T[<<>>] = InnerNode
    BY DEF IsTree
  <2>2. <<>> # pk /\ <<>> # pj
    BY <1>1, <1>7
  <2>3. <<>> \notin way
    <3>1. \A i \in D .. m : i \in 1 .. KeyLen
      BY <1>1
    <3> QED
      BY <1>7, <3>1
  <2> HIDE DEF way, pj, pk
  <2> QED
    BY <1>5, <2>1, <2>2, <2>3
<1>11. ASSUME NEW j \in U, NEW i \in 1 .. KeyLen, Deep(U, j, i - 1)
       PROVE  O[Prefix(j, i)] = IF Deep(U, j, i) THEN InnerNode ELSE Leaf(j, f[j])
  <2>1. i \in Nat /\ i - 1 \in Nat
    BY <1>1
  <2>2. Deep(U, j, i) <=> Deep(S, j, i) \/ (i <= m /\ Agree(j, k, i))
    BY <1>4, <2>1
  <2>3. CASE i <= m /\ Agree(j, k, i)
    <3>1. Deep(U, j, i)
      BY <2>2, <2>3
    <3>2. i # m + 1
      BY <1>1, <2>1, <2>3
    <3>3. Prefix(j, i) # pk /\ Prefix(j, i) # pj
      BY <1>7, <3>2
    <3>4. CASE D <= i
      <4>1. i \in D .. m
        BY <1>1, <2>1, <2>3, <3>4
      <4>2. Prefix(j, i) \in way
        BY <1>7, <2>3, <4>1
      <4> HIDE DEF way, pj, pk
      <4> QED
        BY <1>5, <3>1, <3>3, <4>2
    <3>5. CASE ~(D <= i)
      <4>1. i < D /\ i \notin D .. m /\ i \in 0 .. KeyLen
        BY <1>1, <2>1, <3>5
      <4>2. Prefix(j, i) \notin way
        BY <1>7, <4>1
      <4>3. Prefix(j, i) = Prefix(k, i)
        BY <1>2, <2>3, <4>1, PrefixEqual
      <4>4. Prefix(k, i) \in DOMAIN T /\ T[Prefix(k, i)] = InnerNode
        BY <1>6, <4>1
      <4> HIDE DEF way, pj, pk
      <4> QED
        BY <1>5, <3>1, <3>3, <4>2, <4>3, <4>4
    <3> QED
      BY <3>4, <3>5
  <2>4. CASE ~(i <= m /\ Agree(j, k, i))
    <3>1. ~(i \in D .. m /\ Agree(j, k, i)) /\ (Deep(U, j, i) <=> Deep(S, j, i))
      BY <1>1, <2>1, <2>2, <2>4
    <3>2. Prefix(j, i) \notin way
      BY <1>7, <3>1
    <3>3. CASE j = k
      <4>1. Agree(j, k, i)
        BY <3>3, AgreeFacts
      <4>2. ~(i < D) /\ i # 0
        BY <1>1, <2>1, <2>4, <4>1
      <4>3. i = m + 1
        BY <1>8, <1>11, <3>1, <3>3, <4>2
      <4>4. ~Deep(S, k, i)
        <5>1. D <= i
          BY <1>1, <4>3
        <5> QED
          BY <1>1, <2>1, <5>1, DeepFacts
      <4> QED
        BY <1>5, <3>1, <3>3, <4>3, <4>4
    <3>4. CASE j # k /\ Prefix(j, i) = pj
      <4>1. i = m + 1 /\ Agree(j, j0, i)
        BY <1>7, <3>4
      <4>2. Agree(j, j0, m) /\ j \in S
        BY <1>1, <2>1, <3>4, <4>1, AgreeFacts
      <4>3. Agree(j, k, m)
        BY <4>2, AgreeFacts
      <4>4. j = j0
        BY <1>1, <1>3, <4>2, <4>3
      <4>5. pj # pk
        BY <1>1, <1>7
      <4>6. ~Deep(S, j, i)
        <5>1. D <= i
          BY <1>1, <4>1
        <5>2. ~Deep(S, j0, D)
          BY AgreeFacts, DeepFacts
        <5> QED
          BY <1>1, <2>1, <4>4, <5>1, <5>2, DeepFacts
      <4>7. f[j] = e[j] /\ O[Prefix(j, i)] = n
        BY <1>5, <3>4, <4>2, <4>5
      <4> QED
        BY <3>1, <4>4, <4>6, <4>7
    <3>5. CASE j # k /\ Prefix(j, i) # pj
      <4>1. j \in S
        BY <3>5
      <4>2. Prefix(j, i) # pk
        <5>1. ASSUME i = m + 1, Agree(j, k, i) PROVE FALSE
          <6>1. D <= m + 1
            BY <1>1
          <6>2. j = j0
            BY <1>1, <1>3, <4>1, <5>1, <6>1
          <6> QED
            BY <5>1, <6>2
        <5> QED
          BY <1>7, <5>1
      <4>3. Deep(S, j, i - 1)
        <5> SUFFICES ASSUME ~Deep(S, j, i - 1) PROVE FALSE
          OBVIOUS
        <5>1. i = m + 1 /\ j = j0
          BY <1>8, <1>11, <3>1, <3>5
        <5> QED
          BY <3>5, <5>1
      <4>4. /\ Prefix(j, i) \in DOMAIN T
            /\ T[Prefix(j, i)] = IF Deep(S, j, i) THEN InnerNode ELSE Leaf(j, e[j])
        BY <4>1, <4>3 DEF IsTree
      <4>5. f[j] = e[j]
        BY <4>1
      <4> HIDE DEF way, pj, pk
      <4> QED
        BY <1>5, <3>1, <3>2, <3>5, <4>2, <4>4, <4>5
    <3> QED
      BY <3>3, <3>4, <3>5
  <2> QED
    BY <2>3, <2>4
<1> HIDE DEF U
<1>12. IsTree(O, U, f)
  BY <1>5, <1>9, <1>10, <1>11 DEF IsTree
<1> QED
  BY <1>12 DEF O, O1, N, M, U

\* What the nodes are, as the code tells them apart.
LEMMA NodeKinds ==
    /\ InnerNode.node = "inner" /\ NoNode.node = "empty"
    /\ \A k, d : Leaf(k, d).node = "leaf" /\ Leaf(k, d).key = k /\ Leaf(k, d).data = d
  BY DEF InnerNode, NoNode, Leaf

\* insert of a key that is not there makes the tree of one key more.
LEMMA PutNew ==
    ASSUME NEW w, NEW T, NEW S \in SUBSET Keys, NEW e, IsTree(T, S, e), NEW k \in Keys, k \notin S,
           ~Clash(S \cup {k}), NEW f, \A h \in S : f[h] = e[h]
    PROVE  IsTree(PutAt(w, T, k, f[k]), S \cup {k}, f)
<1>1. S \in SUBSET KeySpace /\ k \in KeySpace
  BY KeysInSpace
<1>2. PICK D \in 1 .. KeyLen - 1 : Deep(S, k, D - 1) /\ ~Deep(S, k, D)
  <2>1. ~Clash(S)
    BY ClashIs
  <2> QED
    BY <1>1, <2>1, WayEnds
<1>3. KeyLen \in Nat /\ D \in Nat /\ D \in 0 .. KeyLen /\ D \in 1 .. KeyLen /\ D > 0 /\ ~(D >= KeyLen)
  BY SpvBundleAssumption
<1>4. WalkEnd(T, k) = D
  BY <1>1, <1>2, <1>3, WalkInTree
<1> DEFINE n == NodeAt(T, Prefix(k, D))
           m == Parting(n.key, k, D)
<1>5. PutAt(w, T, k, f[k]) =
          IF D >= KeyLen \/ n.node = "failed" THEN Failed
          ELSE IF n.node = "empty" THEN Overlay(T, [p \in {Prefix(k, D)} |-> Leaf(k, f[k])])
          ELSE IF n.key = k THEN IF w = "tx" THEN Failed ELSE T
          ELSE IF m + 1 >= KeyLen THEN Failed
          ELSE Overlay(Overlay(T, Split(n, k, D, m)), [p \in {Prefix(k, m + 1)} |-> Leaf(k, f[k])])
  BY <1>4 DEF PutAt
<1>6. CASE \A h \in S : ~Agree(h, k, D)
  <2>1. n = NoNode
    BY <1>1, <1>2, <1>3, <1>6, NodeInTree
  <2>2. n.node = "empty"
    BY <2>1, NodeKinds
  <2>3. PutAt(w, T, k, f[k]) = Overlay(T, [p \in {Prefix(k, D)} |-> Leaf(k, f[k])])
    <3> HIDE DEF n, m
    <3> QED
      BY <1>3, <1>5, <2>2
  <2>4. IsTree(Overlay(T, [p \in {Prefix(k, D)} |-> Leaf(k, f[k])]), S \cup {k}, f)
    BY <1>2, <1>6, PutEmpty
  <2> QED
    BY <2>3, <2>4
<1>7. CASE \E h \in S : Agree(h, k, D)
  <2>1. PICK h \in S : Agree(h, k, D)
    BY <1>7
  <2>2. n = Leaf(h, e[h])
    BY <1>1, <1>2, <1>3, <2>1, NodeInTree
  <2>3. n.node = "leaf" /\ n.key = h /\ h # k
    BY <2>2, NodeKinds
  <2>4. ~Agree(h, k, KeyLen - 1)
    BY <2>3, ClashIs
  <2>5. Parting(h, k, D) \in D .. KeyLen - 2 /\ Agree(h, k, Parting(h, k, D))
        /\ ~Agree(h, k, Parting(h, k, D) + 1)
    BY <1>1, <2>1, <2>4, PartingIs
  <2>6. m = Parting(h, k, D)
    BY <2>3
  <2>7. m \in D .. KeyLen - 2 /\ Agree(h, k, m) /\ ~Agree(h, k, m + 1)
    BY <2>5, <2>6
  <2> HIDE DEF m, n
  <2>8. ~(m + 1 >= KeyLen)
    BY <1>3, <2>7
  <2>9. PutAt(w, T, k, f[k]) =
          Overlay(Overlay(T, Split(n, k, D, m)), [p \in {Prefix(k, m + 1)} |-> Leaf(k, f[k])])
    BY <1>3, <1>5, <2>3, <2>8
  <2>10. IsTree(Overlay(Overlay(T, Split(Leaf(h, e[h]), k, D, m)),
                        [p \in {Prefix(k, m + 1)} |-> Leaf(k, f[k])]), S \cup {k}, f)
    BY <1>2, <2>1, <2>7, PutSplit
  <2> QED
    BY <2>2, <2>9, <2>10
<1> QED
  BY <1>6, <1>7

\* insert of a key that parts from one of the tree at the last nibble fails.
LEMMA PutClash ==
    ASSUME NEW w, NEW T, NEW S \in SUBSET Keys, NEW e, IsTree(T, S, e), NEW k \in Keys, k \notin S,
           ~Clash(S), Clash(S \cup {k}), NEW d
    PROVE  PutAt(w, T, k, d) = Failed
<1>1. S \in SUBSET KeySpace /\ k \in KeySpace
  BY KeysInSpace
<1>2. PICK D \in 1 .. KeyLen - 1 : Deep(S, k, D - 1) /\ ~Deep(S, k, D)
  BY <1>1, WayEnds
<1>3. /\ KeyLen \in Nat /\ D \in Nat /\ D \in 0 .. KeyLen /\ D \in 1 .. KeyLen /\ D > 0
      /\ ~(D >= KeyLen) /\ KeyLen - 1 \in Nat /\ D <= KeyLen - 1
  BY SpvBundleAssumption
<1>4. WalkEnd(T, k) = D
  BY <1>1, <1>2, <1>3, WalkInTree
<1>5. PICK h \in S : Agree(h, k, KeyLen - 1)
  <2>1. PICK g \in S \cup {k}, j \in S \cup {k} : g # j /\ Agree(g, j, KeyLen - 1)
    BY ClashIs
  <2>2. ~(g \in S /\ j \in S)
    BY <2>1, ClashIs
  <2> QED
    BY <2>1, <2>2, AgreeFacts
<1> DEFINE n == NodeAt(T, Prefix(k, D))
           m == Parting(n.key, k, D)
<1>6. Agree(h, k, D)
  BY <1>3, <1>5, AgreeFacts
<1>7. n = Leaf(h, e[h])
  BY <1>1, <1>2, <1>3, <1>6, NodeInTree
<1>8. n.node = "leaf" /\ n.key = h /\ h # k
  BY <1>7, NodeKinds
<1>9. m = KeyLen - 1
  BY <1>1, <1>5, <1>8, PartingLast
<1>10. m + 1 >= KeyLen
  BY <1>3, <1>9
<1>11. PutAt(w, T, k, d) =
          IF D >= KeyLen \/ n.node = "failed" THEN Failed
          ELSE IF n.node = "empty" THEN Overlay(T, [p \in {Prefix(k, D)} |-> Leaf(k, d)])
          ELSE IF n.key = k THEN IF w = "tx" THEN Failed ELSE T
          ELSE IF m + 1 >= KeyLen THEN Failed
          ELSE Overlay(Overlay(T, Split(n, k, D, m)), [p \in {Prefix(k, m + 1)} |-> Leaf(k, d)])
  BY <1>4 DEF PutAt
<1> HIDE DEF n, m
<1> QED
  BY <1>3, <1>8, <1>10, <1>11

\* Nothing is built on a failure, and nothing is proved from it.
LEMMA FailedStays ==
    \A k \in KeySpace : ~ProofOf(Failed, k).ok /\ \A w, d : PutAt(w, Failed, k, d) = Failed
<1>1. \A k \in KeySpace : Prefix(k, 0) = <<>>
  BY PrefixZero
<1>2. NodeAt(Failed, <<>>).node = "failed"
  BY DEF NodeAt, Failed
<1>3. ASSUME NEW k \in KeySpace PROVE WalkEnd(Failed, k) = 0
  <2>1. KeyLen \in Nat /\ 0 \in 0 .. KeyLen /\ \A i \in 0 .. KeyLen : ~(i < 0)
    BY SpvBundleAssumption
  <2>2. NodeAt(Failed, Prefix(k, 0)).node # "inner"
    BY <1>1, <1>2
  <2> QED
    BY <2>1, <2>2, WalkEndIs
<1>4. ASSUME NEW w, NEW k \in KeySpace, NEW d PROVE PutAt(w, Failed, k, d) = Failed
  <2>1. NodeAt(Failed, Prefix(k, WalkEnd(Failed, k))).node = "failed"
    BY <1>1, <1>2, <1>3
  <2> QED
    BY <2>1 DEF PutAt
<1>5. ASSUME NEW k \in KeySpace PROVE ~ProofOf(Failed, k).ok
  BY <1>1, <1>2, <1>3, ProofIsOfLeaf
<1> QED
  BY <1>4, <1>5

\* insert of a key that is there leaves the tree of the state, and fails for transactions.
LEMMA PutAgain ==
    ASSUME NEW w, NEW T, NEW S \in SUBSET Keys, NEW e, IsTree(T, S, e), ~Clash(S), NEW k \in S, NEW d
    PROVE  PutAt(w, T, k, d) = IF w = "tx" THEN Failed ELSE T
<1>1. S \in SUBSET KeySpace /\ k \in KeySpace /\ k \in Keys
  BY KeysInSpace
<1>2. PICK D \in 1 .. KeyLen - 1 : Deep(S, k, D - 1) /\ ~Deep(S, k, D)
  BY <1>1, WayEnds
<1>3. KeyLen \in Nat /\ D \in Nat /\ D \in 0 .. KeyLen /\ D \in 1 .. KeyLen /\ D > 0 /\ ~(D >= KeyLen)
  BY SpvBundleAssumption
<1>4. WalkEnd(T, k) = D
  BY <1>1, <1>2, <1>3, WalkInTree
<1> DEFINE n == NodeAt(T, Prefix(k, D))
           m == Parting(n.key, k, D)
<1>5. PutAt(w, T, k, d) =
          IF D >= KeyLen \/ n.node = "failed" THEN Failed
          ELSE IF n.node = "empty" THEN Overlay(T, [p \in {Prefix(k, D)} |-> Leaf(k, d)])
          ELSE IF n.key = k THEN IF w = "tx" THEN Failed ELSE T
          ELSE IF m + 1 >= KeyLen THEN Failed
          ELSE Overlay(Overlay(T, Split(n, k, D, m)), [p \in {Prefix(k, m + 1)} |-> Leaf(k, d)])
  BY <1>4 DEF PutAt
<1>6. n = Leaf(k, e[k])
  <2>1. Agree(k, k, D)
    BY AgreeFacts
  <2> QED
    BY <1>1, <1>2, <1>3, <2>1, NodeInTree
<1>7. n.node = "leaf" /\ n.key = k
  BY <1>6, NodeKinds
<1> HIDE DEF n, m
<1> QED
  BY <1>3, <1>5, <1>7

\* A proof can be made for the keys of a tree and no other, and it verifies.
LEMMA ProofsInTree ==
    ASSUME NEW T, NEW S \in SUBSET Keys, NEW e, IsTree(T, S, e), NEW k \in Keys \cup {Escrow}
    PROVE  VerifyInclusion(ProofOf(T, k), RootHash(T)) <=> k \in S
<1>1. S \in SUBSET KeySpace /\ k \in KeySpace
  BY KeysInSpace
<1>2. PICK D \in 1 .. KeyLen : Deep(S, k, D - 1) /\ ~Deep(S, k, D)
  BY <1>1, WayEnds
<1>3. KeyLen \in Nat /\ D \in Nat /\ D \in 0 .. KeyLen /\ D > 0
  BY SpvBundleAssumption
<1>4. WalkEnd(T, k) = D
  BY <1>1, <1>2, WalkInTree
<1>5. ASSUME k \in S PROVE VerifyInclusion(ProofOf(T, k), RootHash(T))
  <2>1. Agree(k, k, D)
    BY AgreeFacts
  <2>2. NodeAt(T, Prefix(k, D)) = Leaf(k, e[k])
    BY <1>1, <1>2, <1>3, <1>5, <2>1, NodeInTree
  <2> QED
    BY <1>1, <1>4, <2>2, NodeKinds, ProofVerifies
<1>6. ASSUME VerifyInclusion(ProofOf(T, k), RootHash(T)) PROVE k \in S
  <2>1. ProofOf(T, k).ok
    BY <1>6 DEF VerifyInclusion
  <2>2. NodeAt(T, Prefix(k, D)).node = "leaf" /\ NodeAt(T, Prefix(k, D)).key = k
    BY <1>4, <2>1, ProofIsOfLeaf
  <2>3. NodeAt(T, Prefix(k, D)) # NoNode
    BY <2>2, NodeKinds
  <2>4. PICK j \in S : Agree(j, k, D)
    BY <1>1, <1>2, <1>3, <2>3, NodeInTree
  <2>5. NodeAt(T, Prefix(k, D)) = Leaf(j, e[j])
    BY <1>1, <1>2, <1>3, <2>4, NodeInTree
  <2> QED
    BY <2>2, <2>5, NodeKinds
<1> QED
  BY <1>5, <1>6

\* A proof that verifies against the root of a ledger is of an entry of that ledger,
\* whoever made it and from whatever it was made.
LEMMA VerifiedIsEntry ==
    ASSUME NEW l \in Ledgers, NEW p, p.key \in KeySpace, Len(p.inner) \in Nat,
           VerifyInclusion(p, LedgerRoot(l))
    PROVE  p.key \in DOMAIN l.entries /\ p.data = l.entries[p.key]
<1> DEFINE S == DOMAIN l.entries
           T == CanonicalTree(l.entries)
           k == p.key
<1>1. KeyLen \in Nat /\ S \in SUBSET KeySpace
  BY SpvBundleAssumption, KeysInSpace DEF Keys
<1>2. PICK d \in 0 .. KeyLen : LET n == NodeAt(T, Prefix(k, d))
                               IN  n.node = "leaf" /\ n.key = k /\ n.data = p.data
  BY VerifiedIsLeaf DEF LedgerRoot
<1>3. NodeAt(T, Prefix(k, d)).node # "empty"
  BY <1>2
<1>4. Prefix(k, d) \in DOMAIN T /\ NodeAt(T, Prefix(k, d)) = T[Prefix(k, d)]
  BY <1>3, NodeKinds DEF NodeAt
<1>5. S # {}
  <2> SUFFICES ASSUME S = {} PROVE FALSE
    OBVIOUS
  <2>1. DOMAIN T = {}
    BY DEF CanonicalTree
  <2> QED
    BY <1>4, <2>1
<1>6. IsTree(T, S, l.entries)
  BY <1>1, <1>5, CanonicalIsTree
<1> HIDE DEF T
<1>7. Prefix(k, d) # <<>>
  <2>1. T[<<>>].node = "inner"
    BY <1>6, NodeKinds DEF IsTree
  <2> QED
    BY <1>2, <1>4, <2>1
<1>8. PICK j \in S : \E i \in 1 .. KeyLen : Prefix(k, d) = Prefix(j, i) /\ Deep(S, j, i - 1)
  BY <1>4, <1>6, <1>7 DEF IsTree
<1>9. PICK i \in 1 .. KeyLen : Prefix(k, d) = Prefix(j, i) /\ Deep(S, j, i - 1)
  BY <1>8
<1>10. T[Prefix(k, d)] = InnerNode \/ T[Prefix(k, d)] = Leaf(j, l.entries[j])
  BY <1>6, <1>9 DEF IsTree
<1>11. T[Prefix(k, d)] = Leaf(j, l.entries[j])
  BY <1>2, <1>4, <1>10, NodeKinds
<1>12. j = k /\ l.entries[j] = p.data
  BY <1>2, <1>4, <1>11, NodeKinds
<1> QED
  BY <1>12

-------------------------------------------------------------------------------
(* The bundle.                                                             *)

\* The tree once the entries of some keys of a ledger have been put in it.
SoFar(l, S) ==
    IF Clash(S) THEN Failed
    ELSE IF S = {} THEN BuildRoot(DOMAIN l.entries) ELSE CanonicalTree([k \in S |-> l.entries[k]])

\* At first it is what build starts from.
LEMMA SoFarNothing == \A l : SoFar(l, {}) = BuildRoot(DOMAIN l.entries)
  BY DEF SoFar, Clash

\* The tree so far is the tree of the entries so far.
LEMMA SoFarIsTree ==
    ASSUME NEW l \in Ledgers, NEW S \in SUBSET DOMAIN l.entries, DOMAIN l.entries # {},
           ~Clash(S)
    PROVE  IsTree(SoFar(l, S), S, l.entries)
<1>1. CASE S = {}
  <2>1. SoFar(l, S) = EmptyInner
    BY <1>1 DEF SoFar, BuildRoot
  <2> QED
    BY <1>1, <2>1, EmptyIsTree
<1>2. CASE S # {}
  <2> DEFINE g == [k \in S |-> l.entries[k]]
  <2>1. SoFar(l, S) = CanonicalTree(g)
    BY <1>2 DEF SoFar
  <2>2. DOMAIN g = S /\ \A k \in S : g[k] = l.entries[k]
    OBVIOUS
  <2>3. S \in SUBSET KeySpace
    BY KeysInSpace DEF Keys
  <2> HIDE DEF g
  <2>4. IsTree(CanonicalTree(g), S, g)
    BY <1>2, <2>2, <2>3, CanonicalIsTree
  <2>5. IsTree(CanonicalTree(g), S, l.entries)
    BY <2>2, <2>4 DEF IsTree
  <2> QED
    BY <2>1, <2>5
<1> QED
  BY <1>1, <1>2

\* A proof that is made for a key names it, and has some inner nodes.
LEMMA ProofShape ==
    ASSUME NEW T, NEW k
    PROVE  LET q == ProofOf(T, k)
           IN  (q.key = k \/ q.key = Escrow) /\ (q.ok => q.key = k) /\ Len(q.inner) \in Nat
<1> DEFINE D == WalkEnd(T, k)
           n == NodeAt(T, Prefix(k, D))
<1>1. D \in Nat
  BY WalkEnds, SpvBundleAssumption
<1>2. ProofOf(T, k) =
        IF n.node = "leaf" /\ n.key = k
        THEN [key |-> k, data |-> n.data, ok |-> TRUE,
              inner |-> [i \in 1 .. D |-> FlatChildren(T, Prefix(k, i - 1))]]
        ELSE NoProof
  BY DEF ProofOf
<1> HIDE DEF D, n
<1>3. Len([i \in 1 .. D |-> FlatChildren(T, Prefix(k, i - 1))]) = D
  BY <1>1
<1>4. NoProof.key = Escrow /\ NoProof.ok = FALSE /\ Len(NoProof.inner) \in Nat
  BY DEF NoProof
<1> QED
  BY <1>1, <1>2, <1>3, <1>4

\* So does one that is read from a served path.
LEMMA PathShape ==
    ASSUME NEW l, NEW k
    PROVE  LET p == ProofFromPath(ServedPath(l, k))
           IN  (p.key = k \/ p.key = Escrow) /\ (p.ok => p.key = k) /\ Len(p.inner) \in Nat
<1> DEFINE q == ProofOf(CanonicalTree(l.entries), k)
           s == ServedPath(l, k)
           wires == [i \in 1 .. Len(q.inner) |-> WireInner(q.inner[i])]
<1>1. (q.ok => q.key = k) /\ Len(q.inner) \in Nat
  BY ProofShape
<1>2. s = IF ~q.ok THEN <<>> ELSE <<WireLeaf(q)>> \o Reverse(wires)
  BY DEF ServedPath
<1> HIDE DEF q, s
<1>3. NoProof.key = Escrow /\ NoProof.ok = FALSE /\ Len(NoProof.inner) \in Nat
  BY DEF NoProof
<1>4. CASE Len(s) < 2
  BY <1>3, <1>4 DEF ProofFromPath, s
<1>5. CASE ~(Len(s) < 2)
  <2>1. q.ok
    BY <1>2, <1>5
  <2> DEFINE r == Reverse(wires)
  <2>2. r = [i \in 1 .. Len(wires) |-> wires[(Len(wires) - i) + 1]] /\ Len(wires) \in Nat
    <3>1. Len(wires) \in Nat
      BY <1>1
    <3> HIDE DEF wires
    <3> QED
      BY <3>1 DEF Reverse
  <2>3. r = [i \in 1 .. Len(r) |-> r[i]] /\ Len(r) \in Nat
    <3> HIDE DEF wires, r
    <3> QED
      BY <2>2
  <2>4. s = <<WireLeaf(q)>> \o r
    BY <1>2, <2>1
  <2> HIDE DEF r, wires
  <2>5. Len(s) \in Nat /\ s[1] = WireLeaf(q)
    BY <2>3, <2>4
  <2>6. WireLeaf(q).key = k
    BY <1>1, <2>1 DEF WireLeaf
  <2> DEFINE back == [i \in 1 .. Len(s) - 1 |-> FromWire(s[i + 1])]
  <2>7. ProofFromPath(s) = [key |-> s[1].key, data |-> s[1].data, ok |-> TRUE, inner |-> Reverse(back)]
    BY <1>5 DEF ProofFromPath
  <2>8. Len(s) - 1 \in Nat
    BY <1>5, <2>5
  <2>9. Len(back) = Len(s) - 1
    BY <2>8
  <2>10. Len(Reverse(back)) \in Nat
    <3> HIDE DEF back
    <3> QED
      BY <2>8, <2>9 DEF Reverse
  <2> HIDE DEF back
  <2> QED
    BY <2>5, <2>6, <2>7, <2>10 DEF s
<1> QED
  BY <1>4, <1>5

\* What holds while a bundle is made.
BundleInv ==
    /\ target \in Ledgers /\ server \in Ledgers
    /\ ways \in Seq({"path", "objects"})
    /\ stage = "objects" =>
          /\ todo \subseteq DOMAIN server.entries
          /\ tree = SoFar(server, DOMAIN server.entries \ todo)
    /\ which = "tx" => ways = <<>> /\ stage # "path"
    /\ BundleProvesTarget

\* The invariant holds at the start.
LEMMA BundleInvInit == BundleInit => BundleInv
<1> SUFFICES ASSUME BundleInit PROVE BundleInv
  OBVIOUS
<1>1. target \in Ledgers /\ server \in Ledgers /\ server = target
  BY DEF BundleInit
<1>2. CASE which = "state"
  <2>1. stage = "collect" /\ (ways = <<"path", "objects">> \/ ways = <<"objects", "path">>)
    BY <1>2 DEF BundleInit
  <2>2. /\ <<"path", "objects">> \in Seq({"path", "objects"})
        /\ <<"objects", "path">> \in Seq({"path", "objects"})
    OBVIOUS
  <2>3. ways \in Seq({"path", "objects"})
    BY <2>1, <2>2, Zenon
  <2> QED
    BY <1>1, <1>2, <2>1, <2>3 DEF BundleInv, BundleProvesTarget
<1>3. CASE which # "state"
  <2>1. /\ stage = "objects" /\ ways = <<>> /\ todo = DOMAIN server.entries
        /\ tree = BuildRoot(DOMAIN server.entries)
    BY <1>1, <1>3 DEF BundleInit
  <2>2. DOMAIN server.entries \ todo = {}
    BY <2>1
  <2>3. tree = SoFar(server, DOMAIN server.entries \ todo)
    BY <2>1, <2>2, SoFarNothing
  <2>4. ways \in Seq({"path", "objects"}) /\ stage # "path" /\ stage # "done"
    BY <2>1
  <2> QED
    BY <1>1, <2>1, <2>3, <2>4 DEF BundleInv, BundleProvesTarget
<1> QED
  BY <1>2, <1>3

\* The next way starts from nothing, and the last one ends the attempt.
LEMMA TryNextKeeps ==
    ASSUME BundleInv, NEW l \in Ledgers, TryNext(l), target' = target, which' = which
    PROVE  BundleInv'
<1>1. target' \in Ledgers
  BY DEF BundleInv
<1>2. CASE ways = <<>>
  <2>1. stage' = "failed" /\ UNCHANGED <<ways, tree, todo, server>>
    BY <1>2 DEF TryNext
  <2> QED
    BY <1>1, <2>1 DEF BundleInv, BundleProvesTarget
<1>3. CASE ways # <<>>
  <2>1. stage' = Head(ways) /\ ways' = Tail(ways) /\ server' = l
    BY <1>3 DEF TryNext
  <2>2. stage' \in {"path", "objects"} /\ ways' \in Seq({"path", "objects"})
    BY <1>3, <2>1 DEF BundleInv
  <2>3. stage' # "done" /\ which' # "tx"
    BY <1>3, <2>2 DEF BundleInv
  <2>4. ASSUME stage' = "objects"
        PROVE  /\ todo' \subseteq DOMAIN server'.entries
               /\ tree' = SoFar(server', DOMAIN server'.entries \ todo')
    <3>1. todo' = DOMAIN l.entries /\ tree' = BuildRoot(DOMAIN l.entries)
      BY <1>3, <2>1, <2>4 DEF TryNext
    <3>2. DOMAIN l.entries \ todo' = {}
      BY <3>1
    <3> QED
      BY <2>1, <3>1, <3>2, SoFarNothing
  <2> QED
    BY <1>1, <2>1, <2>2, <2>3, <2>4 DEF BundleInv, BundleProvesTarget
<1> QED
  BY <1>2, <1>3

\* A proof is handed on when it verifies, and then it is of the attested ledger.
LEMMA AcceptKeeps ==
    ASSUME BundleInv, NEW l \in Ledgers, NEW p, p.key \in KeySpace, Len(p.inner) \in Nat,
           which = "tx" => p.key = Escrow /\ ways = <<>>,
           Accept(p, l), target' = target, which' = which
    PROVE  BundleInv'
<1>1. CASE VerifyInclusion(p, LedgerRoot(target))
  <2>1. bundle' = p /\ stage' = "done" /\ UNCHANGED <<ways, tree, todo, server>>
    BY <1>1 DEF Accept
  <2>2. target \in Ledgers
    BY DEF BundleInv
  <2>3. p.key \in DOMAIN target.entries /\ p.data = target.entries[p.key]
    BY <1>1, <2>2, VerifiedIsEntry
  <2> QED
    BY <2>1, <2>3 DEF BundleInv, BundleProvesTarget
<1>2. CASE ~VerifyInclusion(p, LedgerRoot(target))
  <2>1. TryNext(l)
    BY <1>2 DEF Accept
  <2> QED
    BY <2>1, TryNextKeeps
<1> QED
  BY <1>1, <1>2

\* One entry more makes the tree of one entry more, or fails where that has none.
LEMMA NextKeeps ==
    ASSUME BundleInv, NEW k \in Keys, NextObject(k)
    PROVE  BundleInv'
<1>1. /\ stage = "objects" /\ k \in todo /\ todo' = todo \ {k}
      /\ tree' = PutAt(which, tree, k, server.entries[k])
      /\ UNCHANGED <<which, stage, target, server, ways, bundle>>
  BY DEF NextObject
<1> DEFINE all == DOMAIN server.entries
           in == all \ todo
<1>2. todo \subseteq all /\ tree = SoFar(server, in) /\ server \in Ledgers
  BY <1>1 DEF BundleInv
<1>3. all # {} /\ k \in all /\ k \notin in /\ in \in SUBSET all /\ in \cup {k} \in SUBSET all
  BY <1>1, <1>2
<1>4. all \in SUBSET Keys /\ in \in SUBSET Keys /\ k \in KeySpace
  BY <1>2, KeysInSpace DEF Keys
<1>5. all \ todo' = in \cup {k}
  BY <1>1, <1>2
<1> HIDE DEF in
<1>6. tree' = SoFar(server, in \cup {k})
  <2>1. CASE Clash(in)
    <3>1. tree = Failed
      BY <1>2, <2>1 DEF SoFar
    <3>2. Clash(in \cup {k})
      BY <2>1 DEF Clash
    <3>3. tree' = Failed
      BY <1>1, <1>4, <3>1, FailedStays
    <3> QED
      BY <3>2, <3>3 DEF SoFar
  <2>2. CASE ~Clash(in) /\ Clash(in \cup {k})
    <3>1. IsTree(tree, in, server.entries)
      BY <1>2, <1>3, <2>2, SoFarIsTree
    <3>2. tree' = Failed
      BY <1>1, <1>3, <1>4, <2>2, <3>1, PutClash
    <3> QED
      BY <2>2, <3>2 DEF SoFar
  <2>3. CASE ~Clash(in \cup {k})
    <3>1. ~Clash(in)
      BY <2>3 DEF Clash
    <3>2. /\ IsTree(tree, in, server.entries)
          /\ IsTree(SoFar(server, in \cup {k}), in \cup {k}, server.entries)
      BY <1>2, <1>3, <2>3, <3>1, SoFarIsTree
    <3>3. IsTree(PutAt(which, tree, k, server.entries[k]), in \cup {k}, server.entries)
      BY <1>3, <1>4, <2>3, <3>2, PutNew
    <3> QED
      BY <1>1, <3>2, <3>3, OneTree
  <2> QED
    BY <2>1, <2>2, <2>3
<1>7. todo' \subseteq all
  BY <1>1, <1>2
<1> QED
  BY <1>1, <1>5, <1>6, <1>7 DEF BundleInv, BundleProvesTarget

\* An entry that is listed again changes nothing, or ends the attempt.
LEMMA RepeatKeeps ==
    ASSUME BundleInv, NEW k \in Keys, NEW l \in Ledgers, RepeatObject(k, l)
    PROVE  BundleInv'
<1>1. /\ target' = target /\ which' = which /\ stage = "objects"
      /\ k \in DOMAIN server.entries \ todo /\ bundle' = bundle
  BY DEF RepeatObject
<1>2. CASE TryNext(l)
  BY <1>1, <1>2, TryNextKeeps
<1>3. CASE ~TryNext(l)
  <2>1. /\ PutAt(which, tree, k, server.entries[k]) # Failed
        /\ tree' = PutAt(which, tree, k, server.entries[k])
        /\ UNCHANGED <<stage, todo, ways, server>>
    BY <1>3 DEF RepeatObject
  <2> DEFINE in == DOMAIN server.entries \ todo
  <2>2. tree = SoFar(server, in) /\ server \in Ledgers
    BY <1>1 DEF BundleInv
  <2>3. in \in SUBSET DOMAIN server.entries /\ in \in SUBSET Keys /\ k \in in
        /\ DOMAIN server.entries # {} /\ k \in KeySpace
    BY <1>1, <2>2, KeysInSpace DEF Keys
  <2> HIDE DEF in
  <2>4. ~Clash(in)
    <3> SUFFICES ASSUME Clash(in) PROVE FALSE
      OBVIOUS
    <3>1. tree = Failed
      BY <2>2 DEF SoFar
    <3> QED
      BY <2>1, <2>3, <3>1, FailedStays
  <2>5. IsTree(tree, in, server.entries)
    BY <2>2, <2>3, <2>4, SoFarIsTree
  <2>6. tree' = tree
    BY <2>1, <2>3, <2>4, <2>5, PutAgain
  <2> QED
    BY <1>1, <2>1, <2>6 DEF BundleInv, BundleProvesTarget
<1> QED
  BY <1>2, <1>3

\* Every step keeps the invariant.
LEMMA BundleInvNext == BundleInv /\ [BundleNext]_bundleVars => BundleInv'
<1> SUFFICES ASSUME BundleInv, [BundleNext]_bundleVars PROVE BundleInv'
  OBVIOUS
<1>1. ASSUME NEW l \in Ledgers, Validation(l) PROVE BundleInv'
  <2>1. /\ stage = "collect" /\ stage' \in {"collect", "header"} /\ target' \in Ledgers
        /\ UNCHANGED <<which, server, ways>>
    BY <1>1 DEF Validation, BundleInv
  <2>2. stage' # "done" /\ stage' # "objects" /\ stage' # "path"
    BY <2>1
  <2> QED
    BY <2>1, <2>2 DEF BundleInv, BundleProvesTarget
<1>2. ASSUME NEW l \in Ledgers, FetchHeader(l) PROVE BundleInv'
  <2>1. target' = target /\ which' = which
    BY <1>2 DEF FetchHeader
  <2>2. CASE TryNext(l)
    BY <2>1, <2>2, TryNextKeeps
  <2>3. CASE ~TryNext(l)
    <3>1. stage' = "failed" /\ UNCHANGED <<ways, tree, todo, server>>
      BY <1>2, <2>3 DEF FetchHeader
    <3> QED
      BY <2>1, <3>1 DEF BundleInv, BundleProvesTarget
  <2> QED
    BY <2>2, <2>3
<1>3. ASSUME NEW l \in Ledgers, NEW k \in Keys \cup {Escrow}, PathProof(l, k) PROVE BundleInv'
  <2>1. target' = target /\ which' = which /\ which # "tx"
    BY <1>3 DEF PathProof, BundleInv
  <2>2. CASE TryNext(l)
    BY <2>1, <2>2, TryNextKeeps
  <2>3. CASE ~TryNext(l)
    <3> DEFINE p == ProofFromPath(ServedPath(server, k))
    <3>1. Accept(p, l)
      BY <1>3, <2>3 DEF PathProof
    <3>2. p.key \in KeySpace /\ Len(p.inner) \in Nat
      BY PathShape, KeysInSpace
    <3> HIDE DEF p
    <3> QED
      BY <2>1, <3>1, <3>2, AcceptKeeps
  <2> QED
    BY <2>2, <2>3
<1>4. ASSUME NEW l \in Ledgers, NEW k \in Keys \cup {Escrow}, ObjectsProof(l, k) PROVE BundleInv'
  <2> DEFINE p == ProofOf(tree, k)
  <2>1. /\ target' = target /\ which' = which /\ Accept(p, l)
        /\ which = "tx" => k = Escrow /\ ways = <<>>
    BY <1>4 DEF ObjectsProof, BundleInv
  <2>2. p.key \in KeySpace /\ Len(p.inner) \in Nat /\ (which = "tx" => p.key = Escrow)
    BY <2>1, ProofShape, KeysInSpace
  <2> HIDE DEF p
  <2> QED
    BY <2>1, <2>2, AcceptKeeps
<1>5. ASSUME NEW k \in Keys, NextObject(k) PROVE BundleInv'
  BY <1>5, NextKeeps
<1>6. ASSUME NEW k \in Keys, NEW l \in Ledgers, RepeatObject(k, l) PROVE BundleInv'
  BY <1>6, RepeatKeeps
<1>7. ASSUME CollectTimeout PROVE BundleInv'
  <2>1. stage' = "failed" /\ UNCHANGED <<which, target, server, ways>>
    BY <1>7 DEF CollectTimeout
  <2> QED
    BY <2>1 DEF BundleInv, BundleProvesTarget
<1>8. ASSUME NEW l \in Ledgers, PageFails(l) PROVE BundleInv'
  <2>1. TryNext(l) /\ target' = target /\ which' = which
    BY <1>8 DEF PageFails
  <2> QED
    BY <2>1, TryNextKeeps
<1>9. CASE UNCHANGED bundleVars
  BY <1>9 DEF bundleVars, BundleInv, BundleProvesTarget
<1> QED
  BY <1>1, <1>2, <1>3, <1>4, <1>5, <1>6, <1>7, <1>8, <1>9 DEF BundleNext

\* The invariant says what is promised of the tree.
LEMMA SoFarProves == BundleInv => TreeIsCanonical
<1> SUFFICES ASSUME BundleInv, stage = "objects" PROVE TreeIsCanonical
  BY DEF TreeIsCanonical
<1> DEFINE in == DOMAIN server.entries \ todo
           T == IF in = {} THEN BuildRoot(DOMAIN server.entries)
                ELSE CanonicalTree([k \in in |-> server.entries[k]])
<1>1. tree = SoFar(server, in) /\ server \in Ledgers
  BY DEF BundleInv
<1>2. in \in SUBSET DOMAIN server.entries /\ in \in SUBSET Keys
  BY <1>1 DEF Keys
<1> HIDE DEF in
<1>3. Clash(in) => tree = Failed
  BY <1>1 DEF SoFar
<1>4. ~Clash(in) => tree = T
  BY <1>1 DEF SoFar
<1> HIDE DEF T
<1>5. ASSUME ~Clash(in), NEW k \in Keys \cup {Escrow}
      PROVE  VerifyInclusion(ProofOf(tree, k), RootHash(T)) <=> k \in in
  <2>1. CASE DOMAIN server.entries # {}
    <3>1. IsTree(tree, in, server.entries)
      BY <1>1, <1>2, <1>5, <2>1, SoFarIsTree
    <3> QED
      BY <1>2, <1>4, <1>5, <3>1, ProofsInTree
  <2>2. CASE DOMAIN server.entries = {}
    <3>1. in = {} /\ tree = EmptyTree
      BY <1>2, <1>4, <1>5, <2>2 DEF T, BuildRoot
    <3>2. \A p : NodeAt(tree, p).node = "empty"
      BY <3>1, NodeKinds DEF NodeAt, EmptyTree
    <3>3. ~ProofOf(tree, k).ok
      BY <3>2, ProofIsOfLeaf
    <3> QED
      BY <3>1, <3>3 DEF VerifyInclusion
  <2> QED
    BY <2>1, <2>2
<1>6. ~Clash(in) => \A k \in Keys \cup {Escrow} : VerifyInclusion(ProofOf(tree, k), RootHash(T)) <=> k \in in
  BY <1>5
<1> QED
  BY <1>3, <1>4, <1>6, Zenon DEF TreeIsCanonical, in, T

\* Both trees come out as the canonical one, whatever the order in which the entries
\* are listed and whatever is listed twice, and prove exactly their keys; only keys
\* that part at their last nibble make the building fail (insert, build,
\* inclusion_proof, verify_inclusion).
THEOREM TreeIsCanonicalAlways == BundleSpec => []TreeIsCanonical
<1>1. BundleInv /\ [BundleNext]_bundleVars => BundleInv'
  BY BundleInvNext
<1> QED
  BY <1>1, BundleInvInit, SoFarProves, PTL DEF BundleSpec

\* What is handed on is an entry of the ledger that the quorum attested, whichever way
\* the proof came and whatever ledger of that sequence number the node serves, and a
\* transaction is the one that was asked for
\* (fetch_spv_bundle, build_deposit_proof).
THEOREM BundleProvesTargetAlways == BundleSpec => []BundleProvesTarget
<1>1. BundleInv /\ [BundleNext]_bundleVars => BundleInv'
  BY BundleInvNext
<1>2. BundleInv => BundleProvesTarget
  BY DEF BundleInv
<1> QED
  BY <1>1, <1>2, BundleInvInit, PTL DEF BundleSpec

-------------------------------------------------------------------------------
(* The length prefix.                                                      *)

\* The low byte of a number and what is above it.
LEMMA LowByte ==
    ASSUME NEW v \in Nat
    PROVE  v \div 256 \in Nat /\ v % 256 \in Nat /\ v % 256 <= 255 /\ v = 256 * (v \div 256) + (v % 256)
  OBVIOUS

\* What is above the two low bytes.
LEMMA AboveTwoBytes ==
    ASSUME NEW v \in Nat
    PROVE  v \div 65536 = (v \div 256) \div 256
<1> DEFINE q == v \div 256
           t == q \div 256
           w == v \div 65536
<1>1. q \in Nat /\ w \in Nat
  OBVIOUS
<1>2. v % 256 \in Nat /\ v % 256 <= 255 /\ v = 256 * q + (v % 256)
  BY LowByte
<1> HIDE DEF q
<1>3. t \in Nat /\ q % 256 \in Nat /\ q % 256 <= 255 /\ q = 256 * t + (q % 256)
  BY <1>1, LowByte
<1>4. 65536 * w <= v /\ v < 65536 * w + 65536
  OBVIOUS
<1> HIDE DEF t, w
<1> DEFINE r == v % 256
           s == q % 256
<1>5. v = 256 * (256 * t + s) + r
  BY <1>2, <1>3
<1>6. r \in Nat /\ s \in Nat /\ r <= 255 /\ s <= 255
  BY <1>2, <1>3
<1> HIDE DEF r, s
<1>7. 256 * (256 * t + s) + r = 65536 * t + 256 * s + r
  BY <1>3, <1>6
<1>8. 256 * s + r <= 65535 /\ 256 * s + r \in Nat
  BY <1>6
<1>9. 65536 * t <= v /\ v < 65536 * t + 65536
  BY <1>3, <1>5, <1>6, <1>7, <1>8
<1>10. w = t
  BY <1>1, <1>3, <1>4, <1>9
<1> QED
  BY <1>10 DEF w, t, q

\* A length of one byte.
LEMMA VlShort ==
    ASSUME NEW n \in Nat, n <= 192
    PROVE  VlPrefix(n) = <<n>>
<1>1. ~(n > 192 /\ n <= 12480) /\ ~(n > 12480 /\ n <= MaxVl) /\ ~(n > MaxVl)
  BY DEF MaxVl
<1> QED
  BY <1>1 DEF VlPrefix

\* A length of two bytes.
LEMMA VlMiddle ==
    ASSUME NEW n \in Nat, n > 192, n <= 12480
    PROVE  VlPrefix(n) = <<193 + (n - 193) \div 256, (n - 193) % 256>>
<1>1. ~(n <= 192) /\ ~(n > 12480 /\ n <= MaxVl) /\ ~(n > MaxVl)
  BY DEF MaxVl
<1> QED
  BY <1>1 DEF VlPrefix

\* A length of three bytes.
LEMMA VlLong ==
    ASSUME NEW n \in Nat, n > 12480, n <= MaxVl
    PROVE  VlPrefix(n) = <<241 + (n - 12481) \div 65536, ((n - 12481) \div 256) % 256, (n - 12481) % 256>>
<1>1. ~(n <= 192) /\ ~(n > 192 /\ n <= 12480) /\ ~(n > MaxVl)
  BY DEF MaxVl
<1> QED
  BY <1>1 DEF VlPrefix

\* The bytes of a prefix, and the length that is read back from them.
LEMMA VlReadsBack ==
    ASSUME NEW n \in Nat, n <= MaxVl
    PROVE  /\ VlDecode(VlPrefix(n)) = n
           /\ \A i \in DOMAIN VlPrefix(n) : VlPrefix(n)[i] \in 0 .. 255
<1>1. CASE n <= 192
  <2>1. VlPrefix(n) = <<n>> /\ ~(n > 192 /\ n <= 240) /\ ~(n > 240)
    BY <1>1, VlShort
  <2>2. VlDecode(<<n>>) = n
    BY <1>1, <2>1 DEF VlDecode
  <2> QED
    BY <1>1, <2>1, <2>2
<1>2. CASE n > 192 /\ n <= 12480
  <2> DEFINE v == n - 193
             a == v \div 256
             b == v % 256
             s == <<193 + a, b>>
  <2>1. v \in Nat /\ v <= 12287 /\ n = 193 + v
    BY <1>2
  <2> HIDE DEF v
  <2>2. a \in Nat /\ b \in Nat /\ b <= 255 /\ v = 256 * a + b
    BY <2>1, LowByte
  <2>3. VlPrefix(n) = s
    BY <1>2, VlMiddle DEF v
  <2> HIDE DEF a, b
  <2>4. a <= 47
    BY <2>1, <2>2
  <2>5. s[1] = 193 + a /\ s[2] = b /\ DOMAIN s = 1 .. 2
    OBVIOUS
  <2>6. ~(193 + a <= 192) /\ 193 + a > 192 /\ 193 + a <= 240 /\ ~(193 + a > 240)
        /\ (193 + a) - 193 = a
    BY <2>2, <2>4
  <2> HIDE DEF s
  <2>7. VlDecode(s) = 193 + (s[1] - 193) * 256 + s[2]
    BY <2>5, <2>6 DEF VlDecode
  <2>8. 193 + a * 256 + b = n
    BY <2>1, <2>2
  <2>9. VlDecode(s) = n
    BY <2>5, <2>6, <2>7, <2>8
  <2>10. \A i \in DOMAIN s : s[i] \in 0 .. 255
    <3>1. 193 + a \in 0 .. 255 /\ b \in 0 .. 255
      BY <2>2, <2>4
    <3>2. \A i \in 1 .. 2 : i = 1 \/ i = 2
      OBVIOUS
    <3> QED
      BY <2>5, <3>1, <3>2
  <2> QED
    BY <2>3, <2>9, <2>10
<1>3. CASE n > 12480
  <2> DEFINE v == n - 12481
             a == v \div 65536
             q == v \div 256
             b == q % 256
             c == v % 256
             s == <<241 + a, b, c>>
  <2>1. v \in Nat /\ v <= 906263 /\ n = 12481 + v
    BY <1>3 DEF MaxVl
  <2>2. VlPrefix(n) = s
    BY <1>3, VlLong
  <2> HIDE DEF v
  <2>3. q \in Nat /\ c \in Nat /\ c <= 255 /\ v = 256 * q + c
    BY <2>1, LowByte
  <2>4. a = q \div 256
    BY <2>1, AboveTwoBytes
  <2> HIDE DEF q, a, c
  <2>5. a \in Nat /\ b \in Nat /\ b <= 255 /\ q = 256 * a + b
    BY <2>3, <2>4, LowByte
  <2> HIDE DEF b
  <2>6. q <= 3540
    BY <2>1, <2>3
  <2>7. a <= 13
    BY <2>5, <2>6
  <2>8. s[1] = 241 + a /\ s[2] = b /\ s[3] = c /\ DOMAIN s = 1 .. 3
    OBVIOUS
  <2>9. ~(241 + a <= 192) /\ ~(241 + a > 192 /\ 241 + a <= 240) /\ 241 + a > 240
        /\ (241 + a) - 241 = a
    BY <2>5, <2>7
  <2> HIDE DEF s
  <2>10. VlDecode(s) = 12481 + (s[1] - 241) * 65536 + s[2] * 256 + s[3]
    BY <2>8, <2>9 DEF VlDecode
  <2>11. 12481 + a * 65536 + b * 256 + c = n
    <3>1. 256 * (256 * a + b) + c = a * 65536 + b * 256 + c
      BY <2>3, <2>5
    <3> QED
      BY <2>1, <2>3, <2>5, <3>1
  <2>12. VlDecode(s) = n
    BY <2>8, <2>9, <2>10, <2>11
  <2>13. \A i \in DOMAIN s : s[i] \in 0 .. 255
    <3>1. 241 + a \in 0 .. 255 /\ b \in 0 .. 255 /\ c \in 0 .. 255
      BY <2>3, <2>5, <2>7
    <3>2. \A i \in 1 .. 3 : i = 1 \/ i = 2 \/ i = 3
      OBVIOUS
    <3> QED
      BY <2>8, <3>1, <3>2
  <2> QED
    BY <2>2, <2>12, <2>13
<1> QED
  BY <1>1, <1>2, <1>3

\* A blob of any length that the ledger allows has a prefix that is read back as its
\* length, and a longer one has none.
THEOREM LengthsReadBack == LengthsRoundTrip
<1> SUFFICES ASSUME NEW n \in VlLengths
             PROVE  IF n > MaxVl THEN VlPrefix(n) = <<>>
                    ELSE /\ VlDecode(VlPrefix(n)) = n
                         /\ \A i \in DOMAIN VlPrefix(n) : VlPrefix(n)[i] \in 0 .. 255
  BY DEF LengthsRoundTrip
<1>1. n \in Nat
  BY SpvBundleAssumption
<1>2. CASE n > MaxVl
  <2>1. ~(n <= 192) /\ ~(n > 192 /\ n <= 12480) /\ ~(n > 12480 /\ n <= MaxVl)
    BY <1>1, <1>2 DEF MaxVl
  <2> QED
    BY <1>2, <2>1 DEF VlPrefix
<1>3. CASE ~(n > MaxVl)
  <2>1. n <= MaxVl
    BY <1>1, <1>3 DEF MaxVl
  <2> QED
    BY <1>1, <1>3, <2>1, VlReadsBack
<1> QED
  BY <1>2, <1>3

-------------------------------------------------------------------------------
(* The path that a node serves.                                            *)

\* wire_inner_to_512 gives back an inner node that was sent in full or compressed.
LEMMA WireReadsBack ==
    ASSUME NEW flat, flat = [b \in Nibbles |-> flat[b]]
    PROVE  FromWire(WireInner(flat)) = flat
<1> DEFINE used == {b \in Nibbles : flat[b] # ZeroHash}
           body == {<<b, flat[b]>> : b \in used}
           w == WireInner(flat)
<1>1. CASE used = Nibbles
  <2>1. w = [tag |-> "inner", body |-> flat]
    BY <1>1 DEF WireInner
  <2>2. w.tag = "inner" /\ w.body = flat
    BY <2>1
  <2> QED
    BY <2>2 DEF FromWire
<1>2. CASE used # Nibbles
  <2>1. w = [tag |-> "compressed", body |-> body]
    BY <1>2 DEF WireInner
  <2>2. w.tag # "inner" /\ w.body = body
    BY <2>1
  <2> HIDE DEF w
  <2> DEFINE Pick(b) == CHOOSE c \in body : c[1] = b
             Has(b) == \E c \in body : c[1] = b
  <2>3. FromWire(w) = [b \in Nibbles |-> IF Has(b) THEN Pick(b)[2] ELSE ZeroHash]
    <3> HIDE DEF body
    <3> QED
      BY <2>2 DEF FromWire
  <2>4. \A c \in body : c[1] \in used /\ c[2] = flat[c[1]]
    OBVIOUS
  <2>5. \A b \in used : <<b, flat[b]>> \in body /\ <<b, flat[b]>>[1] = b
    OBVIOUS
  <2> HIDE DEF body
  <2>6. ASSUME NEW b \in Nibbles PROVE (IF Has(b) THEN Pick(b)[2] ELSE ZeroHash) = flat[b]
    <3>1. CASE Has(b)
      <4>1. Pick(b) \in body /\ Pick(b)[1] = b
        BY <3>1
      <4> HIDE DEF Pick
      <4> QED
        BY <2>4, <3>1, <4>1
    <3>2. CASE ~Has(b)
      <4>1. b \notin used
        BY <2>5, <3>2
      <4> QED
        BY <3>2, <4>1
    <3> QED
      BY <3>1, <3>2
  <2> HIDE DEF Pick, Has
  <2>7. FromWire(w) = [b \in Nibbles |-> flat[b]]
    BY <2>3, <2>6
  <2> QED
    BY <2>7 DEF w
<1> QED
  BY <1>1, <1>2

\* What is read from the served path is the proof that the path was made from.
LEMMA PathReadsBack ==
    ASSUME NEW l, NEW k, NEW q, q = ProofOf(CanonicalTree(l.entries), k), q.ok,
           NEW D \in Nat \ {0}, Len(q.inner) = D, q.inner = [i \in 1 .. D |-> q.inner[i]],
           \A i \in 1 .. D : q.inner[i] = [b \in Nibbles |-> q.inner[i][b]]
    PROVE  LET p == ProofFromPath(ServedPath(l, k))
           IN  p.ok /\ p.key = q.key /\ p.data = q.data /\ p.inner = q.inner
<1> DEFINE s == ServedPath(l, k)
           wires == [i \in 1 .. D |-> WireInner(q.inner[i])]
           r == Reverse(wires)
<1>1. s = <<WireLeaf(q)>> \o r
  BY DEF ServedPath
<1>2. Len(wires) = D
  OBVIOUS
<1>3. r = [i \in 1 .. D |-> wires[(D - i) + 1]]
  <2> HIDE DEF wires
  <2> QED
    BY <1>2 DEF Reverse
<1>4. \A i \in 1 .. D : (D - i) + 1 \in 1 .. D
  OBVIOUS
<1>5. \A i \in 1 .. D : r[i] = WireInner(q.inner[(D - i) + 1])
  <2> HIDE DEF r
  <2> QED
    BY <1>3, <1>4
<1> HIDE DEF wires, r, s
<1> DEFINE sent == {r[i] : i \in 1 .. D}
<1>6. r \in Seq(sent) /\ Len(r) = D
  <2>1. DOMAIN r = 1 .. D /\ r = [i \in 1 .. D |-> r[i]]
    BY <1>3
  <2>2. \A i \in 1 .. D : r[i] \in sent
    OBVIOUS
  <2> HIDE DEF sent
  <2>3. r \in [1 .. D -> sent]
    BY <2>1, <2>2
  <2> QED
    BY <2>3
<1> HIDE DEF sent
<1>7. Len(s) = D + 1 /\ s[1] = WireLeaf(q) /\ \A i \in 1 .. D : s[i + 1] = r[i]
  <2>1. <<WireLeaf(q)>> \in Seq({WireLeaf(q)}) /\ Len(<<WireLeaf(q)>>) = 1 /\ <<WireLeaf(q)>>[1] = WireLeaf(q)
    OBVIOUS
  <2> DEFINE one == <<WireLeaf(q)>>
  <2>2. Len(one \o r) = D + 1 /\ (one \o r)[1] = one[1]
    BY <1>6, <2>1
  <2>3. \A i \in 1 .. D : (one \o r)[i + 1] = r[i]
    <3> TAKE i \in 1 .. D
    <3>1. i + 1 \in 1 .. D + 1 /\ i + 1 > 1 /\ (i + 1) - 1 = i
      OBVIOUS
    <3> QED
      BY <1>6, <2>1, <3>1
  <2> QED
    BY <1>1, <2>1, <2>2, <2>3
<1> DEFINE back == [i \in 1 .. D |-> FromWire(s[i + 1])]
<1>8. ProofFromPath(s) = [key |-> s[1].key, data |-> s[1].data, ok |-> TRUE, inner |-> Reverse(back)]
  <2>1. ~(Len(s) < 2) /\ Len(s) - 1 = D
    BY <1>7
  <2> QED
    BY <2>1 DEF ProofFromPath
<1>9. ASSUME NEW i \in 1 .. D PROVE back[i] = q.inner[(D - i) + 1]
  <2>1. back[i] = FromWire(WireInner(q.inner[(D - i) + 1]))
    BY <1>5, <1>7
  <2>2. (D - i) + 1 \in 1 .. D
    BY <1>4
  <2> QED
    BY <2>1, <2>2, WireReadsBack
<1>10. Reverse(back) = [i \in 1 .. D |-> back[(D - i) + 1]]
  <2>1. Len(back) = D
    OBVIOUS
  <2> HIDE DEF back
  <2> QED
    BY <2>1 DEF Reverse
<1> HIDE DEF back
<1>11. \A i \in 1 .. D : back[(D - i) + 1] = q.inner[i]
  <2> TAKE i \in 1 .. D
  <2>1. (D - i) + 1 \in 1 .. D /\ (D - ((D - i) + 1)) + 1 = i
    OBVIOUS
  <2> QED
    BY <1>9, <2>1
<1>12. Reverse(back) = q.inner
  BY <1>10, <1>11
<1>13. WireLeaf(q).key = q.key /\ WireLeaf(q).data = q.data
  BY DEF WireLeaf
<1> QED
  BY <1>7, <1>8, <1>12, <1>13 DEF s

\* The path that a node serves for a key proves it in a ledger exactly when it is
\* there, at the last nibble too: nothing is lost by compression and by sending the
\* leaf first.
THEOREM ServedPathVerifies ==
    \A l \in Ledgers : \A k \in Keys \cup {Escrow} :
        VerifyInclusion(ProofFromPath(ServedPath(l, k)), LedgerRoot(l)) <=> k \in DOMAIN l.entries
<1> TAKE l \in Ledgers
<1> TAKE k \in Keys \cup {Escrow}
<1> DEFINE S == DOMAIN l.entries
           C == CanonicalTree(l.entries)
           p == ProofFromPath(ServedPath(l, k))
           q == ProofOf(C, k)
           D == WalkEnd(C, k)
<1>1. ASSUME VerifyInclusion(p, LedgerRoot(l)) PROVE k \in S
  <2>1. p.key = k /\ Len(p.inner) \in Nat /\ k \in KeySpace
    BY <1>1, PathShape, KeysInSpace DEF VerifyInclusion
  <2> HIDE DEF p
  <2> QED
    BY <1>1, <2>1, VerifiedIsEntry
<1>2. ASSUME k \in S PROVE VerifyInclusion(p, LedgerRoot(l))
  <2>1. S \in SUBSET Keys /\ S \in SUBSET KeySpace /\ S # {} /\ k \in KeySpace
    BY <1>2, KeysInSpace DEF Keys
  <2>2. IsTree(C, S, l.entries)
    BY <2>1, CanonicalIsTree
  <2>3. VerifyInclusion(q, RootHash(C))
    BY <1>2, <2>1, <2>2, ProofsInTree
  <2>4. q.ok
    BY <2>3 DEF VerifyInclusion
  <2>5. PICK d \in 1 .. KeyLen : Deep(S, k, d - 1) /\ ~Deep(S, k, d)
    BY <2>1, WayEnds
  <2>6. D = d /\ D \in Nat \ {0}
    BY <2>1, <2>2, <2>5, WalkInTree, SpvBundleAssumption
  <2> HIDE DEF C
  <2>7. q.inner = [i \in 1 .. D |-> FlatChildren(C, Prefix(k, i - 1))]
    BY <2>4, ProofIsOfLeaf DEF ProofOf
  <2> HIDE DEF D, q
  <2>8. Len(q.inner) = D /\ q.inner = [i \in 1 .. D |-> q.inner[i]]
    BY <2>6, <2>7
  <2>9. \A i \in 1 .. D : q.inner[i] = [b \in Nibbles |-> q.inner[i][b]]
    BY <2>7 DEF FlatChildren
  <2>10. p.ok /\ p.key = q.key /\ p.data = q.data /\ p.inner = q.inner
    BY <2>4, <2>6, <2>8, <2>9, PathReadsBack DEF q, C
  <2>11. VerifyInclusion(q, LedgerRoot(l))
    BY <2>3 DEF LedgerRoot, C
  <2> HIDE DEF p
  <2> QED
    BY <2>10, <2>11 DEF VerifyInclusion, BranchHolds, RunningHash
<1> QED
  BY <1>1, <1>2
===============================================================================
