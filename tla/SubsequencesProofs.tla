------------------------- MODULE SubsequencesProofs -------------------------
(***************************************************************************)
(* A subsequence has the elements at the chosen places, all of them and in *)
(* their order.  The place of the k-th is found by counting, so that there *)
(* is one for each k: as many ranks as places, and different ones.  And    *)
(* induction over natural numbers, for statements about loops.             *)
(***************************************************************************)
EXTENDS Subsequences, FiniteSetTheorems, TLAPS

(* Every set of natural numbers that is not empty has a least member; so a *)
(* set with 0 and, of each number, the next, has them all.                 *)
Below == {p \in Nat \X Nat : p[1] < p[2]}

LEMMA BelowIsWellFounded == IsWellFoundedOn(Below, Nat)
  <1>1. OpToRel(<, Nat) = Below
    BY Zenon DEF OpToRel, Below
  <1> QED
    BY <1>1, NatLessThanWellFounded, Zenon

LEMMA LeastNatural ==
    ASSUME NEW T \in SUBSET Nat, T # {}
    PROVE  \E m \in T : \A k \in T : m <= k
  <1>1. PICK m \in T : \A k \in T : ~ (<<k, m>> \in Below)
    BY BelowIsWellFounded, WFMin
  <1>2. ASSUME NEW k \in T PROVE m <= k
    <2>1. ~(k < m)
      BY <1>1 DEF Below
    <2> QED
      BY <2>1
  <1> QED
    BY <1>2

LEMMA CountUp ==
    ASSUME NEW n \in Nat, NEW S, 0 \in S, \A k \in 0 .. n - 1 : k \in S => k + 1 \in S
    PROVE  0 .. n \subseteq S
  <1> DEFINE T == (0 .. n) \ S
  <1> SUFFICES ASSUME T # {} PROVE FALSE
    OBVIOUS
  <1>1. T \in SUBSET Nat
    OBVIOUS
  <1>2. PICK m \in T : \A k \in T : m <= k
    BY <1>1, LeastNatural
  <1>3. m \in 0 .. n /\ m \notin S /\ m # 0
    OBVIOUS
  <1>4. m - 1 \in 0 .. n - 1 /\ (m - 1) + 1 = m
    BY <1>3
  <1>5. m - 1 \in S
    BY <1>2, <1>4
  <1> QED
    BY <1>3, <1>4, <1>5

(* The places before a place of I are fewer than I.                        *)
LEMMA RankIs ==
    ASSUME NEW I, I \subseteq Int, IsFiniteSet(I), NEW i \in I
    PROVE  Cardinality(I) \in Nat /\ Rank(I, i) \in Nat /\ Rank(I, i) < Cardinality(I)
  <1> DEFINE B == {j \in I : j < i}
  <1>1. IsFiniteSet(B) /\ Cardinality(B) <= Cardinality(I)
        /\ (Cardinality(B) = Cardinality(I) => I = B)
    BY FS_Subset
  <1>2. i \notin B
    OBVIOUS
  <1>3. Cardinality(B) \in Nat /\ Cardinality(I) \in Nat
    BY <1>1, FS_CardinalityType
  <1> QED
    BY <1>1, <1>2, <1>3 DEF Rank

LEMMA RankGrows ==
    ASSUME NEW I, I \subseteq Int, IsFiniteSet(I), NEW i \in I, NEW j \in I, i < j
    PROVE  Rank(I, i) < Rank(I, j)
  <1> DEFINE B == {k \in I : k < i}
             C == {k \in I : k < j}
  <1>1. IsFiniteSet(C)
    BY FS_Subset
  <1>2. \A k \in I : k \in Int
    OBVIOUS
  <1>6. \A k \in I : k < i => k < j
    BY <1>2
  <1>7. ~(i < i)
    BY <1>2
  <1>5. B \subseteq C /\ i \in C /\ i \notin B
    BY <1>6, <1>7, Zenon
  <1>3. Cardinality(B) <= Cardinality(C) /\ (Cardinality(B) = Cardinality(C) => C = B)
        /\ IsFiniteSet(B)
    BY <1>1, <1>5, FS_Subset
  <1>4. Cardinality(B) \in Nat /\ Cardinality(C) \in Nat
    BY <1>1, <1>3, FS_CardinalityType
  <1> QED
    BY <1>5, <1>3, <1>4 DEF Rank

(* The part of s at the places in I: one element for each, in their order. *)
IsPart(part, s, I) ==
    \E place \in [1 .. Cardinality(I) -> I] :
        /\ part = [k \in 1 .. Cardinality(I) |-> s[place[k]]]
        /\ \A i \in I : \E k \in 1 .. Cardinality(I) : place[k] = i
        /\ \A j, k \in 1 .. Cardinality(I) : j < k <=> place[j] < place[k]

(* The places of a subsequence.                                            *)
THEOREM SubsequenceIs ==
    ASSUME NEW I, I \subseteq Int, IsFiniteSet(I), NEW s
    PROVE  /\ Cardinality(I) \in Nat
           /\ IsPart(Subsequence(s, I), s, I)
  <1> DEFINE n == Cardinality(I)
             rank == [i \in I |-> Rank(I, i) + 1]
             place == [k \in 1 .. n |-> CHOOSE i \in I : Rank(I, i) = k - 1]
  <1>1. n \in Nat
    BY FS_CardinalityType
  <1>2. \A i \in I : Rank(I, i) \in Nat /\ Rank(I, i) < n
    BY RankIs
  <1>3. \A i, j \in I : i < j => Rank(I, i) < Rank(I, j)
    BY RankGrows
  <1>4. \A i, j \in I : Rank(I, i) = Rank(I, j) => i = j
    BY <1>2, <1>3
  <1>5. rank \in [I -> 1 .. n]
    BY <1>1, <1>2
  <1>6. rank \in Injection(I, 1 .. n)
    BY <1>2, <1>4, <1>5 DEF Injection, IsInjective
  <1>7. IsFiniteSet(1 .. n) /\ Cardinality(1 .. n) = n
    BY <1>1, FS_Interval
  <1>8. rank \in Surjection(I, 1 .. n)
    BY <1>6, <1>7, FS_Injection
  <1>9. \A k \in 1 .. n : \E i \in I : rank[i] = k
    BY <1>8 DEF Surjection
  <1>10. \A k \in 1 .. n : \E i \in I : Rank(I, i) = k - 1
    BY <1>2, <1>9
  <1> HIDE DEF rank
  <1>11. \A k \in 1 .. n : place[k] \in I /\ Rank(I, place[k]) = k - 1
    BY <1>10
  <1>12. place \in [1 .. n -> I]
    BY <1>11
  <1>13. Subsequence(s, I) = [k \in 1 .. n |-> s[place[k]]]
    BY DEF Subsequence
  <1> HIDE DEF place
  <1>14. \A i \in I : \E k \in 1 .. n : place[k] = i
    <2> SUFFICES ASSUME NEW i \in I PROVE \E k \in 1 .. n : place[k] = i
      OBVIOUS
    <2>1. Rank(I, i) + 1 \in 1 .. n
      BY <1>1, <1>2
    <2>2. Rank(I, place[Rank(I, i) + 1]) = Rank(I, i) /\ place[Rank(I, i) + 1] \in I
      BY <1>2, <1>11, <2>1
    <2> QED
      BY <1>4, <2>1, <2>2
  <1>15. \A j, k \in 1 .. n : j < k <=> place[j] < place[k]
    <2> SUFFICES ASSUME NEW j \in 1 .. n, NEW k \in 1 .. n
                 PROVE  j < k <=> place[j] < place[k]
      OBVIOUS
    <2>1. /\ place[j] \in I /\ place[k] \in I /\ place[j] \in Int /\ place[k] \in Int
          /\ Rank(I, place[j]) = j - 1 /\ Rank(I, place[k]) = k - 1
      BY <1>11
    <2>2. place[j] < place[k] => j - 1 < k - 1
      BY <1>3, <2>1
    <2>3. place[k] < place[j] => k - 1 < j - 1
      BY <1>3, <2>1
    <2>4. place[k] = place[j] => k - 1 = j - 1
      BY <2>1
    <2> QED
      BY <1>1, <2>1, <2>2, <2>3, <2>4
  <1> QED
    BY <1>1, <1>12, <1>13, <1>14, <1>15 DEF IsPart, n

(* As IsPart, of a sequence.                                               *)
Keeps(part, s, I) ==
    \E place \in [1 .. Len(part) -> I] :
        /\ \A k \in 1 .. Len(part) : part[k] = s[place[k]]
        /\ \A i \in I : \E k \in 1 .. Len(part) : place[k] = i
        /\ \A j, k \in 1 .. Len(part) : j < k <=> place[j] < place[k]

THEOREM SubsequenceKeeps ==
    ASSUME NEW S, NEW s \in Seq(S), NEW I, I \subseteq DOMAIN s
    PROVE  /\ Subsequence(s, I) \in Seq(S)
           /\ Len(Subsequence(s, I)) <= Len(s)
           /\ Keeps(Subsequence(s, I), s, I)
  <1> DEFINE n == Cardinality(I)
             part == Subsequence(s, I)
  <1>1. Len(s) \in Nat /\ DOMAIN s = 1 .. Len(s) /\ \A i \in DOMAIN s : s[i] \in S
    OBVIOUS
  <1>2. IsFiniteSet(1 .. Len(s)) /\ Cardinality(1 .. Len(s)) = Len(s)
    <2>1. \A m \in Nat : IsFiniteSet(1 .. m) /\ Cardinality(1 .. m) = m
      BY FS_Interval
    <2> QED
      BY <1>1, <2>1
  <1>3. I \subseteq 1 .. Len(s)
    BY <1>1, Zenon
  <1>4. IsFiniteSet(I) /\ n <= Len(s)
    BY <1>2, <1>3, FS_Subset
  <1>5. I \subseteq Int
    BY <1>3
  <1>6. n \in Nat /\ IsPart(part, s, I)
    BY <1>4, <1>5, SubsequenceIs
  <1> HIDE DEF part, n
  <1>7. PICK place \in [1 .. n -> I] :
            /\ part = [k \in 1 .. n |-> s[place[k]]]
            /\ \A i \in I : \E k \in 1 .. n : place[k] = i
            /\ \A j, k \in 1 .. n : j < k <=> place[j] < place[k]
    BY <1>6 DEF IsPart, n
  <1>8. \A k \in 1 .. n : part[k] = s[place[k]] /\ part[k] \in S
    BY <1>1, <1>3, <1>7
  <1>9. part \in Seq(S) /\ Len(part) = n
    BY <1>6, <1>7, <1>8
  <1>10. Keeps(part, s, I)
    <2>1. place \in [1 .. Len(part) -> I]
      BY <1>7, <1>9, Zenon
    <2>2. /\ \A k \in 1 .. Len(part) : part[k] = s[place[k]]
          /\ \A i \in I : \E k \in 1 .. Len(part) : place[k] = i
          /\ \A j, k \in 1 .. Len(part) : j < k <=> place[j] < place[k]
      <3>1. 1 .. Len(part) = 1 .. n
        BY <1>9, Zenon
      <3> QED
        BY <1>7, <1>8, <3>1, Zenon
    <2> QED
      BY <2>1, <2>2, Zenon DEF Keeps
  <1> QED
    BY <1>4, <1>9, <1>10 DEF part

(* What is left without X: every place of s with something else, in order. *)
LeavesOut(left, s, X) ==
    \E place \in [1 .. Len(left) -> 1 .. Len(s)] :
        /\ \A k \in 1 .. Len(left) : left[k] = s[place[k]] /\ s[place[k]] \notin X
        /\ \A i \in 1 .. Len(s) : s[i] \notin X => \E k \in 1 .. Len(left) : place[k] = i
        /\ \A j, k \in 1 .. Len(left) : j < k <=> place[j] < place[k]

(* A loop that takes the elements of X out of a sequence leaves the others *)
(* in their order (GuiDataBus::unregisterHandler, and Qt when it drops the *)
(* events posted to an object that is destroyed).                          *)
THEOREM WithoutLeaves ==
    ASSUME NEW S, NEW s \in Seq(S), NEW X
    PROVE  /\ Without(s, X) \in Seq(S)
           /\ Len(Without(s, X)) <= Len(s)
           /\ LeavesOut(Without(s, X), s, X)
  <1> DEFINE I == {i \in DOMAIN s : s[i] \notin X}
             left == Without(s, X)
  <1>1. DOMAIN s = 1 .. Len(s) /\ I \subseteq 1 .. Len(s)
        /\ \A i \in 1 .. Len(s) : i \in I <=> s[i] \notin X
    OBVIOUS
  <1>2. left \in Seq(S) /\ Len(left) <= Len(s) /\ Keeps(left, s, I)
    BY SubsequenceKeeps DEF Without
  <1> HIDE DEF I, left
  <1>3. PICK place \in [1 .. Len(left) -> I] :
            /\ \A k \in 1 .. Len(left) : left[k] = s[place[k]]
            /\ \A i \in I : \E k \in 1 .. Len(left) : place[k] = i
            /\ \A j, k \in 1 .. Len(left) : j < k <=> place[j] < place[k]
    BY <1>2 DEF Keeps
  <1>4. place \in [1 .. Len(left) -> 1 .. Len(s)]
    BY <1>1
  <1>5. LeavesOut(left, s, X)
    BY <1>1, <1>3, <1>4 DEF LeavesOut
  <1> QED
    BY <1>2, <1>5 DEF left
=============================================================================
