---------------------------- MODULE Subsequences ----------------------------
(***************************************************************************)
(* What is left of a sequence when a loop has taken elements out of it.    *)
(***************************************************************************)
EXTENDS Integers, Sequences, FiniteSets

(* The number of places of I before the place i.                           *)
Rank(I, i) == Cardinality({j \in I : j < i})

(* The elements of s at the places in I, in their order.                   *)
Subsequence(s, I) ==
    [k \in 1 .. Cardinality(I) |-> s[CHOOSE i \in I : Rank(I, i) = k - 1]]

(* The elements of s that are not in X.                                    *)
Without(s, X) == Subsequence(s, {i \in DOMAIN s : s[i] \notin X})
=============================================================================
