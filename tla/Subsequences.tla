---------------------------- MODULE Subsequences ----------------------------
(***************************************************************************)
(* The subsequence of a sequence at chosen places, with its laws.  It is   *)
(* SelectSeq without recursion: the place of an element in the result is   *)
(* the number of chosen places up to its own, so what a filter keeps, drops*)
(* and preserves follows from facts about cardinalities.                   *)
(***************************************************************************)
EXTENDS Integers, Sequences, FiniteSets

\* How many chosen places there are up to i, and the j-th of them.
Upto(I, i) == {h \in I : h <= i}
Nth(I, j) == CHOOSE i \in I : Cardinality(Upto(I, i)) = j

\* The elements of s at the places I, in the order of s.
Subsequence(s, I) == [j \in 1 .. Cardinality(I) |-> s[Nth(I, j)]]

\* What of s lies in a set, and what does not.
Within(s, kept) == Subsequence(s, {i \in 1 .. Len(s) : s[i] \in kept})
Without(s, gone) == Subsequence(s, {i \in 1 .. Len(s) : s[i] \notin gone})
=============================================================================
