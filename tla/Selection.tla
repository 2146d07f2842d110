------------------------------ MODULE Selection -----------------------------
(***************************************************************************)
(* Keeping some entries of a sequence in their order: what a list          *)
(* comprehension with a condition, a sort and a slice do in the source.    *)
(* Written by position and rank, not with SelectSeq, whose recursion the   *)
(* provers cannot follow; see SelectionProofs.                             *)
(***************************************************************************)
EXTENDS Naturals, Sequences, FiniteSets

\* How many positions of ks come before i.
Rank(ks, i) == Cardinality({k \in ks : k < i})

Nth(ks, n) == CHOOSE i \in ks : Rank(ks, i) = n - 1

\* The first n positions of ks.
Firsts(ks, n) == {i \in ks : Rank(ks, i) < n}

\* The entries of s at the positions ks.
KeptAt(s, ks) == [n \in 1..Cardinality(ks) |-> s[Nth(ks, n)]]

\* The sum of a sequence of naturals: the size of a disjoint union.
Total(s) == Cardinality(UNION {{k} \X (1..s[k]) : k \in DOMAIN s})
=============================================================================
