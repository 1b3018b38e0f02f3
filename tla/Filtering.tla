----------------------------- MODULE Filtering -----------------------------
(***************************************************************************)
(* Filtering a slice in Go: a loop that appends what it keeps.             *)
(***************************************************************************)
EXTENDS Naturals, Sequences, FiniteSets

\* Of the positions in I those up to n, so Rank(I, n) is the place of s[n] among
\* what is kept.
Rank(I, n) == Cardinality({m \in I : m <= n})

\* The elements of s at the positions in I, in their order.
Filtered(s, I) ==
  [k \in 1..Cardinality(I) |-> s[CHOOSE n \in I : Rank(I, n) = k]]
=============================================================================
