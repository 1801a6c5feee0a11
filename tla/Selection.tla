------------------------------ MODULE Selection ------------------------------
(***************************************************************************)
(* A part of a sequence: the entries that stand at some of its indices.    *)
(***************************************************************************)
EXTENDS Naturals, FiniteSets

\* The entries at these indices, in their order: the k-th of them is the one
\* that k of the indices come no later than.  (SelectSeq by indices, and
\* without recursion.)
Those(s, indices) ==
  [k \in 1 .. Cardinality(indices) |->
     s[CHOOSE i \in indices : Cardinality({j \in indices : j <= i}) = k]]
=============================================================================
