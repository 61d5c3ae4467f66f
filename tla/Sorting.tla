-------------------------------- MODULE Sorting --------------------------------
(***************************************************************************)
(* The elements of a finite set in the order in which a loop over a        *)
(* container of the program meets them, by rank: the i-th element is the   *)
(* one that i - 1 others come before.  (Defined without recursion and      *)
(* without SortSeq and SelectSeq, of which the provers know nothing.)      *)
(***************************************************************************)
EXTENDS Integers, Sequences, FiniteSets

\* The elements of S, where before is a strict total order.
Sorted(S, before(_, _)) ==
    [i \in 1 .. Cardinality(S) |->
        CHOOSE x \in S : Cardinality({y \in S : before(y, x)}) = i - 1]

\* The elements of a set of numbers in ascending order.
Ascending(S) == Sorted(S, LAMBDA m, n : m < n)

\* The elements of a sequence at some of its places, in order: what a loop keeps
\* that leaves the other places out.
KeptAt(seq, places) ==
    [i \in 1 .. Cardinality(places) |-> seq[Ascending(places)[i]]]
================================================================================
