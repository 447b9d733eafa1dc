----------------------------- MODULE Selection -----------------------------
(***************************************************************************)
(* The lists that comprehensions and loops with "continue" make: what is   *)
(* at some places of a list, in the order it has there.                    *)
(***************************************************************************)
EXTENDS Integers, FiniteSets, Sequences

\* The n-th lowest of some places.
Nth(places, n) == CHOOSE i \in places : Cardinality({j \in places : j <= i}) = n

At(list, places) == [n \in 1..Cardinality(places) |-> list[Nth(places, n)]]

\* The elements whose key is not that of an earlier one ("if key in seen: continue").
FirstOfEach(list, keys) ==
    At(list, {i \in DOMAIN list : \A j \in 1..(i - 1) : keys[j] # keys[i]})
=============================================================================
