------------------------------- MODULE Places -------------------------------
(***************************************************************************)
(* What a filter and a sort make of a Python list, by the places of its    *)
(* elements: an element's place in the result is the number of those that  *)
(* come before it.                                                         *)
(***************************************************************************)
EXTENDS Naturals, Sequences, FiniteSets

\* The members of S, a finite set that the pairs of `before` order.
Arranged(S, before) ==
    [k \in 1..Cardinality(S) |->
        CHOOSE n \in S : Cardinality({m \in S : <<m, n>> \in before}) = k - 1]

\* Places in order, and the elements of s at them.
InPlace(places) == Arranged(places, {x \in places \X places : x[1] < x[2]})

Kept(s, places) == [k \in 1..Cardinality(places) |-> s[InPlace(places)[k]]]
=============================================================================
