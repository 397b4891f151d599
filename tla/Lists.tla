--------------------------------- MODULE Lists ---------------------------------
(***************************************************************************)
(* Linked lists of which some elements are taken out or copied.            *)
(***************************************************************************)
EXTENDS Integers, Sequences, FiniteSets

\* The elements of a list that are in a set, in their order.
Only(s, S) ==
    LET kept == {i \in DOMAIN s : s[i] \in S}
        Place(i) == Cardinality({j \in kept : j <= i})
    IN  [n \in 1..Cardinality(kept) |-> s[CHOOSE i \in kept : Place(i) = n]]
=============================================================================
