----------------------------- MODULE MCKeyEvents ------------------------------
EXTENDS KeyEvents

\* A screen reader with a listener of all keys, another client's listener of the
\* presses of one key, both of which can consume; and one that is told of keys by
\* applications.
Listens(owner, keys, types, global, preemptive) ==
    [owner |-> owner, keys |-> keys, types |-> types, global |-> global,
     preemptive |-> preemptive]

ProfileOf ==
    [l \in {"reader", "filter", "toolkit"} |->
        CASE l = "reader"  -> Listens("A", {1, 2}, EventTypes, TRUE, TRUE)
          [] l = "filter"  -> Listens("B", {2}, {"press"}, TRUE, TRUE)
          [] l = "toolkit" -> Listens("B", {1}, EventTypes, FALSE, TRUE)]
=============================================================================
