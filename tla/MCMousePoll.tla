----------------------------- MODULE MCMousePoll -----------------------------
EXTENDS MousePoll

\* Two listeners of one client and one of another.
MCOwner == [l \in Listeners |-> IF l = "b1" THEN "b" ELSE "a"]
=============================================================================
