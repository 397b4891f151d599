----------------------------- MODULE MCRegistryd ------------------------------
EXTENDS Registryd

\* One client embeds and makes two device calls; the other makes one call, which
\* is a device call only if clients need not embed first.
MostCalls == [c \in Names |-> IF c = "a" THEN 3 ELSE 1]
=============================================================================
