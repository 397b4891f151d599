---------------------------- MODULE MCClientCache -----------------------------
(* Two accessibles, one of them a child at first. *)
EXTENDS ClientCache
CONSTANTS x, y
MCObjects == {x, y}
MCFirstKids == <<x>>
=============================================================================
