----------------------------- MODULE MCKeyGrabs ------------------------------
EXTENDS KeyGrabs

\* A listener of client a and one of client b.
MCOwner == [l \in KeyListeners |-> IF l = "b1" THEN "b" ELSE "a"]

\* One key, two keys, and two names of one key; every key; a key
\* and a symbol.
KeysAlone == {<<"k1">>, <<"k1", "k2">>, <<"k2", "k2">>, <<>>}
AllLists == KeysAlone \cup {<<"k1", "s">>}

\* The symbol "s" is on key k1 or on none; "own" is the reserved key's.
Mapped == [s |-> "k1", own |-> "k2"]
Unmapped == [s |-> "any", own |-> "k2"]

Scenario(lists, rivals, layouts, careless) ==
    [lists |-> lists, rivals |-> rivals, layouts |-> layouts, careless |-> careless]

\* Careful clients and symbols that move; other X clients; careless clients.
SymbolsMove == {Scenario({<<"k1", "s">>}, {}, {Mapped, Unmapped}, FALSE)}
MCScenarios ==
    SymbolsMove \cup
    {Scenario(KeysAlone, Masks \X Keys, {Mapped}, FALSE),
     Scenario({<<"k1">>, <<"k2", "k2">>}, {<<"m1", "k1">>}, {Mapped}, TRUE)}
=============================================================================
