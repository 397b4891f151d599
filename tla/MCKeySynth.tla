----------------------------- MODULE MCKeySynth ------------------------------
EXTENDS KeySynth, Keysymtab

\* The two searches never answer with another character or symbol, since the table's
\* rows agree; but it is not sorted, neither by character, as its comment asks, nor by
\* symbol.
ASSUME RowsAgree == OneCharacterEach(Table)
ASSUME NotSorted == ~Sorted(1) /\ ~Sorted(2)
Characters == {Table[i][2] : i \in DOMAIN Table} \ Latin1
ASSUME NeverAnother ==
    \A c \in Characters \cup Latin1 : keysym2ucs(ucs2keysym(c)) \in {c, -1}
ASSUME Missed ==
    /\ Cardinality({c \in Characters : ucs2keysym(c) = Flag + c}) = 110
    /\ Cardinality({i \in DOMAIN Table : keysym2ucs(Table[i][1]) = -1}) = 541

\* 'a' and 'A' on one key, '3' and '#' on another, a spare one with a symbol
\* of its own.
Key(code, mods, keysym) == [code |-> code, mods |-> mods, keysym |-> keysym]
MCKeymap ==
    {Key(1, {}, 97), Key(1, {"Shift"}, 65), Key(2, {}, 51), Key(2, {"Shift"}, 35),
     Key(1, {"Mod5"}, 64), Key(3, {}, 1000)}
MCMatters == [k \in Codes |-> IF k = 3 THEN {} ELSE {"Shift", "Mod5"}]
MCLookedUp == {{}, {"Shift"}}
MCSpare == <<3>>
MCTaken == {{}, {3}}

\* Symbols with and without a key, and characters the search of the table meets
\* (260) and misses (317); modifiers that come and go; clients that press
\* keys themselves; latches and clicks.
Nothing == [symbols |-> {}, strings |-> {}, raw |-> {}, buttons |-> {}, types |-> {},
            holds |-> {}, locks |-> {}, latches |-> {}]
MCSessions ==
    {[Nothing EXCEPT !.symbols = {65, 417, 1000}, !.strings = {<<260, 65>>, <<260, 317>>}],
     [Nothing EXCEPT !.symbols = {97, 65, 64, 417}, !.holds = {"Shift"}, !.locks = {"Shift"}],
     [Nothing EXCEPT !.symbols = {65, 417}, !.raw = {1, 3}, !.types = {1}],
     [Nothing EXCEPT !.symbols = {97}, !.latches = {"Shift"}, !.buttons = {101}]}
=============================================================================
