------------------------------ MODULE Ucs2Keysym ------------------------------
(***************************************************************************)
(* Characters and X key symbols (registryd/ucs2keysym.c).  Latin-1 has     *)
(* symbols equal to its characters; the others are looked for by binary    *)
(* search in a table of pairs, and a character the search does not meet is *)
(* given the symbol 16#1000000 + character.                                *)
(***************************************************************************)
EXTENDS Integers, Sequences

CONSTANT keysymtab  \* the table: a sequence of pairs <<key symbol, character>>

ASSUME TableAssumption == keysymtab \in Seq(Nat \X Nat)

Flag == 16777216

\* Characters; Unicode ends well below.
UCS == 0 .. Flag - 1

Latin1 == 32..126 \cup 160..255

\* The row the search for v in the given column ends at, between the rows min and
\* max; 0: none.
Row(column, v) ==
    LET search[part \in (1..Len(keysymtab) + 1) \X (0..Len(keysymtab))] ==
            LET min == part[1]
                max == part[2]
                mid == (min + max) \div 2
                at == keysymtab[mid][column]
            IN  IF max < min THEN 0
                ELSE IF at < v THEN search[<<mid + 1, max>>]
                ELSE IF at > v THEN search[<<min, mid - 1>>]
                ELSE mid
    IN  search[<<1, Len(keysymtab)>>]

ucs2keysym(ucs) ==
    IF ucs \in Latin1 THEN ucs
    ELSE LET row == Row(2, ucs)
         IN  IF row # 0 THEN keysymtab[row][1] ELSE Flag + ucs

keysym2ucs(keysym) ==
    IF keysym \in Latin1 THEN keysym
    ELSE IF keysym \in Flag .. 2 * Flag - 1 THEN keysym - Flag
    ELSE LET row == Row(1, keysym)
         IN  IF row # 0 THEN keysymtab[row][2] ELSE -1

-----------------------------------------------------------------------------
\* What the table's comment asks of its column of characters.
Sorted(column) ==
    \A i, j \in DOMAIN keysymtab : i < j => keysymtab[i][column] <= keysymtab[j][column]

\* The rows of a symbol have one character in a table, and no row has a symbol of
\* Latin-1 or a flagged one.
OneCharacterEach(table) ==
    /\ \A i, j \in DOMAIN table :
          table[i][1] = table[j][1] => table[i][2] = table[j][2]
    /\ \A i \in DOMAIN table :
          table[i][1] \notin Latin1 /\ table[i][1] \notin Flag .. 2 * Flag - 1
=============================================================================
