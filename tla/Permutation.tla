---------------------------- MODULE Permutation ----------------------------
(***************************************************************************)
(* The seeded swap-or-not shuffle (crates/core/src/queue/permutation.rs):  *)
(* where a row lands, and which row lands somewhere, one row at a time and *)
(* without a table.  The generator that draws each round's pivot and coins *)
(* is left to the constants, and so is the number of rounds.               *)
(***************************************************************************)
EXTENDS Integers, SequencesExt

CONSTANTS
    Pivot(_, _, _),  \* (seed, m, i): round i's pivot, below m
    Coin(_, _, _),   \* (seed, i, high): whether the pair whose higher row is high swaps
    Rounds           \* how many rounds

Partner(pivot, m, x) == IF pivot >= x THEN pivot - x ELSE pivot + (m - x)
Higher(x, y) == IF x > y THEN x ELSE y
Round(seed, m, i, x) ==
    LET partner == Partner(Pivot(seed, m, i), m, x)
    IN  IF Coin(seed, i, Higher(x, partner)) THEN partner ELSE x

RoundNumbers == [i \in 1 .. Rounds |-> i - 1]
Permute(seed, m, x) ==
    IF m < 2 THEN x
    ELSE FoldLeft(LAMBDA y, i : Round(seed, m, i, y), x, RoundNumbers)
Unpermute(seed, m, y) ==
    IF m < 2 THEN y
    ELSE FoldLeft(LAMBDA x, i : Round(seed, m, i, x), y, Reverse(RoundNumbers))
=============================================================================
