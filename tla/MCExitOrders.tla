---------------------------- MODULE MCExitOrders ----------------------------
(* Small instances of ExitOrders. *)
EXTENDS ExitOrders, TLC

CONSTANTS c1, c2, c3

\* Commands of the same order type are interchangeable.
CommandSymmetry == Permutations(Fak) \cup Permutations(Commands \ Fak)
=============================================================================
