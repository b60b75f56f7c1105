------------------------ MODULE MCCollateralLedger ------------------------
(* Small instances of CollateralLedger. *)
EXTENDS CollateralLedger, TLC

CONSTANTS c1, c2, heartbeat, submit, sidecar

MCSize == [c \in Commands |-> 2]
MCUnitSize == [c \in Commands |-> 1]
MCPrice == [c \in Commands |-> 1]

\* Commands of equal size and price are interchangeable.
CommandSymmetry == Permutations(Commands)
===========================================================================
