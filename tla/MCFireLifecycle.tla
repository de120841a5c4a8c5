---------------------------- MODULE MCFireLifecycle ----------------------------
(***************************************************************************)
(* Instances of FireLifecycle for TLC: one cell that never fills, or two   *)
(* neighbouring ones that do, and stage thresholds of 1, 2, 3, ... so that *)
(* a few fires reach several stages.                                       *)
(***************************************************************************)
EXTENDS FireLifecycle, TLC

CONSTANTS g1, g2, e1, e2, e3

OneGrid     == {g1}
TwoGrids    == {g1, g2}
SelfOnly    == [g \in OneGrid |-> OneGrid]      \* never full: no hop is made
EachOther   == [g \in TwoGrids |-> TwoGrids \ {g}]
MCStageMin  == [s \in Stages |-> s]
One         == {e1}
Two         == {e1, e2}
Three       == {e1, e2, e3}

SymTwo      == Permutations(Two)
===============================================================================
