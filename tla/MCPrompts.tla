------------------------------ MODULE MCPrompts ------------------------------
(***************************************************************************)
(* Small instances of Prompts: two mutations that overlap, one read, up to *)
(* two versions, and the labels "latest" and "production".  Reads ask    *)
(* for one label and for the prompt that includes this one.                *)
(***************************************************************************)
EXTENDS Prompts, TLC

CONSTANTS latest, production, r1, r2, d1

NumberNone == [l \in Labels |-> 0]

AskedMC == {[by |-> "label", label |-> production], Parent}

Symmetry == Permutations(Requests)
=============================================================================
