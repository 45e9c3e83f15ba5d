---------------------------- MODULE MC_KeyOwnership ----------------------------
EXTENDS KeyOwnership, TLC

CONSTANTS o1, o2, o3

MCObjects == {o1, o2, o3}

(* The objects are interchangeable slots.                                  *)
MCSymmetry == Permutations(MCObjects)

=============================================================================
