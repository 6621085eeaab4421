------------------------------ MODULE MCEngine ------------------------------
(* Small instances of Engine for TLC.                                      *)
EXTENDS StoreInvariant, TLC

(* Keys and values are only compared: permuting them changes nothing.      *)
Symmetry == Permutations(Keys) \cup Permutations(Values)
=============================================================================
