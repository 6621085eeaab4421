------------------------------ MODULE MCSstFile ------------------------------
(* Values for the constants of SstFile: six keys whose filter bits        *)
(* collide, so that the filter has false positives, and two entry sizes.   *)
EXTENDS SstFile, TLC

CONSTANTS small, large

MCKeys == 1 .. 6
MCWord == 16
MCPayloads == {small, large}
MCBytes == (small :> 17) @@ (large :> 40)
MCNumBits == [n \in 1 .. 6 |-> n + 1]
MCHash1 == [k \in MCKeys |-> IF k = 6 THEN MCWord - 1 ELSE k % 4]
MCHash2 == [k \in MCKeys |-> 2 * k + 1]
=============================================================================
