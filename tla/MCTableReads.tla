----------------------------- MODULE MCTableReads -----------------------------
(* Values for the constants of TableReads: blocks of three sizes, one of   *)
(* them larger than the whole cache.                                       *)
EXTENDS TableReads

MCTables == {1, 2}
MCOffsets == {0, 1}
MCSize == [k \in MCTables \X MCOffsets |->
             IF k = <<1, 0>> THEN 1 ELSE IF k = <<2, 1>> THEN 5 ELSE 2]
=============================================================================
