------------------------- MODULE MCGenerationServer -------------------------
(* Three requests of unequal size, so that one insertion may evict two.       *)
EXTENDS GenerationServer

MCSize == [k \in Keys |-> IF k = 3 THEN 2 ELSE 1]
=============================================================================
