-------------------------- MODULE MCModelPromotion --------------------------
(* ModelPromotion with pipelines that TLC may exchange for one another.    *)
EXTENDS ModelPromotion, TLC

PipelinesAreAlike == Permutations(Pipelines)
=============================================================================
