-------------------------- MODULE MCVectorIndexes ---------------------------
(* Small instances of VectorIndexes for TLC.                                *)
EXTENDS VectorIndexes

Line == {0, 1, 3}

(* Vectors as <<direction, length>>, the cosine of two directions in       *)
(* halves: of the same 2, of neighbours 1, of others -1. Distances are     *)
(* doubled, so that they are integers.                                     *)
Arrows == {<<1, 1>>, <<2, 1>>, <<3, 1>>, <<2, 2>>}
Cosine(a, b) == IF a = b THEN 2 ELSE IF a - b \in {1, -1} THEN 1 ELSE -1
ByBothNorms == [x \in Arrows |-> [y \in Arrows |-> 2 - Cosine(x[1], y[1])]]
ByNodeNorm  == [x \in Arrows |-> [y \in Arrows |-> 2 - x[2] * Cosine(x[1], y[1])]]
Levels == <<1, 2, 1, 1, 3, 1>>

Space == {<<0, 0, 0>>, <<4, 0, 4>>, <<12, 0, 12>>, <<8, 4, 0>>}
Draws == <<5, 1, 5, 3, 6, 1, 4>>
=============================================================================
