-------------------------- MODULE MCSpatialResource --------------------------
EXTENDS SpatialService

(* Two cells: a box in the first, one over both, and an inverted one; the    *)
(* queries tell them apart by the second cell.                               *)
MCBoxes == {{}, {1}, {1, 2}}

MCBatches == {<<{2}>>, <<{2}, {1}>>, <<{1}, {}>>, <<{2}, {2}, {2}>>}
=============================================================================
