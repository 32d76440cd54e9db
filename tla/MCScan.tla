------------------------------- MODULE MCScan -------------------------------
(* A screen of two rows and columns in the smallest frame around it.  Two  *)
(* phases of the blinking last 36 of the 192 cycles of a frame, so that a  *)
(* phase ends sooner or later next to any step of the fetch.               *)
EXTENDS Scan

CONSTANTS a, b, c, d

MCCells == {a, b, c, d, New}

Distinct == {[p \in Columns \X Rows |->
               IF p = <<0, 0>> THEN a ELSE IF p = <<1, 0>> THEN b
               ELSE IF p = <<0, 1>> THEN c ELSE d]}
=============================================================================
