------------------------------ MODULE MCTouch -------------------------------
(* Two places on the screen; a clock divider as small as the counters of   *)
(* the controller allow, the real numbers of bits and cycles.              *)
EXTENDS Touch, TLC

CONSTANTS p, q

Two == {p, q}
Exchange == Permutations(Two)
=============================================================================
