---------------------------- MODULE MCFftWrapper ----------------------------
(* Small instance of the FFT wrapper: a first, a middle and a last bin;    *)
(* FIFOs far shorter than a frame, as in the system.                       *)
EXTENDS FftWrapper
=============================================================================
