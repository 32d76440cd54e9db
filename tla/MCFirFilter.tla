---------------------------- MODULE MCFirFilter ----------------------------
(* Small instance of a FIR core: four coefficients, so that the ring wraps *)
(* at every position; enough samples to fill the ring in a first run and   *)
(* to go once round it in a second.                                        *)
EXTENDS FirFilter

MCNumCoefficients == 4
MCFifoDepth == 1
MCMaxRuns == 2
MCMaxSamples == 11
MCKey0 == {"KEY0"}
MCDownload == {"download"}
=============================================================================
