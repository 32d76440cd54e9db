---------------------------- MODULE MCHeaderMac ----------------------------
(* Small instance of the header MAC: with three bins every block has a     *)
(* first, a middle and a last one; with three blocks the input ring wraps  *)
(* at every position of a run.                                             *)
EXTENDS HeaderMac

MCBlockSize == 3
MCBlockNum == 3
MCMaxLatency == 2
=============================================================================
