----------------------------- MODULE MCBodyMac -----------------------------
(* Small instance of the body MAC: three chunks of two bins, so that there *)
(* is a first, a middle and a last chunk, and first and last bins of each; *)
(* two blocks, so that the input ring wraps in a run.  KEY(0) is pressed    *)
(* at any time but while the last chunk is written.                        *)
EXTENDS BodyMac

MCBlockSize == 6
MCChunkSize == 2
MCBlockNum == 2
MCOneArea == {7}
MCEarly == {"key0"}
=============================================================================
