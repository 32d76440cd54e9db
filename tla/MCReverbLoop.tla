---------------------------- MODULE MCReverbLoop ----------------------------
(* Small instance of the reverb program: two samples per header block, two *)
(* header blocks and two body blocks per channel.  The sizes keep the      *)
(* relations of defines.h: the FIR filters cover HEADER_BLOCK_SIZE_ZE      *)
(* samples, and FIR and header together cover one body block.              *)
EXTENDS ReverbLoop

MCHeaderBlockSize == 2
MCHeaderBlockNum == 2
MCFirSize == 2 * MCHeaderBlockSize
MCBodyBlockSize == MCFirSize + MCHeaderBlockNum * MCHeaderBlockSize
MCBodyBlockNum == 2
MCLongFile == {3 * MCBodyBlockSize}
=============================================================================
