---------------------------- MODULE MCAudioStream ----------------------------
(* Instances of AudioStream for TLC.                                       *)
EXTENDS AudioStream

Mode(validation, oldHost, directSubmit, firstSeq, calm, reorder) ==
  [validation |-> validation, oldHost |-> oldHost,
   directSubmit |-> directSubmit, firstSeq |-> firstSeq, calm |-> calm,
   reorder |-> reorder]

(* Streams whose sequence numbers wrap once the client is synchronized,    *)
(* streams that are unreliable from the start, in order and reordered, and *)
(* a host without FEC                                                      *)
PassingModes ==
  {Mode(FALSE, FALSE, FALSE, Modulus - 3 * DataShards, 2 * TotalShards, 3),
   Mode(TRUE, FALSE, TRUE, Modulus - 2 * DataShards, 2 * TotalShards, 3),
   Mode(FALSE, FALSE, TRUE, 2 * DataShards, 0, 3),
   Mode(FALSE, FALSE, TRUE, 2 * DataShards, 0, 0),
   Mode(TRUE, FALSE, TRUE, 2 * DataShards, 0, 0),
   Mode(FALSE, TRUE, TRUE, 2 * DataShards, 0, 1)}

(* A client that synchronizes two blocks before the one with number 0      *)
RestartingModes == {Mode(TRUE, FALSE, TRUE, Modulus - 2 * DataShards, 0, 0)}

(* A data packet of the last block, and a parity packet of the one before  *)
LateOddSize == {(NumBlocks - 1) * TotalShards + 1}
LateMisaligned == {(NumBlocks - 1) * TotalShards - 1}
=============================================================================
