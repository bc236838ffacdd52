------------------------- MODULE MCVideoDepacketizer -------------------------
(* Instances of VideoDepacketizer for TLC.                                 *)
EXTENDS VideoDepacketizer

(* All decoders that peek on streams that predict losses, and all that do  *)
(* not on streams that do not, where corruption may be noticed late.       *)
SomeKinds ==
  {k \in KindsOfStream :
     k.peeks = k.speculative /\ k.lateCorruption = ~k.speculative}

(* A thread of its own, with DR_NEED_IDR                                   *)
Threaded ==
  {k \in SomeKinds : ~k.directSubmit /\ k.needIdr /\ k.speculative}
=============================================================================
