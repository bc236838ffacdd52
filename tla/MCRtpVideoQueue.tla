--------------------------- MODULE MCRtpVideoQueue ---------------------------
(* Instances of RtpVideoQueue for TLC.                                     *)
EXTENDS RtpVideoQueue

B(d, p) == [data |-> d, pct |-> p]

(* Blocks with and without parity, frames of one and of three blocks, and    *)
(* sequence numbers that wrap in the middle of a frame.                    *)
MixedLayout ==
  << <<B(2, 50)>>, <<B(1, 100), B(2, 0), B(1, 0)>>, <<B(2, 100)>>, <<B(2, 0)>>,
     <<B(2, 50)>> >>

Mode(validation, fec, recoveryFails, reorder) ==
  [validation |-> validation, fec |-> fec,
   recoveryFails |-> recoveryFails, reorder |-> reorder]

(* All builds on a network that reorders, with hosts that may send corrupt *)
(* packets, and the builds that recover on one that keeps the order        *)
AllModes ==
  {Mode(v, f, TRUE, 3) : v, f \in BOOLEAN}
    \cup {Mode(v, TRUE, FALSE, 0) : v \in BOOLEAN}
=============================================================================
