------------------------ MODULE MCLinkedBlockingQueue ------------------------
(* An instance of LinkedBlockingQueue for TLC: one entry more than the     *)
(* queue holds, a thread that waits and two that do not.                   *)
EXTENDS LinkedBlockingQueue

CONSTANTS e1, e2, e3, producer, consumer, control

ThreeEntries == {e1, e2, e3}
ThreeThreads == {producer, consumer, control}
=============================================================================
