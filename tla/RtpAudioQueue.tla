---------------------------- MODULE RtpAudioQueue ----------------------------
(***************************************************************************)
(* The queue that puts the RTP packets of the audio stream back in order   *)
(* and recovers lost ones (RtpAudioQueue.c).  The receive thread alone     *)
(* uses it, so it is a value q, and what a call does to it an operator;    *)
(* AudioStream has the calls and the network.                              *)
(*                                                                         *)
(* A FEC block is DataShards data packets and FecShards parity packets; a  *)
(* shard is known by its index in the block, data first.  q.blocks is the  *)
(* list blockHead .. blockTail.  The contents of packets, their            *)
(* timestamps, the cache of freed blocks, statistics and failing           *)
(* allocations are left out.                                               *)
(*                                                                         *)
(* An operator M_X is X with a plausible defect, which shows that the      *)
(* properties notice it.  The specification does not use it.               *)
(***************************************************************************)
EXTENDS Integers, Sequences, SequencesExt

CONSTANTS
  DataShards,    \* RTPA_DATA_SHARDS, 4 in the code
  FecShards,     \* RTPA_FEC_SHARDS, 2 in the code
  Modulus        \* 2^16 in the code

ASSUME AudioQueueAssumption ==
  /\ {DataShards, FecShards, Modulus} \subseteq Nat \ {0}
  /\ Modulus % (2 * DataShards) = 0

U16(x) == x % Modulus
isBefore16(x, y) == U16(x - y) > Modulus \div 2 - 1

(* RtpaInitializeQueue; old hosts do not get FEC.                          *)
RtpaInitializeQueue(oldHost) ==
  [blocks |-> <<>>, next |-> 0, oldest |-> 0, lastOos |-> 0,
   receivedOos |-> FALSE, synchronizing |-> TRUE, incompatible |-> oldHost]

(* The first sequence number of the block of a data packet                 *)
fecBlockBase(seq) == (seq \div DataShards) * DataShards

FecBlock(base, size) ==
  [base |-> base, size |-> size, have |-> {}, dataReceived |-> 0,
   fecReceived |-> 0, fullyReassembled |-> FALSE, nextIndex |-> 0,
   allowDiscontinuity |-> FALSE]

(* Whether data has come out of sequence lately                            *)
SequenceSeen(q, seq) ==
  IF ~q.synchronizing /\ isBefore16(seq, q.oldest)
    THEN [q EXCEPT !.lastOos = seq, !.receivedOos = TRUE]
    ELSE [q EXCEPT !.receivedOos = @ /\ ~isBefore16(q.oldest, q.lastOos)]

-----------------------------------------------------------------------------
(* getFecBlockForRtpPacket: the place of a block in the list, found or new *)
HasBlock(q, base) == \E i \in 1..Len(q.blocks) : q.blocks[i].base = base

BlockAt(q, base) ==
  CHOOSE i \in 1..Len(q.blocks) : q.blocks[i].base = base

M_PlaceFor(q, base) == Len(q.blocks) + 1

(* The new block goes before the first one that is after it.               *)
PlaceFor(q, base) ==
  LET after == {i \in 1..Len(q.blocks) : isBefore16(base, q.blocks[i].base)}
  IN  IF after = {} THEN Len(q.blocks) + 1
      ELSE CHOOSE i \in after : \A j \in after : i <= j

WithBlock(q, base, size) ==
  IF HasBlock(q, base) THEN q
  ELSE [q EXCEPT !.blocks =
          InsertAt(@, PlaceFor(q, base), FecBlock(base, size))]

(* The shard is copied into its block.                                     *)
Stored(q, base, index) ==
  LET i == BlockAt(q, base)
  IN  [q EXCEPT !.blocks[i].have = @ \cup {index},
         !.blocks[i].dataReceived = IF index < DataShards THEN @ + 1 ELSE @,
         !.blocks[i].fecReceived = IF index < DataShards THEN @ ELSE @ + 1]

(* Debug builds drop a packet to check that recovery gives it back.        *)
neededShards(validation) == DataShards + (IF validation THEN 1 ELSE 0)

M_completeFecBlock(q, base, validation) ==
  LET i == BlockAt(q, base)
      b == q.blocks[i]
  IN  IF b.dataReceived < neededShards(validation) THEN q
      ELSE [q EXCEPT !.blocks[i].have = @ \cup 0..DataShards - 1,
                     !.blocks[i].fullyReassembled = TRUE]

(* completeFecBlock                                                        *)
completeFecBlock(q, base, validation) ==
  LET i == BlockAt(q, base)
      b == q.blocks[i]
  IN  IF b.dataReceived + b.fecReceived < neededShards(validation) THEN q
      ELSE [q EXCEPT !.blocks[i].have = @ \cup 0..DataShards - 1,
                     !.blocks[i].fullyReassembled = TRUE]

M_freeFecBlockHead(q) ==
  [q EXCEPT !.blocks = Tail(@), !.synchronizing = FALSE]

freeFecBlockHead(q) ==
  [q EXCEPT !.blocks = Tail(@), !.synchronizing = FALSE,
            !.oldest = U16(Head(q.blocks).base + DataShards)]

(* The caller has the next packet, which is that of the i-th block.        *)
HandedOut(q, i) ==
  [q EXCEPT !.next = U16(@ + 1), !.blocks[i].nextIndex = @ + 1]

-----------------------------------------------------------------------------
NextReceived(q) == Head(q.blocks).nextIndex \in Head(q.blocks).have

queueHasPacketReady(q) ==
  /\ q.blocks # <<>>
  /\ LET h == Head(q.blocks)
     IN  \/ NextReceived(q) /\ h.base + h.nextIndex = q.next
         \/ h.allowDiscontinuity

(* handleMissingPackets: resynchronize after a block that was lost whole,  *)
(* or give up the first block once there is a second one, and after a wait *)
(* if packets have come out of sequence.                                   *)
handleMissingPackets(q, waited) ==
  IF q.blocks = <<>> THEN q
  ELSE IF isBefore16(q.next, Head(q.blocks).base)
    THEN [q EXCEPT !.next = Head(q.blocks).base, !.oldest = Head(q.blocks).base]
  ELSE IF Len(q.blocks) > 1 /\ (~q.receivedOos \/ waited)
    THEN [q EXCEPT !.blocks[1].allowDiscontinuity = TRUE]
  ELSE q

-----------------------------------------------------------------------------
(* The LC_ASSERTs of validateFecBlockState                                 *)
validateFecBlockState(q) ==
  /\ isBefore16(q.next, q.oldest) => q.synchronizing
  /\ q.blocks # <<>> =>
       LET base == Head(q.blocks).base
       IN  isBefore16(q.next, base + DataShards) /\ ~isBefore16(base, q.oldest)
  /\ \A i \in 1..Len(q.blocks) - 1 :
       isBefore16(q.blocks[i].base, q.blocks[i + 1].base)
=============================================================================
