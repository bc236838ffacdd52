----------------------------- MODULE AudioStream -----------------------------
(***************************************************************************)
(* The audio stream (AudioStream.c): the receive thread takes RTP packets  *)
(* from the network, passes them through RtpAudioQueue, and gives what     *)
(* comes out to the decoder thread through packetQueue, or decodes it      *)
(* itself.                                                                 *)
(*                                                                         *)
(* The host sends NumBlocks FEC blocks; the network delivers packets late, *)
(* twice, in another order or never.  What the decoder gets is an entry:   *)
(* the number of a data packet in the stream, counted from 0 without       *)
(* wrapping, and whether it is a placeholder for a packet that was lost.   *)
(* Packets that are too short or have a wrong type are dropped without a   *)
(* trace, as if lost.  Start and stop of the threads are left out.         *)
(***************************************************************************)
EXTENDS RtpAudioQueue, FiniteSets

CONSTANTS
  NumBlocks,     \* bound on the FEC blocks the host sends
  MaxLoss,       \* how many packets in a row may be lost
  OddSize,       \* the positions of packets of another size
  Misaligned,    \* the positions of parity packets with an unaligned base
  InitialDrop,   \* packets dropped to catch up, 500 ms in the code
  QueueBound,    \* size of packetQueue, 30 in the code
  Modes          \* the builds, hosts and streams to check, see ModeKinds

TotalShards == DataShards + FecShards
Positions   == 0..NumBlocks * TotalShards - 1

(* A debug build, a host without FEC, CAPABILITY_DIRECT_SUBMIT, the        *)
(* sequence number of the first data packet, how many packets arrive in    *)
(* order before the network becomes unreliable, and how far behind the     *)
(* newest packet one may arrive then                                       *)
ModeKinds ==
  [validation : BOOLEAN, oldHost : BOOLEAN, directSubmit : BOOLEAN,
   firstSeq : {s \in 0..Modulus - 1 : s % DataShards = 0},
   calm : 0..NumBlocks * TotalShards, reorder : 0..NumBlocks * TotalShards]

(* The model lets a block wait for its packets as long as the stream lasts *)
(* (the code waits for 10 ms), so the stream is one whose sequence numbers *)
(* isBefore16 can order: less than 2^15 packets.                           *)
ASSUME AudioStreamAssumption ==
  /\ {NumBlocks, QueueBound} \subseteq Nat \ {0}
  /\ {MaxLoss, InitialDrop} \subseteq Nat
  /\ 2 * (NumBlocks * DataShards) < Modulus
  /\ OddSize \cup Misaligned \subseteq Positions
  /\ Modes \subseteq ModeKinds

VARIABLES
  rtpAudioQueue,  \* RTP_AUDIO_QUEUE
  packetsToDrop, receivedDataFromPeer,
  receiver,       \* "recv", or "drain" while it empties rtpAudioQueue
  out,            \* the entry the receive thread is to pass on, if any
  packetQueue,    \* the entries for the decoder thread
  mode,
  newest,         \* the furthest position the network has delivered
  asserts,        \* whether every LC_ASSERT so far held
  accepted,       \* history: positions of the shards copied to a block
  emitted,        \* history: number of the last entry passed on
  heard,          \* history: number of the last entry decoded
  inOrder         \* history: whether the decoder got entries in order

stream  == <<packetQueue, heard, inOrder>>
start   == <<packetsToDrop, receivedDataFromPeer>>
history == <<accepted, emitted>>
vars    == <<rtpAudioQueue, start, receiver, out, stream, mode, newest,
             asserts, history>>

(* The packet at a position of the stream (external: the host)             *)
Packet(pos) ==
  LET block  == pos \div TotalShards
      index  == pos % TotalShards
      header == U16(mode.firstSeq + block * DataShards)
      isData == index < DataShards
  IN  [pos |-> pos, index |-> index, isData |-> isData,
       number |-> block * DataShards + index, seq |-> U16(header + index),
       base |-> IF isData THEN fecBlockBase(U16(header + index)) ELSE header,
       size |-> IF pos \in OddSize THEN 2 ELSE 1]

Entry(n, lost) == [number |-> n, lost |-> lost]

(* initializeAudioStream                                                   *)
Init ==
  /\ mode \in Modes
  /\ rtpAudioQueue = RtpaInitializeQueue(mode.oldHost)
  /\ packetsToDrop = InitialDrop /\ receivedDataFromPeer = FALSE
  /\ receiver = "recv" /\ out = <<>> /\ packetQueue = <<>>
  /\ newest = -1 /\ asserts = TRUE
  /\ accepted = {} /\ emitted = -1 /\ heard = -1 /\ inOrder = TRUE

-----------------------------------------------------------------------------
(* RtpaAddPacket: its early returns, then the packet is copied to a block  *)
Synchronizes(q) == q.synchronizing /\ q.oldest = 0

M_Refused(q, p) ==
  HasBlock(q, p.base) /\ q.blocks[BlockAt(q, p.base)].fullyReassembled

Refused(q, p) ==
  \/ isBefore16(p.base, q.oldest)
  \/ HasBlock(q, p.base) /\ q.blocks[BlockAt(q, p.base)].fullyReassembled

SizeMismatch(q, p) ==
  /\ ~isBefore16(p.base, q.oldest)
  /\ HasBlock(q, p.base) /\ q.blocks[BlockAt(q, p.base)].size # p.size

isDuplicate(q, p) ==
  HasBlock(q, p.base) /\ p.index \in q.blocks[BlockAt(q, p.base)].have

(* What getFecBlockForRtpPacket notes before it looks for the block        *)
Noted(p) ==
  IF p.isData THEN SequenceSeen(rtpAudioQueue, p.seq) ELSE rtpAudioQueue

LC_ASSERT(c) == asserts' = (asserts /\ c)

(* RTPQ_RET_HANDLE_NOW: the caller passes the packet itself on.            *)
HandleNow(p) ==
  /\ out' = <<Entry(p.number, FALSE)>>
  /\ emitted' = p.number

AddIncompatible(p) ==
  /\ rtpAudioQueue.incompatible
  /\ IF p.isData THEN HandleNow(p) ELSE UNCHANGED <<out, emitted>>
  /\ UNCHANGED <<rtpAudioQueue, receiver, asserts, accepted>>

(* Hosts that FEC cannot work with: it is turned off for good.             *)
AddTurnsFecOff(p) ==
  /\ ~rtpAudioQueue.incompatible
  /\ \/ p.pos \in Misaligned
     \/ ~Synchronizes(rtpAudioQueue) /\ SizeMismatch(rtpAudioQueue, p)
  /\ rtpAudioQueue' = [Noted(p) EXCEPT !.incompatible = TRUE]
  /\ UNCHANGED <<receiver, out, asserts, history>>

Usable(p) == ~rtpAudioQueue.incompatible /\ p.pos \notin Misaligned

AddSynchronizing(p) ==
  /\ Usable(p)
  /\ Synchronizes(rtpAudioQueue)
  /\ LET first == U16(p.base + DataShards)
     IN  rtpAudioQueue' = [Noted(p) EXCEPT !.next = first, !.oldest = first]
  /\ UNCHANGED <<receiver, out, asserts, history>>

Fits(p) ==
  /\ Usable(p)
  /\ ~Synchronizes(rtpAudioQueue) /\ ~SizeMismatch(rtpAudioQueue, p)

(* Blocks that are done, and packets that are there already                *)
AddRejected(p) ==
  /\ Fits(p)
  /\ Refused(rtpAudioQueue, p) \/ isDuplicate(rtpAudioQueue, p)
  /\ rtpAudioQueue' = Noted(p)
  /\ UNCHANGED <<receiver, out, asserts, history>>

Accepts(p) ==
  /\ Fits(p)
  /\ ~Refused(rtpAudioQueue, p) /\ ~isDuplicate(rtpAudioQueue, p)
  /\ accepted' = accepted \cup {p.pos}

WithShard(p) ==
  Stored(WithBlock(Noted(p), p.base, p.size), p.base, p.index)

IsNext(p) == p.isData /\ p.seq = rtpAudioQueue.next

(* The next data packet in sequence                                        *)
AddHandledNow(p) ==
  /\ Accepts(p) /\ IsNext(p)
  /\ HandleNow(p)
  /\ LET q == WithShard(p)
         r == HandedOut(q, BlockAt(q, p.base))
         last == r.next = U16(p.base + DataShards)
     IN  /\ rtpAudioQueue' = IF last THEN freeFecBlockHead(r) ELSE r
         /\ LC_ASSERT(last => /\ Head(r.blocks).base = p.base
                              /\ Head(r.blocks).nextIndex = DataShards)
  /\ UNCHANGED receiver

(* Any other one: try to complete the block, or to skip what is missing.   *)
AddQueued(p, waited) ==
  /\ Accepts(p) /\ ~IsNext(p)
  /\ LET q == completeFecBlock(WithShard(p), p.base, mode.validation)
         r == IF queueHasPacketReady(q) THEN q
              ELSE handleMissingPackets(q, waited)
     IN  /\ rtpAudioQueue' = r
         /\ receiver' = IF queueHasPacketReady(r) THEN "drain" ELSE "recv"
         /\ LC_ASSERT(/\ validateFecBlockState(q)
                   /\ \A i \in 1..Len(q.blocks) :
                        q.blocks[i].dataReceived <= DataShards)
  /\ UNCHANGED <<out, emitted>>

RtpaAddPacket(p) ==
  \/ AddIncompatible(p)
  \/ AddTurnsFecOff(p)
  \/ AddSynchronizing(p)
  \/ AddRejected(p)
  \/ AddHandledNow(p)
  \/ \E waited \in BOOLEAN : AddQueued(p, waited)

-----------------------------------------------------------------------------
(* AudioReceiveThreadProc                                                  *)
Receiving == receiver = "recv" /\ out = <<>>

(* A packet within reach of the network (external)                         *)
Delivered(p) ==
  /\ IF newest + 1 < mode.calm THEN p.pos = newest + 1
     ELSE p.pos >= newest - mode.reorder /\ p.pos <= newest + 1 + MaxLoss
  /\ newest' = IF p.pos > newest THEN p.pos ELSE newest
  /\ receivedDataFromPeer' = TRUE

DropInitialPacket(p) ==
  /\ Receiving /\ Delivered(p)
  /\ packetsToDrop > 0
  /\ packetsToDrop' = IF p.isData THEN packetsToDrop - 1 ELSE packetsToDrop
  /\ UNCHANGED <<rtpAudioQueue, receiver, out, stream, mode, asserts, history>>

ReceivePacket(p) ==
  /\ Receiving /\ Delivered(p)
  /\ packetsToDrop = 0
  /\ RtpaAddPacket(p)
  /\ UNCHANGED <<packetsToDrop, stream, mode>>

(* recvUdpSocket times out: the host has no backlog.                       *)
ReceiveTimeout ==
  /\ Receiving
  /\ receivedDataFromPeer /\ packetsToDrop > 0
  /\ packetsToDrop' = 0
  /\ UNCHANGED <<rtpAudioQueue, receivedDataFromPeer, receiver, out, stream,
                 mode, newest, asserts, history>>

(* The number in the stream of the packet with sequence number seq         *)
NumberOf(seq) ==
  CHOOSE n \in 0..NumBlocks * DataShards - 1 : U16(mode.firstSeq + n) = seq

(* RtpaGetQueuedPacket: the next packet, or a placeholder                  *)
RtpaGetQueuedPacket ==
  /\ receiver = "drain" /\ out = <<>>
  /\ queueHasPacketReady(rtpAudioQueue)
  /\ LET q == rtpAudioQueue
         r == HandedOut(q, 1)
         e == Entry(NumberOf(Head(q.blocks).base + Head(q.blocks).nextIndex),
                    ~NextReceived(q))
     IN  /\ LC_ASSERT(Head(q.blocks).base + Head(q.blocks).nextIndex = q.next)
         /\ out' = <<e>>
         /\ emitted' = e.number
         /\ rtpAudioQueue' = IF Head(r.blocks).nextIndex = DataShards
                               THEN freeFecBlockHead(r) ELSE r
  /\ UNCHANGED <<start, receiver, stream, mode, newest, accepted>>

(* It returns NULL: back to the network                                    *)
DrainDone ==
  /\ receiver = "drain" /\ out = <<>>
  /\ ~queueHasPacketReady(rtpAudioQueue)
  /\ receiver' = "recv"
  /\ UNCHANGED <<rtpAudioQueue, start, out, stream, mode, newest, asserts,
                 history>>

-----------------------------------------------------------------------------
(* decodeInputData                                                         *)
decodeInputData(e) ==
  /\ heard' = e.number
  /\ inOrder' = (inOrder /\ (rtpAudioQueue.incompatible \/ e.number > heard))

(* queuePacketToLbq: when packetQueue is full, it is flushed.              *)
queuePacketToLbq ==
  /\ out # <<>> /\ ~mode.directSubmit
  /\ IF Len(packetQueue) < QueueBound
       THEN packetQueue' = packetQueue \o out /\ out' = <<>>
       ELSE packetQueue' = <<>> /\ UNCHANGED out
  /\ UNCHANGED <<rtpAudioQueue, start, receiver, heard, inOrder, mode, newest,
                 asserts, history>>

DecodeDirectly ==
  /\ out # <<>> /\ mode.directSubmit
  /\ decodeInputData(Head(out))
  /\ out' = <<>>
  /\ UNCHANGED <<rtpAudioQueue, start, receiver, packetQueue, mode, newest,
                 asserts, history>>

(* AudioDecoderThreadProc                                                  *)
DecoderThread ==
  /\ packetQueue # <<>>
  /\ decodeInputData(Head(packetQueue))
  /\ packetQueue' = Tail(packetQueue)
  /\ UNCHANGED <<rtpAudioQueue, start, receiver, out, mode, newest, asserts,
                 history>>

Next ==
  \/ \E pos \in Positions :
       DropInitialPacket(Packet(pos)) \/ ReceivePacket(Packet(pos))
  \/ ReceiveTimeout \/ RtpaGetQueuedPacket \/ DrainDone
  \/ queuePacketToLbq \/ DecodeDirectly \/ DecoderThread

Spec == Init /\ [][Next]_vars

-----------------------------------------------------------------------------
(* Properties                                                              *)

(* Every variable keeps its type; packetQueue stays within its bound, and  *)
(* a block never has more shards than it was sent.                         *)
TypeOK ==
  /\ DOMAIN rtpAudioQueue = DOMAIN RtpaInitializeQueue(FALSE)
  /\ {rtpAudioQueue.next, rtpAudioQueue.oldest, rtpAudioQueue.lastOos}
       \subseteq 0..Modulus - 1
  /\ \A i \in 1..Len(rtpAudioQueue.blocks) :
       LET b == rtpAudioQueue.blocks[i]
       IN  /\ b.base \in 0..Modulus - 1 /\ b.base % DataShards = 0
           /\ b.have \subseteq 0..TotalShards - 1
           /\ b.dataReceived \in 0..DataShards
           /\ b.fecReceived \in 0..FecShards
           /\ b.nextIndex \in 0..DataShards - 1
  /\ packetsToDrop \in 0..InitialDrop
  /\ receiver \in {"recv", "drain"} /\ Len(out) <= 1
  /\ Len(packetQueue) <= QueueBound
  /\ newest \in -1..NumBlocks * TotalShards - 1
  /\ accepted \subseteq Positions
  /\ {emitted, heard} \subseteq -1..NumBlocks * DataShards - 1
  /\ mode \in Modes
  /\ {receivedDataFromPeer, asserts, inOrder} \subseteq BOOLEAN

(* The LC_ASSERTs of RtpAudioQueue.c hold: the blocks are sorted, the next *)
(* packet is in or before the first block, no block is behind the oldest   *)
(* one, and a packet that is handled at once is the next of the first      *)
(* block.                                                                  *)
AssertsHold == asserts /\ validateFecBlockState(rtpAudioQueue)

(* The queue of FEC blocks is well formed after every packet, however      *)
(* packets came and whatever the host does to its FEC.                     *)
QueueIntact == TypeOK /\ AssertsHold

(* The LC_ASSERTs that the code came across held, also when the sequence   *)
(* numbers pass 0 before the first block is done: of the oldest block they *)
(* say that it is not before the oldest number, "or we will drop packets   *)
(* that belong in that FEC block" (RtpAudioQueue.c:81).                    *)
NoAssertFails == asserts

(* A queue that has taken packets does not synchronize again.  The code    *)
(* does not ensure that (see NoAssertFails), so this is not a property of  *)
(* it but the hypothesis under which the ones below are proved: they are   *)
(* about streams whose numbers do not pass 0 at that time.                 *)
NeverRestarts ==
  Synchronizes(rtpAudioQueue) => rtpAudioQueue.blocks = <<>>

(* The decoder gets every packet, or its placeholder, at most once and in  *)
(* the order it was sent, whatever order it came in and wherever the       *)
(* sequence numbers wrap, until FEC is turned off ("We lose handling of    *)
(* out-of-order and duplicated packets in this mode").                     *)
PlayedInOrder == inOrder

(* The shards of the block of the n-th data packet that the queue took     *)
ShardsTaken(n) ==
  {pos \in accepted : pos \div TotalShards = n \div DataShards}

(* A placeholder stands for a packet that did not come and, if the network *)
(* does not reorder packets, could not be recovered from what came of its  *)
(* block.                                                                  *)
ConcealsOnlyLostAudio ==
  out # <<>> /\ out[1].lost =>
    LET n == out[1].number
    IN  /\ \A pos \in accepted : Packet(pos).isData => Packet(pos).number # n
        /\ mode.reorder = 0 =>
             Cardinality(ShardsTaken(n)) < neededShards(mode.validation)

(* What is passed on never goes back, and it skips whole blocks only, of   *)
(* which the queue took nothing: no packet that was taken is forgotten.    *)
SkipsOnlyLostBlocks ==
  [][emitted' # emitted /\ ~rtpAudioQueue.incompatible =>
       /\ emitted' > emitted
       /\ \A n \in emitted + 1..emitted' - 1 : ShardsTaken(n)' = {}]_vars
=============================================================================
