---------------------------- MODULE RtpVideoQueue ----------------------------
(***************************************************************************)
(* The queue that turns the RTP packets of the video stream, as the        *)
(* network delivers them, into whole frames for the depacketizer           *)
(* (RtpVideoQueue.c).                                                      *)
(*                                                                         *)
(* The host sends each frame as one to four FEC blocks, each a run of data *)
(* packets followed by parity packets, all numbered consecutively modulo   *)
(* Modulus.  The network delivers packets late, twice, in another order or  *)
(* never.  One step is one call of RtpvAddPacket; `calls' is what that     *)
(* call told the depacketizer and the control stream, in order.            *)
(*                                                                         *)
(* A packet in the queue is known by its sequence number: the entries of   *)
(* the pending list all belong to the current block, and the order of that *)
(* list is never observed.                                                 *)
(*                                                                         *)
(* An operator M_X is X with a plausible defect, which shows that the      *)
(* properties notice it.  The specification does not use it.               *)
(***************************************************************************)
EXTENDS Integers, Sequences, FiniteSets, SequencesExt

CONSTANTS
  Layout,        \* Layout[f]: the blocks of frame f, [data, pct] each
  Modulus,        \* 2^16 in the code
  FirstSeq,      \* sequence number of the first packet
  MaxLoss,       \* how many packets in a row may be lost
  Cooldown,      \* SPECULATIVE_RFI_COOLDOWN_PERIOD_US, in frames
  Modes          \* the builds, hosts and networks to check

ASSUME VideoAssumption ==
  /\ Modulus % 2 = 0
  /\ {MaxLoss, Cooldown} \subseteq Nat
  /\ FirstSeq \in 0..Modulus \div 2 - 1 - MaxLoss
  /\ \A m \in Modes :
       /\ DOMAIN m = {"validation", "fec", "recoveryFails", "reorder"}
       /\ {m.validation, m.fec, m.recoveryFails} \subseteq BOOLEAN
       /\ m.reorder \in Nat

U16(x) == x % Modulus
isBefore16(x, y) == U16(x - y) > Modulus \div 2 - 1

-----------------------------------------------------------------------------
(* The stream the host sends.                                              *)

(* Number of parity packets of a block of d data packets                   *)
ParityPackets(d, pct) == (d * pct + 99) \div 100

Frames == 1..Len(Layout)

Blocks ==
  FlattenSeq([f \in Frames |->
    [b \in 1..Len(Layout[f]) |->
      [frame |-> f, block |-> b - 1, last |-> Len(Layout[f]) - 1,
       data |-> Layout[f][b].data, pct |-> Layout[f][b].pct]]])

Size(b) == b.data + ParityPackets(b.data, b.pct)

(* Position in the stream of the first packet of the n-th block            *)
Start[n \in 1..Len(Blocks) + 1] ==
  IF n = 1 THEN 0 ELSE Start[n - 1] + Size(Blocks[n - 1])

Packets ==
  UNION {{[pos |-> Start[n] + i, seq |-> U16(FirstSeq + Start[n] + i),
           fecIndex |-> i, b |-> Blocks[n]] : i \in 0..Size(Blocks[n]) - 1} :
         n \in 1..Len(Blocks)}

(* The data packets of block b of frame f, in order                        *)
DataOf(n) ==
  [i \in 1..Blocks[n].data |->
    [frame |-> Blocks[n].frame, block |-> Blocks[n].block,
     seq |-> U16(FirstSeq + Start[n] + i - 1)]]

BlocksOf(f) == SelectSeq([n \in 1..Len(Blocks) |-> n],
                         LAMBDA n : Blocks[n].frame = f)

-----------------------------------------------------------------------------
VARIABLES
  q,          \* RTP_VIDEO_QUEUE
  mode,       \* FEC_VALIDATION_MODE?  a host FEC recovery works with?  may
              \* it return corrupt packets?  how far behind the newest
              \* packet may one arrive?
  calls,      \* what the last RtpvAddPacket called, in order
  newest,     \* the furthest position the network has delivered
  asserts,    \* whether every LC_ASSERT so far held
  submitted,  \* history: the frames given to the depacketizer, in order
  reported,   \* history: the highest frame reported lost
  arrived     \* history: the positions delivered so far, in order

vars == <<q, mode, calls, newest, asserts, submitted, reported, arrived>>

(* RtpvInitializeQueue; `recovered' is history: the pending packets that   *)
(* were synthesized by FEC recovery.                                       *)
RtpvInitializeQueue ==
  [pending |-> {}, completed |-> <<>>, recovered |-> {},
   lowest |-> 0, firstParity |-> 0, highest |-> 0,
   data |-> 0, parity |-> 0, pct |-> 0,
   receivedData |-> 0, receivedParity |-> 0, receivedHighest |-> 0,
   nextContiguous |-> 0, missing |-> 0,
   useFastPath |-> FALSE, reportedLost |-> FALSE,
   frame |-> 1, block |-> 0, lastBlock |-> 0,
   lastOos |-> 0, receivedOos |-> FALSE]

Init ==
  /\ q = RtpvInitializeQueue
  /\ mode \in Modes
  /\ calls = <<>>
  /\ newest = -1
  /\ asserts = TRUE
  /\ submitted = <<>>
  /\ reported = 0
  /\ arrived = {}

-----------------------------------------------------------------------------
(* The calls into the depacketizer and the control stream                  *)
notifyFrameLost(f, speculative) ==
  [op |-> "notifyFrameLost", frame |-> f, speculative |-> speculative]
connectionSawFrame(f) == [op |-> "connectionSawFrame", frame |-> f]
queueRtpPackets(f, ps) == [op |-> "queueRtpPackets", frame |-> f, packets |-> ps]
reportFinalFrameFecStatus(s) ==
  [op |-> "fecStatus", frame |-> s.frame, missing |-> s.missing]

When(c, x) == IF c THEN <<x>> ELSE <<>>

M_Rejected(p) ==
  \/ isBefore16(p.seq, q.nextContiguous)
  \/ p.b.frame = q.frame /\ p.b.block < q.block

(* The early returns at the top of RtpvAddPacket: behind the window, a     *)
(* frame behind the current one, a block behind the current one.           *)
Rejected(p) ==
  \/ isBefore16(p.seq, q.nextContiguous)
  \/ isBefore16(p.b.frame, q.frame)
  \/ p.b.frame = q.frame /\ p.b.block < q.block

StartsBlock(p) == q.pending = {} \/ q.frame # p.b.frame \/ q.block # p.b.block

(* A later block of the current frame while the current one is incomplete  *)
MissedBlock(p) ==
  StartsBlock(p) /\ q.pending # {} /\ q.lastBlock # 0 /\ q.frame = p.b.frame

M_expectedFecBlockNumber(p) == q.block

expectedFecBlockNumber(p) == IF q.frame = p.b.frame THEN q.block ELSE 0

SkippedBlock(p) ==
  StartsBlock(p) /\ ~MissedBlock(p) /\ p.b.block # expectedFecBlockNumber(p)

(* Give up the current frame and go on with frame f.                       *)
AbandonFor(f) ==
  [q EXCEPT !.pending = {}, !.recovered = {}, !.completed = <<>>,
            !.reportedLost = TRUE, !.frame = f, !.block = 0]

(* A new block begins: the state that RtpvAddPacket reinitializes          *)
Reinitialized(p) ==
  LET low == U16(p.seq - p.fecIndex)
      par == ParityPackets(p.b.data, p.b.pct)
  IN  [q EXCEPT !.pending = {}, !.recovered = {},
         !.completed = IF q.frame # p.b.frame THEN <<>> ELSE @,
         !.frame = p.b.frame,
         !.lowest = low, !.nextContiguous = low,
         !.receivedData = 0, !.receivedParity = 0, !.receivedHighest = 0,
         !.missing = 0, !.useFastPath = TRUE, !.reportedLost = FALSE,
         !.data = p.b.data, !.pct = p.b.pct, !.parity = par,
         !.firstParity = U16(low + p.b.data),
         !.highest = U16(low + p.b.data + par - 1),
         !.block = p.b.block, !.lastBlock = p.b.last]

(* What a new block tells the others: the end of an unfinished block, and  *)
(* whole frames the network lost.                                          *)
ReinitCalls(p) ==
  When(q.pending # {}, reportFinalFrameFecStatus(q))
  \o When(q.frame # p.b.frame /\ (q.frame + 1 # p.b.frame \/ ~q.reportedLost),
          notifyFrameLost(p.b.frame - 1, FALSE))
  \o <<connectionSawFrame(p.b.frame)>>

M_onFastPath(s, p) == p.seq = s.nextContiguous

onFastPath(s, p) == s.useFastPath /\ p.seq = s.nextContiguous

(* queuePacket for a packet from the network, once it is no duplicate      *)
queuePacket(s, p) ==
  LET fast == onFastPath(s, p)
      outOfSequence == ~fast /\ \E x \in s.pending : isBefore16(p.seq, x)
  IN  [s EXCEPT
         !.pending = @ \cup {p.seq},
         !.nextContiguous = IF fast THEN U16(p.seq + 1) ELSE @,
         !.useFastPath = fast,
         !.lastOos = IF outOfSequence THEN p.b.frame ELSE @,
         !.receivedOos = IF outOfSequence THEN TRUE
                         ELSE @ /\ p.b.frame <= s.lastOos + Cooldown]

isDuplicate(s, p) == ~onFastPath(s, p) /\ p.seq \in s.pending

M_holesBefore(s, p) == U16(p.seq - s.receivedHighest)

(* The packets skipped by one above receivedHighestSequenceNumber          *)
holesBefore(s, p) == U16(p.seq - s.receivedHighest - 1)

(* The counts that RtpvAddPacket keeps; s has the packet in pending        *)
Counted(s, p) ==
  LET first == Cardinality(s.pending) = 1
      above == isBefore16(s.receivedHighest, p.seq)
      isData == isBefore16(p.seq, s.firstParity)
  IN  [s EXCEPT
         !.missing = IF first THEN @ + U16(p.seq - s.lowest)
                     ELSE IF above THEN @ + holesBefore(s, p)
                     ELSE @ - 1,
         !.receivedHighest = IF first \/ above THEN p.seq ELSE @,
         !.receivedData = IF isData THEN @ + 1 ELSE @,
         !.receivedParity = IF isData THEN @ ELSE @ + 1]

(* The LC_ASSERTs on the packet's headers, of queuePacket and of the       *)
(* counting; s is the queue before the packet is queued.                   *)
CountingAsserts(s, p) ==
  LET t == Counted(queuePacket(s, p), p)
      first == s.pending = {}
  IN  /\ ~isBefore16(s.highest, p.seq)
      /\ U16(p.seq - p.fecIndex) = s.lowest
      /\ <<p.b.pct, p.b.data, p.b.block, p.b.last>>
           = <<s.pct, s.data, s.block, s.lastBlock>>
      /\ ~isBefore16(p.seq, s.nextContiguous)
      /\ first => s.missing = 0 /\ s.receivedHighest = 0
      /\ t.missing >= 0
      /\ t.missing < t.data + t.parity
      /\ t.receivedData <= t.data
      /\ t.receivedParity <= t.parity

-----------------------------------------------------------------------------
(* reconstructFrame                                                        *)
totalPackets(s) == s.data + s.parity
neededPackets(s) ==
  s.data + (IF mode.validation /\ s.pct # 0 THEN 1 ELSE 0)

EnoughPackets(s) == Cardinality(s.pending) >= neededPackets(s)

PredictsLoss(s) ==
  /\ ~EnoughPackets(s)
  /\ ~s.reportedLost /\ ~s.receivedOos
  /\ s.missing > totalPackets(s) - neededPackets(s)

M_NoFecNeeded(s) ==
  /\ s.receivedData + s.receivedParity >= s.data
  /\ mode.validation => s.pct = 0 \/ ~mode.fec

(* All data packets arrived, and no recovery is attempted.                 *)
NoFecNeeded(s) ==
  /\ s.receivedData = s.data
  /\ mode.validation => s.pct = 0 \/ ~mode.fec

(* Recovery of a frame that was reported lost proves the prediction wrong. *)
Unpredicted(s) ==
  IF s.reportedLost /\ ~s.receivedOos
    THEN [s EXCEPT !.receivedOos = TRUE, !.lastOos = s.frame] ELSE s

MissingData(s) ==
  {U16(s.lowest + i) : i \in 0..s.data - 1} \ s.pending

(* Recovered packets leave nextContiguous alone: a parity packet arrived   *)
(* before the data was complete, which has closed the fast path.           *)
Recovered(s, xs) ==
  [s EXCEPT !.pending = @ \cup xs, !.recovered = @ \cup xs]

(* stageCompleteFecBlock: data packets in sequence, parity packets freed   *)
stageCompleteFecBlock(s) ==
  LET ps == SetToSortSeq({x \in s.pending : isBefore16(x, s.firstParity)},
                         isBefore16)
  IN  [s EXCEPT !.pending = {}, !.recovered = {},
         !.completed = @ \o [i \in 1..Len(ps) |->
                       [frame |-> s.frame, block |-> s.block, seq |-> ps[i]]]]

(* The block is complete: stage it, and submit the frame after its last.   *)
BlockDone(s) ==
  LET t == stageCompleteFecBlock(s)
  IN  IF t.block < t.lastBlock
        THEN [t EXCEPT !.block = @ + 1]
        ELSE [t EXCEPT !.completed = <<>>, !.frame = @ + 1, !.block = 0]

SubmitCalls(s) ==
  LET t == stageCompleteFecBlock(s)
  IN  When(t.block = t.lastBlock, queueRtpPackets(t.frame, t.completed))

(* Every outcome of reconstructFrame and of what RtpvAddPacket does next:  *)
(* the new queue and the calls.                                            *)
reconstructFrame(s) ==
  IF ~EnoughPackets(s)
    THEN {[q |-> [s EXCEPT !.reportedLost = @ \/ PredictsLoss(s)],
           calls |-> When(PredictsLoss(s), notifyFrameLost(s.frame, TRUE))]}
  ELSE IF NoFecNeeded(s)
    THEN {[q |-> BlockDone(Unpredicted(s)), calls |-> SubmitCalls(s)]}
  ELSE IF ~mode.fec
    THEN {[q |-> Unpredicted(s), calls |-> <<>>]}
  ELSE
    LET report == When(s.data # s.receivedData, reportFinalFrameFecStatus(s))
        done == Recovered(Unpredicted(s), MissingData(s))
        \* packet x is corrupt: those recovered before it stay queued
        fails(x) == Recovered(Unpredicted(s),
                              {y \in MissingData(s) : isBefore16(y, x)})
    IN  {[q |-> BlockDone(done), calls |-> report \o SubmitCalls(done)]}
        \cup {[q |-> fails(x), calls |-> report] :
                x \in IF mode.recoveryFails THEN MissingData(s) ELSE {}}

(* The LC_ASSERTs of reconstructFrame                                      *)
ReconstructAsserts(s) ==
  /\ totalPackets(s) = U16(s.highest - s.lowest) + 1
  /\ totalPackets(s) - neededPackets(s) \in 0..s.parity
  /\ ~EnoughPackets(s) /\ ~s.reportedLost /\ ~s.receivedOos /\ ~PredictsLoss(s)
       => neededPackets(s) - Cardinality(s.pending)
            <= U16(s.highest - s.receivedHighest)
  /\ EnoughPackets(s) =>
       /\ s.missing <= s.parity
       /\ s.reportedLost => s.receivedOos

-----------------------------------------------------------------------------
(* RtpvAddPacket, one disjunct per way through it.  A packet above the     *)
(* block it says it belongs to is rejected too, but a host that numbers    *)
(* its packets as its FEC headers say never sends one: CountingAsserts.    *)
FramesOf(cs, op) ==
  LET those == SelectSeq(cs, LAMBDA c : c.op = op)
  IN  [i \in 1..Len(those) |-> those[i].frame]

Return(s, cs) ==
  /\ q' = s
  /\ calls' = cs
  /\ submitted' = submitted \o FramesOf(cs, "queueRtpPackets")
  /\ reported' = Max({reported} \cup Range(FramesOf(cs, "notifyFrameLost")))

AddRejected(p) ==
  /\ Rejected(p)
  /\ Return(q, <<>>)
  /\ UNCHANGED asserts

AddMissedBlock(p) ==
  /\ ~Rejected(p)
  /\ MissedBlock(p)
  /\ Return(AbandonFor(q.frame + 1),
            <<reportFinalFrameFecStatus(q)>>
            \o When(~q.reportedLost, notifyFrameLost(q.frame, FALSE)))
  /\ UNCHANGED asserts

AddSkippedBlock(p) ==
  /\ ~Rejected(p)
  /\ SkippedBlock(p)
  /\ Return(AbandonFor(p.b.frame + 1),
            When(q.pending # {}, reportFinalFrameFecStatus(q))
            \o <<reportFinalFrameFecStatus(q)>>
            \o When(~q.reportedLost, notifyFrameLost(q.frame, FALSE)))
  /\ UNCHANGED asserts

AddDuplicate(p) ==
  /\ ~Rejected(p) /\ ~StartsBlock(p)
  /\ isDuplicate(q, p)
  /\ Return(q, <<>>)
  /\ UNCHANGED asserts

AddQueued(p) ==
  /\ ~Rejected(p) /\ ~MissedBlock(p) /\ ~SkippedBlock(p)
  /\ LET s == IF StartsBlock(p) THEN Reinitialized(p) ELSE q
         t == Counted(queuePacket(s, p), p)
         before == IF StartsBlock(p) THEN ReinitCalls(p) ELSE <<>>
     IN  /\ ~isDuplicate(s, p)
         /\ \E r \in reconstructFrame(t) : Return(r.q, before \o r.calls)
         /\ asserts' = (asserts /\ CountingAsserts(s, p)
                                /\ ReconstructAsserts(t))

RtpvAddPacket(p) ==
  \/ AddRejected(p)
  \/ AddMissedBlock(p)
  \/ AddSkippedBlock(p)
  \/ AddDuplicate(p)
  \/ AddQueued(p)

(* The network delivers a packet.                                          *)
Next ==
  \E p \in Packets :
    /\ p.pos \in newest - mode.reorder .. newest + MaxLoss + 1
    /\ newest' = IF p.pos > newest THEN p.pos ELSE newest
    /\ arrived' = IF mode.reorder = 0 THEN arrived \cup {p.pos} ELSE arrived
    /\ UNCHANGED mode
    /\ RtpvAddPacket(p)

Spec == Init /\ [][Next]_vars

-----------------------------------------------------------------------------
(* Properties                                                              *)

(* Every variable keeps its type: the numbers stay in the 16-bit range or  *)
(* within the block they count.                                            *)
TypeOK ==
  LET Seqs == 0..Modulus - 1
  IN  /\ {q.lowest, q.firstParity, q.highest, q.receivedHighest,
          q.nextContiguous} \subseteq Seqs
      /\ q.recovered \subseteq q.pending /\ q.pending \subseteq Seqs
      /\ q.receivedData \in 0..q.data /\ q.receivedParity \in 0..q.parity
      /\ q.missing \in Nat
      /\ q.block \in 0..q.lastBlock \/ q.block = 0
      /\ q.frame \in 1..Len(Layout) + 1
      /\ {q.useFastPath, q.reportedLost, q.receivedOos, asserts} \subseteq BOOLEAN
      /\ mode \in Modes
      /\ reported \in 0..Len(Layout)

(* missingPackets is what RtpVideoQueue.h:37 says it is, the number of     *)
(* holes behind receivedHighestSequenceNumber, however packets were        *)
(* reordered, repeated or recovered.  Loss prediction rests on it.         *)
MissingIsHoles ==
  q.pending # {} =>
    q.missing =
      Cardinality({i \in 0..U16(q.receivedHighest - q.lowest) :
                     U16(q.lowest + i) \notin q.pending \ q.recovered})

(* The fast path skips the search for duplicates.  It may, because as long *)
(* as it is open the pending packets are exactly those from the start of   *)
(* the block up to nextContiguousSequenceNumber (RtpVideoQueue.c:122).     *)
FastPathIsContiguous ==
  q.useFastPath /\ q.pending # {} =>
    q.pending = {U16(q.lowest + i) :
                   i \in 0..U16(q.nextContiguous - q.lowest) - 1}

(* The completed list holds all data packets of the blocks of the current  *)
(* frame before the current block, in order, and nothing else: no packet   *)
(* of a block or frame that was given up stays behind.                     *)
DataOfBlocks(f, n) ==
  FlattenSeq([i \in 1..n |-> DataOf(BlocksOf(f)[i])])

CompletedIsPrefix == q.completed = DataOfBlocks(q.frame, q.block)

(* The queue is what RtpVideoQueue.h says it is, after every packet.       *)
QueueIntact ==
  TypeOK /\ MissingIsHoles /\ FastPathIsContiguous /\ CompletedIsPrefix

(* What reaches the depacketizer is always a whole frame: every data       *)
(* packet of every block, in order, once, received or recovered.           *)
SubmitsWholeFrames ==
  \A i \in 1..Len(calls) : calls[i].op = "queueRtpPackets" =>
    calls[i].packets = DataOfBlocks(calls[i].frame, Len(Layout[calls[i].frame]))

(* Frames are submitted in order and at most once, and a frame that was    *)
(* submitted is never reported lost afterwards: the depacketizer asserts   *)
(* "We may not invalidate frames that we've already received".             *)
LossNeverContradicted ==
  [][/\ \A f \in Range(FramesOf(calls', "queueRtpPackets")
                        \o FramesOf(calls', "notifyFrameLost")) :
          \A i \in 1..Len(submitted) : submitted[i] < f
     /\ q'.frame >= q.frame]_vars

(* The LC_ASSERTs of RtpvAddPacket, queuePacket and reconstructFrame about *)
(* the numbers the queue keeps hold in every state they are evaluated in.  *)
(* Those about the links of the packet lists (lines 44-82) are left out    *)
(* with the links.                                                         *)
AssertsHold == asserts

(* With packets in order, FEC does what it is for: a frame of which enough *)
(* packets of every block arrived is submitted, whatever was lost of the   *)
(* frames and blocks before it.                                            *)
RecoverableIsSubmitted ==
  mode.reorder = 0 /\ mode.fec /\ ~mode.recoveryFails =>
  \A f \in Frames :
    (\A i \in 1..Len(BlocksOf(f)) :
       LET n == BlocksOf(f)[i]
           b == Blocks[n]
       IN  Cardinality({x \in arrived : x \in Start[n]..Start[n + 1] - 1})
             >= b.data + (IF mode.validation /\ b.pct # 0 THEN 1 ELSE 0))
    => f \in Range(submitted)
=============================================================================
