----------------------- MODULE AudioConcealment_proofs -----------------------
(***************************************************************************)
(* A theorem about AudioStream, on top of those in AudioStream_proofs: a   *)
(* placeholder stands for a packet that did not come, and if the network   *)
(* does not reorder packets, for one that could not be recovered           *)
(* (ConcealsOnlyLostAudio).                                                *)
(*                                                                         *)
(* AudioStream_proofs shows that a shard that was taken is in its block    *)
(* (Keeps).  Here the converse is needed: what a block has was taken or    *)
(* recovered; and what the order of the packets has to do with it.         *)
(***************************************************************************)
EXTENDS AudioStream_proofs

(* A recovered block has its data, and one that is not recovered has what  *)
(* was taken, which does not suffice if packets come in order.             *)
Recovered(b) == b.fullyReassembled => DataIndices \subseteq b.have

Sourced(b, taken) ==
  ~b.fullyReassembled =>
    \A i \in b.have : \E pos \in taken : /\ BlockOf(pos) = Offset(b.base)
                                         /\ IndexOf(pos) = i

Short(b) ==
  mode.reorder = 0 /\ ~b.fullyReassembled =>
    b.dataReceived + b.fecReceived < neededShards(mode.validation)

ShardsOK(b, taken) == Recovered(b) /\ Sourced(b, taken) /\ Short(b)

AllShardsOK(q, taken) ==
  \A i \in 1..Len(q.blocks) : ShardsOK(q.blocks[i], taken)

(* The n-th data packet is not one of those in taken, and without          *)
(* reordering they do not suffice to recover it.                           *)
Missing(n, taken) ==
  /\ \A pos \in taken : Packet(pos).isData => Packet(pos).number # n
  /\ mode.reorder = 0 =>
       Cardinality({pos \in taken :
                      pos \div TotalShards = n \div DataShards})
         < neededShards(mode.validation)

(* What is passed on in o, when the shards in taken were taken             *)
Conceals(o, taken) == o # <<>> /\ o[1].lost => Missing(o[1].number, taken)

CInv ==
  /\ \A pos \in accepted : pos <= newest
  /\ AllShardsOK(rtpAudioQueue, accepted)
  /\ Conceals(out, accepted)

LEMMA CInvConceals == CInv => ConcealsOnlyLostAudio
BY DEF CInv, Conceals, Missing, ConcealsOnlyLostAudio, ShardsTaken

(* mode does not change, so neither does what is said of a queue.          *)
LEMMA SameModeShards ==
  ASSUME mode' = mode, NEW q, rtpAudioQueue' = q, NEW taken, accepted' = taken,
         NEW o, out' = o
  PROVE  /\ AllShardsOK(rtpAudioQueue, accepted)' <=> AllShardsOK(q, taken)
         /\ Conceals(out, accepted)' <=> Conceals(o, taken)
<1>1. AllShardsOK(rtpAudioQueue, accepted)' <=> AllShardsOK(q, taken)
  BY DEF AllShardsOK, ShardsOK, Recovered, Sourced, Short, DataIndices,
         Offset, BlockOf, IndexOf, U16, neededShards
<1>2. Conceals(out, accepted)' <=> Conceals(o, taken)
  BY DEF Conceals, Missing, Packet, neededShards, U16, fecBlockBase
<1> QED
  BY <1>1, <1>2

(***************************************************************************)
(* What the operators of RtpAudioQueue do to the shards                    *)
(***************************************************************************)

SameShards(b, c) ==
  /\ c.base = b.base /\ c.have = b.have
  /\ c.fullyReassembled = b.fullyReassembled
  /\ c.dataReceived = b.dataReceived /\ c.fecReceived = b.fecReceived

(* Every block of r is one of q, but for what is handed out or given up.   *)
From(q, r) ==
  \A i \in 1..Len(r.blocks) : \E j \in 1..Len(q.blocks) :
    SameShards(q.blocks[j], r.blocks[i])

LEMMA SameShardsFacts ==
  ASSUME NEW b, NEW c, SameShards(b, c), NEW taken, ShardsOK(b, taken)
  PROVE  ShardsOK(c, taken)
<1>1. Recovered(c)
  BY DEF SameShards, ShardsOK, Recovered
<1>2. Sourced(c, taken)
  BY DEF SameShards, ShardsOK, Sourced
<1>3. Short(c)
  BY DEF SameShards, ShardsOK, Short
<1> QED
  BY <1>1, <1>2, <1>3 DEF ShardsOK

LEMMA FromFacts ==
  ASSUME NEW q, NEW r, From(q, r), NEW taken, AllShardsOK(q, taken)
  PROVE  AllShardsOK(r, taken)
<1> SUFFICES ASSUME NEW i \in 1..Len(r.blocks)
             PROVE  ShardsOK(r.blocks[i], taken)
  BY DEF AllShardsOK
<1>1. PICK j \in 1..Len(q.blocks) : SameShards(q.blocks[j], r.blocks[i])
  BY DEF From
<1>2. ShardsOK(q.blocks[j], taken)
  BY DEF AllShardsOK
<1> QED
  BY <1>1, <1>2, SameShardsFacts

LEMMA MoreTaken ==
  ASSUME NEW b, NEW taken, NEW more, taken \subseteq more, ShardsOK(b, taken)
  PROVE  ShardsOK(b, more)
BY DEF ShardsOK, Sourced

LEMMA Needed ==
  /\ neededShards(mode.validation) \in Nat
  /\ neededShards(mode.validation) >= DataShards
BY Sizes DEF neededShards

(* A new block has no shards.                                              *)
LEMMA FreshShards ==
  ASSUME NEW base, NEW size, NEW taken
  PROVE  ShardsOK(FecBlock(base, size), taken)
<1>1. PICK b : b = FecBlock(base, size)
  OBVIOUS
<1>2. /\ b.have = {} /\ ~b.fullyReassembled
      /\ b.dataReceived = 0 /\ b.fecReceived = 0
  BY <1>1 DEF FecBlock
<1>3. 0 < neededShards(mode.validation)
  BY Needed, Sizes
<1>4. b.dataReceived + b.fecReceived = 0
  BY <1>2
<1>5. Recovered(b) /\ Sourced(b, taken)
  BY <1>2 DEF Recovered, Sourced
<1>6. Short(b)
  BY <1>3, <1>4 DEF Short
<1> QED
  BY <1>1, <1>5, <1>6 DEF ShardsOK

LEMMA WithBlockShards ==
  ASSUME mode \in Modes, NEW q, WellFormed(q), NEW base \in 0..Modulus - 1,
         Aligned(base), Offset(base) + DataShards <= Numbers,
         NEW size \in {1, 2}, NEW r, r = WithBlock(q, base, size),
         NEW taken, AllShardsOK(q, taken)
  PROVE  AllShardsOK(r, taken)
<1>1. CASE HasBlock(q, base)
  BY <1>1 DEF WithBlock
<1>2. CASE ~HasBlock(q, base)
  <2>1. q \in Queues
    BY DEF WellFormed
  <2>2. PICK s \in Seq(FecBlocks) : s = q.blocks
    BY <2>1, QueueFields
  <2>3. PICK L \in Nat : L = Len(s)
    BY LenProperties
  <2>4. PICK k : k = PlaceFor(q, base)
    OBVIOUS
  <2>5. k \in 1..L + 1
    <3>1. Offset(base) \in Nat /\ DataShards \in Nat /\ Numbers \in Nat
      BY OffsetFacts, Sizes
    <3>2. Offset(base) <= Numbers
      BY <3>1
    <3> QED
      BY <1>2, <2>2, <2>3, <2>4, <3>2, PlaceFacts
  <2>6. PICK e \in FecBlocks : e = FecBlock(base, size)
    BY FreshBlock
  <2>7. PICK t : t = InsertAt(s, k, e)
    OBVIOUS
  <2>8. /\ Len(t) = L + 1
        /\ \A j \in 1..L + 1 : t[j] = IF j < k THEN s[j]
                                      ELSE IF j = k THEN e ELSE s[j - 1]
    BY <2>3, <2>5, <2>7, InsertFacts
  <2>9. r = [q EXCEPT !.blocks = t]
    BY <1>2, <2>2, <2>4, <2>6, <2>7 DEF WithBlock
  <2>10. r.blocks = t
    BY <2>1, <2>9 DEF Queues
  <2>11. ASSUME NEW j \in 1..L + 1
         PROVE  ShardsOK(t[j], taken)
    <3>1. \A i \in 1..L : ShardsOK(s[i], taken)
      BY <2>2, <2>3 DEF AllShardsOK
    <3>2. CASE j < k
      <4>1. j \in 1..L /\ t[j] = s[j]
        BY <2>5, <2>8, <3>2
      <4> QED
        BY <3>1, <4>1
    <3>3. CASE j = k
      <4>1. t[j] = FecBlock(base, size)
        BY <2>6, <2>8, <3>3
      <4> QED
        BY <4>1, FreshShards
    <3>4. CASE j > k
      <4>1. j - 1 \in 1..L /\ t[j] = s[j - 1]
        BY <2>5, <2>8, <3>4
      <4> QED
        BY <3>1, <4>1
    <3> QED
      BY <2>5, <3>2, <3>3, <3>4
  <2> QED
    BY <2>8, <2>10, <2>11 DEF AllShardsOK
<1> QED
  BY <1>1, <1>2

(* A shard goes into its block, and nothing else changes.                  *)
LEMMA StoredShards ==
  ASSUME NEW q \in Queues, NEW base, NEW index,
         NEW i \in 1..Len(q.blocks), i = BlockAt(q, base),
         NEW r, r = Stored(q, base, index)
  PROVE  /\ Len(r.blocks) = Len(q.blocks)
         /\ \A j \in 1..Len(q.blocks) : j # i => r.blocks[j] = q.blocks[j]
         /\ r.blocks[i].fullyReassembled = q.blocks[i].fullyReassembled
         /\ r.blocks[i].base = q.blocks[i].base
         /\ r.blocks[i].have = q.blocks[i].have \cup {index}
<1>1. PICK b : b = q.blocks[i]
  OBVIOUS
<1>2. b \in FecBlocks
  BY <1>1, QueueFields
<1>3. PICK c, m, n :
        /\ c = b.have \cup {index}
        /\ m = IF index < DataShards THEN b.dataReceived + 1
                                     ELSE b.dataReceived
        /\ n = IF index < DataShards THEN b.fecReceived
                                     ELSE b.fecReceived + 1
  OBVIOUS
<1>4. PICK e : e = [b EXCEPT !.have = c, !.dataReceived = m, !.fecReceived = n]
  OBVIOUS
<1>5. PICK s \in Seq(FecBlocks) : s = q.blocks
  BY QueueFields
<1>6. i \in DOMAIN s /\ Len(s) \in Nat /\ DOMAIN s = 1..Len(s)
  BY <1>5, LenProperties
<1>7. PICK t : t = [s EXCEPT ![i] = e]
  OBVIOUS
<1>8. r = [q EXCEPT !.blocks = t]
  <2>1. r = [q EXCEPT !.blocks[i].have = @ \cup {index},
         !.blocks[i].dataReceived = IF index < DataShards THEN @ + 1 ELSE @,
         !.blocks[i].fecReceived = IF index < DataShards THEN @ ELSE @ + 1]
    BY DEF Stored
  <2>2. r = [q EXCEPT !.blocks[i].have = c, !.blocks[i].dataReceived = m,
                      !.blocks[i].fecReceived = n]
    BY <1>1, <1>2, <1>3, <1>5, <1>6, <2>1
  <2>3. r = [q EXCEPT !.blocks =
          [[[@ EXCEPT ![i].have = c] EXCEPT ![i].dataReceived = m]
             EXCEPT ![i].fecReceived = n]]
    BY <2>2
  <2>4. [[[s EXCEPT ![i].have = c] EXCEPT ![i].dataReceived = m]
           EXCEPT ![i].fecReceived = n] = t
    BY <1>1, <1>2, <1>4, <1>5, <1>6, <1>7
  <2> QED
    BY <1>5, <2>3, <2>4
<1>9. r.blocks = t
  BY <1>8 DEF Queues
<1>10. /\ e.have = c /\ e.base = b.base
       /\ e.fullyReassembled = b.fullyReassembled
  BY <1>2, <1>4 DEF FecBlocks
<1>11. e \in FecBlocks \cup {e} /\ s \in Seq(FecBlocks \cup {e})
  BY <1>5
<1>12. /\ Len(t) = Len(s)
       /\ \A j \in 1..Len(s) : t[j] = IF j = i THEN e ELSE s[j]
  BY <1>5, <1>7, <1>11, ExceptSeq
<1> QED
  BY <1>1, <1>3, <1>5, <1>9, <1>10, <1>12

(* A block that is short of shards stays as it is; any other one has its   *)
(* data afterwards.                                                        *)
LEMMA CompleteShards ==
  ASSUME NEW q \in Queues, NEW base, NEW validation,
         NEW i \in 1..Len(q.blocks), i = BlockAt(q, base),
         NEW r, r = completeFecBlock(q, base, validation)
  PROVE  /\ Len(r.blocks) = Len(q.blocks)
         /\ \A j \in 1..Len(q.blocks) : j # i => r.blocks[j] = q.blocks[j]
         /\ \/ /\ r.blocks[i] = q.blocks[i]
               /\ q.blocks[i].dataReceived + q.blocks[i].fecReceived
                    < neededShards(validation)
            \/ /\ r.blocks[i].fullyReassembled
               /\ DataIndices \subseteq r.blocks[i].have
<1>1. PICK b : b = q.blocks[i]
  OBVIOUS
<1>2. b \in FecBlocks
  BY <1>1, QueueFields
<1>3. CASE b.dataReceived + b.fecReceived < neededShards(validation)
  BY <1>1, <1>3 DEF completeFecBlock
<1>4. CASE ~(b.dataReceived + b.fecReceived < neededShards(validation))
  <2>1. PICK s \in Seq(FecBlocks) : s = q.blocks
    BY QueueFields
  <2>2. i \in DOMAIN s /\ Len(s) \in Nat /\ DOMAIN s = 1..Len(s)
    BY <2>1, LenProperties
  <2>3. PICK c, e : /\ c = b.have \cup DataIndices
                    /\ e = [b EXCEPT !.have = c, !.fullyReassembled = TRUE]
    OBVIOUS
  <2>4. PICK t : t = [s EXCEPT ![i] = e]
    OBVIOUS
  <2>5. r = [q EXCEPT !.blocks = t]
    <3>1. r = [q EXCEPT !.blocks[i].have = @ \cup DataIndices,
                        !.blocks[i].fullyReassembled = TRUE]
      BY <1>1, <1>4 DEF completeFecBlock, DataIndices
    <3>2. r = [q EXCEPT !.blocks[i].have = c,
                        !.blocks[i].fullyReassembled = TRUE]
      <4>1. q.blocks[i].have \cup DataIndices = c
        BY <1>1, <2>3
      <4>2. i \in DOMAIN q.blocks /\ "blocks" \in DOMAIN q
        BY <2>1, <2>2 DEF Queues
      <4>3. "have" \in DOMAIN q.blocks[i]
        BY <1>1, <1>2 DEF FecBlocks
      <4> QED
        BY <3>1, <4>1, <4>2, <4>3
    <3>3. r = [q EXCEPT !.blocks = [[@ EXCEPT ![i].have = c]
                                       EXCEPT ![i].fullyReassembled = TRUE]]
      BY <3>2
    <3>4. [[s EXCEPT ![i].have = c] EXCEPT ![i].fullyReassembled = TRUE] = t
      BY <1>1, <1>2, <2>1, <2>2, <2>3, <2>4
    <3> QED
      BY <2>1, <3>3, <3>4
  <2>6. r.blocks = t
    BY <2>5 DEF Queues
  <2>7. e.have = b.have \cup DataIndices /\ e.fullyReassembled
    BY <1>2, <2>3 DEF FecBlocks
  <2>8. e \in FecBlocks \cup {e} /\ s \in Seq(FecBlocks \cup {e})
    BY <2>1
  <2>9. /\ Len(t) = Len(s)
        /\ \A j \in 1..Len(s) : t[j] = IF j = i THEN e ELSE s[j]
    BY <2>1, <2>4, <2>8, ExceptSeq
  <2> QED
    BY <2>1, <2>6, <2>7, <2>9
<1> QED
  BY <1>1, <1>3, <1>4

(* Giving a block up does not change its shards.                           *)
LEMMA MissingFrom ==
  ASSUME NEW q \in Queues, NEW waited,
         NEW r, r = handleMissingPackets(q, waited)
  PROVE  From(q, r)
<1>1. CASE r.blocks = q.blocks
  BY <1>1 DEF From, SameShards
<1>2. CASE r.blocks # q.blocks
  <2>1. q.blocks # << >>
    BY <1>2 DEF handleMissingPackets
  <2>2. PICK s \in Seq(FecBlocks) : s = q.blocks
    BY QueueFields
  <2>3. 1 \in 1..Len(s) /\ Len(s) \in Nat /\ 1 \in DOMAIN s
    BY <2>1, <2>2, QueueFields, LenProperties
  <2>4. PICK b \in FecBlocks : b = s[1]
    BY <2>2, <2>3, QueueFields
  <2>5. PICK e : e = [b EXCEPT !.allowDiscontinuity = TRUE]
    OBVIOUS
  <2>6. PICK t : t = [s EXCEPT ![1] = e]
    OBVIOUS
  <2>7. PICK x : x = Head(q.blocks).base
    OBVIOUS
  <2>8. \/ r = [q EXCEPT !.next = x, !.oldest = x]
        \/ r = [q EXCEPT !.blocks[1].allowDiscontinuity = TRUE]
    BY <1>2, <2>1, <2>7 DEF handleMissingPackets
  <2>9. r = [q EXCEPT !.blocks[1].allowDiscontinuity = TRUE]
    <3>1. CASE r = [q EXCEPT !.next = x, !.oldest = x]
      <4>1. r.blocks = q.blocks
        BY <3>1 DEF Queues
      <4> QED
        BY <1>2, <4>1
    <3> QED
      BY <2>8, <3>1
  <2>10. r = [q EXCEPT !.blocks = t]
    BY <2>2, <2>3, <2>4, <2>5, <2>6, <2>9
  <2>11. r.blocks = t
    BY <2>10 DEF Queues
  <2>12. e \in FecBlocks /\ SameShards(b, e)
    BY <2>4, <2>5 DEF FecBlocks, SameShards
  <2>13. /\ Len(t) = Len(s)
         /\ \A j \in 1..Len(s) : t[j] = IF j = 1 THEN e ELSE s[j]
    BY <2>2, <2>3, <2>6, <2>12, ExceptSeq
  <2>14. ASSUME NEW j \in 1..Len(s)
         PROVE  SameShards(s[j], t[j])
    <3>1. CASE j = 1
      BY <2>4, <2>12, <2>13, <3>1
    <3>2. CASE j # 1
      BY <2>13, <3>2 DEF SameShards
    <3> QED
      BY <3>1, <3>2
  <2> QED
    BY <2>2, <2>11, <2>13, <2>14 DEF From
<1> QED
  BY <1>1, <1>2

(* Handing a packet out changes no shards; after the last one of a block   *)
(* the block is gone.                                                      *)
LEMMA HandOutShards ==
  ASSUME NEW q \in Queues, q.blocks # << >>,
         NEW r, r = HandedOut(q, 1), NEW f, f = freeFecBlockHead(r)
  PROVE  /\ r.next = U16(q.next + 1)
         /\ From(q, r)
         /\ \A i \in 1..Len(f.blocks) : \E j \in 2..Len(q.blocks) :
              SameShards(q.blocks[j], f.blocks[i])
<1>1. PICK s \in Seq(FecBlocks) : s = q.blocks
  BY QueueFields
<1>2. /\ 1 \in 1..Len(s) /\ Len(s) \in Nat /\ 1 \in DOMAIN s
      /\ s[1] \in FecBlocks
  BY <1>1, QueueFields, LenProperties
<1>3. PICK h, e : h = s[1] /\ e = [h EXCEPT !.nextIndex = h.nextIndex + 1]
  OBVIOUS
<1>4. PICK t : t = [s EXCEPT ![1] = e]
  OBVIOUS
<1>5. r = [q EXCEPT !.next = U16(q.next + 1), !.blocks = t]
  BY <1>1, <1>2, <1>3, <1>4 DEF HandedOut
<1>6. r.blocks = t /\ r.next = U16(q.next + 1)
  BY <1>5 DEF Queues
<1>7. SameShards(h, e)
  BY <1>2, <1>3 DEF FecBlocks, SameShards
<1>8. PICK S : S = FecBlocks \cup {e}
  OBVIOUS
<1>9. e \in S /\ s \in Seq(S)
  BY <1>1, <1>8
<1>10. /\ t \in Seq(S) /\ Len(t) = Len(s)
       /\ \A j \in 1..Len(s) : t[j] = IF j = 1 THEN e ELSE s[j]
  BY <1>2, <1>4, <1>9, ExceptSeq
<1>11. ASSUME NEW j \in 1..Len(s)
       PROVE  SameShards(s[j], t[j])
  <2>1. CASE j = 1
    BY <1>3, <1>7, <1>10, <2>1
  <2>2. CASE j # 1
    BY <1>10, <2>2 DEF SameShards
  <2> QED
    BY <2>1, <2>2
<1>12. From(q, r)
  BY <1>1, <1>6, <1>10, <1>11 DEF From
<1>13. f.blocks = Tail(t)
  <2>1. PICK u, z : u = Tail(t) /\ z = U16(Head(r.blocks).base + DataShards)
    OBVIOUS
  <2>2. f = [r EXCEPT !.blocks = u, !.synchronizing = FALSE, !.oldest = z]
    BY <1>6, <2>1 DEF freeFecBlockHead
  <2>3. "blocks" \in DOMAIN r
    BY <1>5 DEF Queues
  <2> QED
    BY <2>1, <2>2, <2>3
<1>14. /\ Len(Tail(t)) = Len(t) - 1
       /\ \A j \in 1..Len(Tail(t)) : Tail(t)[j] = t[j + 1]
  <2>1. t # << >>
    BY <1>2, <1>10
  <2> QED
    BY <1>10, <2>1, HeadTailProperties
<1>15. ASSUME NEW i \in 1..Len(f.blocks)
       PROVE  i + 1 \in 2..Len(s) /\ SameShards(s[i + 1], f.blocks[i])
  <2>1. i + 1 \in 2..Len(s) /\ f.blocks[i] = t[i + 1]
    <3>1. PICK u, n : u = Tail(t) /\ n = Len(s)
      OBVIOUS
    <3>2. i \in 1..n - 1 /\ n \in Nat
      BY <1>2, <1>10, <1>13, <1>14, <3>1
    <3>3. f.blocks[i] = t[i + 1]
      BY <1>13, <1>14
    <3> QED
      BY <3>1, <3>2, <3>3
  <2> QED
    BY <1>11, <2>1
<1> QED
  BY <1>1, <1>6, <1>12, <1>15

(***************************************************************************)
(* The steps                                                               *)
(***************************************************************************)

(* The i-th block has a new shard, and may have enough of them now.        *)
WithNewShard(q, i, taken) ==
  /\ WellFormed(q) /\ i \in 1..Len(q.blocks)
  /\ \A j \in 1..Len(q.blocks) : j # i => ShardsOK(q.blocks[j], taken)
  /\ ~q.blocks[i].fullyReassembled
  /\ Sourced(q.blocks[i], taken)

(* A shard that is taken was not before, and its block was not recovered.  *)
LEMMA WithShardOK ==
  ASSUME IInv, CInv, NEW pos \in Positions, NEW p, p = Packet(pos),
         receiver = "recv", Accepts(p),
         NEW q, q = WithShard(p),
         NEW i, i = BlockAt(q, p.base), NEW taken, taken = accepted \cup {pos}
  PROVE  WithNewShard(q, i, taken)
<1>1. PICK o, n, w : /\ o = rtpAudioQueue /\ n = Noted(p)
                     /\ w = WithBlock(n, p.base, p.size)
  OBVIOUS
<1>2. q = Stored(w, p.base, p.index)
  BY <1>1 DEF WithShard
<1>3. mode \in Modes /\ accepted \in SUBSET Positions
  BY DEF IInv, TypeInv
<1>4. /\ WellFormed(o) /\ Settled(o) /\ WellFormed(q) /\ HasBlock(q, p.base)
      /\ Offset(o.oldest) <= Offset(p.base)
  <2>1. WellFormed(o) /\ Settled(o)
    BY <1>1 DEF Accepts, Fits, IInv, QueueOK
  <2>2. /\ IInv /\ pos \in Positions /\ p = Packet(pos) /\ receiver = "recv"
        /\ Accepts(p) /\ o = rtpAudioQueue /\ q = WithShard(p)
    BY <1>1
  <2>3. /\ WellFormed(q) /\ HasBlock(q, p.base)
        /\ Offset(o.oldest) <= Offset(p.base)
    BY ONLY <2>2, WithShardFacts
  <2> QED
    BY <2>1, <2>3
<1>5. /\ p.base \in 0..Modulus - 1 /\ Aligned(p.base)
      /\ Offset(p.base) = BlockOf(pos) /\ p.size \in {1, 2}
      /\ p.index = IndexOf(pos)
  BY <1>3, PacketFacts
<1>6. Offset(p.base) + DataShards <= Numbers
  BY <1>5, PositionFacts
<1>7. n \in Queues /\ SameBlocks(o, n)
  BY <1>1, NotedFacts
<1>8. n.blocks = o.blocks /\ n.oldest = o.oldest
  BY <1>7 DEF SameBlocks
<1>9. WellFormed(n)
  BY <1>4, <1>7, SameBlocksFacts
<1>10. AllShardsOK(n, accepted)
  BY <1>1, <1>8 DEF CInv, AllShardsOK
<1>11. AllShardsOK(w, accepted)
  BY <1>1, <1>3, <1>5, <1>6, <1>9, <1>10, WithBlockShards
<1>12. /\ WellFormed(w) /\ HasBlock(w, p.base)
       /\ HasBlock(n, p.base) => w = n
       /\ ~HasBlock(n, p.base) =>
            w.blocks[BlockAt(w, p.base)] = FecBlock(p.base, p.size)
  <2>1. Offset(n.oldest) <= Offset(p.base)
    BY <1>4, <1>8
  <2> QED
    BY <1>1, <1>3, <1>5, <1>6, <1>9, <2>1, WithBlockFacts
<1>13. PICK k : k = BlockAt(w, p.base)
  OBVIOUS
<1>14. k \in 1..Len(w.blocks) /\ w.blocks[k].base = p.base
  BY <1>12, <1>13, BlockAtFacts
<1>15. ~w.blocks[k].fullyReassembled
  <2>1. CASE HasBlock(n, p.base)
    <3>1. w = n /\ HasBlock(o, p.base)
      BY <1>8, <1>12, <2>1 DEF HasBlock
    <3>2. /\ BlockAt(o, p.base) \in 1..Len(o.blocks)
          /\ o.blocks[BlockAt(o, p.base)].base = p.base
      BY <3>1, BlockAtFacts
    <3>3. k \in 1..Len(o.blocks) /\ o.blocks[k].base = p.base
      BY <1>8, <1>14, <3>1
    <3>4. k = BlockAt(o, p.base)
      BY <1>3, <1>4, <3>2, <3>3, OneBlock
    <3>5. ~Refused(o, p)
      BY <1>1 DEF Accepts
    <3> QED
      BY <1>8, <3>1, <3>4, <3>5 DEF Refused
  <2>2. CASE ~HasBlock(n, p.base)
    BY <1>12, <1>13, <2>2 DEF FecBlock
  <2> QED
    BY <2>1, <2>2
<1>16. w \in Queues
  BY <1>12 DEF WellFormed
<1>17. /\ Len(q.blocks) = Len(w.blocks)
       /\ \A j \in 1..Len(w.blocks) : j # k => q.blocks[j] = w.blocks[j]
       /\ q.blocks[k].fullyReassembled = w.blocks[k].fullyReassembled
       /\ q.blocks[k].base = w.blocks[k].base
       /\ q.blocks[k].have = w.blocks[k].have \cup {p.index}
  BY <1>2, <1>13, <1>14, <1>16, StoredShards
<1>18. i = k
  <2>1. i \in 1..Len(q.blocks) /\ q.blocks[i].base = p.base
    BY <1>4, BlockAtFacts
  <2>2. k \in 1..Len(q.blocks) /\ q.blocks[k].base = p.base
    BY <1>14, <1>17
  <2> QED
    BY <1>3, <1>4, <2>1, <2>2, OneBlock
<1>19. ASSUME NEW j \in 1..Len(q.blocks), j # i
       PROVE  ShardsOK(q.blocks[j], taken)
  <2>1. q.blocks[j] = w.blocks[j] /\ ShardsOK(w.blocks[j], accepted)
    BY <1>11, <1>17, <1>18, <1>19 DEF AllShardsOK
  <2> QED
    BY <2>1, MoreTaken
<1>20. Sourced(q.blocks[k], taken)
  <2> SUFFICES ASSUME NEW x \in q.blocks[k].have
               PROVE  \E y \in taken : /\ BlockOf(y) = Offset(q.blocks[k].base)
                                       /\ IndexOf(y) = x
    BY DEF Sourced
  <2>1. CASE x \in w.blocks[k].have
    <3>1. Sourced(w.blocks[k], accepted)
      BY <1>11, <1>14 DEF AllShardsOK, ShardsOK
    <3> QED
      BY <1>15, <1>17, <2>1, <3>1 DEF Sourced
  <2>2. CASE x = p.index
    <3>1. BlockOf(pos) = Offset(q.blocks[k].base) /\ IndexOf(pos) = x
      BY <1>5, <1>14, <1>17, <2>2
    <3> QED
      BY <3>1
  <2> QED
    BY <1>17, <2>1, <2>2
<1> QED
  BY <1>4, <1>14, <1>15, <1>17, <1>18, <1>19, <1>20 DEF WithNewShard

(* What the network does                                                   *)
LEMMA DeliveredFacts ==
  ASSUME IInv, CInv, NEW pos \in Positions, NEW p, p = Packet(pos),
         Delivered(p)
  PROVE  /\ pos <= newest' /\ \A x \in accepted : x <= newest'
         /\ mode.reorder = 0 => \A x \in accepted : x <= pos
<1>1. p.pos = pos /\ mode \in Modes /\ accepted \in SUBSET Positions
  BY PacketFacts DEF IInv, TypeInv
<1>2. newest \in Int /\ pos \in Int
  BY DEF IInv, TypeInv, Positions
<1>3. \A x \in accepted : x \in Int /\ x <= newest
  BY <1>1 DEF CInv, Positions
<1>4. newest' = IF pos > newest THEN pos ELSE newest
  BY <1>1 DEF Delivered
<1>5. pos = newest + 1 \/ pos >= newest - mode.reorder
  BY <1>1 DEF Delivered
<1> QED
  BY <1>2, <1>3, <1>4, <1>5

(* What is not about the shards                                            *)
LEMMA QuietStep ==
  ASSUME IInv, CInv, UNCHANGED <<mode, accepted>>,
         rtpAudioQueue'.blocks = rtpAudioQueue.blocks,
         \A x \in accepted : x <= newest',
         out' \in {<<>>, out} \/ \E n : out' = <<Entry(n, FALSE)>>
  PROVE  CInv'
<1>1. PICK q, o : q = rtpAudioQueue' /\ o = out'
  OBVIOUS
<1>2. AllShardsOK(q, accepted)
  BY <1>1 DEF CInv, AllShardsOK
<1>3. Conceals(o, accepted)
  <2>1. CASE o = out
    BY <2>1 DEF CInv
  <2>2. CASE o = <<>>
    BY <2>2 DEF Conceals
  <2>3. ASSUME NEW n, o = <<Entry(n, FALSE)>>
        PROVE  Conceals(o, accepted)
    <3>1. o[1] = Entry(n, FALSE)
      BY <2>3
    <3>2. ~o[1].lost
      BY <3>1 DEF Entry
    <3> QED
      BY <3>2 DEF Conceals
  <2> QED
    BY <1>1, <2>1, <2>2, <2>3
<1>4. AllShardsOK(rtpAudioQueue, accepted)' /\ Conceals(out, accepted)'
  BY <1>1, <1>2, <1>3, SameModeShards
<1> QED
  BY <1>4 DEF CInv

LEMMA ConcealAddQueued ==
  ASSUME IInv, CInv, NEW pos \in Positions, NEW p, p = Packet(pos),
         ReceivePacket(p), NEW waited \in BOOLEAN, AddQueued(p, waited)
  PROVE  CInv'
<1>1. /\ receiver = "recv" /\ out = <<>> /\ Delivered(p) /\ mode' = mode
      /\ Accepts(p) /\ out' = out /\ p.pos = pos
  BY PacketFacts
     DEF ReceivePacket, Receiving, AddQueued, Packet
<1>2. PICK w, q, i, taken : /\ w = WithShard(p) /\ i = BlockAt(w, p.base)
                            /\ q = completeFecBlock(w, p.base, mode.validation)
                            /\ taken = accepted \cup {pos}
  OBVIOUS
<1>3. accepted' = taken
  BY <1>1, <1>2 DEF Accepts
<1>4. PICK r : r = rtpAudioQueue'
  OBVIOUS
<1>5. r = q \/ r = handleMissingPackets(q, waited)
  BY <1>2, <1>4 DEF AddQueued
<1>6. /\ WellFormed(w) /\ i \in 1..Len(w.blocks)
      /\ \A j \in 1..Len(w.blocks) : j # i => ShardsOK(w.blocks[j], taken)
      /\ ~w.blocks[i].fullyReassembled
      /\ Sourced(w.blocks[i], taken)
  <2>1. /\ IInv /\ CInv /\ pos \in Positions /\ p = Packet(pos)
        /\ receiver = "recv" /\ Accepts(p) /\ w = WithShard(p)
        /\ i = BlockAt(w, p.base) /\ taken = accepted \cup {pos}
    BY <1>1, <1>2
  <2>2. WithNewShard(w, i, taken)
    BY ONLY <2>1, WithShardOK
  <2> QED
    BY <2>2 DEF WithNewShard
<1>7. w \in Queues /\ q \in Queues
  <2>1. mode \in Modes /\ HasBlock(w, p.base)
    <3>1. w.blocks[i].base = p.base
      <4>1. /\ IInv /\ pos \in Positions /\ p = Packet(pos)
            /\ receiver = "recv" /\ Accepts(p)
        BY <1>1
      <4>2. HasBlock(WithShard(p), p.base)
        BY ONLY <4>1, WithShardFacts
      <4> QED
        BY <1>2, <4>2, BlockAtFacts
    <3> QED
      BY <1>6, <3>1 DEF HasBlock, IInv, TypeInv
  <2>2. WellFormed(q)
    BY <1>2, <1>6, <2>1, CompleteFacts
  <2> QED
    BY <1>6, <2>2 DEF WellFormed
<1>8. /\ Len(q.blocks) = Len(w.blocks)
      /\ \A j \in 1..Len(w.blocks) : j # i => q.blocks[j] = w.blocks[j]
      /\ \/ /\ q.blocks[i] = w.blocks[i]
            /\ w.blocks[i].dataReceived + w.blocks[i].fecReceived
                 < neededShards(mode.validation)
         \/ /\ q.blocks[i].fullyReassembled
            /\ DataIndices \subseteq q.blocks[i].have
  BY <1>2, <1>6, <1>7, CompleteShards
<1>9. ShardsOK(q.blocks[i], taken)
  <2>1. CASE /\ q.blocks[i] = w.blocks[i]
             /\ w.blocks[i].dataReceived + w.blocks[i].fecReceived
                  < neededShards(mode.validation)
    <3>1. Recovered(q.blocks[i]) /\ Sourced(q.blocks[i], taken)
      BY <1>6, <2>1 DEF Recovered
    <3>2. Short(q.blocks[i])
      BY <2>1 DEF Short
    <3> QED
      BY <3>1, <3>2 DEF ShardsOK
  <2>2. CASE /\ q.blocks[i].fullyReassembled
             /\ DataIndices \subseteq q.blocks[i].have
    BY <2>2 DEF ShardsOK, Recovered, Sourced, Short
  <2> QED
    BY <1>8, <2>1, <2>2
<1>10. AllShardsOK(q, taken)
  BY <1>6, <1>8, <1>9 DEF AllShardsOK
<1>11. AllShardsOK(r, taken)
  BY <1>5, <1>7, <1>10, MissingFrom, FromFacts
<1>12. Conceals(<<>>, taken)
  BY DEF Conceals
<1>13. AllShardsOK(rtpAudioQueue, accepted)' /\ Conceals(out, accepted)'
  BY <1>1, <1>3, <1>4, <1>11, <1>12, SameModeShards
<1>14. \A x \in taken : x <= newest'
  BY <1>1, <1>2, DeliveredFacts
<1> QED
  BY <1>3, <1>13, <1>14 DEF CInv

(***************************************************************************)
(* Positions                                                               *)
(***************************************************************************)

LEMMA BlockDiv ==
  ASSUME NEW pos \in Positions
  PROVE  /\ BlockOf(pos) \div DataShards = pos \div TotalShards
         /\ pos \div TotalShards \in Int
         /\ pos = (pos \div TotalShards) * TotalShards + IndexOf(pos)
         /\ pos \in Int /\ IndexOf(pos) \in Nat
<1>1. /\ pos \in Int /\ TotalShards \in Nat \ {0} /\ DataShards \in Nat \ {0}
  BY Sizes DEF Positions
<1>2. /\ IndexOf(pos) \in 0..TotalShards - 1
      /\ pos \div TotalShards \in Int
      /\ pos = (pos \div TotalShards) * TotalShards + IndexOf(pos)
  BY <1>1, Division DEF IndexOf
<1>3. PICK k \in Int : k = pos \div TotalShards
  BY <1>2
<1>4. (k * DataShards + 0) \div DataShards = k
  BY <1>1, Remainder, 0 \in 0..DataShards - 1
<1>5. k * DataShards + 0 = BlockOf(pos)
  <2>1. k * DataShards \in Int
    BY <1>1
  <2>2. k * DataShards + 0 = k * DataShards
    BY <2>1
  <2> QED
    BY <1>3, <2>2 DEF BlockOf
<1> QED
  BY <1>1, <1>2, <1>3, <1>4, <1>5

(* In a block the order of the positions is the order of the indices.      *)
LEMMA SameBlockOrder ==
  ASSUME NEW x \in Positions, NEW y \in Positions, BlockOf(x) = BlockOf(y)
  PROVE  /\ x <= y => IndexOf(x) <= IndexOf(y)
         /\ IndexOf(x) = IndexOf(y) => x = y
<1>1. x \div TotalShards = y \div TotalShards
  BY BlockDiv
<1>2. PICK c : c = (x \div TotalShards) * TotalShards
  OBVIOUS
<1>3. c \in Int
  BY <1>2, BlockDiv, Sizes
<1>4. /\ x = c + IndexOf(x) /\ y = c + IndexOf(y)
      /\ IndexOf(x) \in Nat /\ IndexOf(y) \in Nat
  BY <1>1, <1>2, BlockDiv
<1> QED
  BY <1>3, <1>4

(* A block that has some shards of data in order and nothing behind them   *)
LEMMA ShardsInOrder ==
  ASSUME NEW have \in SUBSET (0..TotalShards - 1), NEW k \in Nat,
         k < DataShards, \A i \in have : i <= k
  PROVE  Cardinality(have \cap DataIndices) <= k + 1
         /\ Cardinality(have \ DataIndices) = 0
<1>1. /\ DataShards \in Nat \ {0} /\ TotalShards \in Nat
  BY Sizes
<1>2. have \subseteq 0..k
  BY <1>1
<1>3. have \ DataIndices = {}
  BY <1>1, <1>2 DEF DataIndices
<1>4. IsFiniteSet(0..k) /\ Cardinality(0..k) = k + 1
  BY FS_Interval, 0 \in Int, k \in Int
<1>5. Cardinality(have \cap DataIndices) <= k + 1
  BY <1>2, <1>4, FS_Subset, have \cap DataIndices \in SUBSET (0..k)
<1> QED
  BY <1>3, <1>5, FS_EmptySet

LEMMA CountOfShards ==
  ASSUME NEW have \in SUBSET (0..TotalShards - 1)
  PROVE  /\ IsFiniteSet(have)
         /\ Cardinality(have) = Cardinality(have \cap DataIndices)
                                  + Cardinality(have \ DataIndices)
<1>1. IsFiniteSet(0..TotalShards - 1)
  BY FS_Interval, Sizes
<1>2. IsFiniteSet(have)
  BY <1>1, FS_Subset
<1>3. Cardinality(have \ DataIndices)
        = Cardinality(have) - Cardinality(have \cap DataIndices)
  BY <1>2, FS_Difference
<1>4. Cardinality(have) \in Nat /\ Cardinality(have \cap DataIndices) \in Nat
  <2>1. /\ Cardinality(have \cap DataIndices) \in 0..DataShards
        /\ DataShards \in Nat
    BY Counts, Sizes
  <2>2. Cardinality(have) \in Nat
    BY <1>2, FS_CardinalityType
  <2> QED
    BY <2>1, <2>2
<1> QED
  BY <1>2, <1>3, <1>4

(* No more shards of a block were taken than it has.                       *)
LEMMA TakenAreThere ==
  ASSUME NEW have \in SUBSET (0..TotalShards - 1),
         NEW T \in SUBSET Positions, NEW b,
         \A pos \in T : BlockOf(pos) = b /\ IndexOf(pos) \in have
  PROVE  Cardinality(T) <= Cardinality(have)
<1> DEFINE F == [pos \in T |-> IndexOf(pos)]
<1>1. F \in [T -> have]
  OBVIOUS
<1>2. \A x, y \in T : F[x] = F[y] => x = y
  BY SameBlockOrder
<1>3. F \in Injection(T, have)
  BY <1>1, <1>2 DEF Injection, IsInjective
<1>4. IsFiniteSet(have)
  BY CountOfShards
<1> QED
  BY <1>3, <1>4, FS_Injection

(***************************************************************************)
(* Packets that are handed out                                             *)
(***************************************************************************)

(* A packet that is handled at once is the next of the first block.  If    *)
(* packets come in order, then nothing behind it is there yet.             *)
LEMMA ShortStays ==
  ASSUME IInv, NEW pos \in Positions, NEW b \in FecBlocks, BlockOK(b),
         Offset(b.base) = BlockOf(pos), ~b.fullyReassembled,
         NEW taken \in SUBSET Positions, Sourced(b, taken),
         mode.reorder = 0 => \A x \in taken : x <= pos,
         IndexOf(pos) + 1 < DataShards
  PROVE  Short(b)
<1> SUFFICES ASSUME mode.reorder = 0
             PROVE  b.dataReceived + b.fecReceived
                      < neededShards(mode.validation)
  BY DEF Short
<1>1. PICK have \in SUBSET (0..TotalShards - 1) : have = b.have
  BY BlockFields
<1>2. /\ b.dataReceived = Cardinality(have \cap DataIndices)
      /\ b.fecReceived = Cardinality(have \ DataIndices)
  BY <1>1 DEF BlockOK
<1>3. PICK k \in Nat : k = IndexOf(pos)
  BY BlockDiv
<1>4. \A i \in have : i <= k
  <2> SUFFICES ASSUME NEW i \in have
               PROVE  i <= k
    OBVIOUS
  <2>1. PICK x \in taken : BlockOf(x) = BlockOf(pos) /\ IndexOf(x) = i
    BY <1>1 DEF Sourced
  <2>2. x \in Positions /\ x <= pos
    OBVIOUS
  <2> QED
    BY <1>3, <2>1, <2>2, SameBlockOrder
<1>5. k < DataShards /\ DataShards \in Nat
  BY <1>3, Sizes
<1>6. PICK m : m = Cardinality(have \cap DataIndices)
  OBVIOUS
<1>7. m <= k + 1 /\ Cardinality(have \ DataIndices) = 0 /\ m \in 0..DataShards
  BY <1>4, <1>5, <1>6, ShardsInOrder, Counts
<1>8. b.dataReceived = m /\ b.fecReceived = 0
  BY <1>2, <1>6, <1>7
<1>9. m + 0 < DataShards
  BY <1>3, <1>5, <1>7
<1> QED
  BY <1>7, <1>8, <1>9, Needed, Sizes

LEMMA ConcealAddHandledNow ==
  ASSUME IInv, CInv, NEW pos \in Positions, NEW p, p = Packet(pos),
         ReceivePacket(p), AddHandledNow(p)
  PROVE  CInv'
<1>1. /\ receiver = "recv" /\ out = <<>> /\ Delivered(p) /\ mode' = mode
      /\ Accepts(p) /\ p.isData /\ p.seq = rtpAudioQueue.next
      /\ out' = <<Entry(p.number, FALSE)>>
  BY DEF ReceivePacket, Receiving, AddHandledNow, IsNext, HandleNow
<1>2. mode \in Modes /\ accepted \in SUBSET Positions
  BY DEF IInv, TypeInv
<1>3. /\ p.pos = pos /\ p.index = IndexOf(pos) /\ p.index < DataShards
      /\ p.base \in 0..Modulus - 1 /\ Aligned(p.base)
      /\ Offset(p.base) = BlockOf(pos) /\ p.seq = p.base + p.index
  BY <1>1, <1>2, PacketFacts
<1>4. PICK q, taken : q = WithShard(p) /\ taken = accepted \cup {pos}
  OBVIOUS
<1>5. accepted' = taken
  BY <1>1, <1>3, <1>4 DEF Accepts
<1>6. /\ WellFormed(q) /\ HasBlock(q, p.base) /\ q.next = p.seq
  <2>1. PICK o : o = rtpAudioQueue
    OBVIOUS
  <2>2. /\ IInv /\ pos \in Positions /\ p = Packet(pos) /\ receiver = "recv"
        /\ Accepts(p) /\ o = rtpAudioQueue /\ q = WithShard(p)
    BY <1>1, <1>4, <2>1
  <2>3. /\ WellFormed(o) /\ ~Synchronizes(o) /\ ~o.incompatible
        /\ WellFormed(q) /\ Settled(q) /\ HasBlock(q, p.base)
        /\ Keeps(q, accepted \cup {pos})
        /\ accepted' = accepted \cup {pos}
        /\ Offset(o.oldest) <= Offset(p.base)
        /\ q.next = o.next /\ q.oldest = o.oldest
    BY ONLY <2>2, WithShardFacts
  <2> QED
    BY <1>1, <2>1, <2>3
<1>7. q.blocks # <<>> /\ BlockAt(q, p.base) = 1
  BY <1>1, <1>2, <1>6, NextIsOfFirst
<1>8. /\ 1 \in 1..Len(q.blocks)
      /\ \A j \in 1..Len(q.blocks) : j # 1 => ShardsOK(q.blocks[j], taken)
      /\ ~q.blocks[1].fullyReassembled
      /\ Sourced(q.blocks[1], taken)
  <2>1. /\ IInv /\ CInv /\ pos \in Positions /\ p = Packet(pos)
        /\ receiver = "recv" /\ Accepts(p) /\ q = WithShard(p)
        /\ 1 = BlockAt(q, p.base) /\ taken = accepted \cup {pos}
    BY <1>1, <1>4, <1>7
  <2>2. WithNewShard(q, 1, taken)
    BY ONLY <2>1, WithShardOK
  <2> QED
    BY <2>2 DEF WithNewShard
<1>9. PICK r, f, g : /\ r = HandedOut(q, 1) /\ f = freeFecBlockHead(r)
                     /\ g = rtpAudioQueue'
  OBVIOUS
<1>10. g = IF r.next = U16(p.base + DataShards) THEN f ELSE r
  BY <1>4, <1>7, <1>9 DEF AddHandledNow
<1>11. q \in Queues
  BY <1>6 DEF WellFormed
<1>12. /\ r.next = U16(q.next + 1) /\ From(q, r)
       /\ \A i \in 1..Len(f.blocks) : \E j \in 2..Len(q.blocks) :
            SameShards(q.blocks[j], f.blocks[i])
  BY <1>7, <1>9, <1>11, HandOutShards
<1>13. AllShardsOK(f, taken)
  <2> SUFFICES ASSUME NEW i \in 1..Len(f.blocks)
               PROVE  ShardsOK(f.blocks[i], taken)
    BY DEF AllShardsOK
  <2>1. PICK j \in 2..Len(q.blocks) : SameShards(q.blocks[j], f.blocks[i])
    BY <1>12
  <2>2. j \in 1..Len(q.blocks) /\ j # 1
    OBVIOUS
  <2> QED
    BY <1>8, <2>1, <2>2, SameShardsFacts
<1>14. ASSUME r.next # U16(p.base + DataShards)
       PROVE  AllShardsOK(r, taken)
  <2>1. PICK b : b = q.blocks[1]
    OBVIOUS
  <2>2. p.index + 1 < DataShards
    <3>1. PICK k \in Nat : k = p.index
      BY <1>3, BlockDiv
    <3>2. CASE k + 1 = DataShards
      <4>1. q.next + 1 = p.base + DataShards
        BY <1>3, <1>6, <3>1, <3>2
      <4> QED
        BY <1>12, <1>14, <4>1
    <3>3. CASE k + 1 # DataShards
      BY <1>3, <3>1, <3>3, Sizes
    <3> QED
      BY <3>2, <3>3
  <2>3. b \in FecBlocks /\ BlockOK(b) /\ b.base = p.base
    <3>1. b.base = p.base
      BY <1>6, <1>7, <2>1, BlockAtFacts
    <3> QED
      BY <1>6, <1>8, <1>11, <2>1, <3>1, QueueFields DEF WellFormed, Ordered
  <2>4. mode.reorder = 0 => \A x \in taken : x <= pos
    <3>1. mode.reorder = 0 => \A x \in accepted : x <= pos
      BY <1>1, DeliveredFacts
    <3>2. pos <= pos
      BY BlockDiv
    <3> QED
      BY <1>4, <3>1, <3>2
  <2>5. Short(b)
    <3>1. taken \in SUBSET Positions /\ Offset(b.base) = BlockOf(pos)
      BY <1>2, <1>3, <1>4, <2>3
    <3>2. IndexOf(pos) + 1 < DataShards
      BY <1>3, <2>2
    <3> QED
      BY <1>8, <2>1, <2>3, <2>4, <3>1, <3>2, ShortStays
  <2>6. ShardsOK(b, taken)
    BY <1>8, <2>1, <2>5 DEF ShardsOK, Recovered
  <2>7. AllShardsOK(q, taken)
    BY <1>8, <2>1, <2>6 DEF AllShardsOK
  <2> QED
    BY <1>12, <2>7, FromFacts
<1>15. AllShardsOK(g, taken)
  <2>1. CASE r.next = U16(p.base + DataShards)
    BY <1>10, <1>13, <2>1
  <2>2. CASE r.next # U16(p.base + DataShards)
    BY <1>10, <1>14, <2>2
  <2> QED
    BY <2>1, <2>2
<1>16. PICK o : o = <<Entry(p.number, FALSE)>>
  OBVIOUS
<1>17. Conceals(o, taken)
  <2>1. o[1] = Entry(p.number, FALSE)
    BY <1>16
  <2>2. ~o[1].lost
    BY <2>1 DEF Entry
  <2> QED
    BY <2>2 DEF Conceals
<1>18. AllShardsOK(rtpAudioQueue, accepted)' /\ Conceals(out, accepted)'
  BY <1>1, <1>5, <1>9, <1>15, <1>16, <1>17, SameModeShards
<1>19. \A x \in taken : x <= newest'
  BY <1>1, <1>4, DeliveredFacts
<1> QED
  BY <1>5, <1>18, <1>19 DEF CInv

(* Which packets have a number in a block                                  *)
LEMMA NumberSplit ==
  ASSUME NEW pos \in Positions, NEW b \in Nat, Aligned(b),
         NEW k \in 0..DataShards - 1
  PROVE  /\ BlockOf(pos) + IndexOf(pos) = b + k /\ IndexOf(pos) < DataShards
              => BlockOf(pos) = b /\ IndexOf(pos) = k
         /\ pos \div TotalShards = (b + k) \div DataShards
              => BlockOf(pos) = b
<1>1. PICK a \in Nat, i \in Nat : a = BlockOf(pos) /\ i = IndexOf(pos)
  BY PositionFacts, BlockDiv
<1>2. Aligned(a) /\ DataShards \in Nat \ {0}
  BY <1>1, PositionFacts, Sizes
<1>3. /\ a < b => a + DataShards <= b
      /\ b < a => b + DataShards <= a
  BY <1>2, AlignedSum, a \in Int, b \in Int
<1>4. a + i = b + k /\ i < DataShards => a = b /\ i = k
  BY <1>2, <1>3
<1>5. ASSUME pos \div TotalShards = (b + k) \div DataShards
      PROVE  a = b
  <2>1. b \div DataShards \in Int /\ b % DataShards = 0
        /\ b = (b \div DataShards) * DataShards + (b % DataShards)
    BY <1>2, Division, b \in Int DEF Aligned
  <2>2. PICK j \in Int : j = b \div DataShards
    BY <2>1
  <2>3. b = j * DataShards
    <3>1. PICK c \in Int : c = j * DataShards
      BY <1>2
    <3>2. b = c + 0
      BY <2>1, <2>2, <3>1
    <3> QED
      BY <3>1, <3>2
  <2>4. (b + k) \div DataShards = j
    BY <1>2, <2>3, Remainder
  <2> QED
    BY <1>1, <1>5, <2>3, <2>4 DEF BlockOf
<1> QED
  BY <1>1, <1>4, <1>5

(* The oldest block has every shard of it that was taken.                  *)
LEMMA FirstHasTaken ==
  ASSUME mode \in Modes, NEW q, WellFormed(q), NEW h, 1 \in 1..Len(q.blocks),
         h = q.blocks[1], h.base = q.oldest,
         NEW taken \in SUBSET Positions, Keeps(q, taken),
         NEW x \in taken, BlockOf(x) = Offset(h.base)
  PROVE  IndexOf(x) \in h.have
<1>1. PICK b \in Nat : b = BlockOf(x)
  BY PositionFacts
<1>2. b = Offset(q.oldest)
  BY <1>1
<1>3. ~(BlockOf(x) < Offset(q.oldest))
  BY <1>1, <1>2
<1>4. PICK i \in 1..Len(q.blocks) : /\ Offset(q.blocks[i].base) = BlockOf(x)
                                    /\ IndexOf(x) \in q.blocks[i].have
  BY <1>3 DEF Keeps
<1>5. h.base \in 0..Modulus - 1 /\ q.blocks[i].base \in 0..Modulus - 1
  BY QueueFields, BlockFields DEF WellFormed
<1>6. q.blocks[i].base = q.blocks[1].base
  BY <1>4, <1>5, SameOffset
<1>7. i = 1
  BY <1>6, OneBlock
<1> QED
  BY <1>4, <1>7

(* What the first block does not have is concealed.                        *)
LEMMA LostIsMissing ==
  ASSUME mode \in Modes, NEW q, WellFormed(q), q.blocks # << >>,
         NEW h, h = Head(q.blocks), h.base = q.oldest,
         NEW taken \in SUBSET Positions, Keeps(q, taken), ShardsOK(h, taken),
         h.nextIndex \notin h.have,
         NEW n, n = Offset(h.base) + h.nextIndex
  PROVE  Missing(n, taken)
<1>1. /\ 1 \in 1..Len(q.blocks) /\ h = q.blocks[1]
      /\ h \in FecBlocks /\ BlockOK(h)
      /\ h.base \in 0..Modulus - 1 /\ Aligned(h.base)
      /\ Offset(h.base) \in Nat /\ h.nextIndex \in 0..DataShards - 1
  BY FirstBlock
<1>2. PICK b \in Nat, k \in 0..DataShards - 1 :
        b = Offset(h.base) /\ k = h.nextIndex
  BY <1>1
<1>3. Aligned(b) /\ n = b + k
  BY <1>1, <1>2, AlignedFacts
<1>4. \A x \in taken : BlockOf(x) = b => IndexOf(x) \in h.have
  BY <1>1, <1>2, FirstHasTaken
<1>5. ASSUME NEW pos \in taken, Packet(pos).isData
      PROVE  Packet(pos).number # n
  <2> SUFFICES ASSUME Packet(pos).number = n
               PROVE  FALSE
    OBVIOUS
  <2>1. PICK p : p = Packet(pos)
    OBVIOUS
  <2>2. /\ p.isData = (IndexOf(pos) < DataShards)
        /\ p.number = BlockOf(pos) + IndexOf(pos)
    BY <2>1, PacketFacts
  <2>3. /\ IndexOf(pos) < DataShards
        /\ BlockOf(pos) + IndexOf(pos) = b + k
    BY <1>3, <1>5, <2>1, <2>2
  <2>4. BlockOf(pos) = b /\ IndexOf(pos) = k
    BY <1>3, <2>3, NumberSplit
  <2> QED
    BY <1>2, <1>4, <2>4
<1>6. ASSUME mode.reorder = 0
      PROVE  Cardinality({pos \in taken :
                            pos \div TotalShards = n \div DataShards})
               < neededShards(mode.validation)
  <2>1. PICK T, need : /\ T = {pos \in taken : pos \div TotalShards
                                              = n \div DataShards}
                       /\ need = neededShards(mode.validation)
    OBVIOUS
  <2>2. PICK have \in SUBSET (0..TotalShards - 1) : have = h.have
    BY <1>1, BlockFields
  <2>3. T \in SUBSET Positions
    BY <2>1
  <2>4. \A pos \in T : BlockOf(pos) = b /\ IndexOf(pos) \in have
    BY <1>3, <1>4, <2>1, <2>2, NumberSplit
  <2>5. IsFiniteSet(have) /\ Cardinality(T) <= Cardinality(have)
    BY <2>3, <2>4, TakenAreThere, CountOfShards
  <2>6. ~h.fullyReassembled
    BY <1>1 DEF ShardsOK, Recovered, DataIndices
  <2>7. h.dataReceived + h.fecReceived < need
    BY <1>6, <2>1, <2>6 DEF ShardsOK, Short
  <2>8. h.dataReceived + h.fecReceived = Cardinality(have)
    BY <1>1, <2>2, <2>6, CountOfShards DEF BlockOK
  <2>9. /\ Cardinality(T) \in Nat /\ Cardinality(have) \in Nat
        /\ need \in Nat
    <3>1. IsFiniteSet(Positions)
      <4>1. NumBlocks * TotalShards - 1 \in Int
        BY Sizes
      <4> QED
        BY <4>1, FS_Interval DEF Positions
    <3> QED
      BY <2>1, <2>3, <2>5, <3>1, Needed, FS_Subset, FS_CardinalityType
  <2> QED
    BY <2>1, <2>5, <2>7, <2>8, <2>9
<1> QED
  BY <1>5, <1>6 DEF Missing

LEMMA ConcealGetQueued ==
  ASSUME IInv, NeverRestarts, CInv, RtpaGetQueuedPacket
  PROVE  CInv'
<1>1. PICK q, f, h, r, taken, o :
        /\ q = rtpAudioQueue /\ f = rtpAudioQueue' /\ h = Head(q.blocks)
        /\ r = HandedOut(q, 1) /\ taken = accepted /\ o = out'
  OBVIOUS
<1>2. PICK n, lost : /\ n = NumberOf(h.base + h.nextIndex)
                     /\ lost = (~NextReceived(q))
  OBVIOUS
<1>3. /\ receiver = "drain" /\ out = << >> /\ queueHasPacketReady(q)
      /\ o = <<Entry(n, lost)>>
      /\ emitted' = Entry(n, lost).number
      /\ f = IF Head(r.blocks).nextIndex = DataShards
               THEN freeFecBlockHead(r) ELSE r
      /\ mode' = mode /\ accepted' = taken /\ newest' = newest
  BY <1>1, <1>2 DEF RtpaGetQueuedPacket
<1>4. q.blocks # << >>
  BY <1>3 DEF queueHasPacketReady
<1>5. ~Synchronizes(q)
  BY <1>1, <1>4 DEF NeverRestarts
<1>6. /\ mode \in Modes /\ WellFormed(q) /\ Keeps(q, taken)
      /\ taken \in SUBSET Positions
  BY <1>1, <1>5 DEF IInv, TypeInv, QueueOK
<1>7. q \in Queues
  BY <1>6 DEF WellFormed
<1>8. AllShardsOK(q, taken)
  BY <1>1 DEF CInv
<1>9. AllShardsOK(f, taken)
  <2>1. PICK u : u = freeFecBlockHead(r)
    OBVIOUS
  <2>2. /\ From(q, r)
        /\ \A i \in 1..Len(u.blocks) : \E j \in 2..Len(q.blocks) :
             SameShards(q.blocks[j], u.blocks[i])
    BY <1>1, <1>4, <1>7, <2>1, HandOutShards
  <2>3. From(q, u)
    <3> SUFFICES ASSUME NEW i \in 1..Len(u.blocks)
                 PROVE  \E j \in 1..Len(q.blocks) :
                          SameShards(q.blocks[j], u.blocks[i])
      BY DEF From
    <3>1. PICK j \in 2..Len(q.blocks) : SameShards(q.blocks[j], u.blocks[i])
      BY <2>2
    <3>2. j \in 1..Len(q.blocks)
      BY <1>7, QueueFields
    <3> QED
      BY <3>1, <3>2
  <2>4. f = r \/ f = u
    BY <1>3, <2>1
  <2> QED
    BY <1>8, <2>2, <2>3, <2>4, FromFacts
<1>10. Conceals(o, taken)
  <2>1. PICK e : e = Entry(n, lost)
    OBVIOUS
  <2>2. o[1] = e /\ e.number = n /\ e.lost = lost
    BY <1>3, <2>1 DEF Entry
  <2>3. ASSUME lost
        PROVE  Missing(n, taken)
    <3>1. h.nextIndex \notin h.have
      BY <1>1, <1>2, <2>3 DEF NextReceived
    <3>2. h.allowDiscontinuity
      BY <1>1, <1>2, <1>3, <2>3 DEF queueHasPacketReady
    <3>3. /\ 1 \in 1..Len(q.blocks) /\ h = q.blocks[1]
          /\ h.base = q.oldest
          /\ Offset(q.next) = Offset(q.oldest) + h.nextIndex
      BY <1>1, <1>4, <1>6, <3>2, FirstBlock
    <3>4. ShardsOK(h, taken)
      BY <1>8, <3>3 DEF AllShardsOK
    <3>5. n = Offset(q.next)
      <4>1. emitted' = Offset(q.next)
        BY <1>1, GetQueuedFacts
      <4> QED
        BY <1>3, <2>1, <2>2, <4>1
    <3>6. n = Offset(h.base) + h.nextIndex
      BY <3>3, <3>5
    <3>7. /\ mode \in Modes /\ WellFormed(q) /\ q.blocks # << >>
          /\ h = Head(q.blocks) /\ h.base = q.oldest
          /\ taken \in SUBSET Positions /\ Keeps(q, taken)
          /\ ShardsOK(h, taken) /\ h.nextIndex \notin h.have
          /\ n = Offset(h.base) + h.nextIndex
      BY <1>1, <1>4, <1>6, <3>1, <3>3, <3>4, <3>6
    <3> QED
      BY ONLY <3>7, LostIsMissing
  <2> QED
    BY <2>2, <2>3 DEF Conceals
<1>11. AllShardsOK(rtpAudioQueue, accepted)' /\ Conceals(out, accepted)'
  BY <1>1, <1>3, <1>9, <1>10, SameModeShards
<1> QED
  BY <1>1, <1>3, <1>11 DEF CInv

(* The other ways to take a packet do not touch the blocks.                *)
LEMMA ConcealReceive ==
  ASSUME IInv, CInv, NEW pos \in Positions, ReceivePacket(Packet(pos))
  PROVE  CInv'
<1>1. PICK p : p = Packet(pos)
  OBVIOUS
<1>2. /\ receiver = "recv" /\ out = << >> /\ Delivered(p) /\ mode' = mode
      /\ RtpaAddPacket(p)
  BY <1>1 DEF ReceivePacket, Receiving
<1>3. \A x \in accepted : x <= newest'
  BY <1>1, <1>2, DeliveredFacts
<1>4. PICK n : n = Noted(p)
  OBVIOUS
<1>5. n \in Queues /\ n.blocks = rtpAudioQueue.blocks
  BY <1>1, <1>4, NotedFacts DEF SameBlocks
<1>6. CASE AddIncompatible(p)
  <2>1. /\ rtpAudioQueue' = rtpAudioQueue /\ accepted' = accepted
        /\ out' = out \/ out' = <<Entry(p.number, FALSE)>>
    BY <1>6 DEF AddIncompatible, HandleNow
  <2> QED
    BY <1>2, <1>3, <2>1, QuietStep
<1>7. CASE AddTurnsFecOff(p)
  <2>1. /\ rtpAudioQueue' = [n EXCEPT !.incompatible = TRUE]
        /\ out' = out /\ accepted' = accepted
    BY <1>4, <1>7 DEF AddTurnsFecOff, history
  <2>2. rtpAudioQueue'.blocks = rtpAudioQueue.blocks
    BY <1>5, <2>1 DEF Queues
  <2> QED
    BY <1>2, <1>3, <2>1, <2>2, QuietStep
<1>8. CASE AddSynchronizing(p)
  <2>1. PICK first : first = U16(p.base + DataShards)
    OBVIOUS
  <2>2. /\ rtpAudioQueue' = [n EXCEPT !.next = first, !.oldest = first]
        /\ out' = out /\ accepted' = accepted
    BY <1>4, <1>8, <2>1 DEF AddSynchronizing, history
  <2>3. rtpAudioQueue'.blocks = rtpAudioQueue.blocks
    BY <1>5, <2>2 DEF Queues
  <2> QED
    BY <1>2, <1>3, <2>2, <2>3, QuietStep
<1>9. CASE AddRejected(p)
  <2>1. rtpAudioQueue' = n /\ out' = out /\ accepted' = accepted
    BY <1>4, <1>9 DEF AddRejected, history
  <2> QED
    BY <1>2, <1>3, <1>5, <2>1, QuietStep
<1>10. CASE AddHandledNow(p)
  BY <1>1, <1>10, ConcealAddHandledNow
<1>11. CASE \E waited \in BOOLEAN : AddQueued(p, waited)
  BY <1>1, <1>11, ConcealAddQueued
<1> QED
  BY <1>2, <1>6, <1>7, <1>8, <1>9, <1>10, <1>11 DEF RtpaAddPacket

(* A queue without blocks, and nothing passed on                           *)
LEMMA InitiallyConceals == Init => CInv
<1> SUFFICES ASSUME Init
             PROVE  CInv
  OBVIOUS
<1>1. rtpAudioQueue = RtpaInitializeQueue(mode.oldHost)
      /\ out = << >> /\ accepted = {}
  BY DEF Init
<1>2. Len(rtpAudioQueue.blocks) = 0
  BY <1>1 DEF RtpaInitializeQueue
<1> QED
  BY <1>1, <1>2 DEF CInv, AllShardsOK, Conceals

(* The steps that neither take a packet nor give one back                  *)
LEMMA ConcealOthers ==
  ASSUME IInv, CInv, UNCHANGED <<rtpAudioQueue, mode, accepted>>,
         out' \in {<<>>, out}, \A x \in accepted : x <= newest'
  PROVE  CInv'
BY QuietStep

LEMMA ConcealInductive ==
  IInv /\ CInv /\ NeverRestarts /\ [Next]_vars => CInv'
<1> SUFFICES ASSUME IInv, CInv, NeverRestarts, [Next]_vars
             PROVE  CInv'
  OBVIOUS
<1>1. \A x \in accepted : x <= newest
  BY DEF CInv
<1>2. ASSUME NEW pos \in Positions, DropInitialPacket(Packet(pos))
      PROVE  CInv'
  <2>1. PICK p : p = Packet(pos)
    OBVIOUS
  <2>2. \A x \in accepted : x <= newest'
    BY <1>2, <2>1, DeliveredFacts DEF DropInitialPacket
  <2> QED
    BY <1>2, <2>2, ConcealOthers DEF DropInitialPacket, history
<1>3. ASSUME NEW pos \in Positions, ReceivePacket(Packet(pos))
      PROVE  CInv'
  BY <1>3, ConcealReceive
<1>4. CASE ReceiveTimeout
  BY <1>1, <1>4, ConcealOthers DEF ReceiveTimeout, history
<1>5. CASE RtpaGetQueuedPacket
  BY <1>5, ConcealGetQueued
<1>6. CASE DrainDone
  BY <1>1, <1>6, ConcealOthers DEF DrainDone, history
<1>7. CASE queuePacketToLbq
  BY <1>1, <1>7, ConcealOthers DEF queuePacketToLbq, history
<1>8. CASE DecodeDirectly
  BY <1>1, <1>8, ConcealOthers DEF DecodeDirectly, history
<1>9. CASE DecoderThread
  BY <1>1, <1>9, ConcealOthers DEF DecoderThread, history
<1>10. CASE UNCHANGED vars
  BY <1>1, <1>10, ConcealOthers DEF vars, history
<1> QED
  BY <1>2, <1>3, <1>4, <1>5, <1>6, <1>7, <1>8, <1>9, <1>10 DEF Next

(* A placeholder that is passed on stands for a packet the queue did not   *)
(* take, and without reordering, the queue had too few shards of its block *)
(* to recover it.                                                          *)
THEOREM OnlyLostAudioIsConcealed ==
  Spec /\ []NeverRestarts => []ConcealsOnlyLostAudio
<1>1. Spec /\ []NeverRestarts => []IInv
  BY Invariance
<1>2. Spec /\ []NeverRestarts => []CInv
  BY <1>1, InitiallyConceals, ConcealInductive, PTL DEF Spec
<1> QED
  BY <1>2, CInvConceals, PTL

(* Streams whose numbers do not wrap do without the hypothesis.            *)
THEOREM ConcealmentWithoutWrap ==
  ASSUME \A m \in Modes : 0 < m.firstSeq /\ m.firstSeq + Numbers < Modulus
  PROVE  Spec => []ConcealsOnlyLostAudio
<1>1. Spec => []NeverRestarts
  BY StreamsThatDoNotWrap, PTL
<1> QED
  BY <1>1, OnlyLostAudioIsConcealed, PTL
=============================================================================
