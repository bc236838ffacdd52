-------------------------- MODULE AudioStream_proofs --------------------------
(***************************************************************************)
(* Theorems about AudioStream: as long as the queue does not synchronize   *)
(* again (NeverRestarts), it stays well formed (QueueIntact), the decoder  *)
(* gets what is sent in order (PlayedInOrder) and nothing that was taken   *)
(* is skipped (SkipsOnlyLostBlocks), for blocks of any size, a stream of   *)
(* any length up to the assumption, numbers that wrap anywhere, and a      *)
(* network that loses, repeats and reorders packets without limit.         *)
(*                                                                         *)
(* The argument counts the sequence numbers from the first one of the      *)
(* stream (Offset), which undoes the wrap, so that isBefore16 becomes <.   *)
(***************************************************************************)
EXTENDS AudioStream, SequenceTheorems, FiniteSetTheorems,
        WellFoundedInduction, TLAPS

Numbers == NumBlocks * DataShards

(* The numbers and sequence numbers at which a block may start             *)
Aligned(n) == n % DataShards = 0

(* How far sequence number s is from the first one of the stream           *)
Offset(s) == U16(s - mode.firstSeq)

(* The number of the first data packet of the block at a position, and the *)
(* index in the block                                                      *)
BlockOf(pos) == (pos \div TotalShards) * DataShards
IndexOf(pos) == pos % TotalShards

(***************************************************************************)
(* Arithmetic                                                              *)
(***************************************************************************)

LEMMA Division ==
  ASSUME NEW x \in Int, NEW m \in Nat \ {0}
  PROVE  /\ x % m \in 0..m - 1
         /\ x \div m \in Int
         /\ x = (x \div m) * m + (x % m)
OBVIOUS

(* A multiple of m that is not 0 is at least m away from 0.                *)
LEMMA Multiples ==
  ASSUME NEW k \in Int, NEW m \in Nat \ {0}
  PROVE  /\ k * m \in Int
         /\ k >= 1 => k * m >= m
         /\ k <= -1 => k * m <= -m
         /\ k = 0 => k * m = 0
<1>1. CASE k >= 1
  BY <1>1
<1>2. CASE k <= -1
  BY <1>2
<1> QED
  BY <1>1, <1>2

LEMMA Remainder ==
  ASSUME NEW m \in Nat \ {0}, NEW k \in Int, NEW r \in 0..m - 1
  PROVE  (k * m + r) % m = r /\ (k * m + r) \div m = k
<1> DEFINE x == k * m + r
           j == x \div m
           y == x % m
<1>1. x \in Int
  OBVIOUS
<1>2. x = j * m + y /\ y \in 0..m - 1 /\ j \in Int
  BY <1>1, Division
<1>3. (j - k) * m = r - y
  BY <1>2
<1> HIDE DEF x, j, y
<1>4. j - k \in Int /\ r - y < m /\ y - r < m
  BY <1>2
<1>5. j = k
  BY <1>2, <1>3, <1>4, Multiples
<1>6. y = r
  BY <1>2, <1>3, <1>5, Multiples
<1> QED
  BY <1>5, <1>6 DEF x, j, y

(* Adding multiples does not change the remainder.                         *)
LEMMA SameRemainder ==
  ASSUME NEW m \in Nat \ {0}, NEW k \in Int, NEW x \in Int
  PROVE  (x + k * m) % m = x % m
<1> DEFINE j == x \div m
           y == x % m
<1>1. x = j * m + y /\ y \in 0..m - 1 /\ j \in Int
  BY Division
<1> HIDE DEF j, y
<1>2. x + k * m = (j + k) * m + y
  BY <1>1
<1>3. j + k \in Int
  BY <1>1
<1>4. ((j + k) * m + y) % m = y
  BY <1>1, <1>3, Remainder
<1> QED
  BY <1>2, <1>4 DEF y

(* Two different multiples are a whole step apart.                         *)
LEMMA StepApart ==
  ASSUME NEW d \in Nat \ {0}, NEW a \in Int, NEW b \in Int,
         a % d = 0, b % d = 0, a < b
  PROVE  a + d <= b
<1> DEFINE i == a \div d
           j == b \div d
<1>1. a = i * d /\ b = j * d /\ i \in Int /\ j \in Int
  BY Division
<1> HIDE DEF i, j
<1>2. b - a = (j - i) * d /\ j - i \in Int
  BY <1>1
<1> QED
  BY <1>2, Multiples

(* A number less than m, and its sum with a number less than m             *)
LEMMA SmallRemainders ==
  ASSUME NEW m \in Nat \ {0}, NEW x \in Int
  PROVE  /\ 0 <= x /\ x < m => x % m = x
         /\ m <= x /\ x < 2 * m => x % m = x - m
         /\ -m <= x /\ x < 0 => x % m = x + m
<1>1. ASSUME 0 <= x, x < m
      PROVE  x % m = x
  BY <1>1, Remainder, 0 * m + x = x, x \in 0..m - 1
<1>2. ASSUME m <= x, x < 2 * m
      PROVE  x % m = x - m
  BY <1>2, Remainder, 1 * m + (x - m) = x, x - m \in 0..m - 1
<1>3. ASSUME -m <= x, x < 0
      PROVE  x % m = x + m
  BY <1>3, Remainder, (-1) * m + (x + m) = x, x + m \in 0..m - 1
<1> QED
  BY <1>1, <1>2, <1>3

(***************************************************************************)
(* Sequence numbers                                                        *)
(***************************************************************************)

LEMMA Sizes ==
  /\ DataShards \in Nat \ {0} /\ FecShards \in Nat \ {0}
  /\ TotalShards \in Nat \ {0} /\ TotalShards = DataShards + FecShards
  /\ Modulus \in Nat \ {0} /\ Aligned(Modulus)
  /\ Modulus \div 2 \in Nat /\ 2 * (Modulus \div 2) = Modulus
  /\ NumBlocks \in Nat \ {0} /\ QueueBound \in Nat \ {0}
  /\ MaxLoss \in Nat /\ InitialDrop \in Nat
  /\ Numbers \in Nat \ {0} /\ 2 * Numbers < Modulus
  /\ Aligned(Numbers)
<1>1. /\ DataShards \in Nat \ {0} /\ FecShards \in Nat \ {0}
      /\ Modulus \in Nat \ {0} /\ Modulus % (2 * DataShards) = 0
      /\ NumBlocks \in Nat \ {0} /\ QueueBound \in Nat \ {0}
      /\ MaxLoss \in Nat /\ InitialDrop \in Nat
      /\ 2 * Numbers < Modulus
  BY AudioQueueAssumption, AudioStreamAssumption DEF Numbers
<1>2. TotalShards \in Nat \ {0} /\ TotalShards = DataShards + FecShards
  BY <1>1 DEF TotalShards
<1>3. Numbers \in Nat \ {0} /\ Numbers % DataShards = 0
  <2>1. Numbers \in Int /\ Numbers >= DataShards
    BY <1>1, Multiples DEF Numbers
  <2>2. (NumBlocks * DataShards + 0) % DataShards = 0
    BY <1>1, Remainder, 0 \in 0..DataShards - 1
  <2> QED
    BY <1>1, <2>1, <2>2 DEF Numbers
<1>4. Modulus % DataShards = 0 /\ 2 * (Modulus \div 2) = Modulus
  <2> DEFINE m == 2 * DataShards
             k == Modulus \div m
  <2>1. m \in Nat \ {0} /\ Modulus \in Int /\ Modulus % m = 0
    BY <1>1
  <2>2. m = 2 * DataShards
    OBVIOUS
  <2> HIDE DEF m
  <2>3. k \in Int /\ Modulus = k * m + (Modulus % m)
    BY <2>1, Division
  <2> HIDE DEF k
  <2>4. k \in Int /\ Modulus = k * (2 * DataShards)
    BY <1>1, <2>1, <2>2, <2>3
  <2>5. /\ 2 * k \in Int /\ Modulus = (2 * k) * DataShards + 0
        /\ k * DataShards \in Int /\ Modulus = (k * DataShards) * 2 + 0
    BY <1>1, <2>4
  <2>6. ((2 * k) * DataShards + 0) % DataShards = 0
    BY <1>1, <2>5, Remainder, 0 \in 0..DataShards - 1
  <2>7. ((k * DataShards) * 2 + 0) \div 2 = k * DataShards
    BY <2>5, Remainder, 0 \in 0..2 - 1
  <2> QED
    BY <2>5, <2>6, <2>7
<1> QED
  BY <1>1, <1>2, <1>3, <1>4 DEF Aligned

(* The first sequence number of the stream                                 *)
LEMMA FirstNumber ==
  ASSUME mode \in Modes
  PROVE  /\ mode.firstSeq \in 0..Modulus - 1
         /\ Aligned(mode.firstSeq)
BY AudioStreamAssumption DEF ModeKinds, Aligned

(* What U16 does to a number that is at most one wrap off                  *)
LEMMA Wrap ==
  ASSUME NEW x \in Int
  PROVE  /\ U16(x) \in 0..Modulus - 1
         /\ 0 <= x /\ x < Modulus => U16(x) = x
         /\ Modulus <= x /\ x < 2 * Modulus => U16(x) = x - Modulus
         /\ -Modulus <= x /\ x < 0 => U16(x) = x + Modulus
         /\ U16(x + Modulus) = U16(x)
         /\ U16(x - Modulus) = U16(x)
<1>1. Modulus \in Nat \ {0}
  BY Sizes
<1>2. /\ x % Modulus \in 0..Modulus - 1
      /\ 0 <= x /\ x < Modulus => x % Modulus = x
      /\ Modulus <= x /\ x < 2 * Modulus => x % Modulus = x - Modulus
      /\ -Modulus <= x /\ x < 0 => x % Modulus = x + Modulus
  BY <1>1, Division, SmallRemainders
<1>3. ASSUME NEW k \in Int
      PROVE  (x + k * Modulus) % Modulus = x % Modulus
  BY <1>1, SameRemainder
<1>4. (x + Modulus) % Modulus = x % Modulus
  <2>1. PICK k \in Int : k = 1
    OBVIOUS
  <2>2. x + k * Modulus = x + Modulus
    BY <1>1, <2>1
  <2> QED
    BY <1>3, <2>2
<1>5. (x - Modulus) % Modulus = x % Modulus
  <2>1. PICK k \in Int : k = -1
    OBVIOUS
  <2>2. x + k * Modulus = x - Modulus
    BY <1>1, <2>1
  <2> QED
    BY <1>3, <2>2
<1> QED
  BY <1>2, <1>4, <1>5 DEF U16

LEMMA OffsetFacts ==
  ASSUME mode \in Modes, NEW s \in 0..Modulus - 1
  PROVE  /\ Offset(s) \in 0..Modulus - 1
         /\ \/ s = mode.firstSeq + Offset(s)
            \/ s = mode.firstSeq + Offset(s) - Modulus
<1>1. mode.firstSeq \in 0..Modulus - 1 /\ Modulus \in Nat \ {0}
  BY FirstNumber, Sizes
<1>2. PICK x \in Int : x = s - mode.firstSeq
  BY <1>1
<1>3. /\ U16(x) \in 0..Modulus - 1
      /\ U16(x) = x \/ U16(x) = x + Modulus
  BY <1>1, <1>2, Wrap
<1> QED
  BY <1>1, <1>2, <1>3 DEF Offset

(* The sequence number at offset n                                         *)
LEMMA OffsetOf ==
  ASSUME mode \in Modes, NEW n \in 0..Modulus - 1
  PROVE  /\ U16(mode.firstSeq + n) \in 0..Modulus - 1
         /\ Offset(U16(mode.firstSeq + n)) = n
<1>1. mode.firstSeq \in 0..Modulus - 1 /\ Modulus \in Nat \ {0}
  BY FirstNumber, Sizes
<1>2. PICK x \in Int : x = mode.firstSeq + n
  BY <1>1
<1>3. PICK s \in 0..Modulus - 1 : s = U16(x)
  BY Wrap
<1>4. s = x \/ s = x - Modulus
  BY <1>1, <1>2, <1>3, Wrap
<1>5. /\ Offset(s) \in 0..Modulus - 1
      /\ \/ s = mode.firstSeq + Offset(s)
         \/ s = mode.firstSeq + Offset(s) - Modulus
  BY OffsetFacts
<1>6. Offset(s) = n
  BY <1>1, <1>2, <1>4, <1>5
<1> QED
  BY <1>2, <1>3, <1>6

(* A sequence number k further on is at an offset k further on.            *)
LEMMA OffsetPlus ==
  ASSUME mode \in Modes, NEW s \in 0..Modulus - 1, NEW k \in Nat,
         Offset(s) + k < Modulus
  PROVE  U16(s + k) \in 0..Modulus - 1 /\ Offset(U16(s + k)) = Offset(s) + k
<1>1. mode.firstSeq \in 0..Modulus - 1 /\ Modulus \in Nat \ {0}
  BY FirstNumber, Sizes
<1>2. PICK o \in 0..Modulus - 1 : o = Offset(s)
  BY OffsetFacts
<1>3. s = mode.firstSeq + o \/ s = mode.firstSeq + o - Modulus
  BY <1>2, OffsetFacts
<1>4. PICK n \in 0..Modulus - 1 : n = o + k
  BY <1>1, <1>2
<1>5. PICK x \in Int : x = mode.firstSeq + n
  BY <1>1
<1>6. U16(x) \in 0..Modulus - 1 /\ Offset(U16(x)) = n
  BY <1>5, OffsetOf
<1>7. s + k = x \/ s + k = x - Modulus
  BY <1>1, <1>3, <1>4, <1>5
<1>8. U16(x - Modulus) = U16(x)
  BY Wrap
<1> QED
  BY <1>2, <1>4, <1>6, <1>7, <1>8

(* Sequence numbers are equal where their offsets are.                     *)
LEMMA SameOffset ==
  ASSUME mode \in Modes, NEW s \in 0..Modulus - 1, NEW t \in 0..Modulus - 1,
         Offset(s) = Offset(t)
  PROVE  s = t
<1>1. mode.firstSeq \in 0..Modulus - 1 /\ Modulus \in Nat \ {0}
  BY FirstNumber, Sizes
<1>2. /\ \/ s = mode.firstSeq + Offset(s)
         \/ s = mode.firstSeq + Offset(s) - Modulus
      /\ \/ t = mode.firstSeq + Offset(t)
         \/ t = mode.firstSeq + Offset(t) - Modulus
  BY OffsetFacts
<1>3. Offset(s) \in Int
  BY OffsetFacts
<1> QED
  BY <1>1, <1>2, <1>3

(* Within the stream isBefore16 orders sequence numbers by their offsets.  *)
LEMMA Before ==
  ASSUME mode \in Modes, NEW s \in 0..Modulus - 1, NEW t \in 0..Modulus - 1,
         Offset(s) <= Numbers, Offset(t) <= Numbers
  PROVE  isBefore16(s, t) <=> Offset(s) < Offset(t)
<1>1. /\ mode.firstSeq \in 0..Modulus - 1 /\ Modulus \in Nat \ {0}
      /\ Numbers \in Nat /\ 2 * Numbers < Modulus
  BY FirstNumber, Sizes
<1>2. PICK h \in Nat : h = Modulus \div 2 /\ 2 * h = Modulus
  BY Sizes
<1>3. PICK a \in 0..Modulus - 1, b \in 0..Modulus - 1 :
        a = Offset(s) /\ b = Offset(t)
  BY OffsetFacts
<1>4. /\ s = mode.firstSeq + a \/ s = mode.firstSeq + a - Modulus
      /\ t = mode.firstSeq + b \/ t = mode.firstSeq + b - Modulus
      /\ a <= Numbers /\ b <= Numbers
  BY <1>3, OffsetFacts
<1>5. PICK x \in Int : x = a - b
  BY <1>3
<1>6. s - t = x \/ s - t = x + Modulus \/ s - t = x - Modulus
  BY <1>1, <1>4, <1>5
<1>7. U16(x + Modulus) = U16(x) /\ U16(x - Modulus) = U16(x)
  BY Wrap
<1>8. isBefore16(s, t) <=> U16(x) > h - 1
  BY <1>2, <1>6, <1>7 DEF isBefore16
<1>9. U16(x) > h - 1 <=> a < b
  <2>1. CASE a < b
    <3>1. U16(x) = x + Modulus
      BY <1>1, <1>5, <2>1, Wrap
    <3> QED
      BY <1>1, <1>2, <1>4, <1>5, <2>1, <3>1
  <2>2. CASE ~(a < b)
    <3>1. U16(x) = x
      BY <1>1, <1>5, <2>2, Wrap
    <3> QED
      BY <1>1, <1>2, <1>4, <1>5, <2>2, <3>1
  <2> QED
    BY <2>1, <2>2
<1> QED
  BY <1>3, <1>8, <1>9

(* Sums and differences of multiples                                       *)
LEMMA SumOfMultiples ==
  ASSUME NEW d \in Nat \ {0}, NEW a \in Int, NEW b \in Int,
         a % d = 0, b % d = 0
  PROVE  (a + b) % d = 0 /\ (a - b) % d = 0
<1>1. PICK j \in Int : j = b \div d
  BY Division
<1>2. b = j * d
  BY <1>1, Division
<1>3. (a + j * d) % d = 0
  BY SameRemainder
<1>4. PICK k \in Int : k = -j
  OBVIOUS
<1>5. (a + k * d) % d = 0
  BY SameRemainder
<1>6. a + k * d = a - b
  BY <1>2, <1>4
<1> QED
  BY <1>2, <1>3, <1>5, <1>6

LEMMA AlignedSum ==
  ASSUME NEW a \in Int, NEW b \in Int, Aligned(a), Aligned(b)
  PROVE  /\ Aligned(a + b) /\ Aligned(a - b)
         /\ a < b => a + DataShards <= b
<1>1. DataShards \in Nat \ {0}
  BY Sizes
<1>2. (a + b) % DataShards = 0 /\ (a - b) % DataShards = 0
  BY <1>1, SumOfMultiples DEF Aligned
<1>3. a < b => a + DataShards <= b
  BY <1>1, StepApart DEF Aligned
<1> QED
  BY <1>2, <1>3 DEF Aligned

(***************************************************************************)
(* Packets                                                                 *)
(***************************************************************************)

LEMMA PositionFacts ==
  ASSUME NEW pos \in Positions
  PROVE  /\ BlockOf(pos) \in Nat /\ Aligned(BlockOf(pos))
         /\ BlockOf(pos) + DataShards <= Numbers
         /\ IndexOf(pos) \in 0..TotalShards - 1
<1>1. /\ DataShards \in Nat \ {0} /\ TotalShards \in Nat \ {0}
      /\ NumBlocks \in Nat \ {0} /\ Numbers \in Nat
      /\ Numbers = NumBlocks * DataShards
  BY Sizes DEF Numbers
<1>2. pos \in Int /\ 0 <= pos /\ pos < NumBlocks * TotalShards
  BY <1>1 DEF Positions
<1>3. PICK b \in Int : b = pos \div TotalShards
  BY <1>1, <1>2, Division
<1>4. /\ IndexOf(pos) \in 0..TotalShards - 1
      /\ pos = b * TotalShards + IndexOf(pos)
  BY <1>1, <1>2, <1>3, Division DEF IndexOf
<1>5. b >= 0
  <2>1. CASE b <= -1
    BY <1>1, <1>2, <1>4, <2>1, Multiples
  <2> QED
    BY <2>1
<1>6. b < NumBlocks
  <2>1. CASE b >= NumBlocks
    <3>1. PICK k \in Nat : b = NumBlocks + k
      BY <1>1, <2>1, b - NumBlocks \in Nat, b = NumBlocks + (b - NumBlocks)
    <3>2. k * TotalShards >= 0
      BY <1>1
    <3>3. b * TotalShards = NumBlocks * TotalShards + k * TotalShards
      BY <1>1, <3>1
    <3> QED
      BY <1>1, <1>2, <1>4, <3>2, <3>3
  <2> QED
    BY <1>1, <2>1
<1>7. BlockOf(pos) = b * DataShards
  BY <1>3 DEF BlockOf
<1>8. BlockOf(pos) \in Nat
  BY <1>1, <1>5, <1>7
<1>9. Aligned(BlockOf(pos))
  BY <1>1, <1>7, Remainder, 0 \in 0..DataShards - 1,
     b * DataShards + 0 = b * DataShards DEF Aligned
<1>10. BlockOf(pos) + DataShards <= Numbers
  <2>1. PICK k \in Int : k = NumBlocks - b
    BY <1>1
  <2>2. k * DataShards >= DataShards
    BY <1>1, <1>6, <2>1, Multiples
  <2>3. k * DataShards = Numbers - b * DataShards
    BY <1>1, <2>1
  <2> QED
    BY <1>1, <1>7, <1>8, <2>2, <2>3
<1> QED
  BY <1>4, <1>8, <1>9, <1>10

(* Where a block may start                                                 *)
LEMMA AlignedFacts ==
  ASSUME mode \in Modes, NEW s \in 0..Modulus - 1
  PROVE  /\ Aligned(s) <=> Aligned(Offset(s))
         /\ Aligned(s) => s + DataShards <= Modulus
<1>1. /\ Modulus \in Int /\ Aligned(Modulus)
      /\ mode.firstSeq \in Int /\ Aligned(mode.firstSeq)
  BY Sizes, FirstNumber
<1>2. PICK o \in Int : o = Offset(s)
  BY OffsetFacts
<1>3. s = mode.firstSeq + o \/ s = mode.firstSeq + o - Modulus
  BY <1>2, OffsetFacts
<1>4. PICK f \in Int : f = mode.firstSeq
  BY <1>1
<1>5. ASSUME Aligned(o)
      PROVE  Aligned(s)
  <2>1. PICK n \in Int : n = f + o
    OBVIOUS
  <2>2. Aligned(n)
    BY <1>1, <1>4, <1>5, <2>1, AlignedSum
  <2>3. Aligned(n - Modulus)
    BY <1>1, <2>2, AlignedSum
  <2>4. s = n \/ s = n - Modulus
    BY <1>1, <1>3, <1>4, <2>1
  <2> QED
    BY <2>2, <2>3, <2>4
<1>6. ASSUME Aligned(s)
      PROVE  Aligned(o)
  <2>1. PICK n \in Int : n = s - f
    OBVIOUS
  <2>2. Aligned(n)
    <3>1. s \in Int /\ Aligned(s) /\ Aligned(f)
      BY <1>1, <1>4, <1>6
    <3>2. Aligned(s - f)
      BY <3>1, AlignedSum
    <3> QED
      BY <2>1, <3>2
  <2>3. Aligned(n + Modulus)
    BY <1>1, <2>2, AlignedSum
  <2>4. o = n \/ o = n + Modulus
    BY <1>1, <1>3, <1>4, <2>1
  <2> QED
    BY <2>2, <2>3, <2>4
<1>7. Aligned(s) => s + DataShards <= Modulus
  BY <1>1, AlignedSum
<1> QED
  BY <1>2, <1>5, <1>6, <1>7

(* The first sequence number of a block that fits in the stream, and those *)
(* of its data packets                                                     *)
LEMMA BaseFacts ==
  ASSUME mode \in Modes, NEW s \in 0..Modulus - 1, Aligned(s)
  PROVE  /\ s + DataShards <= Modulus
         /\ \A i \in 0..DataShards - 1 : /\ s + i \in 0..Modulus - 1
                                         /\ U16(s + i) = s + i
                                         /\ fecBlockBase(s + i) = s
         /\ \A i \in 0..DataShards : Offset(s) + DataShards <= Numbers =>
              /\ U16(s + i) \in 0..Modulus - 1
              /\ Offset(U16(s + i)) = Offset(s) + i
<1>1. /\ DataShards \in Nat \ {0} /\ Modulus \in Nat \ {0}
      /\ Numbers \in Nat /\ 2 * Numbers < Modulus
  BY Sizes
<1>2. s + DataShards <= Modulus
  BY AlignedFacts
<1>3. ASSUME NEW i \in 0..DataShards - 1
      PROVE  /\ s + i \in 0..Modulus - 1 /\ U16(s + i) = s + i
             /\ fecBlockBase(s + i) = s
  <2>1. s + i \in 0..Modulus - 1
    BY <1>1, <1>2
  <2>2. U16(s + i) = s + i
    BY <1>1, <2>1, Wrap
  <2>3. PICK k \in Int : s = k * DataShards
    <3>1. s \in Int /\ s % DataShards = 0
      BY <1>1 DEF Aligned
    <3>2. /\ s \div DataShards \in Int
          /\ s = (s \div DataShards) * DataShards + (s % DataShards)
      BY <1>1, <3>1, Division
    <3>3. s = (s \div DataShards) * DataShards
      BY <1>1, <3>1, <3>2
    <3> QED
      BY <3>2, <3>3
  <2>4. (k * DataShards + i) \div DataShards = k
    BY <1>1, Remainder
  <2> QED
    BY <2>1, <2>2, <2>3, <2>4 DEF fecBlockBase
<1>4. ASSUME NEW i \in 0..DataShards, Offset(s) + DataShards <= Numbers
      PROVE  /\ U16(s + i) \in 0..Modulus - 1
             /\ Offset(U16(s + i)) = Offset(s) + i
  <2>1. Offset(s) + i < Modulus /\ i \in Nat
    BY <1>1, <1>4, OffsetFacts
  <2> QED
    BY <2>1, OffsetPlus
<1> QED
  BY <1>2, <1>3, <1>4

LEMMA PacketFacts ==
  ASSUME mode \in Modes, NEW pos \in Positions, NEW p, p = Packet(pos)
  PROVE  /\ p.pos = pos /\ p.index = IndexOf(pos)
         /\ p.isData = (IndexOf(pos) < DataShards)
         /\ p.number = BlockOf(pos) + IndexOf(pos)
         /\ p.base \in 0..Modulus - 1 /\ Aligned(p.base)
         /\ Offset(p.base) = BlockOf(pos)
         /\ p.seq \in 0..Modulus - 1
         /\ p.isData => p.seq = p.base + p.index
         /\ p.size \in {1, 2}
<1> DEFINE i == IndexOf(pos)
           b == BlockOf(pos)
           h == U16(mode.firstSeq + b)
<1>1. /\ p.pos = pos /\ p.index = i /\ p.isData = (i < DataShards)
      /\ p.number = b + i /\ p.seq = U16(h + i)
      /\ p.base = IF i < DataShards THEN fecBlockBase(U16(h + i)) ELSE h
      /\ p.size = IF pos \in OddSize THEN 2 ELSE 1
  BY DEF Packet, IndexOf, BlockOf
<1>2. b \in Nat /\ Aligned(b) /\ b + DataShards <= Numbers
      /\ i \in 0..TotalShards - 1
  BY PositionFacts
<1>3. /\ DataShards \in Nat \ {0} /\ TotalShards \in Nat
      /\ Modulus \in Nat \ {0} /\ Numbers \in Nat /\ 2 * Numbers < Modulus
  BY Sizes
<1>4. h \in 0..Modulus - 1 /\ Offset(h) = b
  BY <1>2, <1>3, OffsetOf, b \in 0..Modulus - 1
<1> HIDE DEF i, b, h
<1>5. Aligned(h)
  BY <1>2, <1>4, AlignedFacts
<1>6. i < DataShards => U16(h + i) = h + i /\ fecBlockBase(h + i) = h
  BY <1>2, <1>3, <1>4, <1>5, BaseFacts
<1>7. U16(h + i) \in 0..Modulus - 1
  BY <1>2, <1>3, <1>4, Wrap, h + i \in Int
<1> QED
  BY <1>1, <1>4, <1>5, <1>6, <1>7 DEF i, b

(***************************************************************************)
(* Sequences                                                               *)
(***************************************************************************)

(* A set of numbers has a smallest one.                                    *)
LEMMA Smallest ==
  ASSUME NEW S \in SUBSET Nat, S # {}
  PROVE  \E i \in S : \A j \in S : i <= j
<1> DEFINE R == OpToRel(<, Nat)
<1>1. IsWellFoundedOn(R, Nat)
  BY NatLessThanWellFounded
<1>2. \A x \in Nat, y \in Nat : <<y, x>> \in R <=> y < x
  BY DEF OpToRel
<1> HIDE DEF R
<1>3. PICK x \in S : \A y \in S : ~(<<y, x>> \in R)
  BY <1>1, WFMin
<1>4. ASSUME NEW y \in S
      PROVE  x <= y
  <2>1. x \in Nat /\ y \in Nat
    OBVIOUS
  <2>2. ~(y < x)
    BY <1>2, <1>3, <2>1
  <2> QED
    BY <2>1, <2>2
<1> QED
  BY <1>4

LEMMA InsertFacts ==
  ASSUME NEW S, NEW s \in Seq(S), NEW i \in 1..Len(s) + 1, NEW e \in S
  PROVE  /\ InsertAt(s, i, e) \in Seq(S)
         /\ Len(InsertAt(s, i, e)) = Len(s) + 1
         /\ \A j \in 1..Len(s) + 1 :
              InsertAt(s, i, e)[j] = IF j < i THEN s[j]
                                     ELSE IF j = i THEN e ELSE s[j - 1]
<1> DEFINE a == SubSeq(s, 1, i - 1)
           b == <<e>>
           c == SubSeq(s, i, Len(s))
<1>1. PICK n \in Nat : n = Len(s)
  BY LenProperties
<1>2. i \in Int /\ 1 <= i /\ i <= n + 1
  BY <1>1
<1>3. \A j \in 1..n : s[j] \in S
  BY <1>1, ElementOfSeq
<1>4. /\ a \in Seq(S) /\ Len(a) = i - 1
      /\ \A j \in 1..i - 1 : a[j] = s[j]
  BY <1>1, <1>2, <1>3, SubSeqProperties
<1>5. /\ c \in Seq(S) /\ Len(c) = n - i + 1
      /\ \A j \in 1..n - i + 1 : c[j] = s[i + j - 1]
  BY <1>1, <1>2, <1>3, SubSeqProperties
<1>6. b \in Seq(S) /\ Len(b) = 1 /\ b[1] = e
  OBVIOUS
<1>7. InsertAt(s, i, e) = (a \o b) \o c
  BY DEF InsertAt
<1> HIDE DEF a, b, c
<1>8. PICK d : d = a \o b
  OBVIOUS
<1>9. /\ d \in Seq(S) /\ Len(d) = i
      /\ \A j \in 1..i : d[j] = IF j < i THEN s[j] ELSE e
  <2>1. /\ d \in Seq(S) /\ Len(d) = Len(a) + Len(b)
        /\ \A j \in 1..Len(a) + Len(b) :
             d[j] = IF j <= Len(a) THEN a[j] ELSE b[j - Len(a)]
    BY <1>4, <1>6, <1>8, ConcatProperties
  <2>2. Len(a) + Len(b) = i
    BY <1>2, <1>4, <1>6
  <2> QED
    BY <1>2, <1>4, <1>6, <2>1, <2>2
<1>10. PICK t : t = d \o c
  OBVIOUS
<1>11. /\ t \in Seq(S) /\ Len(t) = Len(d) + Len(c)
       /\ \A j \in 1..Len(d) + Len(c) :
            t[j] = IF j <= Len(d) THEN d[j] ELSE c[j - Len(d)]
  BY <1>5, <1>9, <1>10, ConcatProperties
<1>12. Len(d) + Len(c) = n + 1
  BY <1>2, <1>5, <1>9
<1>13. ASSUME NEW j \in 1..n + 1
       PROVE  t[j] = IF j < i THEN s[j] ELSE IF j = i THEN e ELSE s[j - 1]
  <2>1. CASE j <= i
    BY <1>2, <1>9, <1>11, <1>12, <2>1
  <2>2. CASE j > i
    <3>1. t[j] = c[j - i]
      BY <1>2, <1>9, <1>11, <1>12, <2>2
    <3>2. PICK k \in 1..n - i + 1 : k = j - i
      BY <1>2, <2>2
    <3>3. c[k] = s[i + k - 1] /\ i + k - 1 = j - 1
      BY <1>2, <1>5, <3>2
    <3> QED
      BY <1>2, <2>2, <3>1, <3>2, <3>3
  <2> QED
    BY <1>2, <2>1, <2>2
<1> QED
  BY <1>1, <1>7, <1>8, <1>10, <1>11, <1>12, <1>13

(***************************************************************************)
(* The queue of FEC blocks                                                 *)
(***************************************************************************)

DataIndices == 0..DataShards - 1

FecBlocks ==
  [base : 0..Modulus - 1, size : {1, 2}, have : SUBSET (0..TotalShards - 1),
   dataReceived : 0..DataShards, fecReceived : 0..FecShards,
   fullyReassembled : BOOLEAN, nextIndex : 0..DataShards - 1,
   allowDiscontinuity : BOOLEAN]

Queues ==
  [blocks : Seq(FecBlocks), next : 0..Modulus - 1, oldest : 0..Modulus - 1,
   lastOos : 0..Modulus - 1, receivedOos : BOOLEAN, synchronizing : BOOLEAN,
   incompatible : BOOLEAN]

(* A block of the stream whose counters count what it has, until it is     *)
(* reassembled                                                             *)
BlockOK(b) ==
  /\ Aligned(b.base) /\ Offset(b.base) + DataShards <= Numbers
  /\ ~b.fullyReassembled =>
       /\ b.dataReceived = Cardinality(b.have \cap DataIndices)
       /\ b.fecReceived = Cardinality(b.have \ DataIndices)

(* The blocks are in the order of the stream, and only the first one is    *)
(* being handed out or given up.                                           *)
Ordered(bs) ==
  /\ \A i \in 1..Len(bs) : BlockOK(bs[i])
  /\ \A i, j \in 1..Len(bs) : i < j => Offset(bs[i].base) < Offset(bs[j].base)
  /\ \A i \in 2..Len(bs) : bs[i].nextIndex = 0 /\ ~bs[i].allowDiscontinuity

(* next is in the oldest block, which is the first one if any of it has    *)
(* been handed out, and none of the others is older.                       *)
Cursor(q) ==
  /\ Aligned(q.oldest) /\ Offset(q.oldest) <= Numbers
  /\ q.blocks = << >> => q.next = q.oldest
  /\ q.blocks # << >> =>
       /\ Offset(q.oldest) <= Offset(q.blocks[1].base)
       /\ Offset(q.next) = Offset(q.oldest) + q.blocks[1].nextIndex
       /\ q.blocks[1].nextIndex # 0 \/ q.blocks[1].allowDiscontinuity
            => q.blocks[1].base = q.oldest

WellFormed(q) == q \in Queues /\ Ordered(q.blocks) /\ Cursor(q)

(* No block is being given up.                                             *)
Settled(q) == \A i \in 1..Len(q.blocks) : ~q.blocks[i].allowDiscontinuity

(* Every shard in taken is in its block, or older than the oldest block.   *)
Keeps(q, taken) ==
  \A pos \in taken :
    \/ BlockOf(pos) < Offset(q.oldest)
    \/ \E i \in 1..Len(q.blocks) : /\ Offset(q.blocks[i].base) = BlockOf(pos)
                                   /\ IndexOf(pos) \in q.blocks[i].have

LEMMA QueueFields ==
  ASSUME NEW q \in Queues
  PROVE  /\ q.blocks \in Seq(FecBlocks) /\ Len(q.blocks) \in Nat
         /\ \A i \in 1..Len(q.blocks) : q.blocks[i] \in FecBlocks
         /\ q.blocks = << >> <=> Len(q.blocks) = 0
         /\ q.blocks # << >> => 1 \in 1..Len(q.blocks)
                                /\ Head(q.blocks) = q.blocks[1]
         /\ q.next \in 0..Modulus - 1 /\ q.oldest \in 0..Modulus - 1
         /\ q.synchronizing \in BOOLEAN /\ q.incompatible \in BOOLEAN
<1>1. q.blocks \in Seq(FecBlocks)
  BY DEF Queues
<1>2. Len(q.blocks) \in Nat /\ (q.blocks = << >> <=> Len(q.blocks) = 0)
  BY <1>1, LenProperties, EmptySeq
<1>3. \A i \in 1..Len(q.blocks) : q.blocks[i] \in FecBlocks
  BY <1>1, ElementOfSeq
<1>4. q.blocks # << >> => 1 \in 1..Len(q.blocks) /\ Head(q.blocks) = q.blocks[1]
  BY <1>1, <1>2
<1> QED
  BY <1>1, <1>2, <1>3, <1>4 DEF Queues

LEMMA BlockFields ==
  ASSUME NEW b \in FecBlocks
  PROVE  /\ b.base \in 0..Modulus - 1 /\ b.size \in {1, 2}
         /\ b.have \in SUBSET (0..TotalShards - 1)
         /\ b.dataReceived \in 0..DataShards /\ b.fecReceived \in 0..FecShards
         /\ b.fullyReassembled \in BOOLEAN
         /\ b.nextIndex \in 0..DataShards - 1
         /\ b.allowDiscontinuity \in BOOLEAN
BY DEF FecBlocks

(* The assertions of validateFecBlockState                                 *)
LEMMA WellFormedIsValid ==
  ASSUME mode \in Modes, NEW q, WellFormed(q)
  PROVE  validateFecBlockState(q)
<1>1. /\ q \in Queues /\ Ordered(q.blocks) /\ Cursor(q)
      /\ DataShards \in Nat \ {0} /\ Modulus \in Nat \ {0} /\ Numbers \in Nat
  BY Sizes DEF WellFormed
<1>2. /\ q.next \in 0..Modulus - 1 /\ q.oldest \in 0..Modulus - 1
      /\ Len(q.blocks) \in Nat
      /\ \A i \in 1..Len(q.blocks) : q.blocks[i].base \in 0..Modulus - 1
  BY <1>1, QueueFields, BlockFields
<1>3. \A i \in 1..Len(q.blocks) - 1 :
        isBefore16(q.blocks[i].base, q.blocks[i + 1].base)
  <2> SUFFICES ASSUME NEW i \in 1..Len(q.blocks) - 1
               PROVE  isBefore16(q.blocks[i].base, q.blocks[i + 1].base)
    OBVIOUS
  <2>1. i \in 1..Len(q.blocks) /\ i + 1 \in 1..Len(q.blocks) /\ i < i + 1
    BY <1>2
  <2>2. /\ BlockOK(q.blocks[i]) /\ BlockOK(q.blocks[i + 1])
        /\ Offset(q.blocks[i].base) < Offset(q.blocks[i + 1].base)
    BY <1>1, <2>1 DEF Ordered
  <2>3. /\ Offset(q.blocks[i].base) \in Int
        /\ Offset(q.blocks[i + 1].base) \in Int
    <3>1. PICK x \in 0..Modulus - 1, y \in 0..Modulus - 1 :
            x = q.blocks[i].base /\ y = q.blocks[i + 1].base
      BY <1>2, <2>1
    <3>2. Offset(x) \in Int /\ Offset(y) \in Int
      BY OffsetFacts
    <3> QED
      BY <3>1, <3>2
  <2>4. /\ Offset(q.blocks[i].base) <= Numbers
        /\ Offset(q.blocks[i + 1].base) <= Numbers
    BY <1>1, <2>2, <2>3 DEF BlockOK
  <2> QED
    BY <1>2, <2>1, <2>2, <2>4, Before
<1>4. Offset(q.oldest) \in Nat /\ Offset(q.next) \in Nat
  BY <1>1, <1>2, OffsetFacts
<1>5. CASE q.blocks = << >>
  <2>1. q.next = q.oldest /\ Offset(q.oldest) <= Numbers
    BY <1>1, <1>5 DEF Cursor
  <2>2. ~isBefore16(q.next, q.oldest)
    BY <1>2, <1>4, <2>1, Before
  <2> QED
    BY <1>3, <1>5, <2>2 DEF validateFecBlockState
<1>6. CASE q.blocks # << >>
  <2>1. PICK b : b = q.blocks[1]
    OBVIOUS
  <2>2. /\ b = Head(q.blocks) /\ b \in FecBlocks /\ BlockOK(b)
        /\ b.base \in 0..Modulus - 1 /\ b.nextIndex \in 0..DataShards - 1
    BY <1>1, <1>6, <2>1, QueueFields, BlockFields DEF Ordered
  <2>3. PICK o \in Nat, x \in Nat, n \in Nat :
          /\ o = Offset(q.oldest) /\ x = Offset(b.base) /\ n = Offset(q.next)
    BY <1>1, <1>4, <2>2, OffsetFacts
  <2>4. /\ o <= x /\ n = o + b.nextIndex /\ (b.nextIndex # 0 => x = o)
        /\ x + DataShards <= Numbers
    BY <1>1, <1>6, <2>1, <2>2, <2>3 DEF Cursor, BlockOK
  <2>5. n <= Numbers /\ o <= Numbers /\ x <= Numbers /\ n < x + DataShards
        /\ o <= n
    BY <1>1, <2>2, <2>4
  <2>6. ~isBefore16(q.next, q.oldest) /\ ~isBefore16(b.base, q.oldest)
    <3>1. /\ isBefore16(q.next, q.oldest) <=> n < o
          /\ isBefore16(b.base, q.oldest) <=> x < o
      BY <1>2, <2>2, <2>3, <2>5, Before
    <3> QED
      BY <2>4, <2>5, <3>1
  <2>7. isBefore16(q.next, b.base + DataShards)
    <3> DEFINE z == b.base + DataShards
    <3>1. PICK t \in 0..Modulus - 1 : t = U16(z)
      BY <1>1, <2>2, Wrap, z \in Int
    <3>2. Offset(t) = x + DataShards
      BY <1>1, <2>2, <2>3, <2>4, <3>1, BaseFacts, DataShards \in 0..DataShards
         DEF BlockOK
    <3>3. isBefore16(q.next, t)
      BY <1>1, <1>2, <2>3, <2>4, <2>5, <3>2, Before
    <3>4. z \in Int /\ 0 <= z /\ z <= Modulus
      BY <1>1, <2>2, BaseFacts DEF BlockOK
    <3> HIDE DEF z
    <3>5. t = z \/ t = z - Modulus
      BY <1>1, <3>1, <3>4, Wrap
    <3>6. PICK y \in Int : y = q.next - t
      BY <1>1, <1>2
    <3>7. q.next - z = y \/ q.next - z = y - Modulus
      BY <1>1, <1>2, <3>4, <3>5, <3>6
    <3>8. U16(y - Modulus) = U16(y)
      BY Wrap
    <3>9. isBefore16(q.next, z)
      BY <3>3, <3>6, <3>7, <3>8 DEF isBefore16
    <3> QED
      BY <3>9 DEF z
  <2> QED
    BY <1>3, <2>2, <2>6, <2>7 DEF validateFecBlockState
<1> QED
  BY <1>5, <1>6

(* What two queues share that differ only in what came out of sequence     *)
SameBlocks(q, r) ==
  /\ r.blocks = q.blocks /\ r.next = q.next /\ r.oldest = q.oldest
  /\ r.synchronizing = q.synchronizing /\ r.incompatible = q.incompatible

LEMMA SequenceSeenFacts ==
  ASSUME NEW q \in Queues, NEW seq \in 0..Modulus - 1, NEW r,
         r = SequenceSeen(q, seq)
  PROVE  r \in Queues /\ SameBlocks(q, r)
<1>1. \/ r = [q EXCEPT !.lastOos = seq, !.receivedOos = TRUE]
      \/ r = [q EXCEPT !.receivedOos = @ /\ ~isBefore16(q.oldest, q.lastOos)]
  BY DEF SequenceSeen
<1>2. isBefore16(q.oldest, q.lastOos) \in BOOLEAN
  BY DEF isBefore16
<1>3. CASE r = [q EXCEPT !.lastOos = seq, !.receivedOos = TRUE]
  BY <1>3 DEF Queues, SameBlocks
<1>4. CASE r = [q EXCEPT !.receivedOos =
                           @ /\ ~isBefore16(q.oldest, q.lastOos)]
  BY <1>2, <1>4 DEF Queues, SameBlocks
<1> QED
  BY <1>1, <1>3, <1>4

LEMMA SameBlocksFacts ==
  ASSUME NEW q, NEW r \in Queues, SameBlocks(q, r), NEW taken
  PROVE  /\ WellFormed(q) => WellFormed(r)
         /\ Settled(q) => Settled(r)
         /\ Keeps(q, taken) => Keeps(r, taken)
BY DEF SameBlocks, WellFormed, Cursor, Settled, Keeps

LEMMA BlockAtFacts ==
  ASSUME NEW q, NEW base, HasBlock(q, base)
  PROVE  /\ BlockAt(q, base) \in 1..Len(q.blocks)
         /\ q.blocks[BlockAt(q, base)].base = base
BY DEF HasBlock, BlockAt

(* A block is in the list once.                                            *)
LEMMA OneBlock ==
  ASSUME mode \in Modes, NEW q, WellFormed(q), NEW i \in 1..Len(q.blocks),
         NEW j \in 1..Len(q.blocks), q.blocks[i].base = q.blocks[j].base
  PROVE  i = j
<1>1. q \in Queues /\ Ordered(q.blocks)
  BY DEF WellFormed
<1>2. Offset(q.blocks[i].base) \in Int /\ Offset(q.blocks[j].base) \in Int
  BY <1>1, QueueFields, BlockFields, OffsetFacts
<1>3. i \in Int /\ j \in Int
  BY <1>1, QueueFields
<1>4. ~(i < j) /\ ~(j < i)
  BY <1>1, <1>2 DEF Ordered
<1> QED
  BY <1>3, <1>4

(* The oldest block, if it is there, is the first one.                     *)
LEMMA OldestIsFirst ==
  ASSUME mode \in Modes, NEW q, WellFormed(q), HasBlock(q, q.oldest)
  PROVE  BlockAt(q, q.oldest) = 1
<1> DEFINE i == BlockAt(q, q.oldest)
<1>1. q \in Queues /\ Ordered(q.blocks) /\ Cursor(q)
  BY DEF WellFormed
<1>2. /\ i \in 1..Len(q.blocks) /\ q.blocks[i].base = q.oldest
      /\ Len(q.blocks) \in Nat
  BY <1>1, BlockAtFacts, QueueFields
<1> HIDE DEF i
<1>3. 1 \in 1..Len(q.blocks) /\ q.blocks # << >>
  BY <1>1, <1>2, QueueFields
<1>4. Offset(q.blocks[1].base) \in Int /\ Offset(q.oldest) \in Int
  BY <1>1, <1>3, QueueFields, BlockFields, OffsetFacts
<1>5. Offset(q.oldest) <= Offset(q.blocks[1].base)
  BY <1>1, <1>3 DEF Cursor
<1>6. ~(1 < i)
  BY <1>1, <1>2, <1>3, <1>4, <1>5 DEF Ordered
<1> QED
  BY <1>2, <1>6 DEF i

(* A block is replaced by one that knows more.                             *)
LEMMA UpdateFacts ==
  ASSUME NEW q, WellFormed(q), NEW i \in 1..Len(q.blocks), NEW b \in FecBlocks,
         BlockOK(b), b.base = q.blocks[i].base,
         b.nextIndex = q.blocks[i].nextIndex,
         b.allowDiscontinuity = q.blocks[i].allowDiscontinuity,
         q.blocks[i].have \subseteq b.have,
         NEW r, r = [q EXCEPT !.blocks = [@ EXCEPT ![i] = b]]
  PROVE  /\ WellFormed(r)
         /\ Settled(q) => Settled(r)
         /\ \A taken : Keeps(q, taken) => Keeps(r, taken)
         /\ Len(r.blocks) = Len(q.blocks)
         /\ \A j \in 1..Len(q.blocks) :
              r.blocks[j] = IF j = i THEN b ELSE q.blocks[j]
         /\ r.next = q.next /\ r.oldest = q.oldest
         /\ r.synchronizing = q.synchronizing
         /\ r.incompatible = q.incompatible
<1>1. q \in Queues /\ Ordered(q.blocks) /\ Cursor(q)
  BY DEF WellFormed
<1>2. PICK s \in Seq(FecBlocks) : s = q.blocks
  BY <1>1, QueueFields
<1>3. PICK t : t = [s EXCEPT ![i] = b]
  OBVIOUS
<1>4. /\ t \in Seq(FecBlocks) /\ Len(t) = Len(s)
      /\ \A j \in 1..Len(s) : t[j] = IF j = i THEN b ELSE s[j]
  BY <1>2, <1>3, ExceptSeq
<1>5. r = [q EXCEPT !.blocks = t]
  BY <1>2, <1>3
<1>6. /\ r.blocks = t /\ r.next = q.next /\ r.oldest = q.oldest
      /\ r.synchronizing = q.synchronizing /\ r.incompatible = q.incompatible
      /\ r \in Queues
  BY <1>1, <1>4, <1>5 DEF Queues
<1>7. Len(s) \in Nat /\ (s = << >> <=> Len(s) = 0) /\ (t = << >> <=> Len(t) = 0)
  BY <1>2, <1>4, LenProperties, EmptySeq
<1>8. \A j \in 1..Len(s) : /\ t[j].base = s[j].base
                           /\ t[j].nextIndex = s[j].nextIndex
                           /\ t[j].allowDiscontinuity = s[j].allowDiscontinuity
                           /\ s[j].have \subseteq t[j].have
  BY <1>2, <1>4
<1>9. Ordered(t)
  <2>1. \A j \in 1..Len(t) : BlockOK(t[j])
    BY <1>1, <1>2, <1>4 DEF Ordered
  <2>2. \A j, k \in 1..Len(t) : j < k => Offset(t[j].base) < Offset(t[k].base)
    BY <1>1, <1>2, <1>4, <1>8 DEF Ordered
  <2>3. \A j \in 2..Len(t) : t[j].nextIndex = 0 /\ ~t[j].allowDiscontinuity
    <3> SUFFICES ASSUME NEW j \in 2..Len(t)
                 PROVE  t[j].nextIndex = 0 /\ ~t[j].allowDiscontinuity
      OBVIOUS
    <3>1. j \in 2..Len(s) /\ j \in 1..Len(s)
      BY <1>4, <1>7
    <3> QED
      BY <1>1, <1>2, <1>8, <3>1 DEF Ordered
  <2> QED
    BY <2>1, <2>2, <2>3 DEF Ordered
<1>10. Cursor(r)
  <2>1. q.blocks # << >> => 1 \in 1..Len(s)
    BY <1>2, <1>7
  <2>2. q.blocks = << >> <=> r.blocks = << >>
    BY <1>2, <1>4, <1>6, <1>7
  <2> QED
    BY <1>1, <1>2, <1>6, <1>8, <2>1, <2>2 DEF Cursor
<1>11. Settled(q) => Settled(r)
  BY <1>2, <1>4, <1>6, <1>8 DEF Settled
<1>12. ASSUME NEW taken, Keeps(q, taken)
       PROVE  Keeps(r, taken)
  <2> SUFFICES ASSUME NEW pos \in taken
               PROVE  \/ BlockOf(pos) < Offset(r.oldest)
                      \/ \E j \in 1..Len(r.blocks) :
                           /\ Offset(r.blocks[j].base) = BlockOf(pos)
                           /\ IndexOf(pos) \in r.blocks[j].have
    BY DEF Keeps
  <2>1. \/ BlockOf(pos) < Offset(q.oldest)
        \/ \E j \in 1..Len(s) : /\ Offset(s[j].base) = BlockOf(pos)
                                /\ IndexOf(pos) \in s[j].have
    BY <1>2, <1>12 DEF Keeps
  <2> QED
    BY <1>4, <1>6, <1>8, <2>1
<1> QED
  BY <1>2, <1>4, <1>6, <1>9, <1>10, <1>11, <1>12 DEF WellFormed

(* A new block goes between the older and the newer ones.                  *)
LEMMA PlaceFacts ==
  ASSUME mode \in Modes, NEW q, WellFormed(q), NEW base \in 0..Modulus - 1,
         Offset(base) <= Numbers, ~HasBlock(q, base)
  PROVE  /\ PlaceFor(q, base) \in 1..Len(q.blocks) + 1
         /\ \A j \in 1..Len(q.blocks) :
              IF j < PlaceFor(q, base)
                THEN Offset(q.blocks[j].base) < Offset(base)
                ELSE Offset(base) < Offset(q.blocks[j].base)
<1> DEFINE after ==
             {i \in 1..Len(q.blocks) : isBefore16(base, q.blocks[i].base)}
<1>1. q \in Queues /\ Ordered(q.blocks) /\ Len(q.blocks) \in Nat
  BY QueueFields DEF WellFormed
<1>2. Offset(base) \in Int
  BY OffsetFacts
<1>3. ASSUME NEW j \in 1..Len(q.blocks)
      PROVE  /\ Offset(q.blocks[j].base) \in Int
             /\ j \in after <=> Offset(base) < Offset(q.blocks[j].base)
             /\ Offset(q.blocks[j].base) # Offset(base)
  <2>1. q.blocks[j].base \in 0..Modulus - 1 /\ BlockOK(q.blocks[j])
    BY <1>1, QueueFields, BlockFields DEF Ordered
  <2>2. Offset(q.blocks[j].base) \in Int
    BY <2>1, OffsetFacts
  <2>3. Offset(q.blocks[j].base) <= Numbers
    BY <2>1, <2>2, Sizes DEF BlockOK
  <2>4. isBefore16(base, q.blocks[j].base)
          <=> Offset(base) < Offset(q.blocks[j].base)
    BY <2>1, <2>3, Before
  <2>5. q.blocks[j].base # base
    BY DEF HasBlock
  <2>6. Offset(q.blocks[j].base) # Offset(base)
    BY <2>1, <2>5, SameOffset
  <2> QED
    BY <2>2, <2>4, <2>6
<1>4. PlaceFor(q, base) = IF after = {} THEN Len(q.blocks) + 1
                          ELSE CHOOSE i \in after : \A j \in after : i <= j
  BY DEF PlaceFor
<1>5. after \in SUBSET Nat /\ after \subseteq 1..Len(q.blocks)
  BY <1>1
<1> HIDE DEF after
<1>6. CASE after = {}
  BY <1>1, <1>2, <1>3, <1>4, <1>6
<1>7. CASE after # {}
  <2>1. \E i \in after : \A j \in after : i <= j
    BY <1>5, <1>7, Smallest
  <2>2. PICK m : m = PlaceFor(q, base)
    OBVIOUS
  <2>3. m \in after /\ \A j \in after : m <= j
    BY <1>4, <1>7, <2>1, <2>2
  <2>4. m \in 1..Len(q.blocks)
    BY <1>5, <2>3
  <2>5. ASSUME NEW j \in 1..Len(q.blocks)
        PROVE  IF j < m THEN Offset(q.blocks[j].base) < Offset(base)
                        ELSE Offset(base) < Offset(q.blocks[j].base)
    <3>1. CASE j < m
      <4>1. j \notin after
        BY <1>1, <2>3, <2>4, <3>1
      <4> QED
        BY <1>2, <1>3, <3>1, <4>1
    <3>2. CASE j = m
      BY <1>3, <2>3, <3>2
    <3>3. CASE m < j
      <4>1. Offset(q.blocks[m].base) < Offset(q.blocks[j].base)
        BY <1>1, <2>4, <3>3 DEF Ordered
      <4>2. Offset(base) < Offset(q.blocks[m].base)
        BY <1>3, <2>3, <2>4
      <4> QED
        BY <1>2, <1>3, <2>4, <3>3, <4>1, <4>2
    <3> QED
      BY <1>1, <2>4, <3>1, <3>2, <3>3
  <2> QED
    BY <1>1, <2>2, <2>4, <2>5
<1> QED
  BY <1>6, <1>7

(* A fresh block of the stream                                             *)
LEMMA FreshBlock ==
  ASSUME mode \in Modes, NEW base \in 0..Modulus - 1, Aligned(base),
         Offset(base) + DataShards <= Numbers, NEW size \in {1, 2}
  PROVE  /\ FecBlock(base, size) \in FecBlocks
         /\ BlockOK(FecBlock(base, size))
         /\ FecBlock(base, size).base = base
         /\ FecBlock(base, size).size = size
         /\ FecBlock(base, size).have = {}
         /\ FecBlock(base, size).nextIndex = 0
         /\ ~FecBlock(base, size).allowDiscontinuity
         /\ ~FecBlock(base, size).fullyReassembled
<1>1. DataShards \in Nat \ {0} /\ FecShards \in Nat \ {0}
  BY Sizes
<1>2. FecBlock(base, size) \in FecBlocks
  BY <1>1 DEF FecBlock, FecBlocks
<1>3. {} \cap DataIndices = {} /\ {} \ DataIndices = {}
  OBVIOUS
<1>4. Cardinality({} \cap DataIndices) = 0 /\ Cardinality({} \ DataIndices) = 0
  BY <1>3, FS_EmptySet
<1> QED
  BY <1>2, <1>4 DEF FecBlock, BlockOK

(* getFecBlockForRtpPacket                                                 *)
LEMMA WithBlockFacts ==
  ASSUME mode \in Modes, NEW q, WellFormed(q), NEW base \in 0..Modulus - 1,
         Aligned(base), Offset(q.oldest) <= Offset(base),
         Offset(base) + DataShards <= Numbers, NEW size \in {1, 2},
         NEW r, r = WithBlock(q, base, size)
  PROVE  /\ WellFormed(r) /\ HasBlock(r, base)
         /\ Settled(q) => Settled(r)
         /\ \A taken : Keeps(q, taken) => Keeps(r, taken)
         /\ r.next = q.next /\ r.oldest = q.oldest
         /\ r.synchronizing = q.synchronizing
         /\ r.incompatible = q.incompatible
         /\ HasBlock(q, base) => r = q
         /\ ~HasBlock(q, base) =>
              r.blocks[BlockAt(r, base)] = FecBlock(base, size)
<1>1. CASE HasBlock(q, base)
  BY <1>1 DEF WithBlock
<1>2. CASE ~HasBlock(q, base)
  <2>1. q \in Queues /\ Ordered(q.blocks) /\ Cursor(q)
    BY DEF WellFormed
  <2>2. PICK s \in Seq(FecBlocks) : s = q.blocks
    BY <2>1, QueueFields
  <2>3. PICK L \in Nat : L = Len(s)
    BY LenProperties
  <2>4. Offset(base) \in Nat /\ Offset(base) <= Numbers
    BY OffsetFacts, Sizes
  <2>5. PICK k : k = PlaceFor(q, base)
    OBVIOUS
  <2>6. /\ k \in 1..L + 1
        /\ \A j \in 1..L : IF j < k THEN Offset(s[j].base) < Offset(base)
                                    ELSE Offset(base) < Offset(s[j].base)
    BY <1>2, <2>2, <2>3, <2>4, <2>5, PlaceFacts
  <2>7. PICK e : e = FecBlock(base, size)
    OBVIOUS
  <2>8. /\ e \in FecBlocks /\ BlockOK(e) /\ e.base = base /\ e.nextIndex = 0
        /\ ~e.allowDiscontinuity
    BY <2>7, FreshBlock
  <2>9. PICK t : t = InsertAt(s, k, e)
    OBVIOUS
  <2>10. /\ t \in Seq(FecBlocks) /\ Len(t) = L + 1
         /\ \A j \in 1..L + 1 : t[j] = IF j < k THEN s[j]
                                       ELSE IF j = k THEN e ELSE s[j - 1]
    BY <2>3, <2>6, <2>8, <2>9, InsertFacts
  <2>11. r = [q EXCEPT !.blocks = t]
    BY <1>2, <2>2, <2>5, <2>7, <2>9 DEF WithBlock
  <2>12. /\ r.blocks = t /\ r.next = q.next /\ r.oldest = q.oldest
         /\ r.synchronizing = q.synchronizing
         /\ r.incompatible = q.incompatible /\ r \in Queues
    BY <2>1, <2>10, <2>11 DEF Queues
  <2>13. Ordered(t)
    <3>1. \A j \in 1..L + 1 : BlockOK(t[j])
      <4> SUFFICES ASSUME NEW j \in 1..L + 1
                   PROVE  BlockOK(t[j])
        OBVIOUS
      <4>1. CASE j < k
        BY <2>1, <2>2, <2>3, <2>6, <2>10, <4>1 DEF Ordered
      <4>2. CASE j = k
        BY <2>8, <2>10, <4>2
      <4>3. CASE j > k
        <5>1. j - 1 \in 1..L /\ t[j] = s[j - 1]
          BY <2>6, <2>10, <4>3
        <5> QED
          BY <2>1, <2>2, <2>3, <5>1 DEF Ordered
      <4> QED
        BY <2>6, <4>1, <4>2, <4>3
    <3>2. ASSUME NEW i \in 1..L + 1, NEW j \in 1..L + 1, i < j
          PROVE  Offset(t[i].base) < Offset(t[j].base)
      <4>1. \A m, n \in 1..L : m < n => Offset(s[m].base) < Offset(s[n].base)
        BY <2>1, <2>2, <2>3 DEF Ordered
      <4>2. CASE j < k
        BY <2>6, <2>10, <3>2, <4>1, <4>2
      <4>3. CASE j = k
        BY <2>6, <2>8, <2>10, <3>2, <4>3
      <4>4. CASE k < j
        <5>1. j - 1 \in 1..L /\ t[j] = s[j - 1]
          BY <2>6, <2>10, <4>4
        <5>2. CASE i < k
          BY <2>6, <2>10, <4>1, <4>4, <5>1, <5>2
        <5>3. CASE i = k
          BY <2>6, <2>8, <2>10, <3>2, <5>1, <5>3
        <5>4. CASE k < i
          <6>1. i - 1 \in 1..L /\ t[i] = s[i - 1] /\ i - 1 < j - 1
            BY <2>6, <2>10, <3>2, <5>4
          <6> QED
            BY <4>1, <5>1, <6>1
        <5> QED
          BY <2>6, <5>2, <5>3, <5>4
      <4> QED
        BY <2>6, <4>2, <4>3, <4>4
    <3>3. ASSUME NEW j \in 2..L + 1
          PROVE  t[j].nextIndex = 0 /\ ~t[j].allowDiscontinuity
      <4>1. \A m \in 2..L : s[m].nextIndex = 0 /\ ~s[m].allowDiscontinuity
        BY <2>1, <2>2, <2>3 DEF Ordered
      <4>2. CASE j < k
        BY <2>6, <2>10, <4>1, <4>2
      <4>3. CASE j = k
        BY <2>8, <2>10, <4>3
      <4>4. CASE k < j
        <5>1. t[j] = s[j - 1] /\ j - 1 \in 1..L
          BY <2>6, <2>10, <4>4
        <5>2. CASE j - 1 # 1
          BY <4>1, <5>1, <5>2
        <5>3. CASE j - 1 = 1
          <6>1. k = 1 /\ 1 \in 1..L
            BY <2>3, <2>6, <4>4, <5>1, <5>3
          <6>2. Offset(base) < Offset(s[1].base)
            BY <2>6, <6>1
          <6>3. s[1].base \in 0..Modulus - 1
            BY <2>1, <2>2, <2>3, <6>1, QueueFields, BlockFields
          <6>4. Offset(s[1].base) \in Nat /\ Offset(q.oldest) \in Nat
            <7>1. PICK x \in 0..Modulus - 1, y \in 0..Modulus - 1 :
                    x = s[1].base /\ y = q.oldest
              BY <2>1, <6>3, QueueFields
            <7>2. Offset(x) \in Nat /\ Offset(y) \in Nat
              BY OffsetFacts
            <7> QED
              BY <7>1, <7>2
          <6>5. s[1].base # q.oldest
            BY <2>4, <6>2, <6>4
          <6>6. s # << >>
            BY <2>3, <6>1
          <6>7. s[1].nextIndex = 0 /\ ~s[1].allowDiscontinuity
            BY <2>1, <2>2, <6>5, <6>6 DEF Cursor
          <6> QED
            BY <5>1, <5>3, <6>7
        <5> QED
          BY <5>2, <5>3
      <4> QED
        BY <2>6, <4>2, <4>3, <4>4
    <3> QED
      BY <2>10, <3>1, <3>2, <3>3 DEF Ordered
  <2>14. t # << >> /\ 1 \in 1..L + 1
    BY <2>3, <2>10
  <2>15. Cursor(r)
    <3>1. CASE k = 1
      <4>1. t[1] = e
        BY <2>10, <2>14, <3>1
      <4>2. q.next = q.oldest
        <5>1. CASE s = << >>
          BY <2>1, <2>2, <5>1 DEF Cursor
        <5>2. CASE s # << >>
          <6>1. 1 \in 1..L
            BY <2>1, <2>2, <2>3, <5>2, QueueFields
          <6>2. Offset(base) < Offset(s[1].base)
            BY <2>6, <3>1, <6>1
          <6>3. /\ s[1].base \in 0..Modulus - 1
                /\ s[1].nextIndex \in 0..DataShards - 1
            BY <2>1, <2>2, <2>3, <6>1, QueueFields, BlockFields
          <6>4. Offset(s[1].base) \in Nat /\ Offset(q.oldest) \in Nat
            <7>1. PICK x \in 0..Modulus - 1, y \in 0..Modulus - 1 :
                    x = s[1].base /\ y = q.oldest
              BY <2>1, <6>3, QueueFields
            <7>2. Offset(x) \in Nat /\ Offset(y) \in Nat
              BY OffsetFacts
            <7> QED
              BY <7>1, <7>2
          <6>5. s[1].base # q.oldest
            BY <2>4, <6>2, <6>4
          <6>6. /\ s[1].nextIndex = 0
                /\ Offset(q.next) = Offset(q.oldest) + s[1].nextIndex
            BY <2>1, <2>2, <5>2, <6>5 DEF Cursor
          <6>7. Offset(q.next) = Offset(q.oldest)
            BY <6>4, <6>6
          <6> QED
            BY <2>1, <6>7, SameOffset, QueueFields
        <5> QED
          BY <5>1, <5>2
      <4>3. Offset(q.next) = Offset(q.oldest) + 0
        BY <2>1, <4>2, OffsetFacts, QueueFields
      <4> QED
        BY <2>1, <2>8, <2>12, <2>14, <4>1, <4>3 DEF Cursor
    <3>2. CASE k # 1
      <4>1. 1 < k /\ 1 \in 1..L /\ t[1] = s[1]
        BY <2>3, <2>6, <2>10, <2>14, <3>2
      <4>2. s # << >>
        BY <2>3, <4>1
      <4> QED
        BY <2>1, <2>2, <2>12, <2>14, <4>1, <4>2 DEF Cursor
    <3> QED
      BY <3>1, <3>2
  <2>16. k \in 1..Len(t) /\ t[k] = e
    BY <2>6, <2>10
  <2>17. WellFormed(r)
    BY <2>12, <2>13, <2>15 DEF WellFormed
  <2>18. HasBlock(r, base)
    BY <2>8, <2>12, <2>16 DEF HasBlock
  <2>19. r.blocks[BlockAt(r, base)] = e
    <3>1. /\ BlockAt(r, base) \in 1..Len(r.blocks)
          /\ r.blocks[BlockAt(r, base)].base = base
      BY <2>18, BlockAtFacts
    <3>2. r.blocks[k].base = base /\ k \in 1..Len(r.blocks)
      BY <2>8, <2>12, <2>16
    <3>3. BlockAt(r, base) = k
      BY <2>17, <3>1, <3>2, OneBlock
    <3> QED
      BY <2>12, <2>16, <3>3
  <2>20. \A j \in 1..L : \E i \in 1..L + 1 : t[i] = s[j]
    <3> SUFFICES ASSUME NEW j \in 1..L
                 PROVE  \E i \in 1..L + 1 : t[i] = s[j]
      OBVIOUS
    <3>1. CASE j < k
      BY <2>6, <2>10, <3>1
    <3>2. CASE k <= j
      <4>1. PICK i \in 1..L + 1 : i = j + 1
        OBVIOUS
      <4>2. t[i] = s[j]
        BY <2>6, <2>10, <3>2, <4>1
      <4> QED
        BY <4>2
    <3> QED
      BY <2>6, <3>1, <3>2
  <2>21. \A i \in 1..L + 1 : t[i] = e \/ \E j \in 1..L : t[i] = s[j]
    <3> SUFFICES ASSUME NEW i \in 1..L + 1, i # k
                 PROVE  \E j \in 1..L : t[i] = s[j]
      BY <2>10
    <3>1. CASE i < k
      BY <2>6, <2>10, <3>1
    <3>2. CASE k < i
      <4>1. i - 1 \in 1..L /\ t[i] = s[i - 1]
        BY <2>6, <2>10, <3>2
      <4> QED
        BY <4>1
    <3> QED
      BY <2>6, <3>1, <3>2
  <2>22. ASSUME Settled(q)
         PROVE  Settled(r)
    <3>1. \A j \in 1..L : ~s[j].allowDiscontinuity
      BY <2>2, <2>3, <2>22 DEF Settled
    <3>2. \A i \in 1..L + 1 : ~t[i].allowDiscontinuity
      BY <2>8, <2>21, <3>1
    <3> QED
      BY <2>10, <2>12, <3>2 DEF Settled
  <2>23. ASSUME NEW taken, Keeps(q, taken)
         PROVE  Keeps(r, taken)
    <3> SUFFICES ASSUME NEW pos \in taken
                 PROVE  \/ BlockOf(pos) < Offset(r.oldest)
                        \/ \E j \in 1..Len(r.blocks) :
                             /\ Offset(r.blocks[j].base) = BlockOf(pos)
                             /\ IndexOf(pos) \in r.blocks[j].have
      BY DEF Keeps
    <3>1. \/ BlockOf(pos) < Offset(q.oldest)
          \/ \E j \in 1..L : /\ Offset(s[j].base) = BlockOf(pos)
                             /\ IndexOf(pos) \in s[j].have
      BY <2>2, <2>3, <2>23 DEF Keeps
    <3> QED
      BY <2>10, <2>12, <2>20, <3>1
  <2> QED
    BY <1>2, <2>7, <2>12, <2>17, <2>18, <2>19, <2>22, <2>23
<1> QED
  BY <1>1, <1>2

(* Counting the shards of a block, the data shards and the parity shards   *)
LEMMA Counts ==
  ASSUME NEW have \in SUBSET (0..TotalShards - 1)
  PROVE  /\ Cardinality(have \cap DataIndices) \in 0..DataShards
         /\ Cardinality(have \ DataIndices) \in 0..FecShards
<1>1. /\ DataShards \in Nat \ {0} /\ FecShards \in Nat \ {0}
      /\ TotalShards = DataShards + FecShards
  BY Sizes
<1>2. IsFiniteSet(DataIndices) /\ Cardinality(DataIndices) = DataShards
  BY <1>1, FS_Interval DEF DataIndices
<1>3. PICK F : F = DataShards..TotalShards - 1
  OBVIOUS
<1>4. IsFiniteSet(F) /\ Cardinality(F) = FecShards
  BY <1>1, <1>3, FS_Interval
<1>5. have \cap DataIndices \subseteq DataIndices
  OBVIOUS
<1>6. have \ DataIndices \subseteq F
  BY <1>1, <1>3 DEF DataIndices
<1>7. /\ IsFiniteSet(have \cap DataIndices)
      /\ Cardinality(have \cap DataIndices) <= DataShards
  BY <1>2, <1>5, FS_Subset
<1>8. /\ IsFiniteSet(have \ DataIndices)
      /\ Cardinality(have \ DataIndices) <= FecShards
  BY <1>4, <1>6, FS_Subset
<1>9. /\ Cardinality(have \cap DataIndices) \in Nat
      /\ Cardinality(have \ DataIndices) \in Nat
  BY <1>7, <1>8, FS_CardinalityType
<1> QED
  BY <1>1, <1>7, <1>8, <1>9

LEMMA OneMore ==
  ASSUME NEW have \in SUBSET (0..TotalShards - 1),
         NEW index \in 0..TotalShards - 1, index \notin have,
         NEW c, c = have \cup {index}
  PROVE  /\ index < DataShards =>
              /\ Cardinality(c \cap DataIndices) =
                   Cardinality(have \cap DataIndices) + 1
              /\ Cardinality(c \ DataIndices) =
                   Cardinality(have \ DataIndices)
         /\ ~(index < DataShards) =>
              /\ Cardinality(c \cap DataIndices) =
                   Cardinality(have \cap DataIndices)
              /\ Cardinality(c \ DataIndices) =
                   Cardinality(have \ DataIndices) + 1
<1> DEFINE d == have \cap DataIndices
           f == have \ DataIndices
<1>1. DataShards \in Nat /\ TotalShards \in Nat
  BY Sizes
<1>2. IsFiniteSet(have)
  <2>1. IsFiniteSet(0..TotalShards - 1)
    BY <1>1, FS_Interval, 0 \in Int, TotalShards - 1 \in Int
  <2> QED
    BY <2>1, FS_Subset
<1>3. IsFiniteSet(d) /\ IsFiniteSet(f)
  BY <1>2, FS_Subset, d \subseteq have, f \subseteq have
<1>4. index \notin d /\ index \notin f
  OBVIOUS
<1>5. ASSUME index < DataShards
      PROVE  /\ Cardinality(c \cap DataIndices) = Cardinality(d) + 1
             /\ Cardinality(c \ DataIndices) = Cardinality(f)
  <2>1. c \cap DataIndices = d \cup {index} /\ c \ DataIndices = f
    BY <1>1, <1>5 DEF DataIndices
  <2>2. Cardinality(d \cup {index}) = Cardinality(d) + 1
    BY <1>3, <1>4, FS_AddElement
  <2> HIDE DEF d, f
  <2> QED
    BY <2>1, <2>2, Zenon
<1>6. ASSUME ~(index < DataShards)
      PROVE  /\ Cardinality(c \cap DataIndices) = Cardinality(d)
             /\ Cardinality(c \ DataIndices) = Cardinality(f) + 1
  <2>1. c \cap DataIndices = d /\ c \ DataIndices = f \cup {index}
    BY <1>1, <1>6 DEF DataIndices
  <2>2. Cardinality(f \cup {index}) = Cardinality(f) + 1
    BY <1>3, <1>4, FS_AddElement
  <2> HIDE DEF d, f
  <2> QED
    BY <2>1, <2>2, Zenon
<1> QED
  BY <1>5, <1>6, Zenon

LEMMA StoredFacts ==
  ASSUME mode \in Modes, NEW q, WellFormed(q), NEW base, HasBlock(q, base),
         NEW b, b = q.blocks[BlockAt(q, base)],
         NEW index \in 0..TotalShards - 1, index \notin b.have,
         ~b.fullyReassembled,
         NEW r, r = Stored(q, base, index)
  PROVE  /\ WellFormed(r) /\ HasBlock(r, base)
         /\ BlockAt(r, base) = BlockAt(q, base)
         /\ r.blocks[BlockAt(r, base)].have = b.have \cup {index}
         /\ Settled(q) => Settled(r)
         /\ \A taken : Keeps(q, taken) => Keeps(r, taken)
         /\ r.next = q.next /\ r.oldest = q.oldest
         /\ r.synchronizing = q.synchronizing
         /\ r.incompatible = q.incompatible
<1>1. PICK i : i = BlockAt(q, base)
  OBVIOUS
<1>2. /\ i \in 1..Len(q.blocks) /\ q.blocks[i] = b /\ b.base = base
  BY <1>1, BlockAtFacts
<1>3. b \in FecBlocks /\ BlockOK(b)
  BY <1>2, QueueFields DEF WellFormed, Ordered
<1>4. PICK c : c = b.have \cup {index}
  OBVIOUS
<1>5. PICK e : e = [q.blocks[i] EXCEPT !.have = @ \cup {index},
             !.dataReceived = IF index < DataShards THEN @ + 1 ELSE @,
             !.fecReceived = IF index < DataShards THEN @ ELSE @ + 1]
  OBVIOUS
<1>6. /\ b.have \in SUBSET (0..TotalShards - 1)
      /\ b.dataReceived \in 0..DataShards /\ b.fecReceived \in 0..FecShards
  BY <1>3, BlockFields
<1>7. /\ b.dataReceived = Cardinality(b.have \cap DataIndices)
      /\ b.fecReceived = Cardinality(b.have \ DataIndices)
  BY <1>3 DEF BlockOK
<1>8. c \in SUBSET (0..TotalShards - 1)
  BY <1>4, <1>6
<1>9. PICK m, n : /\ m = Cardinality(c \cap DataIndices)
                  /\ n = Cardinality(c \ DataIndices)
  OBVIOUS
<1>10. m \in 0..DataShards /\ n \in 0..FecShards
  BY <1>8, <1>9, Counts
<1>11. /\ m = IF index < DataShards THEN b.dataReceived + 1
                                    ELSE b.dataReceived
       /\ n = IF index < DataShards THEN b.fecReceived ELSE b.fecReceived + 1
  <2>1. PICK x, y : /\ x = Cardinality(b.have \cap DataIndices)
                    /\ y = Cardinality(b.have \ DataIndices)
    OBVIOUS
  <2>2. /\ index < DataShards => m = x + 1 /\ n = y
        /\ ~(index < DataShards) => m = x /\ n = y + 1
    <3>1. /\ index < DataShards =>
               /\ Cardinality(c \cap DataIndices) =
                    Cardinality(b.have \cap DataIndices) + 1
               /\ Cardinality(c \ DataIndices) =
                    Cardinality(b.have \ DataIndices)
          /\ ~(index < DataShards) =>
               /\ Cardinality(c \cap DataIndices) =
                    Cardinality(b.have \cap DataIndices)
               /\ Cardinality(c \ DataIndices) =
                    Cardinality(b.have \ DataIndices) + 1
      <4>1. PICK h \in SUBSET (0..TotalShards - 1) : h = b.have
        BY <1>6
      <4>2. index \notin h /\ c = h \cup {index}
        BY <1>4, <4>1
      <4>3. /\ index < DataShards =>
                 /\ Cardinality(c \cap DataIndices) =
                      Cardinality(h \cap DataIndices) + 1
                 /\ Cardinality(c \ DataIndices) =
                      Cardinality(h \ DataIndices)
            /\ ~(index < DataShards) =>
                 /\ Cardinality(c \cap DataIndices) =
                      Cardinality(h \cap DataIndices)
                 /\ Cardinality(c \ DataIndices) =
                      Cardinality(h \ DataIndices) + 1
        BY <4>2, OneMore, Zenon
      <4> QED
        BY <4>1, <4>3, Zenon
    <3> QED
      BY <1>9, <2>1, <3>1, Zenon
  <2>3. x = b.dataReceived /\ y = b.fecReceived
    BY <1>7, <2>1
  <2> QED
    BY <2>2, <2>3
<1>12. e = [b EXCEPT !.have = c, !.dataReceived = m, !.fecReceived = n]
  <2>1. e = [b EXCEPT !.have = @ \cup {index},
             !.dataReceived = IF index < DataShards THEN @ + 1 ELSE @,
             !.fecReceived = IF index < DataShards THEN @ ELSE @ + 1]
    BY <1>2, <1>5
  <2> QED
    BY <1>4, <1>11, <2>1
<1>13. /\ e \in FecBlocks /\ e.base = b.base /\ e.have = c
       /\ e.dataReceived = m /\ e.fecReceived = n
       /\ e.nextIndex = b.nextIndex
       /\ e.allowDiscontinuity = b.allowDiscontinuity
  BY <1>3, <1>8, <1>10, <1>12 DEF FecBlocks
<1>14. BlockOK(e)
  BY <1>3, <1>9, <1>13 DEF BlockOK
<1>15. r = [q EXCEPT !.blocks = [@ EXCEPT ![i] = e]]
  <2>1. r = [q EXCEPT !.blocks[i].have = @ \cup {index},
         !.blocks[i].dataReceived = IF index < DataShards THEN @ + 1 ELSE @,
         !.blocks[i].fecReceived = IF index < DataShards THEN @ ELSE @ + 1]
    BY <1>1 DEF Stored
  <2>2. q.blocks \in Seq(FecBlocks) /\ i \in DOMAIN q.blocks
    BY <1>2, QueueFields DEF WellFormed
  <2>3. r = [q EXCEPT !.blocks[i].have = c, !.blocks[i].dataReceived = m,
                      !.blocks[i].fecReceived = n]
    BY <1>2, <1>3, <1>4, <1>11, <2>1, <2>2
  <2>4. r = [q EXCEPT !.blocks =
          [[[@ EXCEPT ![i].have = c] EXCEPT ![i].dataReceived = m]
             EXCEPT ![i].fecReceived = n]]
    BY <2>3
  <2>5. [[[q.blocks EXCEPT ![i].have = c] EXCEPT ![i].dataReceived = m]
           EXCEPT ![i].fecReceived = n] = [q.blocks EXCEPT ![i] = e]
    BY <1>2, <1>3, <1>12, <2>2
  <2> QED
    BY <2>4, <2>5
<1>16. b.have \subseteq e.have
  BY <1>4, <1>13
<1>17. /\ WellFormed(r)
       /\ Settled(q) => Settled(r)
       /\ \A taken : Keeps(q, taken) => Keeps(r, taken)
       /\ Len(r.blocks) = Len(q.blocks)
       /\ r.blocks[i] = e
       /\ r.next = q.next /\ r.oldest = q.oldest
       /\ r.synchronizing = q.synchronizing
       /\ r.incompatible = q.incompatible
  BY <1>2, <1>13, <1>14, <1>15, <1>16, UpdateFacts
<1>18. HasBlock(r, base)
  BY <1>2, <1>13, <1>17 DEF HasBlock
<1>19. BlockAt(r, base) = i
  BY <1>2, <1>13, <1>17, <1>18, BlockAtFacts, OneBlock
<1> QED
  BY <1>1, <1>4, <1>13, <1>17, <1>18, <1>19

(* completeFecBlock: the block gets the data it had lost, or nothing.      *)
LEMMA CompleteFacts ==
  ASSUME mode \in Modes, NEW q, WellFormed(q), NEW base, HasBlock(q, base),
         NEW validation, NEW r, r = completeFecBlock(q, base, validation)
  PROVE  /\ WellFormed(r)
         /\ Settled(q) => Settled(r)
         /\ \A taken : Keeps(q, taken) => Keeps(r, taken)
         /\ r.blocks = << >> <=> q.blocks = << >>
         /\ r.next = q.next /\ r.oldest = q.oldest
         /\ r.synchronizing = q.synchronizing
         /\ r.incompatible = q.incompatible
<1>1. PICK i : i = BlockAt(q, base)
  OBVIOUS
<1>2. PICK b : b = q.blocks[i]
  OBVIOUS
<1>3. i \in 1..Len(q.blocks)
  BY <1>1, BlockAtFacts
<1>4. b \in FecBlocks /\ BlockOK(b)
  BY <1>2, <1>3, QueueFields DEF WellFormed, Ordered
<1>5. PICK e : e = [b EXCEPT !.have = @ \cup DataIndices,
                             !.fullyReassembled = TRUE]
  OBVIOUS
<1>6. \/ r = q
      \/ r = [q EXCEPT !.blocks = [@ EXCEPT ![i] = e]]
  <2>1. CASE b.dataReceived + b.fecReceived < neededShards(validation)
    BY <1>1, <1>2, <2>1 DEF completeFecBlock
  <2>2. CASE ~(b.dataReceived + b.fecReceived < neededShards(validation))
    <3>1. r = [q EXCEPT !.blocks[i].have = @ \cup DataIndices,
                        !.blocks[i].fullyReassembled = TRUE]
      BY <1>1, <1>2, <2>2 DEF completeFecBlock, DataIndices
    <3>2. q.blocks \in Seq(FecBlocks) /\ i \in DOMAIN q.blocks
      BY <1>3, QueueFields DEF WellFormed
    <3>3. r = [q EXCEPT !.blocks = [@ EXCEPT ![i] = e]]
      BY <1>2, <1>3, <1>5, <3>1, <3>2
    <3> QED
      BY <3>3
  <2> QED
    BY <2>1, <2>2
<1>7. DataIndices \subseteq 0..TotalShards - 1
  BY Sizes DEF DataIndices
<1>8. /\ e \in FecBlocks /\ e.base = b.base
      /\ e.have = b.have \cup DataIndices /\ e.fullyReassembled
      /\ e.nextIndex = b.nextIndex
      /\ e.allowDiscontinuity = b.allowDiscontinuity
  BY <1>4, <1>5, <1>7 DEF FecBlocks
<1>9. BlockOK(e)
  BY <1>4, <1>8 DEF BlockOK
<1>10. CASE r = q
  BY <1>10
<1>11. CASE r = [q EXCEPT !.blocks = [@ EXCEPT ![i] = e]]
  <2>1. b.have \subseteq e.have
    BY <1>8
  <2>2. /\ WellFormed(r)
        /\ Settled(q) => Settled(r)
        /\ \A taken : Keeps(q, taken) => Keeps(r, taken)
        /\ Len(r.blocks) = Len(q.blocks)
        /\ r.next = q.next /\ r.oldest = q.oldest
        /\ r.synchronizing = q.synchronizing
        /\ r.incompatible = q.incompatible
    BY <1>2, <1>3, <1>8, <1>9, <1>11, <2>1, UpdateFacts
  <2>3. r.blocks = << >> <=> q.blocks = << >>
    BY <2>2, QueueFields DEF WellFormed
  <2> QED
    BY <2>2, <2>3
<1> QED
  BY <1>6, <1>10, <1>11

(* What is known of the first block                                        *)
LEMMA FirstBlock ==
  ASSUME mode \in Modes, NEW q, WellFormed(q), q.blocks # << >>,
         NEW h, h = Head(q.blocks)
  PROVE  /\ 1 \in 1..Len(q.blocks) /\ h = q.blocks[1]
         /\ h \in FecBlocks /\ BlockOK(h)
         /\ h.base \in 0..Modulus - 1 /\ Aligned(h.base)
         /\ Offset(h.base) \in Nat /\ Offset(h.base) + DataShards <= Numbers
         /\ h.nextIndex \in 0..DataShards - 1
         /\ Offset(q.oldest) \in Nat /\ Offset(q.next) \in Nat
         /\ Offset(q.oldest) <= Offset(h.base)
         /\ Offset(q.next) = Offset(q.oldest) + h.nextIndex
         /\ h.nextIndex # 0 => h.base = q.oldest
         /\ h.allowDiscontinuity => h.base = q.oldest
<1>1. q \in Queues /\ Ordered(q.blocks) /\ Cursor(q)
  BY DEF WellFormed
<1>2. 1 \in 1..Len(q.blocks) /\ h = q.blocks[1] /\ h \in FecBlocks
  BY <1>1, QueueFields
<1>3. BlockOK(h)
  BY <1>1, <1>2 DEF Ordered
<1>4. h.base \in 0..Modulus - 1 /\ h.nextIndex \in 0..DataShards - 1
  BY <1>2, BlockFields
<1>5. q.oldest \in 0..Modulus - 1 /\ q.next \in 0..Modulus - 1
  BY <1>1, QueueFields
<1>6. /\ Offset(h.base) \in Nat /\ Offset(q.oldest) \in Nat
      /\ Offset(q.next) \in Nat
  BY <1>4, <1>5, OffsetFacts
<1> QED
  BY <1>1, <1>2, <1>3, <1>4, <1>6 DEF Cursor, BlockOK

(* handleMissingPackets: the first block may be given up, or what was lost *)
(* before it is skipped, of which nothing was taken.                       *)
LEMMA MissingFacts ==
  ASSUME mode \in Modes, NEW q, WellFormed(q), Settled(q), NEW waited,
         NEW r, r = handleMissingPackets(q, waited)
  PROVE  /\ WellFormed(r)
         /\ Settled(r) \/ queueHasPacketReady(r)
         /\ \A taken \in SUBSET Positions : Keeps(q, taken) => Keeps(r, taken)
         /\ r.blocks = << >> <=> q.blocks = << >>
         /\ r.synchronizing = q.synchronizing
         /\ r.incompatible = q.incompatible
         /\ \/ r.next = q.next /\ r.oldest = q.oldest
            \/ /\ r.next = r.oldest /\ q.next = q.oldest
               /\ Offset(q.oldest) < Offset(r.oldest)
               /\ r.blocks = q.blocks /\ q.blocks # << >>
               /\ r.oldest = Head(q.blocks).base
<1>1. CASE r = q
  BY <1>1
<1>2. CASE r # q
  <2>1. q.blocks # << >>
    BY <1>2 DEF handleMissingPackets
  <2>2. q \in Queues /\ Ordered(q.blocks) /\ Cursor(q)
    BY DEF WellFormed
  <2>3. PICK h : h = Head(q.blocks)
    OBVIOUS
  <2>4. /\ 1 \in 1..Len(q.blocks) /\ h = q.blocks[1]
        /\ h \in FecBlocks /\ BlockOK(h)
        /\ h.base \in 0..Modulus - 1 /\ Aligned(h.base)
        /\ Offset(h.base) \in Nat /\ Offset(h.base) + DataShards <= Numbers
        /\ h.nextIndex \in 0..DataShards - 1
        /\ Offset(q.oldest) \in Nat /\ Offset(q.next) \in Nat
        /\ Offset(q.oldest) <= Offset(h.base)
        /\ Offset(q.next) = Offset(q.oldest) + h.nextIndex
        /\ h.nextIndex # 0 => h.base = q.oldest
    BY <2>1, <2>3, FirstBlock
  <2>5. DataShards \in Nat \ {0} /\ Numbers \in Nat
    BY Sizes
  <2>6. /\ Offset(h.base) <= Numbers
        /\ Offset(q.next) < Offset(h.base) + DataShards
    BY <2>4, <2>5
  <2>7. q.next \in 0..Modulus - 1 /\ q.oldest \in 0..Modulus - 1
    BY <2>2, QueueFields
  <2>8. isBefore16(q.next, h.base) <=> Offset(q.next) < Offset(h.base)
    <3>1. Offset(q.next) <= Numbers
      BY <2>4, <2>5, <2>6
    <3> QED
      BY <2>4, <2>6, <2>7, <3>1, Before
  <2>9. CASE isBefore16(q.next, h.base)
    <3>1. r = [q EXCEPT !.next = h.base, !.oldest = h.base]
      BY <2>1, <2>3, <2>9 DEF handleMissingPackets
    <3>2. /\ r.blocks = q.blocks /\ r.next = h.base /\ r.oldest = h.base
          /\ r.synchronizing = q.synchronizing
          /\ r.incompatible = q.incompatible /\ r \in Queues
      BY <2>2, <2>4, <3>1 DEF Queues
    <3>3. h.nextIndex = 0
      BY <2>4, <2>8, <2>9
    <3>4. Offset(q.next) = Offset(q.oldest)
      BY <2>4, <3>3
    <3>5. q.next = q.oldest
      BY <2>7, <3>4, SameOffset
    <3>6. Offset(q.oldest) < Offset(r.oldest)
      BY <2>8, <2>9, <3>2, <3>4
    <3>7. ~h.allowDiscontinuity
      BY <2>4 DEF Settled
    <3>8. Offset(r.next) = Offset(r.oldest) + q.blocks[1].nextIndex
      BY <2>4, <3>2, <3>3
    <3>9. Cursor(r)
      BY <2>4, <2>6, <3>2, <3>3, <3>7, <3>8 DEF Cursor
    <3>10. Settled(r)
      BY <3>2 DEF Settled
    <3>11. ASSUME NEW taken \in SUBSET Positions, Keeps(q, taken)
           PROVE  Keeps(r, taken)
      <4> SUFFICES ASSUME NEW pos \in taken, BlockOf(pos) < Offset(q.oldest)
                   PROVE  BlockOf(pos) < Offset(r.oldest)
        BY <3>2, <3>11 DEF Keeps
      <4>1. PICK B : B = BlockOf(pos)
        OBVIOUS
      <4>2. B < Offset(q.oldest) /\ B \in Int
        BY <4>1, PositionFacts
      <4> QED
        BY <2>4, <3>2, <3>6, <4>1, <4>2
    <3> QED
      BY <2>1, <2>2, <2>3, <3>2, <3>5, <3>6, <3>9, <3>10, <3>11 DEF WellFormed
  <2>10. CASE ~isBefore16(q.next, h.base)
    <3>1. r = [q EXCEPT !.blocks[1].allowDiscontinuity = TRUE]
      BY <1>2, <2>1, <2>3, <2>10 DEF handleMissingPackets
    <3>2. PICK e : e = [h EXCEPT !.allowDiscontinuity = TRUE]
      OBVIOUS
    <3>3. /\ e \in FecBlocks /\ e.base = h.base /\ e.nextIndex = h.nextIndex
          /\ e.have = h.have /\ e.allowDiscontinuity
          /\ e.fullyReassembled = h.fullyReassembled
          /\ e.dataReceived = h.dataReceived /\ e.fecReceived = h.fecReceived
      BY <2>4, <3>2 DEF FecBlocks
    <3>4. BlockOK(e)
      BY <2>4, <3>3 DEF BlockOK
    <3>5. PICK s \in Seq(FecBlocks) : s = q.blocks
      BY <2>2, QueueFields
    <3>6. PICK t : t = [s EXCEPT ![1] = e]
      OBVIOUS
    <3>7. /\ t \in Seq(FecBlocks) /\ Len(t) = Len(s)
          /\ \A j \in 1..Len(s) : t[j] = IF j = 1 THEN e ELSE s[j]
      BY <2>4, <3>3, <3>5, <3>6, ExceptSeq
    <3>8. r = [q EXCEPT !.blocks = t]
      <4>1. 1 \in DOMAIN s
        BY <2>4, <3>5
      <4> QED
        BY <2>4, <3>1, <3>2, <3>5, <3>6, <4>1
    <3>9. /\ r.blocks = t /\ r.next = q.next /\ r.oldest = q.oldest
          /\ r.synchronizing = q.synchronizing
          /\ r.incompatible = q.incompatible /\ r \in Queues
      BY <2>2, <3>7, <3>8 DEF Queues
    <3>10. /\ 1 \in 1..Len(s) /\ t[1] = e /\ Len(s) \in Nat
           /\ s # << >> /\ t # << >>
      BY <2>1, <2>4, <3>5, <3>7
    <3>11. \A j \in 1..Len(s) : /\ BlockOK(t[j]) /\ t[j].base = s[j].base
                                /\ t[j].have = s[j].have
      BY <2>2, <2>4, <3>3, <3>4, <3>5, <3>7 DEF Ordered
    <3>12. Ordered(t)
      <4>1. \A j, k \in 1..Len(t) :
              j < k => Offset(t[j].base) < Offset(t[k].base)
        BY <2>2, <3>5, <3>7, <3>11 DEF Ordered
      <4>2. \A j \in 2..Len(t) : t[j].nextIndex = 0 /\ ~t[j].allowDiscontinuity
        <5> SUFFICES ASSUME NEW j \in 2..Len(t)
                     PROVE  t[j].nextIndex = 0 /\ ~t[j].allowDiscontinuity
          OBVIOUS
        <5>1. j \in 2..Len(s) /\ j \in 1..Len(s) /\ j # 1
          BY <3>7, <3>10
        <5> QED
          BY <2>2, <3>5, <3>7, <5>1 DEF Ordered
      <4> QED
        BY <3>7, <3>11, <4>1, <4>2 DEF Ordered
    <3>13. h.base = q.oldest
      <4>1. CASE h.nextIndex # 0
        BY <2>4, <4>1
      <4>2. CASE h.nextIndex = 0
        <5>1. Offset(h.base) = Offset(q.oldest)
          BY <2>4, <2>8, <2>10, <4>2
        <5> QED
          BY <2>4, <2>7, <5>1, SameOffset
      <4> QED
        BY <4>1, <4>2
    <3>14. Cursor(r)
      BY <2>2, <2>4, <3>3, <3>9, <3>10, <3>13 DEF Cursor
    <3>15. queueHasPacketReady(r)
      <4>1. Head(t) = e
        BY <3>7, <3>10
      <4> QED
        BY <3>3, <3>9, <3>10, <4>1 DEF queueHasPacketReady
    <3>16. \A taken \in SUBSET Positions : Keeps(q, taken) => Keeps(r, taken)
      <4> SUFFICES ASSUME NEW taken \in SUBSET Positions, Keeps(q, taken)
                   PROVE  Keeps(r, taken)
        OBVIOUS
      <4> QED
        BY <3>5, <3>7, <3>9, <3>11 DEF Keeps
    <3> QED
      BY <2>1, <3>9, <3>10, <3>12, <3>14, <3>15, <3>16 DEF WellFormed
  <2> QED
    BY <2>9, <2>10
<1> QED
  BY <1>1, <1>2

(* The first block hands out its next packet, and is freed after the last. *)
LEMMA HandOutFacts ==
  ASSUME mode \in Modes, NEW q, WellFormed(q), q.blocks # << >>,
         NEW h, h = Head(q.blocks), h.base = q.oldest,
         NEW r, r = HandedOut(q, 1),
         NEW f, f = IF Head(r.blocks).nextIndex = DataShards
                      THEN freeFecBlockHead(r) ELSE r
  PROVE  /\ q.next = h.base + h.nextIndex
         /\ Head(r.blocks).base = h.base
         /\ Head(r.blocks).nextIndex = h.nextIndex + 1
         /\ r.next \in 0..Modulus - 1 /\ Offset(r.next) = Offset(q.next) + 1
         /\ WellFormed(f) /\ f.next = r.next
         /\ Settled(q) => Settled(f)
         /\ \A taken \in SUBSET Positions : Keeps(q, taken) => Keeps(f, taken)
         /\ f.blocks = << >> => ~f.synchronizing
         /\ f.incompatible = q.incompatible
<1>1. q \in Queues /\ Ordered(q.blocks) /\ Cursor(q)
  BY DEF WellFormed
<1>2. /\ 1 \in 1..Len(q.blocks) /\ h = q.blocks[1]
      /\ h \in FecBlocks /\ BlockOK(h)
      /\ h.base \in 0..Modulus - 1 /\ Aligned(h.base)
      /\ Offset(h.base) \in Nat /\ Offset(h.base) + DataShards <= Numbers
      /\ h.nextIndex \in 0..DataShards - 1
      /\ Offset(q.next) \in Nat
      /\ Offset(q.next) = Offset(h.base) + h.nextIndex
  BY FirstBlock
<1>3. /\ DataShards \in Nat \ {0} /\ Numbers \in Nat /\ Modulus \in Nat
      /\ 2 * Numbers < Modulus
  BY Sizes
<1>4. q.next \in 0..Modulus - 1 /\ q.oldest \in 0..Modulus - 1
  BY <1>1, QueueFields
<1>5. q.next = h.base + h.nextIndex
  <2>1. PICK k \in DataIndices : k = h.nextIndex
    BY <1>2 DEF DataIndices
  <2>2. h.base + k \in 0..Modulus - 1 /\ U16(h.base + k) = h.base + k
    BY <1>2, <2>1, BaseFacts DEF DataIndices
  <2>3. Offset(U16(h.base + k)) = Offset(h.base) + k
    BY <1>2, <1>3, <2>1, BaseFacts, k \in 0..DataShards DEF DataIndices
  <2>4. Offset(h.base + k) = Offset(q.next)
    BY <1>2, <2>1, <2>2, <2>3
  <2> QED
    BY <1>4, <2>1, <2>2, <2>4, SameOffset
<1>6. U16(q.next + 1) \in 0..Modulus - 1
      /\ Offset(U16(q.next + 1)) = Offset(q.next) + 1
  BY <1>2, <1>3, <1>4, OffsetPlus, 1 \in Nat, Offset(q.next) + 1 < Modulus
<1>7. PICK s \in Seq(FecBlocks) : s = q.blocks
  BY <1>1, QueueFields
<1>8. /\ Len(s) \in Nat /\ 1 \in 1..Len(s) /\ s[1] = h /\ s # << >>
      /\ 1 \in DOMAIN s
  BY <1>2, <1>7, LenProperties
<1>9. PICK e : e = [h EXCEPT !.nextIndex = h.nextIndex + 1]
  OBVIOUS
<1>10. PICK t : t = [s EXCEPT ![1] = e]
  OBVIOUS
<1>11. r = [q EXCEPT !.next = U16(q.next + 1), !.blocks = t]
  BY <1>7, <1>8, <1>9, <1>10 DEF HandedOut
<1>12. /\ r.next = U16(q.next + 1) /\ r.blocks = t /\ r.oldest = q.oldest
       /\ r.synchronizing = q.synchronizing
       /\ r.incompatible = q.incompatible
  BY <1>1, <1>11 DEF Queues
<1>13. /\ e.base = h.base /\ e.nextIndex = h.nextIndex + 1
       /\ e.have = h.have
       /\ e.allowDiscontinuity = h.allowDiscontinuity
       /\ e.fullyReassembled = h.fullyReassembled
       /\ e.dataReceived = h.dataReceived /\ e.fecReceived = h.fecReceived
  BY <1>2, <1>9 DEF FecBlocks
<1>14. PICK S : S = FecBlocks \cup {e}
  OBVIOUS
<1>15. s \in Seq(S) /\ e \in S
  BY <1>14
<1>16. /\ t \in Seq(S) /\ Len(t) = Len(s)
       /\ \A j \in 1..Len(s) : t[j] = IF j = 1 THEN e ELSE s[j]
  BY <1>8, <1>10, <1>15, ExceptSeq
<1>17. t # << >> /\ Head(t) = e
  BY <1>8, <1>16
<1>18. /\ Head(r.blocks).base = h.base
       /\ Head(r.blocks).nextIndex = h.nextIndex + 1
       /\ r.next \in 0..Modulus - 1 /\ Offset(r.next) = Offset(q.next) + 1
  BY <1>6, <1>12, <1>13, <1>17
<1>19. CASE h.nextIndex + 1 # DataShards
  <2>1. f = r
    BY <1>18, <1>19
  <2>2. e \in FecBlocks
    <3>1. h.nextIndex + 1 \in 0..DataShards - 1
      <4>1. PICK n \in 0..DataShards - 1 : n = h.nextIndex
        BY <1>2
      <4>2. n + 1 # DataShards
        BY <1>19, <4>1
      <4>3. n + 1 \in 0..DataShards - 1
        BY <1>3, <4>2
      <4> QED
        BY <4>1, <4>3
    <3> QED
      BY <1>2, <1>9, <3>1 DEF FecBlocks
  <2>3. t \in Seq(FecBlocks)
    BY <1>8, <1>10, <2>2, ExceptSeq
  <2>4. r \in Queues
    BY <1>1, <1>6, <1>11, <2>3 DEF Queues
  <2>5. BlockOK(e)
    BY <1>2, <1>13 DEF BlockOK
  <2>6. \A j \in 1..Len(s) : /\ BlockOK(t[j]) /\ t[j].base = s[j].base
                             /\ t[j].have = s[j].have
    BY <1>1, <1>7, <1>8, <1>13, <1>16, <2>5 DEF Ordered
  <2>7. Ordered(t)
    <3>1. \A j, k \in 1..Len(t) : j < k => Offset(t[j].base) < Offset(t[k].base)
      BY <1>1, <1>7, <1>16, <2>6 DEF Ordered
    <3>2. \A j \in 2..Len(t) : t[j].nextIndex = 0 /\ ~t[j].allowDiscontinuity
      <4> SUFFICES ASSUME NEW j \in 2..Len(t)
                   PROVE  t[j].nextIndex = 0 /\ ~t[j].allowDiscontinuity
        OBVIOUS
      <4>1. j \in 2..Len(s) /\ j \in 1..Len(s) /\ j # 1
        BY <1>8, <1>16
      <4> QED
        BY <1>1, <1>7, <1>16, <4>1 DEF Ordered
    <3> QED
      BY <1>16, <2>6, <3>1, <3>2 DEF Ordered
  <2>8. Cursor(r)
    <3>1. t[1] = e
      BY <1>8, <1>16
    <3>2. Offset(r.next) = Offset(r.oldest) + t[1].nextIndex
      BY <1>2, <1>12, <1>13, <1>18, <3>1
    <3>3. Offset(r.oldest) <= Offset(t[1].base)
      BY <1>2, <1>12, <1>13, <3>1
    <3>4. Aligned(r.oldest) /\ Offset(r.oldest) <= Numbers
      BY <1>1, <1>12 DEF Cursor
    <3> QED
      BY <1>12, <1>13, <1>17, <3>1, <3>2, <3>3, <3>4 DEF Cursor
  <2>9. Settled(q) => Settled(r)
    BY <1>7, <1>8, <1>12, <1>13, <1>16 DEF Settled
  <2>10. ASSUME NEW taken \in SUBSET Positions, Keeps(q, taken)
         PROVE  Keeps(r, taken)
    BY <1>7, <1>12, <1>16, <2>6, <2>10 DEF Keeps
  <2> QED
    BY <1>5, <1>12, <1>17, <1>18, <2>1, <2>4, <2>7, <2>8, <2>9, <2>10
       DEF WellFormed
<1>20. CASE h.nextIndex + 1 = DataShards
  <2>1. f = freeFecBlockHead(r)
    BY <1>18, <1>20
  <2>2. PICK u : u = Tail(s)
    OBVIOUS
  <2>3. /\ u \in Seq(FecBlocks) /\ Len(u) = Len(s) - 1
        /\ \A j \in 1..Len(u) : u[j] = s[j + 1]
    BY <1>8, <2>2, HeadTailProperties
  <2>4. Tail(t) = u
    <3>1. /\ Tail(t) \in Seq(S) /\ Len(Tail(t)) = Len(t) - 1
          /\ \A j \in 1..Len(Tail(t)) : Tail(t)[j] = t[j + 1]
      BY <1>16, <1>17, HeadTailProperties
    <3>2. u \in Seq(S) /\ Len(u) = Len(Tail(t))
      BY <1>14, <1>16, <2>3, <3>1
    <3>3. ASSUME NEW j \in 1..Len(u)
          PROVE  u[j] = Tail(t)[j]
      <4>1. j + 1 \in 1..Len(s) /\ j + 1 # 1
        BY <1>8, <2>3
      <4> QED
        BY <1>16, <2>3, <3>1, <3>2, <4>1
    <3> QED
      BY <3>1, <3>2, <3>3, SeqEqual
  <2>5. PICK z : z = U16(h.base + DataShards)
    OBVIOUS
  <2>6. z \in 0..Modulus - 1 /\ Offset(z) = Offset(h.base) + DataShards
    BY <1>2, <1>3, <2>5, BaseFacts, DataShards \in 0..DataShards
  <2>7. f = [r EXCEPT !.blocks = u, !.synchronizing = FALSE, !.oldest = z]
    BY <1>12, <1>18, <2>1, <2>4, <2>5 DEF freeFecBlockHead
  <2>8. f = [q EXCEPT !.next = r.next, !.blocks = u, !.synchronizing = FALSE,
                      !.oldest = z]
    BY <1>1, <1>11, <1>12, <2>7 DEF Queues
  <2>9. /\ f.blocks = u /\ f.next = r.next /\ f.oldest = z
        /\ f.synchronizing = FALSE /\ f.incompatible = q.incompatible
        /\ f \in Queues
    <3>1. PICK x \in 0..Modulus - 1 : x = r.next
      BY <1>18
    <3>2. f = [q EXCEPT !.next = x, !.blocks = u, !.synchronizing = FALSE,
                        !.oldest = z]
      BY <2>8, <3>1
    <3>3. f \in Queues
      BY <1>1, <2>3, <2>6, <3>2 DEF Queues
    <3>4. /\ f.blocks = u /\ f.next = x /\ f.oldest = z
          /\ f.synchronizing = FALSE /\ f.incompatible = q.incompatible
      BY <1>1, <3>2 DEF Queues
    <3> QED
      BY <3>1, <3>3, <3>4
  <2>10. f.next = f.oldest
    <3>1. Offset(r.next) = Offset(z)
      <4>1. PICK a \in Nat, k \in Nat : a = Offset(h.base) /\ k = h.nextIndex
        BY <1>2, <1>3
      <4>2. Offset(r.next) = a + k + 1
        BY ONLY <1>2, <1>18, <4>1
      <4>3. k + 1 = DataShards /\ Offset(z) = a + DataShards
        BY <1>20, <2>6, <4>1
      <4> QED
        BY ONLY <4>1, <4>2, <4>3
    <3> QED
      BY <1>18, <2>6, <2>9, <3>1, SameOffset
  <2>11. \A j \in 1..Len(u) : /\ j + 1 \in 2..Len(s) /\ j + 1 \in 1..Len(s)
                              /\ u[j] = s[j + 1]
    BY <1>8, <2>3
  <2>12. Ordered(u)
    <3>1. \A j \in 1..Len(u) : /\ BlockOK(u[j]) /\ u[j].nextIndex = 0
                               /\ ~u[j].allowDiscontinuity
      BY <1>1, <1>7, <2>11 DEF Ordered
    <3>2. ASSUME NEW j \in 1..Len(u), NEW k \in 1..Len(u), j < k
          PROVE  Offset(u[j].base) < Offset(u[k].base)
      <4>1. j + 1 < k + 1
        BY <1>8, <2>3, <3>2
      <4> QED
        BY <1>1, <1>7, <2>11, <4>1 DEF Ordered
    <3>3. \A j \in 2..Len(u) : j \in 1..Len(u)
      BY <1>8, <2>3
    <3> QED
      BY <3>1, <3>2, <3>3 DEF Ordered
  <2>13. Cursor(f)
    <3>1. Aligned(z)
      <4>1. PICK a \in Nat : a = Offset(h.base)
        BY <1>2
      <4>2. Aligned(a) /\ Aligned(Numbers)
        BY <1>2, <4>1, AlignedFacts, Sizes
      <4>3. DataShards \in Int /\ Aligned(DataShards)
        <5>1. (1 * DataShards + 0) % DataShards = 0
          BY <1>3, Remainder, 0 \in 0..DataShards - 1
        <5> QED
          BY <1>3, <5>1 DEF Aligned
      <4>4. Aligned(a + DataShards)
        BY <4>2, <4>3, AlignedSum
      <4>5. Aligned(Offset(z))
        BY <2>6, <4>1, <4>4
      <4> QED
        BY <2>6, <4>5, AlignedFacts
    <3>2. Offset(z) <= Numbers
      BY <1>2, <2>6
    <3>3. ASSUME u # << >>
          PROVE  /\ Offset(z) <= Offset(u[1].base)
                 /\ Offset(f.next) = Offset(z) + u[1].nextIndex
                 /\ u[1].nextIndex = 0 /\ ~u[1].allowDiscontinuity
      <4>1. 1 \in 1..Len(u)
        BY <2>3, <3>3, LenProperties, EmptySeq
      <4>2. PICK b : b = u[1]
        OBVIOUS
      <4>3. /\ b = s[2] /\ 2 \in 1..Len(s) /\ 2 \in 2..Len(s)
        BY <2>11, <4>1, <4>2
      <4>4. b.nextIndex = 0 /\ ~b.allowDiscontinuity /\ BlockOK(b)
        BY <1>1, <1>7, <4>3 DEF Ordered
      <4>5. Offset(h.base) < Offset(b.base)
        BY <1>1, <1>7, <1>8, <4>3 DEF Ordered
      <4>6. b.base \in 0..Modulus - 1
        BY <1>1, <1>7, <4>3, QueueFields, BlockFields
      <4>7. PICK x \in Int, y \in Int : x = Offset(h.base) /\ y = Offset(b.base)
        BY <1>2, <4>6, OffsetFacts
      <4>8. Aligned(x) /\ Aligned(y)
        BY <1>2, <4>4, <4>6, <4>7, AlignedFacts DEF BlockOK
      <4>9. x + DataShards <= y
        BY <4>5, <4>7, <4>8, AlignedSum
      <4>10. Offset(z) <= Offset(b.base)
        BY <2>6, <4>7, <4>9
      <4>11. Offset(f.next) = Offset(z) + b.nextIndex
        <5>1. PICK o \in Int : o = Offset(z)
          BY <2>6, OffsetFacts
        <5>2. o = o + b.nextIndex
          BY <4>4
        <5> QED
          BY <2>9, <2>10, <5>1, <5>2
      <4> QED
        BY <4>2, <4>4, <4>10, <4>11
    <3> QED
      BY <2>9, <2>10, <3>1, <3>2, <3>3 DEF Cursor
  <2>14. Settled(f)
    BY <1>1, <1>7, <2>9, <2>11 DEF Settled, Ordered
  <2>15. ASSUME NEW taken \in SUBSET Positions, Keeps(q, taken)
         PROVE  Keeps(f, taken)
    <3> SUFFICES ASSUME NEW pos \in taken
                 PROVE  \/ BlockOf(pos) < Offset(f.oldest)
                        \/ \E j \in 1..Len(f.blocks) :
                             /\ Offset(f.blocks[j].base) = BlockOf(pos)
                             /\ IndexOf(pos) \in f.blocks[j].have
      BY DEF Keeps
    <3>1. Offset(h.base) < Offset(z) /\ Offset(h.base) \in Nat
      BY <1>2, <1>3, <2>6
    <3>2. CASE BlockOf(pos) < Offset(q.oldest)
      <4>1. BlockOf(pos) \in Int
        BY PositionFacts
      <4>2. BlockOf(pos) < Offset(h.base)
        BY <3>2
      <4> QED
        BY <1>3, <2>6, <2>9, <3>1, <4>1, <4>2
    <3>3. CASE ~(BlockOf(pos) < Offset(q.oldest))
      <4>1. PICK j \in 1..Len(s) : /\ Offset(s[j].base) = BlockOf(pos)
                                   /\ IndexOf(pos) \in s[j].have
        BY <1>7, <2>15, <3>3 DEF Keeps
      <4>2. CASE j = 1
        BY <1>8, <2>9, <3>1, <4>1, <4>2
      <4>3. CASE j # 1
        <5>1. PICK k \in 1..Len(u) : k = j - 1
          BY <1>8, <2>3, <4>3
        <5>2. k + 1 = j
          BY <1>8, <5>1
        <5>3. u[k] = s[j]
          BY <2>11, <5>2
        <5> QED
          BY <2>9, <4>1, <5>3
      <4> QED
        BY <4>2, <4>3
    <3> QED
      BY <3>2, <3>3
  <2> QED
    BY <1>5, <1>18, <2>9, <2>12, <2>13, <2>14, <2>15 DEF WellFormed
<1> QED
  BY <1>19, <1>20

LEMMA NumberOfFacts ==
  ASSUME mode \in Modes, NEW s \in 0..Modulus - 1, Offset(s) < Numbers
  PROVE  NumberOf(s) = Offset(s)
<1> DEFINE P(n) == U16(mode.firstSeq + n) = s
<1>1. Numbers \in Nat /\ 2 * Numbers < Modulus /\ Modulus \in Nat
  BY Sizes
<1>2. PICK o \in 0..Modulus - 1 : o = Offset(s)
  BY OffsetFacts
<1>3. o \in 0..Numbers - 1
  BY <1>1, <1>2
<1>4. P(o)
  <2>1. PICK t \in 0..Modulus - 1 : t = U16(mode.firstSeq + o)
    BY OffsetOf
  <2>2. Offset(t) = Offset(s)
    BY <1>2, <2>1, OffsetOf
  <2> QED
    BY <2>1, <2>2, SameOffset
<1>5. ASSUME NEW n \in 0..Numbers - 1, P(n)
      PROVE  n = o
  <2>1. n \in 0..Modulus - 1
    BY <1>1
  <2> QED
    BY <1>2, <1>5, <2>1, OffsetOf
<1>6. NumberOf(s) = CHOOSE n \in 0..Numbers - 1 : P(n)
  BY DEF NumberOf, Numbers
<1> HIDE DEF P
<1> QED
  BY <1>2, <1>3, <1>4, <1>5, <1>6

(* The n-th data packet is of the block of the packet at pos.              *)
Covers(pos, n) == BlockOf(pos) <= n /\ n < BlockOf(pos) + DataShards

LEMMA ShardsTakenFacts ==
  ASSUME NEW n \in Nat, NEW taken \in SUBSET Positions,
         \A pos \in taken : ~Covers(pos, n)
  PROVE  {pos \in taken : pos \div TotalShards = n \div DataShards} = {}
<1> SUFFICES ASSUME NEW pos \in taken,
                    pos \div TotalShards = n \div DataShards
             PROVE  FALSE
  OBVIOUS
<1>1. /\ n % DataShards \in 0..DataShards - 1 /\ n \div DataShards \in Int
      /\ n = (n \div DataShards) * DataShards + (n % DataShards)
      /\ DataShards \in Nat
  BY Sizes, Division, n \in Int
<1>2. PICK k \in Int : k = n \div DataShards
  BY <1>1
<1>3. BlockOf(pos) = k * DataShards /\ k * DataShards \in Int
  BY <1>1, <1>2 DEF BlockOf
<1>4. Covers(pos, n)
  BY <1>1, <1>2, <1>3 DEF Covers
<1> QED
  BY <1>4

(***************************************************************************)
(* The inductive invariant                                                 *)
(***************************************************************************)

Entries == [number : 0..Numbers - 1, lost : BOOLEAN]

TypeInv ==
  /\ mode \in Modes
  /\ rtpAudioQueue \in Queues
  /\ packetsToDrop \in 0..InitialDrop
  /\ receiver \in {"recv", "drain"}
  /\ out \in Seq(Entries) /\ Len(out) <= 1
  /\ packetQueue \in Seq(Entries) /\ Len(packetQueue) <= QueueBound
  /\ newest \in -1..NumBlocks * TotalShards - 1
  /\ accepted \in SUBSET Positions
  /\ emitted \in -1..Numbers - 1 /\ heard \in -1..Numbers - 1
  /\ receivedDataFromPeer \in BOOLEAN
  /\ asserts \in BOOLEAN /\ inOrder \in BOOLEAN

(* The queue, with what was taken, while blocks may be given up or not     *)
QueueOK(q, taken, settled) ==
  /\ q.blocks = << >> => q.next = q.oldest
  /\ ~Synchronizes(q) \/ q.blocks # << >> =>
       /\ WellFormed(q) /\ Keeps(q, taken)
       /\ settled => Settled(q)

(* What is passed on, up to number e, is behind next, and there is nothing *)
(* that was taken between the two.                                         *)
Passed(q, taken, e) ==
  ~q.incompatible =>
    /\ q.synchronizing /\ q.blocks = << >> => taken = {} /\ e = -1
    /\ ~Synchronizes(q) =>
         /\ e < Offset(q.next)
         /\ q.next # q.oldest => e = Offset(q.next) - 1
         /\ \A pos \in taken : \A n \in e + 1..Offset(q.next) - 1 :
              ~Covers(pos, n)

(* What was passed on and not decoded yet is in order.                     *)
LineOK ==
  ~rtpAudioQueue.incompatible =>
    /\ heard <= emitted
    /\ \A i \in 1..Len(packetQueue) :
         /\ heard < packetQueue[i].number /\ packetQueue[i].number <= emitted
         /\ out # << >> => packetQueue[i].number < out[1].number
    /\ \A i, j \in 1..Len(packetQueue) :
         i < j => packetQueue[i].number < packetQueue[j].number
    /\ out # << >> => heard < out[1].number /\ out[1].number <= emitted

IInv ==
  /\ TypeInv
  /\ QueueOK(rtpAudioQueue, accepted, receiver = "recv")
  /\ Passed(rtpAudioQueue, accepted, emitted)
  /\ LineOK
  /\ receiver = "drain" => ~rtpAudioQueue.incompatible
  /\ mode.directSubmit => packetQueue = << >>
  /\ asserts /\ inOrder

(* mode does not change, so neither does what is said of a queue.          *)
LEMMA SameMode ==
  ASSUME mode' = mode, NEW q, rtpAudioQueue' = q, NEW taken, accepted' = taken,
         NEW e, emitted' = e, NEW rcv, receiver' = rcv
  PROVE  /\ QueueOK(rtpAudioQueue, accepted, receiver = "recv")'
              <=> QueueOK(q, taken, rcv = "recv")
         /\ Passed(rtpAudioQueue, accepted, emitted)' <=> Passed(q, taken, e)
<1>1. WellFormed(rtpAudioQueue)' <=> WellFormed(q)
  BY DEF WellFormed, Ordered, Cursor, BlockOK, Offset, Queues, FecBlocks, U16,
         Aligned
<1>2. Keeps(rtpAudioQueue, accepted)' <=> Keeps(q, taken)
  BY DEF Keeps, Offset, BlockOf, IndexOf, U16
<1>3. Settled(rtpAudioQueue)' <=> Settled(q)
  BY DEF Settled
<1>4. Synchronizes(rtpAudioQueue)' <=> Synchronizes(q)
  BY DEF Synchronizes
<1>5. QueueOK(rtpAudioQueue, accepted, receiver = "recv")'
        <=> QueueOK(q, taken, rcv = "recv")
  BY <1>1, <1>2, <1>3, <1>4 DEF QueueOK
<1>6. Passed(rtpAudioQueue, accepted, emitted)' <=> Passed(q, taken, e)
  BY <1>4 DEF Passed, Offset, Covers
<1> QED
  BY <1>5, <1>6

(* Nothing about the queue changes when it stays as it is.                 *)
LEMMA QueueKept ==
  ASSUME IInv, UNCHANGED <<mode, rtpAudioQueue, accepted, emitted, receiver>>
  PROVE  /\ QueueOK(rtpAudioQueue, accepted, receiver = "recv")'
         /\ Passed(rtpAudioQueue, accepted, emitted)'
<1>1. PICK q, taken, e, rcv : /\ q = rtpAudioQueue /\ taken = accepted
                              /\ e = emitted /\ rcv = receiver
  OBVIOUS
<1>2. QueueOK(q, taken, rcv = "recv") /\ Passed(q, taken, e)
  BY <1>1 DEF IInv
<1> QED
  BY <1>1, <1>2, SameMode

(* Entries are what the types say.                                         *)
LEMMA EntryFacts ==
  ASSUME NEW s \in Seq(Entries)
  PROVE  /\ Len(s) \in Nat /\ (s = << >> <=> Len(s) = 0)
         /\ \A i \in 1..Len(s) :
              s[i] \in Entries /\ s[i].number \in 0..Numbers - 1
         /\ s # << >> => 1 \in 1..Len(s) /\ Head(s) = s[1]
<1>1. Len(s) \in Nat /\ (s = << >> <=> Len(s) = 0)
  BY LenProperties, EmptySeq
<1>2. \A i \in 1..Len(s) : s[i] \in Entries
  BY ElementOfSeq
<1> QED
  BY <1>1, <1>2 DEF Entries

LEMMA StepReceiveTimeout ==
  ASSUME IInv, ReceiveTimeout
  PROVE  IInv'
<1>1. UNCHANGED <<rtpAudioQueue, receivedDataFromPeer, receiver, out, stream,
                  mode, newest, asserts, history>>
      /\ packetsToDrop' = 0
  BY DEF ReceiveTimeout
<1>2. TypeInv'
  BY <1>1, Sizes DEF IInv, TypeInv, stream, history
<1>3. /\ QueueOK(rtpAudioQueue, accepted, receiver = "recv")'
      /\ Passed(rtpAudioQueue, accepted, emitted)'
  BY <1>1, QueueKept DEF history
<1>4. LineOK'
  BY <1>1 DEF IInv, LineOK, stream, history
<1> QED
  BY <1>1, <1>2, <1>3, <1>4 DEF IInv, stream

LEMMA StepDropInitialPacket ==
  ASSUME IInv, NEW pos \in Positions, NEW p, p = Packet(pos),
         DropInitialPacket(p)
  PROVE  IInv'
<1>1. /\ UNCHANGED <<rtpAudioQueue, receiver, out, stream, mode, asserts,
                     history>>
      /\ packetsToDrop > 0
      /\ packetsToDrop' = IF p.isData THEN packetsToDrop - 1 ELSE packetsToDrop
      /\ newest' = IF p.pos > newest THEN p.pos ELSE newest
      /\ receivedDataFromPeer' = TRUE
  BY DEF DropInitialPacket, Delivered
<1>2. p.pos = pos
  BY PacketFacts DEF IInv, TypeInv
<1>3. newest' \in -1..NumBlocks * TotalShards - 1
  <2>1. PICK m : m = NumBlocks * TotalShards
    OBVIOUS
  <2>2. pos \in 0..m - 1 /\ newest \in -1..m - 1
    BY <2>1 DEF Positions, IInv, TypeInv
  <2> QED
    BY <1>1, <1>2, <2>1, <2>2
<1>4. packetsToDrop' \in 0..InitialDrop
  <2>1. packetsToDrop \in 0..InitialDrop /\ InitialDrop \in Nat
    BY Sizes DEF IInv, TypeInv
  <2> QED
    BY <1>1, <2>1
<1>5. TypeInv'
  BY <1>1, <1>3, <1>4 DEF IInv, TypeInv, stream, history
<1>6. /\ QueueOK(rtpAudioQueue, accepted, receiver = "recv")'
      /\ Passed(rtpAudioQueue, accepted, emitted)'
  BY <1>1, QueueKept DEF history
<1>7. LineOK'
  BY <1>1 DEF IInv, LineOK, stream, history
<1> QED
  BY <1>1, <1>5, <1>6, <1>7 DEF IInv, stream

LEMMA StepDrainDone ==
  ASSUME IInv, DrainDone
  PROVE  IInv'
<1>1. /\ UNCHANGED <<rtpAudioQueue, start, out, stream, mode, newest, asserts,
                     history>>
      /\ receiver' = "recv" /\ ~queueHasPacketReady(rtpAudioQueue)
  BY DEF DrainDone
<1>2. TypeInv'
  BY <1>1 DEF IInv, TypeInv, stream, history, start
<1>3. PICK q, taken, e : q = rtpAudioQueue /\ taken = accepted /\ e = emitted
  OBVIOUS
<1>4. QueueOK(q, taken, receiver = "recv") /\ Passed(q, taken, e)
  BY <1>3 DEF IInv
<1>5. QueueOK(q, taken, TRUE)
  <2> SUFFICES ASSUME ~Synchronizes(q) \/ q.blocks # << >>
               PROVE  Settled(q)
    BY <1>4 DEF QueueOK
  <2>1. WellFormed(q) /\ q \in Queues /\ Ordered(q.blocks)
    BY <1>4 DEF QueueOK, WellFormed
  <2>2. ASSUME NEW i \in 1..Len(q.blocks)
        PROVE  ~q.blocks[i].allowDiscontinuity
    <3>1. /\ Len(q.blocks) \in Nat
          /\ q.blocks # << >> /\ Head(q.blocks) = q.blocks[1]
      BY <2>1, QueueFields
    <3>2. CASE i = 1
      BY <1>1, <1>3, <3>1, <3>2 DEF queueHasPacketReady
    <3>3. CASE i # 1
      BY <2>1, <3>1, <3>3, i \in 2..Len(q.blocks) DEF Ordered
    <3> QED
      BY <3>2, <3>3
  <2> QED
    BY <2>2 DEF Settled
<1>6. /\ QueueOK(rtpAudioQueue, accepted, receiver = "recv")'
      /\ Passed(rtpAudioQueue, accepted, emitted)'
  <2>1. PICK rcv : rcv = "recv"
    OBVIOUS
  <2>2. QueueOK(q, taken, rcv = "recv")
    BY <1>5, <2>1
  <2> QED
    BY <1>1, <1>3, <1>4, <2>1, <2>2, SameMode DEF history
<1>7. LineOK'
  BY <1>1 DEF IInv, LineOK, stream, history
<1> QED
  BY <1>1, <1>2, <1>6, <1>7 DEF IInv, stream

LEMMA StepDecodeDirectly ==
  ASSUME IInv, DecodeDirectly
  PROVE  IInv'
<1>1. /\ UNCHANGED <<rtpAudioQueue, start, receiver, packetQueue, mode, newest,
                     asserts, history>>
      /\ out # << >> /\ out' = << >> /\ mode.directSubmit
      /\ heard' = Head(out).number
      /\ inOrder' = (inOrder /\ \/ rtpAudioQueue.incompatible
                                \/ Head(out).number > heard)
  BY DEF DecodeDirectly, decodeInputData
<1>2. Head(out) = out[1] /\ out[1].number \in 0..Numbers - 1
  BY <1>1, EntryFacts DEF IInv, TypeInv
<1>3. heard \in Int /\ emitted \in Int /\ Numbers \in Nat
  BY Sizes DEF IInv, TypeInv
<1>4. packetQueue = << >>
  BY <1>1 DEF IInv
<1>5. inOrder'
  BY <1>1, <1>2, <1>3 DEF IInv, LineOK
<1>6. TypeInv'
  <2>1. out' \in Seq(Entries) /\ Len(out') <= 1
    BY <1>1, EmptySeq
  <2>2. heard' \in -1..Numbers - 1
    BY <1>1, <1>2, <1>3
  <2> QED
    BY <1>1, <1>5, <2>1, <2>2 DEF IInv, TypeInv, start, history
<1>7. /\ QueueOK(rtpAudioQueue, accepted, receiver = "recv")'
      /\ Passed(rtpAudioQueue, accepted, emitted)'
  BY <1>1, QueueKept DEF history
<1>8. LineOK'
  <2>1. Len(packetQueue) = 0
    BY <1>4, EmptySeq
  <2>2. ~rtpAudioQueue.incompatible => heard' <= emitted'
    BY <1>1, <1>2 DEF IInv, LineOK, history
  <2> QED
    BY <1>1, <2>1, <2>2 DEF LineOK
<1> QED
  BY <1>1, <1>5, <1>6, <1>7, <1>8 DEF IInv

LEMMA StepDecoderThread ==
  ASSUME IInv, DecoderThread
  PROVE  IInv'
<1>1. /\ UNCHANGED <<rtpAudioQueue, start, receiver, out, mode, newest,
                     asserts, history>>
      /\ packetQueue # << >> /\ packetQueue' = Tail(packetQueue)
      /\ heard' = Head(packetQueue).number
      /\ inOrder' = (inOrder /\ \/ rtpAudioQueue.incompatible
                                \/ Head(packetQueue).number > heard)
  BY DEF DecoderThread, decodeInputData
<1>2. PICK s \in Seq(Entries) : s = packetQueue
  BY DEF IInv, TypeInv
<1>3. /\ 1 \in 1..Len(s) /\ Head(s) = s[1] /\ Len(s) \in Nat
      /\ \A i \in 1..Len(s) : s[i].number \in 0..Numbers - 1
  BY <1>1, <1>2, EntryFacts
<1>4. heard \in Int /\ emitted \in Int /\ Numbers \in Nat
  BY Sizes DEF IInv, TypeInv
<1>5. PICK t : t = Tail(s)
  OBVIOUS
<1>6. /\ t \in Seq(Entries) /\ Len(t) = Len(s) - 1
      /\ \A i \in 1..Len(t) : t[i] = s[i + 1]
  BY <1>1, <1>2, <1>5, HeadTailProperties
<1>7. \A i \in 1..Len(t) : i + 1 \in 1..Len(s) /\ t[i] = s[i + 1]
  BY <1>3, <1>6
<1>8. inOrder'
  BY <1>1, <1>2, <1>3, <1>4 DEF IInv, LineOK
<1>9. TypeInv'
  <2>1. Len(packetQueue') <= QueueBound
    <3>1. Len(s) <= QueueBound /\ QueueBound \in Nat
      BY <1>2, Sizes DEF IInv, TypeInv
    <3> QED
      BY <1>1, <1>2, <1>3, <1>5, <1>6, <3>1
  <2>2. heard' \in -1..Numbers - 1
    BY <1>1, <1>2, <1>3, <1>4
  <2>3. packetQueue' \in Seq(Entries)
    BY <1>1, <1>2, <1>5, <1>6
  <2> QED
    BY <1>1, <1>8, <2>1, <2>2, <2>3 DEF IInv, TypeInv, start, history
<1>10. /\ QueueOK(rtpAudioQueue, accepted, receiver = "recv")'
       /\ Passed(rtpAudioQueue, accepted, emitted)'
  BY <1>1, QueueKept DEF history
<1>11. LineOK'
  <2> SUFFICES ASSUME ~rtpAudioQueue.incompatible
               PROVE  LineOK'
    BY <1>1 DEF LineOK
  <2>1. /\ heard' = s[1].number /\ packetQueue' = t
        /\ out' = out /\ emitted' = emitted
    BY <1>1, <1>2, <1>3, <1>5 DEF history
  <2>2. /\ \A i \in 1..Len(s) :
             /\ heard < s[i].number /\ s[i].number <= emitted
             /\ out # << >> => s[i].number < out[1].number
        /\ \A i, j \in 1..Len(s) : i < j => s[i].number < s[j].number
        /\ out # << >> => heard < out[1].number /\ out[1].number <= emitted
    BY <1>2 DEF IInv, LineOK
  <2>3. heard' <= emitted'
    BY <1>3, <2>1, <2>2
  <2>4. ASSUME NEW i \in 1..Len(t)
        PROVE  /\ heard' < t[i].number /\ t[i].number <= emitted'
               /\ out # << >> => t[i].number < out[1].number
    <3>1. 1 < i + 1 /\ i + 1 \in 1..Len(s)
      BY <1>3, <1>6
    <3> QED
      BY <1>3, <1>7, <2>1, <2>2, <3>1
  <2>5. ASSUME NEW i \in 1..Len(t), NEW j \in 1..Len(t), i < j
        PROVE  t[i].number < t[j].number
    <3>1. i + 1 < j + 1
      BY <1>3, <1>6, <2>5
    <3> QED
      BY <1>7, <2>2, <3>1
  <2>6. out # << >> => heard' < out[1].number /\ out[1].number <= emitted'
    BY <1>3, <2>1, <2>2
  <2> QED
    BY <2>1, <2>3, <2>4, <2>5, <2>6 DEF LineOK
<1>12. mode.directSubmit' => packetQueue' = << >>
  BY <1>1 DEF IInv
<1> QED
  BY <1>1, <1>8, <1>9, <1>10, <1>11, <1>12 DEF IInv

LEMMA StepQueuePacketToLbq ==
  ASSUME IInv, queuePacketToLbq
  PROVE  IInv'
<1>1. /\ UNCHANGED <<rtpAudioQueue, start, receiver, heard, inOrder, mode,
                     newest, asserts, history>>
      /\ out # << >> /\ ~mode.directSubmit
      /\ \/ /\ Len(packetQueue) < QueueBound
            /\ packetQueue' = packetQueue \o out /\ out' = << >>
         \/ packetQueue' = << >> /\ UNCHANGED out
  BY DEF queuePacketToLbq
<1>2. PICK s \in Seq(Entries) : s = packetQueue
  BY DEF IInv, TypeInv
<1>3. /\ Len(s) \in Nat
      /\ \A i \in 1..Len(s) : s[i].number \in 0..Numbers - 1
  BY <1>2, EntryFacts
<1>4. heard \in Int /\ emitted \in Int /\ Numbers \in Nat /\ QueueBound \in Nat
  BY Sizes DEF IInv, TypeInv
<1>5. /\ QueueOK(rtpAudioQueue, accepted, receiver = "recv")'
      /\ Passed(rtpAudioQueue, accepted, emitted)'
  BY <1>1, QueueKept DEF history
<1>6. CASE packetQueue' = << >> /\ UNCHANGED out
  <2>1. Len(packetQueue') = 0 /\ packetQueue' \in Seq(Entries)
    BY <1>6, EmptySeq
  <2>2. TypeInv'
    BY <1>1, <1>4, <1>6, <2>1 DEF IInv, TypeInv, start, history
  <2>3. LineOK'
    BY <1>1, <1>6, <2>1 DEF IInv, LineOK, history
  <2> QED
    BY <1>1, <1>5, <1>6, <2>2, <2>3 DEF IInv
<1>7. CASE /\ Len(packetQueue) < QueueBound
           /\ packetQueue' = packetQueue \o out /\ out' = << >>
  <2>1. PICK o \in Seq(Entries) : o = out
    BY DEF IInv, TypeInv
  <2>2. Len(o) = 1
    <3>1. PICK n \in Nat : n = Len(o)
      BY EntryFacts
    <3>2. n <= 1 /\ n # 0
      BY <1>1, <2>1, <3>1, EntryFacts DEF IInv, TypeInv
    <3> QED
      BY <3>1, <3>2
  <2>3. PICK t : t = s \o o
    OBVIOUS
  <2>4. /\ t \in Seq(Entries) /\ Len(t) = Len(s) + 1
        /\ \A i \in 1..Len(s) + 1 :
             t[i] = IF i <= Len(s) THEN s[i] ELSE o[i - Len(s)]
    <3>1. /\ t \in Seq(Entries) /\ Len(t) = Len(s) + Len(o)
          /\ \A i \in 1..Len(s) + Len(o) :
               t[i] = IF i <= Len(s) THEN s[i] ELSE o[i - Len(s)]
      BY <2>3, ConcatProperties
    <3> QED
      BY <2>2, <3>1
  <2>5. /\ \A i \in 1..Len(s) : t[i] = s[i]
        /\ t[Len(s) + 1] = o[1]
    BY <1>3, <2>4
  <2>6. \A i \in 1..Len(t) : i \in 1..Len(s) \/ i = Len(s) + 1
    BY <1>3, <2>4
  <2>7. TypeInv'
    <3>1. packetQueue' \in Seq(Entries) /\ Len(packetQueue') <= QueueBound
      BY <1>2, <1>3, <1>4, <1>7, <2>1, <2>3, <2>4
    <3>2. out' \in Seq(Entries) /\ Len(out') <= 1
      BY <1>7, EmptySeq
    <3> QED
      BY <1>1, <3>1, <3>2 DEF IInv, TypeInv, start, history
  <2>8. LineOK'
    <3> SUFFICES ASSUME ~rtpAudioQueue.incompatible
                 PROVE  LineOK'
      BY <1>1 DEF LineOK
    <3>1. /\ heard' = heard /\ packetQueue' = t
          /\ out' = << >> /\ emitted' = emitted
      BY <1>1, <1>2, <1>7, <2>1, <2>3 DEF history
    <3>2. /\ heard <= emitted
          /\ \A i \in 1..Len(s) :
               /\ heard < s[i].number /\ s[i].number <= emitted
               /\ s[i].number < o[1].number
          /\ \A i, j \in 1..Len(s) : i < j => s[i].number < s[j].number
          /\ heard < o[1].number /\ o[1].number <= emitted
      BY <1>1, <1>2, <2>1 DEF IInv, LineOK
    <3>3. \A i \in 1..Len(t) : heard < t[i].number /\ t[i].number <= emitted
      BY <2>5, <2>6, <3>2
    <3>4. ASSUME NEW i \in 1..Len(t), NEW j \in 1..Len(t), i < j
          PROVE  t[i].number < t[j].number
      <4>1. i \in 1..Len(s)
        BY <1>3, <2>4, <3>4
      <4> QED
        BY <2>5, <2>6, <3>2, <3>4, <4>1
    <3> QED
      BY <3>1, <3>2, <3>3, <3>4 DEF LineOK
  <2> QED
    BY <1>1, <1>5, <2>7, <2>8 DEF IInv
<1> QED
  BY <1>1, <1>6, <1>7

(***************************************************************************)
(* What the receive thread does with a packet                              *)
(***************************************************************************)

(* The parts of the invariant, for queues that differ in little            *)
LEMMA SimilarQueues ==
  ASSUME NEW q, NEW r \in Queues, r.blocks = q.blocks, r.next = q.next,
         r.oldest = q.oldest, r.synchronizing = q.synchronizing,
         NEW taken, NEW e, NEW settled \in BOOLEAN
  PROVE  /\ QueueOK(q, taken, settled) => QueueOK(r, taken, settled)
         /\ r.incompatible = q.incompatible /\ Passed(q, taken, e)
              => Passed(r, taken, e)
         /\ Synchronizes(r) = Synchronizes(q)
<1>1. Synchronizes(r) = Synchronizes(q)
  BY DEF Synchronizes
<1>2. WellFormed(q) => WellFormed(r)
  BY DEF WellFormed, Cursor
<1>3. (Keeps(q, taken) => Keeps(r, taken)) /\ (Settled(q) => Settled(r))
  BY DEF Keeps, Settled
<1>4. QueueOK(q, taken, settled) => QueueOK(r, taken, settled)
  BY <1>1, <1>2, <1>3 DEF QueueOK
<1>5. r.incompatible = q.incompatible /\ Passed(q, taken, e)
        => Passed(r, taken, e)
  BY <1>1 DEF Passed
<1> QED
  BY <1>1, <1>4, <1>5

LEMMA NotedFacts ==
  ASSUME IInv, NEW pos \in Positions, NEW p, p = Packet(pos),
         NEW n, n = Noted(p)
  PROVE  n \in Queues /\ SameBlocks(rtpAudioQueue, n)
<1>1. p.seq \in 0..Modulus - 1
  BY PacketFacts DEF IInv, TypeInv
<1>2. rtpAudioQueue \in Queues
  BY DEF IInv, TypeInv
<1>3. CASE p.isData
  BY <1>1, <1>2, <1>3, SequenceSeenFacts DEF Noted
<1>4. CASE ~p.isData
  BY <1>2, <1>4 DEF Noted, SameBlocks
<1> QED
  BY <1>3, <1>4

(* A step of the receive thread that leaves the queue in order, and passes *)
(* on nothing or the entry that was not passed on before                   *)
LEMMA Advance ==
  ASSUME IInv, out = << >>,
         UNCHANGED <<mode, packetQueue, heard, inOrder>>,
         newest' \in -1..NumBlocks * TotalShards - 1,
         packetsToDrop' \in 0..InitialDrop, receivedDataFromPeer' \in BOOLEAN,
         asserts',
         NEW q \in Queues, rtpAudioQueue' = q,
         NEW taken \in SUBSET Positions, accepted' = taken,
         NEW e \in -1..Numbers - 1, emitted' = e,
         NEW rcv \in {"recv", "drain"}, receiver' = rcv,
         QueueOK(q, taken, rcv = "recv"), Passed(q, taken, e),
         rcv = "drain" => ~q.incompatible,
         rtpAudioQueue.incompatible => q.incompatible,
         \/ out' = << >> /\ e = emitted
         \/ /\ q.incompatible \/ emitted < e
            /\ e # -1 /\ \E lost \in BOOLEAN : out' = <<Entry(e, lost)>>
  PROVE  IInv'
<1>1. Numbers \in Nat
  BY Sizes
<1>2. /\ out' \in Seq(Entries) /\ Len(out') <= 1
      /\ out' # << >> => out'[1].number = e
  <2>1. CASE out' = << >>
    BY <2>1, EmptySeq
  <2>2. CASE e # -1 /\ \E lost \in BOOLEAN : out' = <<Entry(e, lost)>>
    <3>1. PICK lost \in BOOLEAN : out' = <<Entry(e, lost)>>
      BY <2>2
    <3>2. PICK x : x = Entry(e, lost)
      OBVIOUS
    <3>3. x \in Entries /\ x.number = e
      BY <1>1, <2>2, <3>2 DEF Entry, Entries
    <3>4. <<x>> \in Seq(Entries) /\ Len(<<x>>) = 1 /\ <<x>>[1] = x
      BY <3>3
    <3> QED
      BY <3>1, <3>2, <3>3, <3>4
  <2> QED
    BY <2>1, <2>2
<1>3. asserts' \in BOOLEAN
  <2>1. asserts' = TRUE \/ asserts' \in BOOLEAN
    BY DEF IInv, TypeInv
  <2> QED
    BY <2>1
<1>4. TypeInv'
  BY <1>2, <1>3 DEF IInv, TypeInv
<1>5. /\ QueueOK(rtpAudioQueue, accepted, receiver = "recv")'
      /\ Passed(rtpAudioQueue, accepted, emitted)'
  BY SameMode
<1>6. LineOK'
  <2> SUFFICES ASSUME ~q.incompatible
               PROVE  LineOK'
    BY DEF LineOK
  <2>1. ~rtpAudioQueue.incompatible
    OBVIOUS
  <2>2. emitted <= e /\ (out' # << >> => emitted < e)
    <3>1. emitted \in Int
      BY DEF IInv, TypeInv
    <3> QED
      BY <1>1, <3>1
  <2>3. PICK s \in Seq(Entries) : s = packetQueue
    BY DEF IInv, TypeInv
  <2>4. /\ heard <= emitted
        /\ \A i \in 1..Len(s) : heard < s[i].number /\ s[i].number <= emitted
        /\ \A i, j \in 1..Len(s) : i < j => s[i].number < s[j].number
    BY <2>1, <2>3 DEF IInv, LineOK
  <2>5. \A i \in 1..Len(s) : s[i].number \in Int
    BY <2>3, EntryFacts
  <2>6. emitted \in Int /\ heard \in Int /\ e \in Int
    BY DEF IInv, TypeInv
  <2>7. heard <= e
    BY <2>2, <2>4, <2>6
  <2>8. ASSUME NEW i \in 1..Len(s)
        PROVE  s[i].number <= e /\ (out' # << >> => s[i].number < e)
    BY <2>2, <2>4, <2>5, <2>6
  <2>9. out' # << >> => heard < e /\ e <= e
    BY <2>2, <2>4, <2>6
  <2>10. packetQueue' = s /\ heard' = heard /\ emitted' = e
    BY <2>3
  <2> QED
    BY <1>2, <2>4, <2>7, <2>8, <2>9, <2>10 DEF LineOK
<1>7. mode.directSubmit' => packetQueue' = << >>
  BY DEF IInv
<1> QED
  BY <1>4, <1>5, <1>6, <1>7 DEF IInv

(* What every packet does besides what it does to the queue                *)
LEMMA ReceiveFrame ==
  ASSUME IInv, NEW pos \in Positions, NEW p, p = Packet(pos), ReceivePacket(p)
  PROVE  /\ out = << >> /\ receiver = "recv"
         /\ UNCHANGED <<mode, packetQueue, heard, inOrder>>
         /\ newest' \in -1..NumBlocks * TotalShards - 1
         /\ packetsToDrop' \in 0..InitialDrop
         /\ receivedDataFromPeer' \in BOOLEAN
<1>1. /\ Receiving /\ Delivered(p)
      /\ UNCHANGED <<packetsToDrop, stream, mode>>
  BY DEF ReceivePacket
<1>2. p.pos = pos
  BY PacketFacts DEF IInv, TypeInv
<1>3. newest' \in -1..NumBlocks * TotalShards - 1
  <2>1. PICK m : m = NumBlocks * TotalShards
    OBVIOUS
  <2>2. pos \in 0..m - 1 /\ newest \in -1..m - 1
    BY <2>1 DEF Positions, IInv, TypeInv
  <2> QED
    BY <1>1, <1>2, <2>1, <2>2 DEF Delivered
<1> QED
  BY <1>1, <1>3 DEF Receiving, Delivered, stream, IInv, TypeInv

LEMMA StepAddIncompatible ==
  ASSUME IInv, NEW pos \in Positions, NEW p, p = Packet(pos),
         ReceivePacket(p), AddIncompatible(p)
  PROVE  IInv'
<1>1. /\ UNCHANGED <<rtpAudioQueue, receiver, asserts, accepted>>
      /\ rtpAudioQueue.incompatible
      /\ IF p.isData THEN out' = <<Entry(p.number, FALSE)>>
                          /\ emitted' = p.number
                     ELSE UNCHANGED <<out, emitted>>
  BY DEF AddIncompatible, HandleNow
<1>2. /\ out = << >> /\ receiver = "recv"
      /\ UNCHANGED <<mode, packetQueue, heard, inOrder>>
      /\ newest' \in -1..NumBlocks * TotalShards - 1
      /\ packetsToDrop' \in 0..InitialDrop
      /\ receivedDataFromPeer' \in BOOLEAN
  BY ReceiveFrame
<1>3. p.isData => p.number \in 0..Numbers - 1
  <2>1. /\ p.isData = (IndexOf(pos) < DataShards)
        /\ p.number = BlockOf(pos) + IndexOf(pos)
    BY PacketFacts DEF IInv, TypeInv
  <2>2. PICK b, i : b = BlockOf(pos) /\ i = IndexOf(pos)
    OBVIOUS
  <2>3. b \in Nat /\ b + DataShards <= Numbers /\ i \in 0..TotalShards - 1
        /\ DataShards \in Nat /\ Numbers \in Nat
    BY <2>2, PositionFacts, Sizes
  <2>4. p.isData => i < DataShards
    BY <2>1, <2>2, Zenon
  <2>5. p.number = b + i
    BY <2>1, <2>2
  <2> QED
    BY <2>3, <2>4, <2>5
<1>4. PICK q, taken, e, rcv : /\ q = rtpAudioQueue /\ taken = accepted
                              /\ e = emitted' /\ rcv = receiver
  OBVIOUS
<1>5. /\ e \in -1..Numbers - 1 /\ taken \in SUBSET Positions /\ q \in Queues
      /\ QueueOK(q, taken, rcv = "recv") /\ asserts'
  <2>1. emitted \in -1..Numbers - 1 /\ Numbers \in Nat
    BY Sizes DEF IInv, TypeInv
  <2>2. (e = p.number /\ p.isData) \/ e = emitted
    BY <1>1, <1>4
  <2>3. e \in -1..Numbers - 1
    BY <1>3, <2>1, <2>2
  <2> QED
    BY <1>1, <1>4, <2>3 DEF IInv, TypeInv
<1>6. Passed(q, taken, e)
  BY <1>1, <1>4 DEF Passed
<1>7. \/ out' = << >> /\ e = emitted
      \/ e # -1 /\ \E lost \in BOOLEAN : out' = <<Entry(e, lost)>>
  <2>1. CASE p.isData
    <3>1. p.number # -1
      BY <1>3, <2>1, Sizes
    <3> QED
      BY <1>1, <1>4, <2>1, <3>1, FALSE \in BOOLEAN
  <2>2. CASE ~p.isData
    BY <1>1, <1>2, <1>4, <2>2
  <2> QED
    BY <2>1, <2>2
<1> QED
  BY <1>1, <1>2, <1>4, <1>5, <1>6, <1>7, Advance

LEMMA StepAddTurnsFecOff ==
  ASSUME IInv, NEW pos \in Positions, NEW p, p = Packet(pos),
         ReceivePacket(p), AddTurnsFecOff(p)
  PROVE  IInv'
<1>1. PICK n : n = Noted(p)
  OBVIOUS
<1>2. /\ rtpAudioQueue' = [n EXCEPT !.incompatible = TRUE]
      /\ UNCHANGED <<receiver, out, asserts, history>>
  BY <1>1 DEF AddTurnsFecOff
<1>3. /\ out = << >> /\ receiver = "recv"
      /\ UNCHANGED <<mode, packetQueue, heard, inOrder>>
      /\ newest' \in -1..NumBlocks * TotalShards - 1
      /\ packetsToDrop' \in 0..InitialDrop
      /\ receivedDataFromPeer' \in BOOLEAN
  BY ReceiveFrame
<1>4. n \in Queues /\ SameBlocks(rtpAudioQueue, n)
  BY <1>1, NotedFacts
<1>5. PICK q : q = [n EXCEPT !.incompatible = TRUE]
  OBVIOUS
<1>6. PICK o, taken, e, rcv : /\ o = rtpAudioQueue /\ taken = accepted
                              /\ e = emitted /\ rcv = receiver
  OBVIOUS
<1>7. /\ q \in Queues /\ q.incompatible /\ q.blocks = o.blocks
      /\ q.next = o.next /\ q.oldest = o.oldest
      /\ q.synchronizing = o.synchronizing
  BY <1>4, <1>5, <1>6 DEF Queues, SameBlocks
<1>8. /\ e \in -1..Numbers - 1 /\ taken \in SUBSET Positions
      /\ QueueOK(o, taken, rcv = "recv") /\ asserts'
  BY <1>2, <1>6 DEF IInv, TypeInv
<1>9. QueueOK(q, taken, rcv = "recv")
  BY <1>7, <1>8, SimilarQueues
<1>10. Passed(q, taken, e)
  BY <1>7 DEF Passed
<1>11. rcv # "drain"
  BY <1>3, <1>6
<1> QED
  BY <1>2, <1>3, <1>5, <1>6, <1>7, <1>8, <1>9, <1>10, <1>11, Advance
     DEF history

LEMMA StepAddRejected ==
  ASSUME IInv, NEW pos \in Positions, NEW p, p = Packet(pos),
         ReceivePacket(p), AddRejected(p)
  PROVE  IInv'
<1>1. PICK q : q = Noted(p)
  OBVIOUS
<1>2. /\ rtpAudioQueue' = q
      /\ UNCHANGED <<receiver, out, asserts, history>>
  BY <1>1 DEF AddRejected
<1>3. /\ out = << >> /\ receiver = "recv"
      /\ UNCHANGED <<mode, packetQueue, heard, inOrder>>
      /\ newest' \in -1..NumBlocks * TotalShards - 1
      /\ packetsToDrop' \in 0..InitialDrop
      /\ receivedDataFromPeer' \in BOOLEAN
  BY ReceiveFrame
<1>4. PICK o, taken, e, rcv : /\ o = rtpAudioQueue /\ taken = accepted
                              /\ e = emitted /\ rcv = receiver
  OBVIOUS
<1>5. /\ q \in Queues /\ q.incompatible = o.incompatible
      /\ q.blocks = o.blocks
      /\ q.next = o.next /\ q.oldest = o.oldest
      /\ q.synchronizing = o.synchronizing
  BY <1>1, <1>4, NotedFacts DEF SameBlocks
<1>6. /\ e \in -1..Numbers - 1 /\ taken \in SUBSET Positions
      /\ QueueOK(o, taken, rcv = "recv") /\ Passed(o, taken, e) /\ asserts'
  BY <1>2, <1>4 DEF IInv, TypeInv
<1>7. QueueOK(q, taken, rcv = "recv") /\ Passed(q, taken, e)
  BY <1>5, <1>6, SimilarQueues
<1>8. rcv # "drain"
  BY <1>3, <1>4
<1> QED
  BY <1>2, <1>3, <1>4, <1>5, <1>6, <1>7, <1>8, Advance DEF history

(* The queue synchronizes: it starts with the block after that of p.       *)
LEMMA StepAddSynchronizing ==
  ASSUME IInv, NeverRestarts, NEW pos \in Positions, NEW p, p = Packet(pos),
         ReceivePacket(p), AddSynchronizing(p)
  PROVE  IInv'
<1>1. PICK n, first : n = Noted(p) /\ first = U16(p.base + DataShards)
  OBVIOUS
<1>2. /\ rtpAudioQueue' = [n EXCEPT !.next = first, !.oldest = first]
      /\ UNCHANGED <<receiver, out, asserts, history>>
      /\ Synchronizes(rtpAudioQueue) /\ ~rtpAudioQueue.incompatible
  BY <1>1 DEF AddSynchronizing, Usable
<1>3. /\ out = << >> /\ receiver = "recv"
      /\ UNCHANGED <<mode, packetQueue, heard, inOrder>>
      /\ newest' \in -1..NumBlocks * TotalShards - 1
      /\ packetsToDrop' \in 0..InitialDrop
      /\ receivedDataFromPeer' \in BOOLEAN
  BY ReceiveFrame
<1>4. n \in Queues /\ SameBlocks(rtpAudioQueue, n)
  BY <1>1, NotedFacts
<1>5. PICK q : q = [n EXCEPT !.next = first, !.oldest = first]
  OBVIOUS
<1>6. rtpAudioQueue.synchronizing /\ rtpAudioQueue.blocks = << >>
  BY <1>2 DEF NeverRestarts, Synchronizes
<1>7. accepted = {} /\ emitted = -1
  BY <1>2, <1>6 DEF IInv, Passed
<1>8. mode \in Modes /\ asserts
  BY DEF IInv, TypeInv
<1>9. /\ p.base \in 0..Modulus - 1 /\ Aligned(p.base)
      /\ Offset(p.base) = BlockOf(pos)
  BY <1>8, PacketFacts
<1>10. /\ BlockOf(pos) \in Nat /\ Aligned(BlockOf(pos))
       /\ BlockOf(pos) + DataShards <= Numbers
       /\ DataShards \in Nat \ {0} /\ Numbers \in Nat
  BY PositionFacts, Sizes
<1>11. first \in 0..Modulus - 1 /\ Offset(first) = BlockOf(pos) + DataShards
  BY <1>1, <1>8, <1>9, <1>10, BaseFacts, DataShards \in 0..DataShards
<1>12. Aligned(first)
  <2>1. Aligned(DataShards)
    <3>1. (1 * DataShards + 0) % DataShards = 0
      BY <1>10, Remainder, 0 \in 0..DataShards - 1
    <3> QED
      BY <1>10, <3>1 DEF Aligned
  <2>2. PICK b \in Int : b = BlockOf(pos)
    BY <1>10
  <2>3. Aligned(b + DataShards)
    BY <1>10, <2>1, <2>2, AlignedSum
  <2> QED
    BY <1>8, <1>11, <2>2, <2>3, AlignedFacts
<1>13. /\ q \in Queues /\ q.blocks = << >> /\ q.next = first
       /\ q.oldest = first /\ q.synchronizing /\ ~q.incompatible
  BY <1>2, <1>4, <1>5, <1>6, <1>11 DEF Queues, SameBlocks
<1>14. WellFormed(q)
  <2>1. Ordered(<< >>)
    BY EmptySeq DEF Ordered
  <2>2. Cursor(q)
    BY <1>10, <1>11, <1>12, <1>13 DEF Cursor
  <2> QED
    BY <1>13, <2>1, <2>2 DEF WellFormed
<1>15. Settled(q)
  BY <1>13, EmptySeq DEF Settled
<1>16. PICK taken, e, rcv : /\ taken = accepted /\ e = emitted
                            /\ rcv = receiver
  OBVIOUS
<1>17. QueueOK(q, taken, rcv = "recv")
  BY <1>7, <1>13, <1>14, <1>15, <1>16 DEF QueueOK, Keeps
<1>18. Passed(q, taken, e)
  <2>1. -1 < Offset(first)
    BY <1>10, <1>11
  <2> QED
    BY <1>7, <1>13, <1>16, <2>1 DEF Passed
<1>19. e \in -1..Numbers - 1 /\ taken \in SUBSET Positions /\ asserts'
  BY <1>2, <1>8, <1>16 DEF IInv, TypeInv
<1>20. rcv # "drain" /\ rcv \in {"recv", "drain"}
  BY <1>3, <1>16
<1> QED
  BY <1>2, <1>3, <1>5, <1>13, <1>16, <1>17, <1>18, <1>19, <1>20, Advance
     DEF history

(* The shard of an accepted packet is copied to its block.                 *)
LEMMA WithShardFacts ==
  ASSUME IInv, NEW pos \in Positions, NEW p, p = Packet(pos),
         receiver = "recv", Accepts(p),
         NEW o, o = rtpAudioQueue, NEW q, q = WithShard(p)
  PROVE  /\ WellFormed(o) /\ ~Synchronizes(o) /\ ~o.incompatible
         /\ WellFormed(q) /\ Settled(q) /\ HasBlock(q, p.base)
         /\ Keeps(q, accepted \cup {pos})
         /\ accepted' = accepted \cup {pos}
         /\ Offset(o.oldest) <= Offset(p.base)
         /\ q.next = o.next /\ q.oldest = o.oldest
         /\ q.synchronizing = o.synchronizing
         /\ q.incompatible = o.incompatible
<1>1. /\ ~Synchronizes(o) /\ ~o.incompatible /\ ~Refused(o, p)
      /\ ~isDuplicate(o, p)
      /\ accepted' = accepted \cup {p.pos}
  BY DEF Accepts, Fits, Usable
<1>2. mode \in Modes /\ accepted \in SUBSET Positions
  BY DEF IInv, TypeInv
<1>3. WellFormed(o) /\ Keeps(o, accepted) /\ Settled(o)
  BY <1>1 DEF IInv, QueueOK
<1>4. /\ p.pos = pos /\ p.index = IndexOf(pos)
      /\ p.base \in 0..Modulus - 1 /\ Aligned(p.base)
      /\ Offset(p.base) = BlockOf(pos) /\ p.size \in {1, 2}
  BY <1>2, PacketFacts
<1>5. /\ BlockOf(pos) \in Nat /\ BlockOf(pos) + DataShards <= Numbers
      /\ IndexOf(pos) \in 0..TotalShards - 1
      /\ DataShards \in Nat \ {0} /\ Numbers \in Nat
  BY PositionFacts, Sizes
<1>6. Offset(o.oldest) <= Offset(p.base)
  <2>1. o \in Queues /\ Offset(o.oldest) <= Numbers
    BY <1>3 DEF WellFormed, Cursor
  <2>2. o.oldest \in 0..Modulus - 1
    BY <2>1, QueueFields
  <2>3. Offset(o.oldest) \in Nat
    BY <1>2, <2>2, OffsetFacts
  <2>4. ~isBefore16(p.base, o.oldest)
    BY <1>1 DEF Refused
  <2>5. Offset(p.base) <= Numbers
    BY <1>4, <1>5
  <2>6. ~(Offset(p.base) < Offset(o.oldest))
    BY <1>2, <1>4, <2>1, <2>2, <2>4, <2>5, Before
  <2> QED
    BY <1>4, <1>5, <2>3, <2>6
<1>7. PICK n : n = Noted(p)
  OBVIOUS
<1>8. n \in Queues /\ SameBlocks(o, n)
  BY <1>7, NotedFacts
<1>9. WellFormed(n) /\ Settled(n) /\ Keeps(n, accepted)
  BY <1>3, <1>8, SameBlocksFacts
<1>10. /\ n.blocks = o.blocks /\ n.next = o.next /\ n.oldest = o.oldest
       /\ n.synchronizing = o.synchronizing
       /\ n.incompatible = o.incompatible
  BY <1>8 DEF SameBlocks
<1>11. PICK w : w = WithBlock(n, p.base, p.size)
  OBVIOUS
<1>12. /\ WellFormed(w) /\ HasBlock(w, p.base) /\ Settled(w)
       /\ Keeps(w, accepted)
       /\ w.next = n.next /\ w.oldest = n.oldest
       /\ w.synchronizing = n.synchronizing
       /\ w.incompatible = n.incompatible
       /\ HasBlock(n, p.base) => w = n
       /\ ~HasBlock(n, p.base) =>
            w.blocks[BlockAt(w, p.base)] = FecBlock(p.base, p.size)
  <2>1. Offset(n.oldest) <= Offset(p.base)
        /\ Offset(p.base) + DataShards <= Numbers
    BY <1>4, <1>5, <1>6, <1>10
  <2> QED
    BY <1>2, <1>4, <1>9, <1>11, <2>1, WithBlockFacts
<1>13. PICK b : b = w.blocks[BlockAt(w, p.base)]
  OBVIOUS
<1>14. p.index \notin b.have /\ ~b.fullyReassembled
  <2>1. CASE HasBlock(n, p.base)
    <3>1. w = n
      BY <1>12, <2>1
    <3>2. HasBlock(o, p.base)
      BY <1>10, <2>1 DEF HasBlock
    <3>3. /\ BlockAt(o, p.base) \in 1..Len(o.blocks)
          /\ o.blocks[BlockAt(o, p.base)].base = p.base
      BY <3>2, BlockAtFacts
    <3>4. /\ BlockAt(n, p.base) \in 1..Len(o.blocks)
          /\ o.blocks[BlockAt(n, p.base)].base = p.base
      BY <1>10, <2>1, BlockAtFacts
    <3>5. BlockAt(o, p.base) = BlockAt(n, p.base)
      BY <1>2, <1>3, <3>3, <3>4, OneBlock
    <3>6. b = o.blocks[BlockAt(o, p.base)]
      BY <1>10, <1>13, <3>1, <3>5
    <3> QED
      BY <1>1, <3>2, <3>6 DEF Refused, isDuplicate
  <2>2. CASE ~HasBlock(n, p.base)
    <3>1. Offset(p.base) + DataShards <= Numbers
      BY <1>4, <1>5
    <3>2. b = FecBlock(p.base, p.size)
      BY <1>12, <1>13, <2>2
    <3>3. b.have = {} /\ ~b.fullyReassembled
      BY <1>2, <1>4, <3>1, <3>2, FreshBlock
    <3> QED
      BY <3>3
  <2> QED
    BY <2>1, <2>2
<1>15. q = Stored(w, p.base, p.index)
  BY <1>7, <1>11 DEF WithShard
<1>16. p.index \in 0..TotalShards - 1
  BY <1>4, <1>5
<1>17. /\ WellFormed(q) /\ HasBlock(q, p.base)
       /\ q.blocks[BlockAt(q, p.base)].have = b.have \cup {p.index}
       /\ Settled(q) /\ Keeps(q, accepted)
       /\ q.next = w.next /\ q.oldest = w.oldest
       /\ q.synchronizing = w.synchronizing
       /\ q.incompatible = w.incompatible
  BY <1>2, <1>12, <1>13, <1>14, <1>15, <1>16, StoredFacts
<1>18. Keeps(q, accepted \cup {pos})
  <2>1. /\ BlockAt(q, p.base) \in 1..Len(q.blocks)
        /\ q.blocks[BlockAt(q, p.base)].base = p.base
    BY <1>17, BlockAtFacts
  <2>2. \E i \in 1..Len(q.blocks) : /\ Offset(q.blocks[i].base) = BlockOf(pos)
                                    /\ IndexOf(pos) \in q.blocks[i].have
    BY <1>4, <1>17, <2>1
  <2> QED
    BY <1>17, <2>2 DEF Keeps
<1> QED
  BY <1>1, <1>3, <1>4, <1>6, <1>10, <1>12, <1>17, <1>18

(* Between what was passed on and next, there is nothing taken, and a      *)
(* packet that is accepted is not there either.                            *)
LEMMA GapKept ==
  ASSUME mode \in Modes, NEW o, WellFormed(o), ~Synchronizes(o),
         ~o.incompatible, NEW taken, NEW e \in Int, Passed(o, taken, e),
         NEW pos \in Positions, Offset(o.oldest) <= BlockOf(pos)
  PROVE  /\ \A x \in taken \cup {pos} : \A n \in e + 1..Offset(o.next) - 1 :
              ~Covers(x, n)
         /\ e < Offset(o.next)
         /\ o.next # o.oldest => e = Offset(o.next) - 1
<1>1. /\ e < Offset(o.next)
      /\ o.next # o.oldest => e = Offset(o.next) - 1
      /\ \A x \in taken : \A n \in e + 1..Offset(o.next) - 1 : ~Covers(x, n)
  BY DEF Passed
<1>2. Offset(o.next) \in Int /\ Offset(o.oldest) \in Int
  BY QueueFields, OffsetFacts DEF WellFormed
<1>3. BlockOf(pos) \in Int
  BY PositionFacts
<1>4. ASSUME NEW n \in e + 1..Offset(o.next) - 1
      PROVE  ~Covers(pos, n)
  <2>1. e < n /\ n < Offset(o.next) /\ n \in Int
    BY <1>2
  <2>2. o.next = o.oldest
    BY <1>1, <1>2, <2>1
  <2>3. n < BlockOf(pos)
    BY <1>2, <1>3, <2>1, <2>2
  <2> QED
    BY <1>3, <2>1, <2>3 DEF Covers
<1> QED
  BY <1>1, <1>4

(* The next packet in sequence is that of the first block.                 *)
LEMMA NextIsOfFirst ==
  ASSUME mode \in Modes, NEW q, WellFormed(q), NEW pos \in Positions,
         NEW p, p = Packet(pos), HasBlock(q, p.base),
         p.isData, p.seq = q.next
  PROVE  /\ q.blocks # << >> /\ BlockAt(q, p.base) = 1
         /\ Head(q.blocks).base = q.oldest /\ p.base = q.oldest
         /\ p.number = Offset(q.next)
<1>1. /\ p.index = IndexOf(pos) /\ p.number = BlockOf(pos) + IndexOf(pos)
      /\ p.base \in 0..Modulus - 1 /\ Aligned(p.base)
      /\ Offset(p.base) = BlockOf(pos)
      /\ p.seq = p.base + p.index
  BY PacketFacts
<1>2. /\ BlockOf(pos) \in Nat /\ Aligned(BlockOf(pos))
      /\ BlockOf(pos) + DataShards <= Numbers
      /\ IndexOf(pos) \in 0..TotalShards - 1
      /\ DataShards \in Nat \ {0} /\ Numbers \in Nat
  BY PositionFacts, Sizes
<1>3. PICK i \in 0..DataShards - 1 : i = IndexOf(pos)
  <2>1. p.isData = (IndexOf(pos) < DataShards)
    BY PacketFacts
  <2>2. IndexOf(pos) < DataShards
    BY <2>1, Zenon
  <2> QED
    BY <1>2, <2>2
<1>4. Offset(q.next) = BlockOf(pos) + i
  <2>1. U16(p.base + i) = p.base + i
    BY <1>1, <1>3, BaseFacts
  <2>2. Offset(p.base) + DataShards <= Numbers /\ i \in 0..DataShards
    BY <1>1, <1>2
  <2>3. Offset(U16(p.base + i)) = Offset(p.base) + i
    BY <1>1, <2>2, BaseFacts
  <2> QED
    BY <1>1, <1>3, <2>1, <2>3
<1>5. q \in Queues /\ Cursor(q)
  BY DEF WellFormed
<1>6. q.blocks # << >>
  <2>1. \E j \in 1..Len(q.blocks) : TRUE
    BY DEF HasBlock
  <2> QED
    BY <1>5, <2>1, QueueFields
<1>7. PICK h : h = Head(q.blocks)
  OBVIOUS
<1>8. /\ Offset(q.oldest) \in Nat
      /\ Offset(q.next) = Offset(q.oldest) + h.nextIndex
      /\ h.nextIndex \in 0..DataShards - 1
  BY <1>6, <1>7, FirstBlock
<1>9. q.oldest \in 0..Modulus - 1 /\ Aligned(q.oldest)
  BY <1>5, QueueFields DEF Cursor
<1>10. PICK a \in Int, b \in Int, k \in 0..DataShards - 1 :
         a = Offset(q.oldest) /\ b = BlockOf(pos) /\ k = h.nextIndex
  BY <1>2, <1>8
<1>11. Aligned(a) /\ Aligned(b)
  BY <1>2, <1>9, <1>10, AlignedFacts
<1>12. a + k = b + i
  BY <1>4, <1>8, <1>10
<1>13. (a < b => a + DataShards <= b) /\ (b < a => b + DataShards <= a)
  BY <1>11, AlignedSum
<1>14. a = b
  BY <1>2, <1>12, <1>13
<1>15. p.base = q.oldest
  BY <1>1, <1>9, <1>10, <1>14, SameOffset
<1>16. BlockAt(q, p.base) = 1
  BY <1>15, OldestIsFirst
<1>17. h.base = q.oldest
  <2>1. q.blocks[1].base = p.base
    BY <1>16, BlockAtFacts
  <2> QED
    BY <1>5, <1>6, <1>7, <1>15, <2>1, QueueFields
<1> QED
  BY <1>1, <1>3, <1>4, <1>6, <1>7, <1>15, <1>16, <1>17

(* What the queue is after a packet was handled at once                    *)
LEMMA HandledNowFacts ==
  ASSUME IInv, NEW pos \in Positions, NEW p, p = Packet(pos),
         receiver = "recv", AddHandledNow(p),
         NEW f, f = rtpAudioQueue'
  PROVE  /\ f \in Queues /\ WellFormed(f) /\ Settled(f)
         /\ Keeps(f, accepted \cup {pos}) /\ accepted' = accepted \cup {pos}
         /\ f.blocks = << >> => ~f.synchronizing
         /\ ~f.incompatible /\ ~rtpAudioQueue.incompatible
         /\ emitted' = p.number /\ p.number = Offset(rtpAudioQueue.next)
         /\ Offset(f.next) = Offset(rtpAudioQueue.next) + 1
         /\ p.number \in 0..Numbers - 1
         /\ out' = <<Entry(p.number, FALSE)>>
         /\ receiver' = receiver /\ asserts'
         /\ emitted < p.number
         /\ \A x \in accepted \cup {pos} : \A n \in emitted + 1..p.number - 1 :
              ~Covers(x, n)
<1>1. PICK o, q : o = rtpAudioQueue /\ q = WithShard(p)
  OBVIOUS
<1>2. PICK r : r = HandedOut(q, BlockAt(q, p.base))
  OBVIOUS
<1>3. /\ Accepts(p) /\ p.isData /\ p.seq = o.next
      /\ out' = <<Entry(p.number, FALSE)>> /\ emitted' = p.number
      /\ f = IF r.next = U16(p.base + DataShards)
               THEN freeFecBlockHead(r) ELSE r
      /\ asserts' = (asserts /\ (r.next = U16(p.base + DataShards) =>
                                   /\ Head(r.blocks).base = p.base
                                   /\ Head(r.blocks).nextIndex = DataShards))
      /\ receiver' = receiver
  BY <1>1, <1>2 DEF AddHandledNow, HandleNow, IsNext, LC_ASSERT
<1>4. mode \in Modes /\ asserts
  BY DEF IInv, TypeInv
<1>5. /\ WellFormed(o) /\ ~Synchronizes(o) /\ ~o.incompatible
      /\ WellFormed(q) /\ Settled(q) /\ HasBlock(q, p.base)
      /\ Keeps(q, accepted \cup {pos})
      /\ accepted' = accepted \cup {pos}
      /\ Offset(o.oldest) <= Offset(p.base)
      /\ q.next = o.next /\ q.oldest = o.oldest
      /\ q.incompatible = o.incompatible
  <2>1. /\ IInv /\ pos \in Positions /\ p = Packet(pos) /\ receiver = "recv"
        /\ Accepts(p) /\ o = rtpAudioQueue /\ q = WithShard(p)
    BY <1>1, <1>3
  <2> QED
    BY ONLY <2>1, WithShardFacts
<1>6. /\ q.blocks # << >> /\ BlockAt(q, p.base) = 1
      /\ Head(q.blocks).base = q.oldest /\ p.base = q.oldest
      /\ p.number = Offset(q.next)
  BY <1>3, <1>4, <1>5, NextIsOfFirst
<1>7. PICK h : h = Head(q.blocks)
  OBVIOUS
<1>8. r = HandedOut(q, 1)
  BY <1>2, <1>6
<1>9. PICK g : g = IF Head(r.blocks).nextIndex = DataShards
                     THEN freeFecBlockHead(r) ELSE r
  OBVIOUS
<1>10. accepted \cup {pos} \in SUBSET Positions
  BY DEF IInv, TypeInv
<1>11. /\ Head(r.blocks).base = h.base
       /\ Head(r.blocks).nextIndex = h.nextIndex + 1
       /\ r.next \in 0..Modulus - 1 /\ Offset(r.next) = Offset(q.next) + 1
       /\ WellFormed(g) /\ g.next = r.next
       /\ Settled(g) /\ Keeps(g, accepted \cup {pos})
       /\ g.blocks = << >> => ~g.synchronizing
       /\ g.incompatible = q.incompatible
  BY <1>4, <1>5, <1>6, <1>7, <1>8, <1>9, <1>10, HandOutFacts
<1>12. /\ Offset(h.base) \in Nat /\ Offset(h.base) + DataShards <= Numbers
       /\ Offset(q.next) = Offset(q.oldest) + h.nextIndex
       /\ h.base \in 0..Modulus - 1 /\ Aligned(h.base)
       /\ h.nextIndex \in 0..DataShards - 1
  BY <1>4, <1>5, <1>6, <1>7, FirstBlock
<1>13. DataShards \in Nat \ {0} /\ Numbers \in Nat
  BY Sizes
<1>14. r.next = U16(p.base + DataShards)
         <=> Head(r.blocks).nextIndex = DataShards
  <2>1. PICK z : z = U16(p.base + DataShards)
    OBVIOUS
  <2>2. z \in 0..Modulus - 1 /\ Offset(z) = Offset(h.base) + DataShards
    BY <1>4, <1>6, <1>7, <1>12, <1>13, <2>1, BaseFacts,
       DataShards \in 0..DataShards
  <2>3. Offset(r.next) = Offset(h.base) + (h.nextIndex + 1)
    BY <1>6, <1>7, <1>11, <1>12
  <2>4. r.next = z <=> Offset(r.next) = Offset(z)
    BY <1>4, <1>11, <2>2, SameOffset
  <2>5. Offset(r.next) = Offset(z) <=> h.nextIndex + 1 = DataShards
    BY <1>12, <1>13, <2>2, <2>3
  <2> QED
    BY <1>11, <2>1, <2>4, <2>5
<1>15. f = g
  BY <1>3, <1>9, <1>14
<1>16. asserts'
  <2>1. Head(r.blocks).base = p.base
    BY <1>6, <1>7, <1>11
  <2> QED
    BY <1>3, <1>4, <1>14, <2>1
<1>17. p.number \in 0..Numbers - 1
  <2>1. Offset(q.next) = Offset(h.base) + h.nextIndex
    BY <1>6, <1>7, <1>12
  <2> QED
    BY <1>6, <1>12, <1>13, <2>1
<1>18. Passed(o, accepted, emitted) /\ emitted \in Int
  BY <1>1 DEF IInv, TypeInv
<1>19. Offset(p.base) = BlockOf(pos)
  BY <1>4, PacketFacts
<1>20. /\ \A x \in accepted \cup {pos} :
            \A n \in emitted + 1..Offset(o.next) - 1 : ~Covers(x, n)
       /\ emitted < Offset(o.next)
  BY <1>4, <1>5, <1>18, <1>19, GapKept
<1> QED
  BY <1>1, <1>3, <1>5, <1>6, <1>11, <1>15, <1>16, <1>17, <1>20 DEF WellFormed

LEMMA StepAddHandledNow ==
  ASSUME IInv, NEW pos \in Positions, NEW p, p = Packet(pos),
         ReceivePacket(p), AddHandledNow(p)
  PROVE  IInv'
<1>1. /\ out = << >> /\ receiver = "recv"
      /\ UNCHANGED <<mode, packetQueue, heard, inOrder>>
      /\ newest' \in -1..NumBlocks * TotalShards - 1
      /\ packetsToDrop' \in 0..InitialDrop
      /\ receivedDataFromPeer' \in BOOLEAN
  BY ReceiveFrame
<1>2. PICK f, taken, e, rcv : /\ f = rtpAudioQueue' /\ e = p.number
                              /\ taken = accepted \cup {pos} /\ rcv = receiver
  OBVIOUS
<1>3. /\ f \in Queues /\ WellFormed(f) /\ Settled(f)
      /\ Keeps(f, taken) /\ accepted' = taken
      /\ f.blocks = << >> => ~f.synchronizing
      /\ ~f.incompatible /\ ~rtpAudioQueue.incompatible
      /\ emitted' = e /\ Offset(f.next) = e + 1
      /\ e \in 0..Numbers - 1
      /\ out' = <<Entry(e, FALSE)>>
      /\ receiver' = rcv /\ asserts' /\ emitted < e
  BY <1>1, <1>2, HandledNowFacts
<1>4. QueueOK(f, taken, rcv = "recv")
  BY <1>3 DEF QueueOK, WellFormed, Cursor
<1>5. Passed(f, taken, e)
  <2>1. e \in Int /\ Numbers \in Nat
    BY <1>3, Sizes
  <2>2. e < Offset(f.next) /\ e = Offset(f.next) - 1
    BY <1>3, <2>1
  <2>3. \A n \in e + 1..Offset(f.next) - 1 : FALSE
    BY <2>1, <2>2
  <2>4. ~(f.synchronizing /\ f.blocks = << >>)
    BY <1>3
  <2> QED
    BY <2>2, <2>3, <2>4 DEF Passed
<1>6. taken \in SUBSET Positions
  BY <1>2 DEF IInv, TypeInv
<1>7. e \in -1..Numbers - 1 /\ e # -1
  BY <1>3, Sizes
<1>8. rcv \in {"recv", "drain"} /\ (rcv = "drain" => ~f.incompatible)
  BY <1>1, <1>2, <1>3
<1>9. \E lost \in BOOLEAN : out' = <<Entry(e, lost)>>
  BY <1>3, FALSE \in BOOLEAN
<1> QED
  BY <1>1, <1>2, <1>3, <1>4, <1>5, <1>6, <1>7, <1>8, <1>9, Advance

(* A jump over lost blocks: nothing was taken between the old oldest block *)
(* and the new one.                                                        *)
LEMMA JumpFacts ==
  ASSUME mode \in Modes, NEW q, WellFormed(q), q.blocks # << >>,
         NEW m, m = Head(q.blocks).base,
         NEW taken \in SUBSET Positions, Keeps(q, taken), NEW e \in Int,
         \A x \in taken : \A n \in e + 1..Offset(q.oldest) - 1 : ~Covers(x, n)
  PROVE  \A x \in taken : \A n \in e + 1..Offset(m) - 1 : ~Covers(x, n)
<1> SUFFICES ASSUME NEW x \in taken, NEW n \in e + 1..Offset(m) - 1,
                    Covers(x, n)
             PROVE  FALSE
  OBVIOUS
<1>1. PICK h : h = Head(q.blocks)
  OBVIOUS
<1>2. /\ 1 \in 1..Len(q.blocks) /\ h = q.blocks[1]
      /\ Offset(m) \in Nat /\ Offset(q.oldest) \in Nat
  BY <1>1, FirstBlock
<1>3. e < n /\ n < Offset(m) /\ n \in Int
  BY <1>2
<1>4. /\ BlockOf(x) \in Nat /\ Aligned(BlockOf(x))
      /\ BlockOf(x) <= n /\ n < BlockOf(x) + DataShards
      /\ DataShards \in Nat
  BY PositionFacts, Sizes DEF Covers
<1>5. q \in Queues /\ Ordered(q.blocks) /\ Cursor(q)
  BY DEF WellFormed
<1>6. BlockOf(x) < Offset(q.oldest)
  <2>1. ASSUME NEW j \in 1..Len(q.blocks), Offset(q.blocks[j].base) = BlockOf(x)
        PROVE  FALSE
    <3>1. CASE j = 1
      BY <1>1, <1>2, <1>3, <1>4, <2>1, <3>1
    <3>2. CASE j # 1
      <4>1. 1 < j
        BY <1>5, <2>1, <3>2, QueueFields
      <4>2. Offset(q.blocks[1].base) < Offset(q.blocks[j].base)
        BY <1>2, <1>5, <4>1 DEF Ordered
      <4>3. Offset(m) < BlockOf(x)
        BY <1>1, <1>2, <2>1, <4>2
      <4> QED
        BY <1>2, <1>3, <1>4, <4>3
    <3> QED
      BY <3>1, <3>2
  <2> QED
    BY <2>1 DEF Keeps
<1>7. BlockOf(x) + DataShards <= Offset(q.oldest)
  <2>1. PICK a \in Int, b \in Int : a = BlockOf(x) /\ b = Offset(q.oldest)
    BY <1>2, <1>4
  <2>2. Aligned(b)
    <3>1. q.oldest \in 0..Modulus - 1 /\ Aligned(q.oldest)
      BY <1>5, QueueFields DEF Cursor
    <3> QED
      BY <2>1, <3>1, AlignedFacts
  <2>3. a < b /\ Aligned(a)
    BY <1>4, <1>6, <2>1
  <2>4. a + DataShards <= b
    BY <2>2, <2>3, AlignedSum
  <2> QED
    BY <2>1, <2>4
<1>8. n \in e + 1..Offset(q.oldest) - 1
  BY <1>2, <1>3, <1>4, <1>7
<1> QED
  BY <1>8

LEMMA StepAddQueued ==
  ASSUME IInv, NEW pos \in Positions, NEW p, p = Packet(pos),
         ReceivePacket(p), NEW waited \in BOOLEAN, AddQueued(p, waited)
  PROVE  IInv'
<1>1. /\ out = << >> /\ receiver = "recv"
      /\ UNCHANGED <<mode, packetQueue, heard, inOrder>>
      /\ newest' \in -1..NumBlocks * TotalShards - 1
      /\ packetsToDrop' \in 0..InitialDrop
      /\ receivedDataFromPeer' \in BOOLEAN
  BY ReceiveFrame
<1>2. PICK o, w, v, q : /\ o = rtpAudioQueue /\ w = WithShard(p)
                        /\ v = mode.validation
                        /\ q = completeFecBlock(w, p.base, v)
  OBVIOUS
<1>3. PICK r : r = IF queueHasPacketReady(q) THEN q
                   ELSE handleMissingPackets(q, waited)
  OBVIOUS
<1>4. /\ Accepts(p)
      /\ rtpAudioQueue' = r
      /\ receiver' = IF queueHasPacketReady(r) THEN "drain" ELSE "recv"
      /\ asserts' = (asserts /\ /\ validateFecBlockState(q)
                                /\ \A i \in 1..Len(q.blocks) :
                                     q.blocks[i].dataReceived <= DataShards)
      /\ UNCHANGED <<out, emitted>>
  BY <1>2, <1>3 DEF AddQueued, LC_ASSERT
<1>5. mode \in Modes /\ asserts
  BY DEF IInv, TypeInv
<1>6. PICK taken \in SUBSET Positions : taken = accepted \cup {pos}
  BY DEF IInv, TypeInv
<1>7. /\ WellFormed(o) /\ ~Synchronizes(o) /\ ~o.incompatible
      /\ WellFormed(w) /\ Settled(w) /\ HasBlock(w, p.base)
      /\ Keeps(w, taken) /\ accepted' = taken
      /\ Offset(o.oldest) <= Offset(p.base)
      /\ w.next = o.next /\ w.oldest = o.oldest
      /\ w.synchronizing = o.synchronizing
      /\ w.incompatible = o.incompatible
  <2>1. /\ Accepts(p) /\ receiver = "recv"
        /\ o = rtpAudioQueue /\ w = WithShard(p)
    BY <1>1, <1>2, <1>4
  <2>2. /\ WellFormed(o) /\ ~Synchronizes(o) /\ ~o.incompatible
        /\ WellFormed(w) /\ Settled(w) /\ HasBlock(w, p.base)
        /\ Keeps(w, accepted \cup {pos})
        /\ accepted' = accepted \cup {pos}
        /\ Offset(o.oldest) <= Offset(p.base)
        /\ w.next = o.next /\ w.oldest = o.oldest
        /\ w.synchronizing = o.synchronizing
        /\ w.incompatible = o.incompatible
    BY <2>1, WithShardFacts
  <2> QED
    BY <1>6, <2>2
<1>8. /\ WellFormed(q) /\ Settled(q) /\ Keeps(q, taken)
      /\ q.blocks = << >> <=> w.blocks = << >>
      /\ q.next = o.next /\ q.oldest = o.oldest
      /\ q.synchronizing = o.synchronizing
      /\ q.incompatible = o.incompatible
  BY <1>2, <1>5, <1>7, CompleteFacts
<1>9. q.blocks # << >>
  <2>1. \E i \in 1..Len(w.blocks) : TRUE
    BY <1>7 DEF HasBlock
  <2>2. w \in Queues
    BY <1>7 DEF WellFormed
  <2> QED
    BY <1>8, <2>1, <2>2, QueueFields
<1>10. PICK e, rcv : e = emitted /\ rcv = receiver'
  OBVIOUS
<1>11. e \in -1..Numbers - 1 /\ e \in Int
  BY <1>10 DEF IInv, TypeInv
<1>12. Offset(p.base) = BlockOf(pos)
  BY <1>5, PacketFacts
<1>13. /\ \A x \in taken : \A n \in e + 1..Offset(o.next) - 1 : ~Covers(x, n)
       /\ e < Offset(o.next)
       /\ o.next # o.oldest => e = Offset(o.next) - 1
  <2>1. Passed(o, accepted, e)
    BY <1>2, <1>10 DEF IInv
  <2>2. Offset(o.oldest) <= BlockOf(pos)
    BY <1>7, <1>12
  <2> QED
    BY <1>5, <1>6, <1>7, <1>11, <2>1, <2>2, GapKept
<1>14. asserts'
  <2>1. validateFecBlockState(q)
    BY <1>5, <1>8, WellFormedIsValid
  <2>2. \A i \in 1..Len(q.blocks) : q.blocks[i].dataReceived <= DataShards
    <3> SUFFICES ASSUME NEW i \in 1..Len(q.blocks)
                 PROVE  q.blocks[i].dataReceived <= DataShards
      OBVIOUS
    <3>1. q.blocks[i].dataReceived \in 0..DataShards
      BY <1>8, QueueFields, BlockFields DEF WellFormed
    <3> QED
      BY <3>1, Sizes
  <2> QED
    BY <1>4, <1>5, <2>1, <2>2
<1>15. /\ WellFormed(r) /\ Keeps(r, taken)
       /\ Settled(r) \/ queueHasPacketReady(r)
       /\ r.blocks # << >>
       /\ r.incompatible = o.incompatible
       /\ \/ r.next = o.next /\ r.oldest = o.oldest
          \/ /\ r.next = r.oldest /\ o.next = o.oldest
             /\ Offset(o.oldest) < Offset(r.oldest)
             /\ r.oldest = Head(q.blocks).base
  <2>1. CASE queueHasPacketReady(q)
    BY <1>3, <1>8, <1>9, <2>1
  <2>2. CASE ~queueHasPacketReady(q)
    <3>1. r = handleMissingPackets(q, waited)
      BY <1>3, <2>2
    <3> QED
      BY <1>5, <1>8, <1>9, <3>1, MissingFacts
  <2> QED
    BY <2>1, <2>2
<1>16. rcv = IF queueHasPacketReady(r) THEN "drain" ELSE "recv"
  BY <1>4, <1>10
<1>17. QueueOK(r, taken, rcv = "recv")
  <2>1. rcv = "recv" => Settled(r)
    BY <1>15, <1>16
  <2> QED
    BY <1>15, <2>1 DEF QueueOK
<1>18. Passed(r, taken, e)
  <2>1. CASE r.next = o.next /\ r.oldest = o.oldest
    BY <1>13, <1>15, <2>1 DEF Passed
  <2>2. CASE /\ r.next = r.oldest /\ o.next = o.oldest
             /\ Offset(o.oldest) < Offset(r.oldest)
             /\ r.oldest = Head(q.blocks).base
    <3>1. PICK m : m = Head(q.blocks).base
      OBVIOUS
    <3>2. \A x \in taken : \A n \in e + 1..Offset(q.oldest) - 1 : ~Covers(x, n)
      BY <1>8, <1>13, <2>2
    <3>3. \A x \in taken : \A n \in e + 1..Offset(m) - 1 : ~Covers(x, n)
      BY <1>5, <1>8, <1>9, <1>11, <3>1, <3>2, JumpFacts
    <3>4. r.next = m /\ r.oldest = m
      BY <2>2, <3>1
    <3>5. e < Offset(m)
      <4>1. Offset(o.oldest) \in Int /\ Offset(m) \in Int
        <5>1. o.oldest \in 0..Modulus - 1 /\ r.oldest \in 0..Modulus - 1
          BY <1>7, <1>15, QueueFields DEF WellFormed
        <5> QED
          BY <1>5, <3>4, <5>1, OffsetFacts
      <4> QED
        BY <1>11, <1>13, <2>2, <3>4, <4>1
    <3> QED
      BY <1>15, <3>3, <3>4, <3>5 DEF Passed
  <2> QED
    BY <1>15, <2>1, <2>2
<1>19. /\ rcv \in {"recv", "drain"} /\ r \in Queues
       /\ rcv = "drain" => ~r.incompatible
       /\ rtpAudioQueue.incompatible => r.incompatible
       /\ out' = << >> /\ e = emitted /\ emitted' = e /\ receiver' = rcv
  BY <1>1, <1>2, <1>4, <1>7, <1>10, <1>15, <1>16 DEF WellFormed
<1> QED
  BY <1>1, <1>4, <1>7, <1>11, <1>14, <1>17, <1>18, <1>19, Advance

(* A packet is handed out of the first block, or its placeholder.          *)
LEMMA GetQueuedFacts ==
  ASSUME IInv, NeverRestarts, RtpaGetQueuedPacket,
         NEW f, f = rtpAudioQueue', NEW o, o = rtpAudioQueue
  PROVE  /\ f \in Queues /\ WellFormed(f) /\ Keeps(f, accepted)
         /\ f.blocks = << >> => ~f.synchronizing
         /\ ~f.incompatible /\ ~o.incompatible /\ ~Synchronizes(o)
         /\ Offset(f.next) = Offset(o.next) + 1
         /\ emitted' = Offset(o.next) /\ Offset(o.next) \in 0..Numbers - 1
         /\ \E lost \in BOOLEAN : out' = <<Entry(Offset(o.next), lost)>>
         /\ out = << >> /\ receiver = "drain" /\ asserts'
<1>1. PICK h, r : h = Head(o.blocks) /\ r = HandedOut(o, 1)
  OBVIOUS
<1>2. PICK e : e = Entry(NumberOf(h.base + h.nextIndex), ~NextReceived(o))
  OBVIOUS
<1>3. /\ receiver = "drain" /\ out = << >> /\ queueHasPacketReady(o)
      /\ asserts' = (asserts /\ h.base + h.nextIndex = o.next)
      /\ out' = <<e>> /\ emitted' = e.number
      /\ f = IF Head(r.blocks).nextIndex = DataShards
               THEN freeFecBlockHead(r) ELSE r
  BY <1>1, <1>2 DEF RtpaGetQueuedPacket, LC_ASSERT
<1>4. o.blocks # << >>
  BY <1>3 DEF queueHasPacketReady
<1>5. ~Synchronizes(o)
  BY <1>4 DEF NeverRestarts
<1>6. /\ mode \in Modes /\ asserts /\ WellFormed(o) /\ Keeps(o, accepted)
      /\ ~o.incompatible /\ accepted \in SUBSET Positions
  BY <1>3, <1>5 DEF IInv, TypeInv, QueueOK
<1>7. /\ h.base \in 0..Modulus - 1 /\ Aligned(h.base)
      /\ Offset(h.base) \in Nat /\ Offset(h.base) + DataShards <= Numbers
      /\ h.nextIndex \in 0..DataShards - 1
      /\ Offset(o.oldest) \in Nat
      /\ Offset(o.next) = Offset(o.oldest) + h.nextIndex
      /\ h.allowDiscontinuity => h.base = o.oldest
  BY <1>1, <1>4, <1>6, FirstBlock
<1>8. o.next \in 0..Modulus - 1 /\ o.oldest \in 0..Modulus - 1
  BY <1>6, QueueFields DEF WellFormed
<1>9. DataShards \in Nat \ {0} /\ Numbers \in Nat
  BY Sizes
<1>10. h.base = o.oldest
  <2>1. CASE h.allowDiscontinuity
    BY <1>7, <2>1
  <2>2. CASE h.base + h.nextIndex = o.next
    <3>1. PICK i \in 0..DataShards - 1 : i = h.nextIndex
      BY <1>7
    <3>2. U16(h.base + i) = h.base + i
      BY <1>6, <1>7, BaseFacts
    <3>3. i \in 0..DataShards
      BY <1>9
    <3>4. Offset(U16(h.base + i)) = Offset(h.base) + i
      BY <1>6, <1>7, <3>3, BaseFacts
    <3>5. Offset(o.next) = Offset(h.base) + i
      BY <2>2, <3>1, <3>2, <3>4
    <3>6. Offset(h.base) = Offset(o.oldest)
      BY <1>7, <3>1, <3>5
    <3> QED
      BY <1>6, <1>7, <1>8, <3>6, SameOffset
  <2> QED
    BY <1>1, <1>3, <2>1, <2>2 DEF queueHasPacketReady
<1>11. /\ o.next = h.base + h.nextIndex
       /\ Head(r.blocks).base = h.base
       /\ Offset(r.next) = Offset(o.next) + 1
       /\ WellFormed(f) /\ f.next = r.next
       /\ Keeps(f, accepted)
       /\ f.blocks = << >> => ~f.synchronizing
       /\ f.incompatible = o.incompatible
  BY <1>1, <1>3, <1>4, <1>6, <1>10, HandOutFacts
<1>12. Offset(o.next) \in 0..Numbers - 1
  BY <1>7, <1>9, <1>10
<1>13. NumberOf(h.base + h.nextIndex) = Offset(o.next)
  <2>1. Offset(o.next) < Numbers
    BY <1>9, <1>12
  <2> QED
    BY <1>6, <1>8, <1>11, <2>1, NumberOfFacts
<1>14. e = Entry(Offset(o.next), ~NextReceived(o))
  BY <1>2, <1>13
<1>15. (~NextReceived(o)) \in BOOLEAN
  BY DEF NextReceived
<1>16. e.number = Offset(o.next)
  BY <1>14 DEF Entry
<1>17. \E lost \in BOOLEAN : out' = <<Entry(Offset(o.next), lost)>>
  BY <1>3, <1>14, <1>15
<1> QED
  BY <1>3, <1>5, <1>6, <1>11, <1>12, <1>16, <1>17 DEF WellFormed

LEMMA StepRtpaGetQueuedPacket ==
  ASSUME IInv, NeverRestarts, RtpaGetQueuedPacket
  PROVE  IInv'
<1>1. PICK o, f, e, taken : /\ o = rtpAudioQueue /\ f = rtpAudioQueue'
                            /\ e = emitted' /\ taken = accepted
  OBVIOUS
<1>2. UNCHANGED <<start, receiver, stream, mode, newest, accepted>>
  BY DEF RtpaGetQueuedPacket
<1>3. /\ f \in Queues /\ WellFormed(f) /\ Keeps(f, taken)
      /\ f.blocks = << >> => ~f.synchronizing
      /\ ~f.incompatible /\ ~o.incompatible /\ ~Synchronizes(o)
      /\ Offset(f.next) = Offset(o.next) + 1
      /\ e = Offset(o.next) /\ e \in 0..Numbers - 1
      /\ \E lost \in BOOLEAN : out' = <<Entry(e, lost)>>
      /\ out = << >> /\ receiver = "drain" /\ asserts'
  BY <1>1, GetQueuedFacts
<1>4. /\ UNCHANGED <<mode, packetQueue, heard, inOrder>>
      /\ newest' \in -1..NumBlocks * TotalShards - 1
      /\ packetsToDrop' \in 0..InitialDrop
      /\ receivedDataFromPeer' \in BOOLEAN
      /\ taken \in SUBSET Positions /\ accepted' = taken
  BY <1>1, <1>2 DEF IInv, TypeInv, start, stream
<1>5. PICK rcv : rcv = "drain"
  OBVIOUS
<1>6. QueueOK(f, taken, rcv = "recv")
  BY <1>3, <1>5 DEF QueueOK, WellFormed, Cursor
<1>7. Passed(f, taken, e)
  <2>1. e \in Int /\ Numbers \in Nat
    BY <1>3, Sizes
  <2>2. e < Offset(f.next) /\ e = Offset(f.next) - 1
    BY <1>3, <2>1
  <2>3. \A n \in e + 1..Offset(f.next) - 1 : FALSE
    BY <2>1, <2>2
  <2>4. ~(f.synchronizing /\ f.blocks = << >>)
    BY <1>3
  <2> QED
    BY <2>2, <2>3, <2>4 DEF Passed
<1>8. emitted < e
  BY <1>1, <1>3 DEF IInv, Passed
<1>9. e \in -1..Numbers - 1 /\ e # -1
  BY <1>3, Sizes
<1>10. /\ rcv \in {"recv", "drain"} /\ receiver' = rcv
       /\ ~rtpAudioQueue.incompatible
  BY <1>1, <1>2, <1>3, <1>5
<1> QED
  BY <1>1, <1>3, <1>4, <1>6, <1>7, <1>8, <1>9, <1>10, Advance

(***************************************************************************)
(* The theorems                                                            *)
(***************************************************************************)

LEMMA InitiallyOK == Init => IInv
<1> SUFFICES ASSUME Init
             PROVE  IInv
  OBVIOUS
<1>1. /\ mode \in Modes
      /\ rtpAudioQueue = RtpaInitializeQueue(mode.oldHost)
      /\ packetsToDrop = InitialDrop /\ receivedDataFromPeer = FALSE
      /\ receiver = "recv" /\ out = << >> /\ packetQueue = << >>
      /\ newest = -1 /\ asserts = TRUE
      /\ accepted = {} /\ emitted = -1 /\ heard = -1 /\ inOrder = TRUE
  BY DEF Init
<1>2. PICK q : q = rtpAudioQueue
  OBVIOUS
<1>3. PICK s : s = mode.oldHost
  OBVIOUS
<1>4. s \in BOOLEAN
  BY <1>1, <1>3, AudioStreamAssumption DEF ModeKinds
<1>5. q = [blocks |-> << >>, next |-> 0, oldest |-> 0, lastOos |-> 0,
           receivedOos |-> FALSE, synchronizing |-> TRUE, incompatible |-> s]
  BY <1>1, <1>2, <1>3 DEF RtpaInitializeQueue
<1>6. 0 \in 0..Modulus - 1 /\ << >> \in Seq(FecBlocks)
  BY Sizes
<1>7. /\ q \in Queues /\ q.blocks = << >> /\ q.next = 0 /\ q.oldest = 0
      /\ Synchronizes(q)
  BY <1>4, <1>5, <1>6 DEF Queues, Synchronizes
<1>8. /\ Numbers \in Nat /\ QueueBound \in Nat /\ InitialDrop \in Nat
      /\ NumBlocks * TotalShards - 1 >= -1
      /\ NumBlocks * TotalShards - 1 \in Int
  <2>1. NumBlocks \in Nat /\ TotalShards \in Nat
    BY Sizes
  <2>2. NumBlocks * TotalShards \in Nat
    BY <2>1
  <2> QED
    BY <2>2, Sizes
<1>9. Len(packetQueue) = 0 /\ Len(out) = 0
  BY <1>1, EmptySeq
<1>10. TypeInv
  <2>1. newest \in -1..NumBlocks * TotalShards - 1
    BY <1>1, <1>8
  <2>2. emitted \in -1..Numbers - 1 /\ heard \in -1..Numbers - 1
    BY <1>1, <1>8
  <2>3. out \in Seq(Entries) /\ packetQueue \in Seq(Entries)
    BY <1>1, EmptySeq
  <2>4. Len(out) <= 1 /\ Len(packetQueue) <= QueueBound
    BY <1>8, <1>9
  <2>5. packetsToDrop \in 0..InitialDrop
    BY <1>1, <1>8
  <2>6. rtpAudioQueue \in Queues /\ accepted \in SUBSET Positions
    BY <1>1, <1>2, <1>7
  <2> QED
    BY <1>1, <2>1, <2>2, <2>3, <2>4, <2>5, <2>6 DEF TypeInv
<1>11. QueueOK(rtpAudioQueue, accepted, receiver = "recv")
  BY <1>2, <1>7 DEF QueueOK
<1>12. Passed(rtpAudioQueue, accepted, emitted)
  BY <1>1, <1>2, <1>7 DEF Passed
<1>13. LineOK
  BY <1>1, <1>9 DEF LineOK
<1> QED
  BY <1>1, <1>10, <1>11, <1>12, <1>13 DEF IInv

LEMMA StepReceivePacket ==
  ASSUME IInv, NeverRestarts, NEW pos \in Positions,
         ReceivePacket(Packet(pos))
  PROVE  IInv'
<1>1. PICK p : p = Packet(pos)
  OBVIOUS
<1>2. ReceivePacket(p)
  BY <1>1
<1>3. \/ AddIncompatible(p) \/ AddTurnsFecOff(p) \/ AddSynchronizing(p)
      \/ AddRejected(p) \/ AddHandledNow(p)
      \/ \E waited \in BOOLEAN : AddQueued(p, waited)
  BY <1>2 DEF ReceivePacket, RtpaAddPacket
<1>4. CASE AddIncompatible(p)
  BY <1>1, <1>2, <1>4, StepAddIncompatible
<1>5. CASE AddTurnsFecOff(p)
  BY <1>1, <1>2, <1>5, StepAddTurnsFecOff
<1>6. CASE AddSynchronizing(p)
  BY <1>1, <1>2, <1>6, StepAddSynchronizing
<1>7. CASE AddRejected(p)
  BY <1>1, <1>2, <1>7, StepAddRejected
<1>8. CASE AddHandledNow(p)
  BY <1>1, <1>2, <1>8, StepAddHandledNow
<1>9. CASE \E waited \in BOOLEAN : AddQueued(p, waited)
  BY <1>1, <1>2, <1>9, StepAddQueued
<1> QED
  BY <1>3, <1>4, <1>5, <1>6, <1>7, <1>8, <1>9

LEMMA Inductive == IInv /\ NeverRestarts /\ [Next]_vars => IInv'
<1> SUFFICES ASSUME IInv, NeverRestarts, [Next]_vars
             PROVE  IInv'
  OBVIOUS
<1>1. CASE UNCHANGED vars
  <2>1. UNCHANGED <<rtpAudioQueue, packetsToDrop, receivedDataFromPeer,
                    receiver, out, packetQueue, heard, inOrder, mode, newest,
                    asserts, accepted, emitted>>
    BY <1>1 DEF vars, start, stream, history
  <2>2. TypeInv'
    BY <2>1 DEF IInv, TypeInv
  <2>3. /\ QueueOK(rtpAudioQueue, accepted, receiver = "recv")'
        /\ Passed(rtpAudioQueue, accepted, emitted)'
    BY <2>1, QueueKept
  <2>4. LineOK'
    BY <2>1 DEF IInv, LineOK
  <2> QED
    BY <2>1, <2>2, <2>3, <2>4 DEF IInv
<1>2. CASE \E pos \in Positions : DropInitialPacket(Packet(pos))
  BY <1>2, StepDropInitialPacket
<1>3. CASE \E pos \in Positions : ReceivePacket(Packet(pos))
  BY <1>3, StepReceivePacket
<1>4. CASE ReceiveTimeout
  BY <1>4, StepReceiveTimeout
<1>5. CASE RtpaGetQueuedPacket
  BY <1>5, StepRtpaGetQueuedPacket
<1>6. CASE DrainDone
  BY <1>6, StepDrainDone
<1>7. CASE queuePacketToLbq
  BY <1>7, StepQueuePacketToLbq
<1>8. CASE DecodeDirectly
  BY <1>8, StepDecodeDirectly
<1>9. CASE DecoderThread
  BY <1>9, StepDecoderThread
<1> QED
  BY <1>1, <1>2, <1>3, <1>4, <1>5, <1>6, <1>7, <1>8, <1>9 DEF Next

LEMMA Invariance == Spec /\ []NeverRestarts => []IInv
  BY InitiallyOK, Inductive, PTL DEF Spec

(* The types, and the assertions of RtpAudioQueue.c, follow.               *)
LEMMA IInvIsIntact ==
  ASSUME IInv, NeverRestarts
  PROVE  QueueIntact
<1>1. PICK q : q = rtpAudioQueue
  OBVIOUS
<1>2. q \in Queues /\ mode \in Modes
  BY <1>1 DEF IInv, TypeInv
<1>3. q.blocks # << >> \/ ~Synchronizes(q) => WellFormed(q)
  BY <1>1 DEF IInv, QueueOK
<1>4. AssertsHold
  <2>1. CASE ~Synchronizes(q)
    <3>1. validateFecBlockState(q)
      BY <1>2, <1>3, <2>1, WellFormedIsValid
    <3> QED
      BY <1>1, <3>1 DEF AssertsHold, IInv
  <2>2. CASE Synchronizes(q)
    <3>1. q.blocks = << >> /\ q.synchronizing
      BY <1>1, <2>2 DEF NeverRestarts, Synchronizes
    <3>2. Len(q.blocks) = 0
      BY <3>1, EmptySeq
    <3>3. validateFecBlockState(q)
      BY <3>1, <3>2 DEF validateFecBlockState
    <3> QED
      BY <1>1, <3>3 DEF AssertsHold, IInv
  <2> QED
    BY <2>1, <2>2
<1>5. \A i \in 1..Len(q.blocks) :
        /\ q.blocks[i].base \in 0..Modulus - 1
        /\ q.blocks[i].base % DataShards = 0
        /\ q.blocks[i].have \subseteq 0..TotalShards - 1
        /\ q.blocks[i].dataReceived \in 0..DataShards
        /\ q.blocks[i].fecReceived \in 0..FecShards
        /\ q.blocks[i].nextIndex \in 0..DataShards - 1
  <2> SUFFICES ASSUME NEW i \in 1..Len(q.blocks)
               PROVE  /\ q.blocks[i].base \in 0..Modulus - 1
                      /\ q.blocks[i].base % DataShards = 0
                      /\ q.blocks[i].have \subseteq 0..TotalShards - 1
                      /\ q.blocks[i].dataReceived \in 0..DataShards
                      /\ q.blocks[i].fecReceived \in 0..FecShards
                      /\ q.blocks[i].nextIndex \in 0..DataShards - 1
    OBVIOUS
  <2>1. q.blocks # << >>
    BY <1>2, QueueFields
  <2>2. BlockOK(q.blocks[i])
    BY <1>3, <2>1 DEF WellFormed, Ordered
  <2> QED
    BY <1>2, <2>2, QueueFields, BlockFields DEF BlockOK, Aligned
<1>6. DOMAIN q = DOMAIN RtpaInitializeQueue(FALSE)
  BY <1>2 DEF Queues, RtpaInitializeQueue
<1>7. TypeOK
  <2>1. {q.next, q.oldest, q.lastOos} \subseteq 0..Modulus - 1
    BY <1>2 DEF Queues
  <2>2. {emitted, heard} \subseteq -1..NumBlocks * DataShards - 1
    BY DEF IInv, TypeInv, Numbers
  <2> QED
    BY <1>1, <1>5, <1>6, <2>1, <2>2 DEF TypeOK, IInv, TypeInv
<1> QED
  BY <1>4, <1>7 DEF QueueIntact

(* A queue that does not synchronize again stays well formed, and every    *)
(* LC_ASSERT of RtpAudioQueue.c holds.                                     *)
THEOREM QueueStaysIntact == Spec /\ []NeverRestarts => []QueueIntact
<1>1. IInv /\ NeverRestarts => QueueIntact
  BY IInvIsIntact
<1> QED
  BY <1>1, Invariance, PTL

(* The decoder gets packets and placeholders in the order they were sent,  *)
(* each at most once, whatever the network does, until FEC is turned off.  *)
THEOREM EntriesComeInOrder == Spec /\ []NeverRestarts => []PlayedInOrder
<1>1. IInv => PlayedInOrder
  BY DEF IInv, PlayedInOrder
<1> QED
  BY <1>1, Invariance, PTL

(* What one step passes on                                                 *)
LEMMA PassesOn ==
  ASSUME IInv, NeverRestarts, [Next]_vars,
         emitted' # emitted, ~rtpAudioQueue.incompatible
  PROVE  /\ emitted' > emitted
         /\ \A n \in emitted + 1..emitted' - 1 : ShardsTaken(n)' = {}
<1>1. PICK taken, e : taken = accepted' /\ e = emitted'
  OBVIOUS
<1>2. emitted \in Int /\ emitted >= -1
  BY Sizes DEF IInv, TypeInv
<1>3. /\ taken \in SUBSET Positions /\ e \in Int /\ emitted < e
      /\ \A x \in taken : \A n \in emitted + 1..e - 1 : ~Covers(x, n)
  <2>1. CASE RtpaGetQueuedPacket
    <3>1. PICK o, f : o = rtpAudioQueue /\ f = rtpAudioQueue'
      OBVIOUS
    <3>2. /\ ~o.incompatible /\ ~Synchronizes(o)
          /\ e = Offset(o.next) /\ e \in 0..Numbers - 1
      BY <1>1, <2>1, <3>1, GetQueuedFacts
    <3>3. taken = accepted
      BY <1>1, <2>1 DEF RtpaGetQueuedPacket
    <3>4. Passed(o, taken, emitted)
      BY <3>1, <3>3 DEF IInv
    <3>5. /\ emitted < e
          /\ \A x \in taken : \A n \in emitted + 1..e - 1 : ~Covers(x, n)
      BY <3>2, <3>4 DEF Passed
    <3>6. taken \in SUBSET Positions
      BY <3>3 DEF IInv, TypeInv
    <3> QED
      BY <3>2, <3>5, <3>6
  <2>2. CASE \E pos \in Positions : ReceivePacket(Packet(pos))
    <3>1. PICK pos \in Positions : ReceivePacket(Packet(pos))
      BY <2>2
    <3>2. PICK p : p = Packet(pos)
      OBVIOUS
    <3>3. receiver = "recv" /\ RtpaAddPacket(p)
      BY <3>1, <3>2 DEF ReceivePacket, Receiving
    <3>4. AddHandledNow(p)
      BY <3>3 DEF RtpaAddPacket, AddIncompatible, AddTurnsFecOff,
         AddSynchronizing, AddRejected, AddQueued, history
    <3>5. PICK f : f = rtpAudioQueue'
      OBVIOUS
    <3>6. /\ taken = accepted \cup {pos} /\ e = p.number
          /\ e \in 0..Numbers - 1 /\ emitted < e
          /\ \A x \in accepted \cup {pos} :
               \A n \in emitted + 1..p.number - 1 : ~Covers(x, n)
      BY <1>1, <3>2, <3>3, <3>4, <3>5, HandledNowFacts
    <3>7. taken \in SUBSET Positions
      BY <3>6 DEF IInv, TypeInv
    <3> QED
      BY <3>6, <3>7
  <2> QED
    BY <2>1, <2>2 DEF Next, vars, history, DropInitialPacket, ReceiveTimeout,
       DrainDone, queuePacketToLbq, DecodeDirectly, DecoderThread
<1>4. ASSUME NEW n \in emitted + 1..e - 1
      PROVE  ShardsTaken(n)' = {}
  <2>1. n \in Nat
    BY <1>2, <1>3
  <2>2. \A x \in taken : ~Covers(x, n)
    BY <1>3
  <2>3. {pos \in taken : pos \div TotalShards = n \div DataShards} = {}
    BY <1>3, <2>1, <2>2, ShardsTakenFacts
  <2> QED
    BY <1>1, <2>3 DEF ShardsTaken
<1> QED
  BY <1>1, <1>2, <1>3, <1>4

(* What is passed on never goes back, and skips only blocks of which the   *)
(* queue took nothing, until FEC is turned off.                            *)
THEOREM OnlyLostBlocksAreSkipped ==
  Spec /\ []NeverRestarts => SkipsOnlyLostBlocks
<1>1. IInv /\ NeverRestarts /\ [Next]_vars =>
        [emitted' # emitted /\ ~rtpAudioQueue.incompatible =>
           /\ emitted' > emitted
           /\ \A n \in emitted + 1..emitted' - 1 : ShardsTaken(n)' = {}]_vars
  BY PassesOn
<1> QED
  BY <1>1, Invariance, PTL DEF SkipsOnlyLostBlocks, Spec

(* Where numbers do not wrap, no block but the unsynchronized one is at 0. *)
LEMMA NoWrapNoRestart ==
  ASSUME IInv, 0 < mode.firstSeq, mode.firstSeq + Numbers < Modulus
  PROVE  NeverRestarts
<1> SUFFICES ASSUME Synchronizes(rtpAudioQueue), rtpAudioQueue.blocks # << >>
             PROVE  FALSE
  BY DEF NeverRestarts
<1>1. PICK q : q = rtpAudioQueue
  OBVIOUS
<1>2. mode \in Modes /\ WellFormed(q)
  BY <1>1 DEF IInv, TypeInv, QueueOK
<1>3. q.oldest \in 0..Modulus - 1 /\ Offset(q.oldest) <= Numbers
  BY <1>2, QueueFields DEF WellFormed, Cursor
<1>4. PICK o \in 0..Modulus - 1 : o = Offset(q.oldest)
  BY <1>2, <1>3, OffsetFacts
<1>5. q.oldest = mode.firstSeq + o \/ q.oldest = mode.firstSeq + o - Modulus
  BY <1>2, <1>3, <1>4, OffsetFacts
<1>6. /\ mode.firstSeq \in Int /\ Modulus \in Nat /\ Numbers \in Nat
      /\ o <= Numbers
  BY <1>2, <1>3, <1>4, FirstNumber, Sizes
<1>7. q.oldest > 0
  BY <1>3, <1>4, <1>5, <1>6
<1> QED
  BY <1>1, <1>7 DEF Synchronizes

(* Streams whose sequence numbers do not wrap do without the hypothesis:   *)
(* the queue synchronizes once, and all of the above holds of them.        *)
THEOREM StreamsThatDoNotWrap ==
  ASSUME \A m \in Modes : 0 < m.firstSeq /\ m.firstSeq + Numbers < Modulus
  PROVE  Spec => [](NeverRestarts /\ QueueIntact /\ PlayedInOrder)
                   /\ SkipsOnlyLostBlocks
<1>1. IInv => NeverRestarts
  BY NoWrapNoRestart DEF IInv, TypeInv
<1>2. Spec => []NeverRestarts
  BY <1>1, InitiallyOK, Inductive, PTL DEF Spec
<1> QED
  BY <1>2, QueueStaysIntact, EntriesComeInOrder, OnlyLostBlocksAreSkipped, PTL
=============================================================================
