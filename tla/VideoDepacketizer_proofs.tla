----------------------- MODULE VideoDepacketizer_proofs -----------------------
(***************************************************************************)
(* Proofs about VideoDepacketizer, for any number of frames, any bound of  *)
(* decodeUnitQueue, any drop limit and any kinds of decoders and streams.  *)
(***************************************************************************)
EXTENDS VideoDepacketizer, SequenceTheorems, TLAPS

(***************************************************************************)
(* The inductive invariant                                                 *)
(***************************************************************************)

(* How the frame numbers go together                                       *)
Position ==
  /\ arriving # None => arriving.n = sent /\ done < sent
  /\ receiver # "idle" => arriving # None
  /\ receiver \in {"header", "frame"} => nextFrameNumber = sent
  /\ receiver \in {"checked", "reassemble", "overflow"} =>
       nextFrameNumber = sent + 1
  /\ decodingFrame <=> receiver = "frame"
  /\ nextFrameNumber <= sent + 1
  /\ startFrameNumber <= done + 1
  /\ receiver = "idle" =>
       nextFrameNumber <= done + 1 \/ nextFrameNumber <= lost + 1
  /\ ~kind.speculative /\ receiver = "idle" /\ arriving # None =>
       nextFrameNumber <= sent

(* Where the decoder thread can be                                         *)
DecoderThread ==
  /\ kind.directSubmit => decoder = "idle" /\ decodeUnitQueue = <<>>
  /\ ~kind.needIdr => decoder \in {"idle", "decoding"}
  /\ decoder = "decoding" => unit # None
  /\ receiver = "overflow" => ~kind.directSubmit

(* RFI is for decoders that have processed an IDR frame and do not insist  *)
(* on another.                                                             *)
RfiIsPossible == idrFrameProcessed /\ ~kind.strictIdrFrameWait

Waits ==
  /\ waitingForNextSuccessfulFrame =>
       waitingForIdrFrame \/ waitingForRefInvalFrame
  /\ waitingForRefInvalFrame \/ rfiRequested => RfiIsPossible
  /\ arriving # None => (arriving.type = "RFI" => RfiIsPossible)

(* An IDR frame is on its way through the receive thread.                  *)
IdrIn(places) == receiver \in places /\ arriving.type = "IDR"

(* What the receive thread found in the flags stays so, unless the decoder *)
(* asks for a refresh meanwhile.                                           *)
Unraced ==
  ~RacingRefresh =>
    /\ receiver \in {"checked", "reassemble"} =>
         ~waitingForIdrFrame /\ ~waitingForRefInvalFrame
    /\ receiver = "overflow" => waitingForIdrFrame
    /\ IdrIn({"frame"}) => ~waitingForIdrFrame /\ ~waitingForRefInvalFrame
    /\ dropStatePending =>
         waitingForIdrFrame \/ IdrIn({"frame", "checked"})

(* Until an IDR frame has been processed, one is ahead of everything.      *)
FirstIdr ==
  ~RacingRefresh /\ ~idrFrameProcessed =>
    /\ decoder = "idle" /\ decodeUnitQueue # <<>> =>
         decodeUnitQueue[1].type = "IDR"
    /\ decoder = "decoding" => unit.type = "IDR"
    /\ ~waitingForIdrFrame =>
         \/ decodeUnitQueue # <<>>
         \/ decoder = "decoding"
         \/ IdrIn({"frame", "checked", "reassemble"})

(* The newest frame that was queued or decoded                             *)
Newest == IF decodeUnitQueue = <<>> THEN lastDecoded
          ELSE decodeUnitQueue[Len(decodeUnitQueue)].n

(* What is decoded, queued and about to be queued is a chain in which      *)
(* every P frame follows its predecessor, and which starts with an IDR     *)
(* frame if the decoder needs one.                                         *)
Chain ==
  /\ fault = "none"
  /\ needsIdr /\ decodeUnitQueue # <<>> => decodeUnitQueue[1].type = "IDR"
  /\ needsIdr /\ ~waitingForIdrFrame =>
       decodeUnitQueue # <<>> \/ IdrIn({"frame", "checked", "reassemble"})
  /\ decodeUnitQueue # <<>> /\ decodeUnitQueue[1].type = "P" =>
       decodeUnitQueue[1].n = lastDecoded + 1
  /\ \A i \in 1..Len(decodeUnitQueue) : i > 1 =>
       (decodeUnitQueue[i].type = "P" =>
          decodeUnitQueue[i].n = decodeUnitQueue[i - 1].n + 1)
  /\ ~waitingForIdrFrame /\ ~waitingForRefInvalFrame =>
       /\ receiver \in {"idle", "header"} => Newest + 1 = nextFrameNumber
       /\ receiver \in {"frame", "checked", "reassemble"}
          /\ arriving.type = "P" => Newest + 1 = arriving.n

Decodable == RacingRefresh \/ kind.lateCorruption \/ Chain

(* An IDR frame is on order, or about to be.                               *)
Asked == idrRequested \/ decoder \in {"flush", "drop", "request"}

(* Between two frames: a frame was missed, which will be noticed with the  *)
(* next one, or the one that arrives is an IDR frame.                      *)
GapAhead ==
  \/ sent = 0
  \/ arriving = None /\ nextFrameNumber <= sent
  \/ arriving # None /\ nextFrameNumber < sent
  \/ arriving # None /\ arriving.type = "IDR"

(* Who waits for an IDR frame has asked for it, or is going to when the    *)
(* next frame is complete.                                                 *)
Served ==
  /\ waitingForIdrFrame /\ ~Asked /\ receiver # "overflow" =>
       ~rfiRequested /\ (arriving # None => arriving.type # "RFI")
  /\ (waitingForIdrFrame \/ dropStatePending) /\ receiver = "idle" =>
       Asked \/ GapAhead
  /\ waitingForIdrFrame /\ receiver \in {"header", "frame"} =>
       Asked \/ waitingForNextSuccessfulFrame
  /\ waitingForIdrFrame /\ receiver \in {"checked", "reassemble"} => Asked
  /\ dropStatePending /\ receiver \in {"header", "frame", "checked"} =>
       Asked \/ arriving.type = "IDR"
  /\ dropStatePending /\ receiver = "reassemble" => Asked

AllServed == kind.speculative \/ Served

IInv == /\ TypeOK /\ Position /\ DecoderThread /\ Waits /\ Unraced /\ FirstIdr
        /\ Decodable /\ AllServed /\ AssertsHold

USE DEF waits, frames, drops, network, host, history, app, receiveSide

(***************************************************************************)
(* What dropFrameState does                                                *)
(***************************************************************************)

(* dropFrameState leaves a wait for an IDR frame or for RFI behind, ends   *)
(* neither, waits for RFI only where it is possible, and forgets no        *)
(* request.  A wait for an IDR frame that it starts without a request is   *)
(* due to a decoder that cannot use RFI.                                   *)
LEMMA DropFacts ==
  ASSUME TypeOK, NEW w \in BOOLEAN, NEW ask, dropFrameState(w, ask)
  PROVE  /\ dropStatePending' = FALSE
         /\ waitingForIdrFrame' \in BOOLEAN
         /\ waitingForRefInvalFrame' \in BOOLEAN
         /\ idrRequested' \in BOOLEAN /\ rfiRequested' \in BOOLEAN
         /\ w => waitingForIdrFrame'
         /\ waitingForRefInvalFrame => waitingForRefInvalFrame'
         /\ waitingForIdrFrame' \/ waitingForRefInvalFrame'
         /\ waitingForRefInvalFrame' => waitingForRefInvalFrame \/ RfiIsPossible
         /\ rfiRequested' => rfiRequested \/ RfiIsPossible
         /\ rfiRequested' => rfiRequested \/ ~waitingForIdrFrame'
         /\ idrRequested => idrRequested'
         /\ ask = "idr" => idrRequested'
         /\ ask = "any" /\ waitingForIdrFrame' => idrRequested'
         /\ waitingForIdrFrame' => w \/ idrRequested' \/ ~RfiIsPossible
         /\ ~RfiIsPossible => waitingForIdrFrame'
  BY Zenon DEF dropFrameState, RfiIsPossible

LEMMA DropCount ==
  ASSUME TypeOK, NEW w, NEW ask, dropFrameState(w, ask)
  PROVE  consecutiveFrameDrops' \in 0..DropLimit - 1
  BY DepacketizerAssumption DEF TypeOK, NumbersType, dropFrameState

(***************************************************************************)
(* Type correctness                                                        *)
(***************************************************************************)

(* A decode unit has a number and a type, and is not None.                 *)
LEMMA UnitFields ==
  \A u \in Units : u.n \in 1..MaxFrames /\ u.type \in Types /\ u # None
  BY DepacketizerAssumption DEF Units

(* What the host sends is a unit with the next number.                     *)
LEMMA SentUnit ==
  ASSUME TypeOK, NEW type \in Types, HostSends(type)
  PROVE  /\ arriving' \in Units /\ arriving' # None
         /\ arriving'.n = sent + 1 /\ arriving'.type = type
<1>1. sent + 1 \in 1..MaxFrames
  BY DepacketizerAssumption DEF TypeOK, NumbersType, HostSends
<1>2. arriving' = [n |-> sent + 1, type |-> type]
  BY DEF HostSends
<1>3. arriving' \in Units
  BY <1>1, <1>2 DEF Units
<1> QED
  BY <1>2, <1>3, UnitFields

(* Steps keep the flags typed.                                             *)
LEMMA NextFlags ==
  ASSUME TypeOK, [Next]_vars
  PROVE  FlagsType'
<1>1. CASE \E type \in Types : HostSends(type)
  BY <1>1, Zenon DEF TypeOK, FlagsType, HostSends
<1>2. CASE NetworkLoses
  BY <1>2, Zenon DEF TypeOK, FlagsType, NetworkLoses
<1>3. CASE ReportLoss
  BY <1>3, Zenon
     DEF TypeOK, FlagsType, notifyFrameLost, Assert, dropFrameState,
         ReportLoss
<1>4. CASE OldFrame
  BY <1>4, Zenon DEF TypeOK, FlagsType, OldFrame
<1>5. CASE FrameGap
  BY <1>5, Zenon
     DEF TypeOK, FrameGap, Assert, dropFrameState, FlagsType, NumbersType,
         UnitsType
<1>6. CASE FirstPacket
  BY <1>6, Zenon
     DEF TypeOK, FirstPacket, TypeSeen, Assert, FlagsType, NumbersType,
         UnitsType
<1>7. CASE CorruptFrame
  BY <1>7, Zenon
     DEF TypeOK, CorruptFrame, FrameOver, dropFrameState, FlagsType,
         NumbersType, UnitsType
<1>8. CASE LastPacketWaits
  BY <1>8, Zenon
     DEF TypeOK, LastPacketWaits, FrameOver, dropFrameState, FlagsType,
         NumbersType, UnitsType
<1>9. CASE LastPacketGoesOn
  BY <1>9, Zenon
     DEF FlagsType, LastPacketGoesOn, Assert, TypeOK, NumbersType, UnitsType
<1>10. CASE DropPendingState
  BY <1>10, Zenon
     DEF TypeOK, DropPendingState, FrameOver, dropFrameState, FlagsType,
         NumbersType, UnitsType
<1>11. CASE KeepState
  BY <1>11, Zenon DEF TypeOK, FlagsType, KeepState
<1>12. CASE QueueUnit
  BY <1>12, Zenon
     DEF FlagsType, QueueUnit, FrameComplete, TypeOK, NumbersType, UnitsType
<1>13. CASE QueueOverflow
  BY <1>13, Zenon
     DEF FlagsType, QueueOverflow, dropFrameState, TypeOK, NumbersType,
         UnitsType
<1>14. CASE FlushOverflow
  BY <1>14, Zenon DEF TypeOK, FlagsType, FlushOverflow
<1>15. CASE TakeUnit
  BY <1>15, Zenon
     DEF TypeOK, TakeUnit, Assert, FaultOf, FlagsType, NumbersType,
         UnitsType
<1>16. CASE LiPeekNextVideoFrame
  BY <1>16, Zenon
     DEF FlagsType, LiPeekNextVideoFrame, Assert, TypeOK, NumbersType,
         UnitsType
<1>17. CASE CompleteOk
  BY <1>17, Zenon DEF TypeOK, FlagsType, CompleteOk
<1>18. CASE CompleteNeedIdr
  BY <1>18, Zenon DEF TypeOK, FlagsType, CompleteNeedIdr
<1>19. CASE RefreshFlush
  BY <1>19, Zenon DEF TypeOK, FlagsType, RefreshFlush
<1>20. CASE RefreshDrop
  BY <1>20, Zenon DEF TypeOK, FlagsType, RefreshDrop
<1>21. CASE RefreshRequest
  BY <1>21, Zenon DEF TypeOK, FlagsType, RefreshRequest
<1>22. CASE \E s \in {"DR_OK", "DR_NEED_IDR"} : SubmitDirectly(s)
  BY <1>22, Zenon
     DEF TypeOK, FlagsType, FrameComplete, Assert, FaultOf, SubmitDirectly
<1>23. CASE UNCHANGED vars
  BY <1>23, Zenon DEF TypeOK, FlagsType, vars
<1> QED
  BY <1>1, <1>2, <1>3, <1>4, <1>5, <1>6, <1>7, <1>8, <1>9, <1>10, <1>11, <1>12,
     <1>13, <1>14, <1>15, <1>16, <1>17, <1>18, <1>19, <1>20, <1>21, <1>22,
     <1>23, Zenon
     DEF Next, Receive, Decode

(* Steps keep the units typed, and decodeUnitQueue in its bound.           *)
LEMMA NextUnits ==
  ASSUME TypeOK, Position, [Next]_vars
  PROVE  UnitsType'
<1>1. CASE \E type \in Types : HostSends(type)
  <2>1. PICK type \in Types : HostSends(type)
    BY <1>1
  <2>2. arriving' \in Units
    BY <2>1, SentUnit, Zenon
  <2> QED
    BY <2>1, <2>2 DEF UnitsType, HostSends, FlagsType, TypeOK, NumbersType
<1>2. CASE NetworkLoses
  BY <1>2 DEF TypeOK, NetworkLoses, FlagsType, UnitsType
<1>3. CASE ReportLoss
  BY <1>3
     DEF TypeOK, UnitsType, Units, notifyFrameLost, ReportLoss,
         dropFrameState
<1>4. CASE OldFrame
  BY <1>4 DEF TypeOK, OldFrame, FlagsType, UnitsType
<1>5. CASE FrameGap
  BY <1>5 DEF TypeOK, UnitsType, FrameGap
<1>6. CASE FirstPacket
  BY <1>6 DEF TypeOK, UnitsType, Units, FirstPacket, TypeSeen
<1>7. CASE CorruptFrame
  BY <1>7 DEF TypeOK, UnitsType, CorruptFrame, FrameOver
<1>8. CASE LastPacketWaits
  BY <1>8 DEF TypeOK, UnitsType, LastPacketWaits, FrameOver
<1>9. CASE LastPacketGoesOn
  BY <1>9 DEF TypeOK, UnitsType, LastPacketGoesOn
<1>10. CASE DropPendingState
  BY <1>10 DEF TypeOK, UnitsType, DropPendingState, FrameOver
<1>11. CASE KeepState
  BY <1>11 DEF TypeOK, KeepState, FlagsType, UnitsType
<1>12. CASE QueueUnit
  <2>1. arriving \in Units
    BY <1>12
       DEF UnitsType, Position, QueueUnit, FrameComplete, FlagsType, TypeOK,
           NumbersType
  <2>2. /\ decodeUnitQueue' \in Seq(Units)
        /\ Len(decodeUnitQueue') = Len(decodeUnitQueue) + 1
    BY <1>12, <2>1 DEF TypeOK, QueueUnit, FrameComplete, UnitsType, Units
  <2>3. Len(decodeUnitQueue') <= QueueBound
    BY <1>12, DepacketizerAssumption DEF UnitsType, QueueUnit, FrameComplete
  <2> QED
    BY <1>12, <2>2, <2>3 DEF TypeOK, UnitsType, FrameComplete, QueueUnit
<1>13. CASE QueueOverflow
  BY <1>13 DEF TypeOK, QueueOverflow, dropFrameState, FlagsType, UnitsType
<1>14. CASE FlushOverflow
  <2>1. decodeUnitQueue' \in Seq(Units) /\ Len(decodeUnitQueue') = 0
    BY <1>14, EmptySeq DEF FlushOverflow
  <2> QED
    BY <1>14, DepacketizerAssumption DEF TypeOK, FlushOverflow, UnitsType
<1>15. CASE TakeUnit
  <2>1. /\ Head(decodeUnitQueue) \in Units
        /\ decodeUnitQueue' \in Seq(Units)
        /\ Len(decodeUnitQueue') = Len(decodeUnitQueue) - 1
    BY <1>15 DEF UnitsType, TakeUnit, TypeOK, Position, Next
  <2>2. Len(decodeUnitQueue') <= QueueBound
    BY <2>1, DepacketizerAssumption
       DEF UnitsType, TakeUnit, TypeOK, Position, Next
  <2> QED
    BY <1>15, <2>2 DEF TypeOK, TakeUnit, UnitsType
<1>16. CASE LiPeekNextVideoFrame
  BY <1>16 DEF TypeOK, UnitsType, LiPeekNextVideoFrame
<1>17. CASE CompleteOk
  BY <1>17 DEF TypeOK, CompleteOk, FlagsType, UnitsType
<1>18. CASE CompleteNeedIdr
  BY <1>18 DEF TypeOK, CompleteNeedIdr, FlagsType, UnitsType
<1>19. CASE RefreshFlush
  <2>1. decodeUnitQueue' \in Seq(Units) /\ Len(decodeUnitQueue') = 0
    BY <1>19, EmptySeq DEF RefreshFlush
  <2> QED
    BY <1>19, DepacketizerAssumption DEF TypeOK, RefreshFlush, UnitsType
<1>20. CASE RefreshDrop
  BY <1>20 DEF TypeOK, RefreshDrop, FlagsType, UnitsType
<1>21. CASE RefreshRequest
  BY <1>21 DEF TypeOK, RefreshRequest, FlagsType, UnitsType
<1>22. CASE \E s \in {"DR_OK", "DR_NEED_IDR"} : SubmitDirectly(s)
  BY <1>22 DEF TypeOK, UnitsType, Units, FrameComplete, SubmitDirectly, Assert
<1>23. CASE UNCHANGED vars
  BY <1>23 DEF TypeOK, vars, FlagsType, UnitsType
<1> QED
  BY <1>1, <1>2, <1>3, <1>4, <1>5, <1>6, <1>7, <1>8, <1>9, <1>10, <1>11, <1>12,
     <1>13, <1>14, <1>15, <1>16, <1>17, <1>18, <1>19, <1>20, <1>21, <1>22,
     <1>23, Zenon
     DEF Next, Receive, Decode

(* Steps keep the numbers typed.                                           *)
LEMMA NextNumbers ==
  ASSUME TypeOK, Position, [Next]_vars
  PROVE  NumbersType'
<1>1. CASE \E type \in Types : HostSends(type)
  BY <1>1, DepacketizerAssumption
     DEF TypeOK, NumbersType, UnitsType, Units, HostSends
<1>2. CASE NetworkLoses
  BY <1>2 DEF TypeOK, NumbersType, NetworkLoses
<1>3. CASE ReportLoss
  BY <1>3, DropCount, DepacketizerAssumption
     DEF TypeOK, NumbersType, UnitsType, Units, Position, ReportLoss,
         notifyFrameLost
<1>4. CASE OldFrame
  BY <1>4 DEF TypeOK, NumbersType, OldFrame, Position, Next
<1>5. CASE FrameGap
  BY <1>5, DropCount, DepacketizerAssumption
     DEF TypeOK, NumbersType, UnitsType, Units, Position, FrameGap
<1>6. CASE FirstPacket
  BY <1>6 DEF TypeOK, NumbersType, Position, FirstPacket
<1>7. CASE CorruptFrame
  <2>1. consecutiveFrameDrops' \in 0..DropLimit - 1
    BY <1>7, DropCount DEF CorruptFrame
  <2>2. /\ arriving.n = sent /\ sent \in 1..MaxFrames
        /\ nextFrameNumber \in Nat /\ nextFrameNumber <= sent + 1
        /\ startFrameNumber \in Nat /\ startFrameNumber <= nextFrameNumber
        /\ nextFrameNumber <= arriving.n
    BY <1>7, UnitFields
       DEF TypeOK, NumbersType, UnitsType, Position, CorruptFrame
  <2>3. /\ nextFrameNumber' = sent + 1 /\ done' = sent
        /\ UNCHANGED <<startFrameNumber, sent, lost, lastDecoded>>
    BY <1>7, <2>2 DEF CorruptFrame, FrameOver
  <2> QED
    BY <2>1, <2>2, <2>3, DepacketizerAssumption DEF TypeOK, NumbersType
<1>8. CASE LastPacketWaits
  <2>1. consecutiveFrameDrops' \in 0..DropLimit - 1
    BY <1>8, DropCount DEF LastPacketWaits
  <2>2. /\ arriving.n = sent /\ sent \in 1..MaxFrames
        /\ nextFrameNumber \in Nat /\ nextFrameNumber <= sent + 1
        /\ startFrameNumber \in Nat /\ startFrameNumber <= nextFrameNumber
        /\ nextFrameNumber <= arriving.n
    BY <1>8, UnitFields
       DEF TypeOK, NumbersType, UnitsType, Position, LastPacketWaits
  <2>3. /\ nextFrameNumber' = sent + 1 /\ done' = sent
        /\ UNCHANGED <<startFrameNumber, sent, lost, lastDecoded>>
    BY <1>8, <2>2 DEF LastPacketWaits, FrameOver
  <2> QED
    BY <2>1, <2>2, <2>3, DepacketizerAssumption DEF TypeOK, NumbersType
<1>9. CASE LastPacketGoesOn
  BY <1>9, DepacketizerAssumption
     DEF TypeOK, NumbersType, UnitsType, Units, Position, LastPacketGoesOn,
         Assert
<1>10. CASE DropPendingState
  BY <1>10, DropCount
     DEF TypeOK, NumbersType, UnitsType, Units, Position, DropPendingState,
         FrameOver
<1>11. CASE KeepState
  BY <1>11 DEF TypeOK, NumbersType, KeepState
<1>12. CASE QueueUnit
  BY <1>12, DepacketizerAssumption
     DEF TypeOK, NumbersType, UnitsType, Units, Position, FrameComplete,
         QueueUnit
<1>13. CASE QueueOverflow
  BY <1>13, DropCount
     DEF TypeOK, NumbersType, UnitsType, Units, Position, QueueOverflow,
         dropFrameState
<1>14. CASE FlushOverflow
  BY <1>14 DEF TypeOK, NumbersType, FlushOverflow, Position, Next
<1>15. CASE TakeUnit
  <2>1. Head(decodeUnitQueue) \in Units
    BY <1>15 DEF UnitsType, TakeUnit, TypeOK, NumbersType, Position, Next
  <2>2. lastDecoded' \in 0..MaxFrames
    BY <1>15, <2>1 DEF TakeUnit, Units
  <2> QED
    BY <1>15, <2>2 DEF NumbersType, TakeUnit, FlagsType, TypeOK, UnitsType
<1>16. CASE LiPeekNextVideoFrame
  BY <1>16 DEF TypeOK, NumbersType, Position, LiPeekNextVideoFrame
<1>17. CASE CompleteOk
  BY <1>17 DEF TypeOK, NumbersType, CompleteOk
<1>18. CASE CompleteNeedIdr
  BY <1>18 DEF TypeOK, NumbersType, CompleteNeedIdr
<1>19. CASE RefreshFlush
  BY <1>19 DEF TypeOK, NumbersType, RefreshFlush
<1>20. CASE RefreshDrop
  BY <1>20 DEF TypeOK, NumbersType, RefreshDrop
<1>21. CASE RefreshRequest
  BY <1>21 DEF TypeOK, NumbersType, RefreshRequest
<1>22. CASE \E s \in {"DR_OK", "DR_NEED_IDR"} : SubmitDirectly(s)
  BY <1>22, DepacketizerAssumption
     DEF TypeOK, NumbersType, UnitsType, Units, Position, SubmitDirectly,
         FrameComplete, Assert
<1>23. CASE UNCHANGED vars
  BY <1>23 DEF TypeOK, NumbersType, vars
<1> QED
  BY <1>1, <1>2, <1>3, <1>4, <1>5, <1>6, <1>7, <1>8, <1>9, <1>10, <1>11, <1>12,
     <1>13, <1>14, <1>15, <1>16, <1>17, <1>18, <1>19, <1>20, <1>21, <1>22,
     <1>23, Zenon
     DEF Next, Receive, Decode

(***************************************************************************)
(* What the queue operations do to the ends of the queue                   *)
(***************************************************************************)

LEMMA HeadIsFirst ==
  ASSUME TypeOK, decodeUnitQueue # <<>>
  PROVE  /\ Head(decodeUnitQueue) = decodeUnitQueue[1]
         /\ Head(decodeUnitQueue) \in Units
  BY HeadTailProperties DEF TypeOK, UnitsType

LEMMA AppendFirst ==
  ASSUME NEW s \in Seq(Units), NEW u \in Units
  PROVE  Append(s, u)[1] = IF s = <<>> THEN u ELSE s[1]
<1>1. CASE s = <<>>
  BY <1>1
<1>2. CASE s # <<>>
  BY <1>2, AppendProperties, EmptySeq
<1> QED
  BY <1>1, <1>2

(* A frame that is complete while an IDR frame is waited for leaves the     *)
(* wait behind only if the IDR frame has been asked for by then.            *)
LEMMA WaitIsServed ==
  ASSUME TypeOK, Position, Waits, AllServed, LastPacketWaits
  PROVE  ~kind.speculative /\ waitingForIdrFrame' => Asked'
<1> DEFINE ask == IF ~waitingForIdrFrame THEN "rfi"
                  ELSE IF waitingForNextSuccessfulFrame THEN "idr"
                  ELSE "none"
<1>1. /\ receiver = "frame" /\ receiver' = "idle" /\ arriving' = None
      /\ waitingForIdrFrame \/ waitingForRefInvalFrame
      /\ UNCHANGED <<kind, decoder>>
      /\ dropFrameState(waitingForIdrFrame, ask)
      /\ waitingForIdrFrame \in BOOLEAN
  BY DEF TypeOK, FlagsType, LastPacketWaits, FrameOver
<1>2. /\ waitingForIdrFrame /\ waitingForNextSuccessfulFrame => ask = "idr"
  OBVIOUS
<1> HIDE DEF ask
<1>3. /\ dropStatePending' = FALSE
      /\ idrRequested => idrRequested'
      /\ ask = "idr" => idrRequested'
      /\ waitingForIdrFrame' =>
           waitingForIdrFrame \/ idrRequested' \/ ~RfiIsPossible
  BY <1>1, DropFacts, Zenon
<1> QED
  BY <1>1, <1>2, <1>3 DEF AllServed, Served, Waits, Asked

(* Steps keep the frame numbers together.                                  *)
LEMMA NextPosition ==
  ASSUME TypeOK, Position, [Next]_vars
  PROVE  Position'
<1>1. CASE \E type \in Types : HostSends(type)
  <2>1. PICK type \in Types : HostSends(type)
    BY <1>1
  <2>2. /\ arriving' \in Units /\ arriving' # None
        /\ arriving'.n = sent + 1 /\ arriving'.type = type
    BY <2>1, SentUnit, Zenon
  <2> QED
    BY <2>1 DEF TypeOK, NumbersType, UnitsType, Position, HostSends
<1>2. CASE NetworkLoses
  BY <1>2 DEF NetworkLoses, Position
<1>3. CASE ReportLoss
  <2>1. PICK f \in 1..sent :
          /\ f = sent => arriving = None \/ kind.speculative
          /\ f > done /\ f > lost
          /\ notifyFrameLost(f)
    BY <1>3, Zenon DEF ReportLoss
  <2> QED
    BY <2>1
       DEF TypeOK, NumbersType, UnitsType, Position, ReportLoss,
           notifyFrameLost, dropFrameState
<1>4. CASE OldFrame
  BY <1>4 DEF TypeOK, NumbersType, UnitsType, OldFrame, Position
<1>5. CASE FrameGap
  BY <1>5
     DEF TypeOK, NumbersType, UnitsType, Position, FrameGap, dropFrameState,
         Assert
<1>6. CASE FirstPacket
  BY <1>6 DEF Position, FirstPacket
<1>7. CASE CorruptFrame
  BY <1>7
     DEF TypeOK, NumbersType, UnitsType, Position, FrameOver, CorruptFrame,
         dropFrameState
<1>8. CASE LastPacketWaits
  BY <1>8
     DEF TypeOK, NumbersType, UnitsType, Position, FrameOver,
         LastPacketWaits, dropFrameState
<1>9. CASE LastPacketGoesOn
  BY <1>9 DEF Position, LastPacketGoesOn, Assert
<1>10. CASE DropPendingState
  BY <1>10
     DEF TypeOK, NumbersType, UnitsType, Position, FrameOver,
         DropPendingState, dropFrameState
<1>11. CASE KeepState
  BY <1>11 DEF KeepState, Position
<1>12. CASE QueueUnit
  BY <1>12 DEF Position, FrameComplete, QueueUnit
<1>13. CASE QueueOverflow
  BY <1>13 DEF QueueOverflow, dropFrameState, Position
<1>14. CASE FlushOverflow
  BY <1>14 DEF TypeOK, NumbersType, UnitsType, FlushOverflow, Position
<1>15. CASE TakeUnit
  BY <1>15 DEF Position, TakeUnit
<1>16. CASE LiPeekNextVideoFrame
  BY <1>16 DEF Position, LiPeekNextVideoFrame
<1>17. CASE CompleteOk
  BY <1>17 DEF CompleteOk, Position
<1>18. CASE CompleteNeedIdr
  BY <1>18 DEF CompleteNeedIdr, Position
<1>19. CASE RefreshFlush
  BY <1>19 DEF RefreshFlush, Position
<1>20. CASE RefreshDrop
  BY <1>20 DEF RefreshDrop, Position
<1>21. CASE RefreshRequest
  BY <1>21 DEF RefreshRequest, Position
<1>22. CASE \E s \in {"DR_OK", "DR_NEED_IDR"} : SubmitDirectly(s)
  <2>1. PICK s \in {"DR_OK", "DR_NEED_IDR"} : SubmitDirectly(s)
    BY <1>22
  <2> QED
    BY <2>1 DEF Position, SubmitDirectly, FrameComplete, Assert
<1>23. CASE UNCHANGED vars
  BY <1>23 DEF vars, Position
<1> QED
  BY <1>1, <1>2, <1>3, <1>4, <1>5, <1>6, <1>7, <1>8, <1>9, <1>10, <1>11, <1>12,
     <1>13, <1>14, <1>15, <1>16, <1>17, <1>18, <1>19, <1>20, <1>21, <1>22,
     <1>23, Zenon
     DEF Next, Receive, Decode

(* Steps keep the decoder thread where its kind lets it be.                *)
LEMMA NextDecoderThread ==
  ASSUME TypeOK, Position, DecoderThread, [Next]_vars
  PROVE  DecoderThread'
<1>1. CASE \E type \in Types : HostSends(type)
  <2>1. PICK type \in Types : HostSends(type)
    BY <1>1
  <2>2. /\ arriving' \in Units /\ arriving' # None
        /\ arriving'.n = sent + 1 /\ arriving'.type = type
    BY <2>1, SentUnit, Zenon
  <2> QED
    BY <2>1 DEF DecoderThread, HostSends
<1>2. CASE NetworkLoses
  BY <1>2 DEF NetworkLoses, DecoderThread
<1>3. CASE ReportLoss
  <2>1. PICK f \in 1..sent :
          /\ f = sent => arriving = None \/ kind.speculative
          /\ f > done /\ f > lost
          /\ notifyFrameLost(f)
    BY <1>3, Zenon DEF ReportLoss
  <2> QED
    BY <2>1 DEF DecoderThread, ReportLoss, notifyFrameLost, dropFrameState
<1>4. CASE OldFrame
  BY <1>4 DEF OldFrame, DecoderThread
<1>5. CASE FrameGap
  BY <1>5 DEF DecoderThread, FrameGap, dropFrameState, Assert
<1>6. CASE FirstPacket
  BY <1>6 DEF DecoderThread, FirstPacket
<1>7. CASE CorruptFrame
  BY <1>7 DEF DecoderThread, FrameOver, CorruptFrame, dropFrameState
<1>8. CASE LastPacketWaits
  BY <1>8 DEF DecoderThread, FrameOver, LastPacketWaits, dropFrameState
<1>9. CASE LastPacketGoesOn
  BY <1>9 DEF DecoderThread, LastPacketGoesOn, Assert
<1>10. CASE DropPendingState
  BY <1>10 DEF DecoderThread, FrameOver, DropPendingState, dropFrameState
<1>11. CASE KeepState
  BY <1>11 DEF KeepState, DecoderThread
<1>12. CASE QueueUnit
  BY <1>12 DEF DecoderThread, QueueUnit, FrameComplete
<1>13. CASE QueueOverflow
  BY <1>13 DEF QueueOverflow, dropFrameState, DecoderThread
<1>14. CASE FlushOverflow
  BY <1>14 DEF FlushOverflow, DecoderThread
<1>15. CASE TakeUnit
  BY <1>15, UnitFields
     DEF TypeOK, NumbersType, UnitsType, DecoderThread, TakeUnit
<1>16. CASE LiPeekNextVideoFrame
  BY <1>16 DEF DecoderThread, LiPeekNextVideoFrame
<1>17. CASE CompleteOk
  BY <1>17 DEF CompleteOk, DecoderThread
<1>18. CASE CompleteNeedIdr
  BY <1>18 DEF CompleteNeedIdr, DecoderThread
<1>19. CASE RefreshFlush
  BY <1>19 DEF RefreshFlush, DecoderThread
<1>20. CASE RefreshDrop
  BY <1>20 DEF RefreshDrop, DecoderThread
<1>21. CASE RefreshRequest
  BY <1>21 DEF RefreshRequest, DecoderThread
<1>22. CASE \E s \in {"DR_OK", "DR_NEED_IDR"} : SubmitDirectly(s)
  <2>1. PICK s \in {"DR_OK", "DR_NEED_IDR"} : SubmitDirectly(s)
    BY <1>22
  <2> QED
    BY <2>1 DEF DecoderThread, SubmitDirectly, FrameComplete, Assert
<1>23. CASE UNCHANGED vars
  BY <1>23 DEF vars, DecoderThread
<1> QED
  BY <1>1, <1>2, <1>3, <1>4, <1>5, <1>6, <1>7, <1>8, <1>9, <1>10, <1>11, <1>12,
     <1>13, <1>14, <1>15, <1>16, <1>17, <1>18, <1>19, <1>20, <1>21, <1>22,
     <1>23, Zenon
     DEF Next, Receive, Decode

(* A wait for the next complete frame comes with another wait, and RFI is  *)
(* only waited for or asked for where it is possible.                      *)
LEMMA NextWaits ==
  ASSUME TypeOK, Position, Waits, [Next]_vars
  PROVE  Waits'
<1>1. CASE \E type \in Types : HostSends(type)
  <2>1. PICK type \in Types : HostSends(type)
    BY <1>1
  <2>2. /\ arriving' \in Units /\ arriving' # None
        /\ arriving'.n = sent + 1 /\ arriving'.type = type
    BY <2>1, SentUnit, Zenon
  <2> QED
    BY <2>1 DEF Waits, RfiIsPossible, HostSends
<1>2. CASE NetworkLoses
  BY <1>2
     DEF TypeOK, FlagsType, Position, Waits, NetworkLoses, NumbersType,
         UnitsType, Next, IInv, DecoderThread, Unraced, FirstIdr, Decodable,
         Chain, AllServed, Served, AssertsHold, Asked, GapAhead, IdrIn,
         RfiIsPossible, RacingRefresh, Newest, Validated, FaultOf, Assert,
         dropFrameState, notifyFrameLost, FrameOver, FrameComplete,
         TypeSeen, Types, Units, KindsOfStream, vars, Receive, Decode, Init,
         Spec, IdrIsRequested, DecoderInputDecodable
<1>3. CASE ReportLoss
  <2>1. PICK f \in 1..sent :
          /\ f = sent => arriving = None \/ kind.speculative
          /\ f > done /\ f > lost
          /\ notifyFrameLost(f)
    BY <1>3, Zenon DEF ReportLoss
  <2> QED
    BY <2>1 DEF Waits, RfiIsPossible, notifyFrameLost, dropFrameState
<1>4. CASE OldFrame
  BY <1>4
     DEF TypeOK, FlagsType, Position, Waits, OldFrame, NumbersType,
         UnitsType, Next, IInv, DecoderThread, Unraced, FirstIdr, Decodable,
         Chain, AllServed, Served, AssertsHold, Asked, GapAhead, IdrIn,
         RfiIsPossible, RacingRefresh, Newest, Validated, FaultOf, Assert,
         dropFrameState, notifyFrameLost, FrameOver, FrameComplete,
         TypeSeen, Types, Units, KindsOfStream, vars, Receive, Decode, Init,
         Spec, IdrIsRequested, DecoderInputDecodable
<1>5. CASE FrameGap
  BY <1>5 DEF Waits, RfiIsPossible, FrameGap, dropFrameState
<1>6. CASE FirstPacket
  BY <1>6 DEF Waits, RfiIsPossible, FirstPacket, TypeSeen
<1>7. CASE CorruptFrame
  BY <1>7 DEF Waits, RfiIsPossible, CorruptFrame, dropFrameState, FrameOver
<1>8. CASE LastPacketWaits
  BY <1>8 DEF Waits, RfiIsPossible, LastPacketWaits, dropFrameState, FrameOver
<1>9. CASE LastPacketGoesOn
  BY <1>9 DEF Waits, RfiIsPossible, LastPacketGoesOn, Assert
<1>10. CASE DropPendingState
  BY <1>10
     DEF Waits, RfiIsPossible, DropPendingState, dropFrameState, FrameOver
<1>11. CASE KeepState
  BY <1>11
     DEF TypeOK, FlagsType, Position, Waits, KeepState, NumbersType,
         UnitsType, Next, IInv, DecoderThread, Unraced, FirstIdr, Decodable,
         Chain, AllServed, Served, AssertsHold, Asked, GapAhead, IdrIn,
         RfiIsPossible, RacingRefresh, Newest, Validated, FaultOf, Assert,
         dropFrameState, notifyFrameLost, FrameOver, FrameComplete,
         TypeSeen, Types, Units, KindsOfStream, vars, Receive, Decode, Init,
         Spec, IdrIsRequested, DecoderInputDecodable
<1>12. CASE QueueUnit
  BY <1>12 DEF Waits, RfiIsPossible, FrameComplete, QueueUnit
<1>13. CASE QueueOverflow
  BY <1>13 DEF Waits, RfiIsPossible, dropFrameState, QueueOverflow
<1>14. CASE FlushOverflow
  BY <1>14
     DEF TypeOK, FlagsType, Position, Waits, FlushOverflow, NumbersType,
         UnitsType, Next, IInv, DecoderThread, Unraced, FirstIdr, Decodable,
         Chain, AllServed, Served, AssertsHold, Asked, GapAhead, IdrIn,
         RfiIsPossible, RacingRefresh, Newest, Validated, FaultOf, Assert,
         dropFrameState, notifyFrameLost, FrameOver, FrameComplete,
         TypeSeen, Types, Units, KindsOfStream, vars, Receive, Decode, Init,
         Spec, IdrIsRequested, DecoderInputDecodable
<1>15. CASE TakeUnit
  BY <1>15 DEF Waits, RfiIsPossible, TakeUnit
<1>16. CASE LiPeekNextVideoFrame
  BY <1>16 DEF Waits, RfiIsPossible, LiPeekNextVideoFrame
<1>17. CASE CompleteOk
  BY <1>17
     DEF TypeOK, FlagsType, Position, Waits, CompleteOk, NumbersType,
         UnitsType, Next, IInv, DecoderThread, Unraced, FirstIdr, Decodable,
         Chain, AllServed, Served, AssertsHold, Asked, GapAhead, IdrIn,
         RfiIsPossible, RacingRefresh, Newest, Validated, FaultOf, Assert,
         dropFrameState, notifyFrameLost, FrameOver, FrameComplete,
         TypeSeen, Types, Units, KindsOfStream, vars, Receive, Decode, Init,
         Spec, IdrIsRequested, DecoderInputDecodable
<1>18. CASE CompleteNeedIdr
  BY <1>18
     DEF TypeOK, FlagsType, Position, Waits, CompleteNeedIdr, NumbersType,
         UnitsType, Next, IInv, DecoderThread, Unraced, FirstIdr, Decodable,
         Chain, AllServed, Served, AssertsHold, Asked, GapAhead, IdrIn,
         RfiIsPossible, RacingRefresh, Newest, Validated, FaultOf, Assert,
         dropFrameState, notifyFrameLost, FrameOver, FrameComplete,
         TypeSeen, Types, Units, KindsOfStream, vars, Receive, Decode, Init,
         Spec, IdrIsRequested, DecoderInputDecodable
<1>19. CASE RefreshFlush
  BY <1>19
     DEF TypeOK, FlagsType, Position, Waits, RefreshFlush, NumbersType,
         UnitsType, Next, IInv, DecoderThread, Unraced, FirstIdr, Decodable,
         Chain, AllServed, Served, AssertsHold, Asked, GapAhead, IdrIn,
         RfiIsPossible, RacingRefresh, Newest, Validated, FaultOf, Assert,
         dropFrameState, notifyFrameLost, FrameOver, FrameComplete,
         TypeSeen, Types, Units, KindsOfStream, vars, Receive, Decode, Init,
         Spec, IdrIsRequested, DecoderInputDecodable
<1>20. CASE RefreshDrop
  BY <1>20
     DEF TypeOK, FlagsType, Position, Waits, RefreshDrop, NumbersType,
         UnitsType, Next, IInv, DecoderThread, Unraced, FirstIdr, Decodable,
         Chain, AllServed, Served, AssertsHold, Asked, GapAhead, IdrIn,
         RfiIsPossible, RacingRefresh, Newest, Validated, FaultOf, Assert,
         dropFrameState, notifyFrameLost, FrameOver, FrameComplete,
         TypeSeen, Types, Units, KindsOfStream, vars, Receive, Decode, Init,
         Spec, IdrIsRequested, DecoderInputDecodable
<1>21. CASE RefreshRequest
  BY <1>21
     DEF TypeOK, FlagsType, Position, Waits, RefreshRequest, NumbersType,
         UnitsType, Next, IInv, DecoderThread, Unraced, FirstIdr, Decodable,
         Chain, AllServed, Served, AssertsHold, Asked, GapAhead, IdrIn,
         RfiIsPossible, RacingRefresh, Newest, Validated, FaultOf, Assert,
         dropFrameState, notifyFrameLost, FrameOver, FrameComplete,
         TypeSeen, Types, Units, KindsOfStream, vars, Receive, Decode, Init,
         Spec, IdrIsRequested, DecoderInputDecodable
<1>22. CASE \E s \in {"DR_OK", "DR_NEED_IDR"} : SubmitDirectly(s)
  <2>1. PICK s \in {"DR_OK", "DR_NEED_IDR"} : SubmitDirectly(s)
    BY <1>22
  <2> QED
    BY <2>1 DEF Waits, RfiIsPossible, SubmitDirectly, FrameComplete, Assert
<1>23. CASE UNCHANGED vars
  BY <1>23
     DEF TypeOK, FlagsType, Position, Waits, vars, NumbersType, UnitsType,
         Next, IInv, DecoderThread, Unraced, FirstIdr, Decodable, Chain,
         AllServed, Served, AssertsHold, Asked, GapAhead, IdrIn,
         RfiIsPossible, RacingRefresh, Newest, Validated, FaultOf, Assert,
         dropFrameState, notifyFrameLost, FrameOver, FrameComplete,
         TypeSeen, Types, Units, KindsOfStream, Receive, Decode, Init, Spec,
         IdrIsRequested, DecoderInputDecodable
<1> QED
  BY <1>1, <1>2, <1>3, <1>4, <1>5, <1>6, <1>7, <1>8, <1>9, <1>10, <1>11, <1>12,
     <1>13, <1>14, <1>15, <1>16, <1>17, <1>18, <1>19, <1>20, <1>21, <1>22,
     <1>23, Zenon
     DEF Next, Receive, Decode

(* Without a racing refresh the receive thread can rely on the flags.      *)
LEMMA NextUnraced ==
  ASSUME TypeOK, Position, DecoderThread, Waits, Unraced, [Next]_vars
  PROVE  Unraced'
<1>1. CASE \E type \in Types : HostSends(type)
  <2>1. PICK type \in Types : HostSends(type)
    BY <1>1
  <2>2. /\ arriving' \in Units /\ arriving' # None
        /\ arriving'.n = sent + 1 /\ arriving'.type = type
    BY <2>1, SentUnit, Zenon
  <2> QED
    BY <2>1 DEF Unraced, RacingRefresh, IdrIn, HostSends
<1>2. CASE NetworkLoses
  BY <1>2
     DEF DecoderThread, Waits, Unraced, RacingRefresh, NetworkLoses,
         NumbersType, Next, IInv, FirstIdr, Decodable, Chain, AllServed,
         Served, AssertsHold, Asked, GapAhead, IdrIn, RfiIsPossible, Newest,
         Validated, FaultOf, Assert, dropFrameState, notifyFrameLost,
         FrameOver, FrameComplete, TypeSeen, Types, Units, KindsOfStream,
         vars, Receive, Decode, Init, Spec, IdrIsRequested,
         DecoderInputDecodable
<1>3. CASE ReportLoss
  <2>1. PICK f \in 1..sent :
          /\ f = sent => arriving = None \/ kind.speculative
          /\ f > done /\ f > lost
          /\ notifyFrameLost(f)
    BY <1>3, Zenon DEF ReportLoss
  <2> QED
    BY <2>1 DEF Unraced, RacingRefresh, IdrIn, notifyFrameLost, dropFrameState
<1>4. CASE OldFrame
  BY <1>4
     DEF DecoderThread, Waits, Unraced, RacingRefresh, OldFrame,
         NumbersType, Next, IInv, FirstIdr, Decodable, Chain, AllServed,
         Served, AssertsHold, Asked, GapAhead, IdrIn, RfiIsPossible, Newest,
         Validated, FaultOf, Assert, dropFrameState, notifyFrameLost,
         FrameOver, FrameComplete, TypeSeen, Types, Units, KindsOfStream,
         vars, Receive, Decode, Init, Spec, IdrIsRequested,
         DecoderInputDecodable
<1>5. CASE FrameGap
  BY <1>5 DEF Unraced, RacingRefresh, IdrIn, FrameGap, dropFrameState
<1>6. CASE FirstPacket
  BY <1>6 DEF Unraced, RacingRefresh, IdrIn, FirstPacket, TypeSeen
<1>7. CASE CorruptFrame
  BY <1>7
     DEF Unraced, RacingRefresh, IdrIn, CorruptFrame, dropFrameState,
         FrameOver
<1>8. CASE LastPacketWaits
  BY <1>8
     DEF Unraced, RacingRefresh, IdrIn, LastPacketWaits, dropFrameState,
         FrameOver
<1>9. CASE LastPacketGoesOn
  BY <1>9 DEF Unraced, RacingRefresh, IdrIn, LastPacketGoesOn, Assert
<1>10. CASE DropPendingState
  BY <1>10 DEF Unraced, RacingRefresh, IdrIn, DropPendingState
<1>11. CASE KeepState
  BY <1>11 DEF Unraced, RacingRefresh, KeepState
<1>12. CASE QueueUnit
  BY <1>12 DEF Unraced, RacingRefresh, IdrIn, FrameComplete, QueueUnit
<1>13. CASE QueueOverflow
  BY <1>13 DEF Unraced, RacingRefresh, IdrIn, dropFrameState, QueueOverflow
<1>14. CASE FlushOverflow
  BY <1>14
     DEF DecoderThread, Waits, Unraced, RacingRefresh, FlushOverflow,
         NumbersType, Next, IInv, FirstIdr, Decodable, Chain, AllServed,
         Served, AssertsHold, Asked, GapAhead, IdrIn, RfiIsPossible, Newest,
         Validated, FaultOf, Assert, dropFrameState, notifyFrameLost,
         FrameOver, FrameComplete, TypeSeen, Types, Units, KindsOfStream,
         vars, Receive, Decode, Init, Spec, IdrIsRequested,
         DecoderInputDecodable
<1>15. CASE TakeUnit
  BY <1>15 DEF Unraced, RacingRefresh, IdrIn, TakeUnit
<1>16. CASE LiPeekNextVideoFrame
  BY <1>16 DEF Unraced, RacingRefresh, IdrIn, LiPeekNextVideoFrame
<1>17. CASE CompleteOk
  BY <1>17
     DEF DecoderThread, Waits, Unraced, RacingRefresh, CompleteOk,
         NumbersType, Next, IInv, FirstIdr, Decodable, Chain, AllServed,
         Served, AssertsHold, Asked, GapAhead, IdrIn, RfiIsPossible, Newest,
         Validated, FaultOf, Assert, dropFrameState, notifyFrameLost,
         FrameOver, FrameComplete, TypeSeen, Types, Units, KindsOfStream,
         vars, Receive, Decode, Init, Spec, IdrIsRequested,
         DecoderInputDecodable
<1>18. CASE CompleteNeedIdr
  BY <1>18 DEF DecoderThread, Waits, Unraced, RacingRefresh, CompleteNeedIdr
<1>19. CASE RefreshFlush
  BY <1>19 DEF DecoderThread, Waits, Unraced, RacingRefresh, RefreshFlush
<1>20. CASE RefreshDrop
  BY <1>20 DEF DecoderThread, Waits, Unraced, RacingRefresh, RefreshDrop
<1>21. CASE RefreshRequest
  BY <1>21 DEF DecoderThread, Waits, Unraced, RacingRefresh, RefreshRequest
<1>22. CASE \E s \in {"DR_OK", "DR_NEED_IDR"} : SubmitDirectly(s)
  <2>1. PICK s \in {"DR_OK", "DR_NEED_IDR"} : SubmitDirectly(s)
    BY <1>22
  <2> QED
    BY <2>1
       DEF Unraced, RacingRefresh, IdrIn, SubmitDirectly, FrameComplete,
           Assert
<1>23. CASE UNCHANGED vars
  BY <1>23
     DEF DecoderThread, Waits, Unraced, RacingRefresh, vars, NumbersType,
         Next, IInv, FirstIdr, Decodable, Chain, AllServed, Served,
         AssertsHold, Asked, GapAhead, IdrIn, RfiIsPossible, Newest,
         Validated, FaultOf, Assert, dropFrameState, notifyFrameLost,
         FrameOver, FrameComplete, TypeSeen, Types, Units, KindsOfStream,
         Receive, Decode, Init, Spec, IdrIsRequested, DecoderInputDecodable
<1> QED
  BY <1>1, <1>2, <1>3, <1>4, <1>5, <1>6, <1>7, <1>8, <1>9, <1>10, <1>11, <1>12,
     <1>13, <1>14, <1>15, <1>16, <1>17, <1>18, <1>19, <1>20, <1>21, <1>22,
     <1>23, Zenon
     DEF Next, Receive, Decode

(* An IDR frame stays ahead of everything until one is processed.          *)
LEMMA NextFirstIdr ==
  ASSUME TypeOK, Position, DecoderThread, Waits, Unraced, FirstIdr, [Next]_vars
  PROVE  FirstIdr'
<1>1. CASE \E type \in Types : HostSends(type)
  <2>1. PICK type \in Types : HostSends(type)
    BY <1>1
  <2>2. /\ arriving' \in Units /\ arriving' # None
        /\ arriving'.n = sent + 1 /\ arriving'.type = type
    BY <2>1, SentUnit, Zenon
  <2> QED
    BY <2>1 DEF Unraced, FirstIdr, RacingRefresh, IdrIn, HostSends
<1>2. CASE NetworkLoses
  BY <1>2
     DEF DecoderThread, Waits, Unraced, FirstIdr, RacingRefresh,
         NetworkLoses, NumbersType, Next, IInv, Decodable, Chain, AllServed,
         Served, AssertsHold, Asked, GapAhead, IdrIn, RfiIsPossible, Newest,
         Validated, FaultOf, Assert, dropFrameState, notifyFrameLost,
         FrameOver, FrameComplete, TypeSeen, Types, Units, KindsOfStream,
         vars, Receive, Decode, Init, Spec, IdrIsRequested,
         DecoderInputDecodable
<1>3. CASE ReportLoss
  <2>1. PICK f \in 1..sent :
          /\ f = sent => arriving = None \/ kind.speculative
          /\ f > done /\ f > lost
          /\ notifyFrameLost(f)
    BY <1>3, Zenon DEF ReportLoss
  <2> QED
    BY <2>1
       DEF Unraced, FirstIdr, RacingRefresh, IdrIn, notifyFrameLost,
           dropFrameState
<1>4. CASE OldFrame
  BY <1>4
     DEF DecoderThread, Waits, Unraced, FirstIdr, RacingRefresh, OldFrame,
         NumbersType, Next, IInv, Decodable, Chain, AllServed, Served,
         AssertsHold, Asked, GapAhead, IdrIn, RfiIsPossible, Newest,
         Validated, FaultOf, Assert, dropFrameState, notifyFrameLost,
         FrameOver, FrameComplete, TypeSeen, Types, Units, KindsOfStream,
         vars, Receive, Decode, Init, Spec, IdrIsRequested,
         DecoderInputDecodable
<1>5. CASE FrameGap
  BY <1>5 DEF Unraced, FirstIdr, RacingRefresh, IdrIn, FrameGap, dropFrameState
<1>6. CASE FirstPacket
  BY <1>6 DEF Unraced, FirstIdr, RacingRefresh, IdrIn, FirstPacket, TypeSeen
<1>7. CASE CorruptFrame
  BY <1>7
     DEF Unraced, FirstIdr, RacingRefresh, IdrIn, CorruptFrame,
         dropFrameState
<1>8. CASE LastPacketWaits
  BY <1>8
     DEF Unraced, FirstIdr, RacingRefresh, IdrIn, LastPacketWaits,
         dropFrameState
<1>9. CASE LastPacketGoesOn
  BY <1>9 DEF Unraced, FirstIdr, RacingRefresh, IdrIn, LastPacketGoesOn, Assert
<1>10. CASE DropPendingState
  BY <1>10 DEF Unraced, FirstIdr, RacingRefresh, IdrIn, DropPendingState
<1>11. CASE KeepState
  BY <1>11
     DEF DecoderThread, Waits, Unraced, FirstIdr, RacingRefresh, KeepState,
         NumbersType, Next, IInv, Decodable, Chain, AllServed, Served,
         AssertsHold, Asked, GapAhead, IdrIn, RfiIsPossible, Newest,
         Validated, FaultOf, Assert, dropFrameState, notifyFrameLost,
         FrameOver, FrameComplete, TypeSeen, Types, Units, KindsOfStream,
         vars, Receive, Decode, Init, Spec, IdrIsRequested,
         DecoderInputDecodable
<1>12. CASE QueueUnit
  <2>1. /\ arriving \in Units
        /\ decodeUnitQueue \in Seq(Units)
        /\ decodeUnitQueue' = Append(decodeUnitQueue, arriving)
    BY <1>12
       DEF UnitsType, Position, QueueUnit, FrameComplete, FlagsType, TypeOK,
           NumbersType
  <2>2. decodeUnitQueue' # <<>>
    BY <2>1, AppendProperties
  <2>3. decodeUnitQueue'[1] =
          IF decodeUnitQueue = <<>> THEN arriving ELSE decodeUnitQueue[1]
    BY <2>1, AppendFirst, Zenon
  <2>4. /\ UNCHANGED <<decoder, unit, kind, idrFrameProcessed>>
        /\ receiver = "reassemble"
    BY <1>12 DEF QueueUnit
  <2> QED
    BY <2>2, <2>3, <2>4, Zenon DEF Unraced, FirstIdr, IdrIn, RacingRefresh
<1>13. CASE QueueOverflow
  BY <1>13
     DEF Unraced, FirstIdr, RacingRefresh, IdrIn, dropFrameState,
         QueueOverflow
<1>14. CASE FlushOverflow
  BY <1>14 DEF Unraced, FirstIdr, RacingRefresh, FlushOverflow
<1>15. CASE TakeUnit
  <2>1. decodeUnitQueue # <<>> /\ decoder' = "decoding"
        /\ unit' = decodeUnitQueue[1]
    BY <1>15, HeadIsFirst, Zenon DEF TakeUnit
  <2> QED
    BY <1>15 DEF RacingRefresh, TakeUnit, FirstIdr
<1>16. CASE LiPeekNextVideoFrame
  BY <1>16 DEF Unraced, FirstIdr, RacingRefresh, IdrIn, LiPeekNextVideoFrame
<1>17. CASE CompleteOk
  BY <1>17 DEF FirstIdr, RacingRefresh, CompleteOk
<1>18. CASE CompleteNeedIdr
  BY <1>18 DEF FirstIdr, RacingRefresh, CompleteNeedIdr
<1>19. CASE RefreshFlush
  BY <1>19
     DEF DecoderThread, Waits, Unraced, FirstIdr, RacingRefresh,
         RefreshFlush
<1>20. CASE RefreshDrop
  BY <1>20
     DEF DecoderThread, Waits, Unraced, FirstIdr, RacingRefresh, RefreshDrop
<1>21. CASE RefreshRequest
  BY <1>21
     DEF DecoderThread, Waits, Unraced, FirstIdr, RacingRefresh,
         RefreshRequest
<1>22. CASE \E s \in {"DR_OK", "DR_NEED_IDR"} : SubmitDirectly(s)
  <2>1. PICK s \in {"DR_OK", "DR_NEED_IDR"} : SubmitDirectly(s)
    BY <1>22
  <2> QED
    BY <2>1 DEF Unraced, FirstIdr, RacingRefresh, IdrIn, SubmitDirectly
<1>23. CASE UNCHANGED vars
  BY <1>23
     DEF DecoderThread, Waits, Unraced, FirstIdr, RacingRefresh, vars,
         NumbersType, Next, IInv, Decodable, Chain, AllServed, Served,
         AssertsHold, Asked, GapAhead, IdrIn, RfiIsPossible, Newest,
         Validated, FaultOf, Assert, dropFrameState, notifyFrameLost,
         FrameOver, FrameComplete, TypeSeen, Types, Units, KindsOfStream,
         Receive, Decode, Init, Spec, IdrIsRequested, DecoderInputDecodable
<1> QED
  BY <1>1, <1>2, <1>3, <1>4, <1>5, <1>6, <1>7, <1>8, <1>9, <1>10, <1>11, <1>12,
     <1>13, <1>14, <1>15, <1>16, <1>17, <1>18, <1>19, <1>20, <1>21, <1>22,
     <1>23, Zenon
     DEF Next, Receive, Decode

(* Who waits for an IDR frame stays served.                                *)
LEMMA NextAllServed ==
  ASSUME TypeOK, Position, DecoderThread, Waits, Unraced, AllServed, [Next]_vars
  PROVE  AllServed'
<1>1. CASE \E type \in Types : HostSends(type)
  <2>1. PICK type \in Types : HostSends(type)
    BY <1>1
  <2>2. /\ arriving' \in Units /\ arriving' # None
        /\ arriving'.n = sent + 1 /\ arriving'.type = type
    BY <2>1, SentUnit, Zenon
  <2>3. /\ arriving = None /\ receiver = "idle" /\ sent' = sent + 1
        /\ UNCHANGED <<waitingForIdrFrame, dropStatePending, decoder,
                       receiver, kind, nextFrameNumber>>
        /\ sent = 0 => type = "IDR"
        /\ type = "RFI" => rfiRequested
        /\ idrRequested' = (idrRequested /\ type # "IDR")
        /\ rfiRequested' = (rfiRequested /\ type = "P")
    BY <2>1 DEF HostSends
  <2>4. GapAhead => GapAhead' \/ type = "IDR"
    BY <2>3
       DEF NumbersType, GapAhead, HostSends, TypeOK, Position,
           DecoderThread, Waits, Unraced, AllServed, Next
  <2>5. type = "IDR" => GapAhead'
    BY <2>2 DEF GapAhead
  <2>6. receiver' = "idle" /\ (Asked /\ type # "IDR" => Asked')
    BY <2>3, Zenon DEF Asked
  <2>7. (waitingForIdrFrame \/ dropStatePending)' => Asked' \/ GapAhead'
        \/ kind.speculative
    BY <2>3, <2>4, <2>5, <2>6, Zenon DEF AllServed, Served
  <2>8. waitingForIdrFrame' /\ ~Asked' =>
          kind.speculative \/ (~rfiRequested' /\ type # "RFI")
    BY <2>3, Zenon DEF Served, Asked, AllServed
  <2> QED
    BY <1>1, <2>1, <2>2, <2>3, <2>4, <2>5, <2>6, <2>7, <2>8, DropCount,
       HeadIsFirst, AppendFirst, WaitIsServed
       DEF AllServed, HostSends, FlagsType, TypeOK, NumbersType, UnitsType,
           Position, DecoderThread, Waits, Unraced, Next, IInv, FirstIdr,
           Decodable, Chain, Served, AssertsHold, Asked, GapAhead, IdrIn,
           RfiIsPossible, RacingRefresh, Newest, Validated, FaultOf, Assert,
           dropFrameState, notifyFrameLost, FrameOver, FrameComplete,
           TypeSeen, Types, Units, KindsOfStream, vars, Receive, Decode,
           Init, Spec, IdrIsRequested, DecoderInputDecodable
<1>2. CASE NetworkLoses
  BY <1>2
     DEF Position, DecoderThread, Waits, AllServed, Served, Asked,
         NetworkLoses, Unraced, Next, IInv, FirstIdr, Decodable, Chain,
         AssertsHold, GapAhead, IdrIn, RfiIsPossible, RacingRefresh, Newest,
         Validated, FaultOf, Assert, dropFrameState, notifyFrameLost,
         FrameOver, FrameComplete, TypeSeen, Types, Units, KindsOfStream,
         vars, Receive, Decode, Init, Spec, IdrIsRequested,
         DecoderInputDecodable
<1>3. CASE ReportLoss
  <2>1. PICK f \in 1..sent :
          /\ f = sent => arriving = None \/ kind.speculative
          /\ f > done /\ f > lost
          /\ notifyFrameLost(f)
    BY <1>3, Zenon DEF ReportLoss
  <2>2. /\ receiver = "idle"
        /\ nextFrameNumber' = IF waitingForIdrFrame' THEN nextFrameNumber
                              ELSE f + 1
        /\ UNCHANGED <<decoder, receiver, kind, sent, arriving>>
        /\ dropFrameState(waitingForIdrFrame, "rfi")
        /\ waitingForIdrFrame \in BOOLEAN
    BY <2>1 DEF TypeOK, FlagsType, notifyFrameLost
  <2>3. /\ dropStatePending' = FALSE
        /\ idrRequested => idrRequested'
        /\ rfiRequested' => rfiRequested \/ ~waitingForIdrFrame'
        /\ waitingForIdrFrame' =>
             waitingForIdrFrame \/ idrRequested' \/ ~RfiIsPossible
    BY <2>2, DropFacts, Zenon
  <2>4. nextFrameNumber <= f
    BY <2>1, <2>2
       DEF NumbersType, Position, ReportLoss, notifyFrameLost,
           dropFrameState, TypeOK, DecoderThread, Waits, Unraced, AllServed,
           Next
  <2>5. CASE ~kind.speculative /\ waitingForIdrFrame' /\ ~Asked'
    <3>1. GapAhead'
      BY <2>1, <2>2, <2>4, <2>5
         DEF TypeOK, NumbersType, UnitsType, ReportLoss, notifyFrameLost,
             dropFrameState, AllServed, GapAhead
    <3>2. ~rfiRequested' /\ (arriving # None => arriving.type # "RFI")
      BY <1>3, <2>1, <2>2, <2>3, <2>4, <2>5, <3>1, DropCount, HeadIsFirst,
         AppendFirst, WaitIsServed, Zenon
         DEF AllServed, Served, Waits, ReportLoss, notifyFrameLost,
             dropFrameState, FlagsType, TypeOK, NumbersType, UnitsType,
             Position, DecoderThread, Unraced, Next, IInv, FirstIdr,
             Decodable, Chain, AssertsHold, Asked, GapAhead, IdrIn,
             RfiIsPossible, RacingRefresh, Newest, Validated, FaultOf,
             Assert, FrameOver, FrameComplete, TypeSeen, Types, Units,
             KindsOfStream, vars, Receive, Decode, Init, Spec,
             IdrIsRequested, DecoderInputDecodable
    <3> QED
      BY <1>1, <1>2, <1>3, <2>1, <2>2, <2>3, <2>4, <2>5, <3>1, <3>2, DropCount,
         HeadIsFirst, AppendFirst, WaitIsServed
         DEF AllServed, ReportLoss, notifyFrameLost, dropFrameState,
             FlagsType, TypeOK, NumbersType, UnitsType, Position,
             DecoderThread, Waits, Unraced, Next, IInv, FirstIdr, Decodable,
             Chain, Served, AssertsHold, Asked, GapAhead, IdrIn,
             RfiIsPossible, RacingRefresh, Newest, Validated, FaultOf,
             Assert, FrameOver, FrameComplete, TypeSeen, Types, Units,
             KindsOfStream, vars, Receive, Decode, Init, Spec,
             IdrIsRequested, DecoderInputDecodable
  <2> QED
    BY <2>2, <2>3, <2>5 DEF Served, AllServed
<1>4. CASE OldFrame
  BY <1>4
     DEF Position, DecoderThread, Waits, AllServed, Served, Asked, OldFrame,
         Unraced, Next, IInv, FirstIdr, Decodable, Chain, AssertsHold,
         GapAhead, IdrIn, RfiIsPossible, RacingRefresh, Newest, Validated,
         FaultOf, Assert, dropFrameState, notifyFrameLost, FrameOver,
         FrameComplete, TypeSeen, Types, Units, KindsOfStream, vars,
         Receive, Decode, Init, Spec, IdrIsRequested, DecoderInputDecodable
<1>5. CASE FrameGap
  <2>1. /\ waitingForNextSuccessfulFrame' = TRUE
        /\ receiver' = "header"
        /\ UNCHANGED <<decoder, kind, arriving>>
        /\ dropFrameState(waitingForIdrFrame, "none")
        /\ waitingForIdrFrame \in BOOLEAN /\ receiver = "idle"
    BY <1>5 DEF TypeOK, FlagsType, FrameGap
  <2>2. /\ dropStatePending' = FALSE
        /\ idrRequested => idrRequested'
        /\ rfiRequested' => rfiRequested \/ ~waitingForIdrFrame'
        /\ waitingForIdrFrame' =>
             waitingForIdrFrame \/ idrRequested' \/ ~RfiIsPossible
    BY <2>1, DropFacts, Zenon
  <2>3. ~kind.speculative /\ waitingForIdrFrame' /\ ~Asked' =>
          ~rfiRequested' /\ (arriving # None => arriving.type # "RFI")
    BY <1>5, <2>1, <2>2, Zenon
       DEF AllServed, Asked, Waits, FrameGap, dropFrameState, Assert,
           FlagsType, TypeOK, NumbersType, UnitsType, Position,
           DecoderThread, Unraced, Next, IInv, FirstIdr, Decodable, Chain,
           Served, AssertsHold, GapAhead, IdrIn, RfiIsPossible,
           RacingRefresh, Newest, Validated, FaultOf, notifyFrameLost,
           FrameOver, FrameComplete, TypeSeen, Types, Units, KindsOfStream,
           vars, Receive, Decode, Init, Spec, IdrIsRequested,
           DecoderInputDecodable
  <2> QED
    BY <2>1, <2>2, <2>3 DEF Served, AllServed
<1>6. CASE FirstPacket
  <2>1. /\ receiver \in {"idle", "header"} /\ receiver' = "frame"
        /\ arriving # None /\ arriving.n = nextFrameNumber
        /\ UNCHANGED <<arriving, kind, decoder, dropStatePending, idrRequested,
                       rfiRequested>>
        /\ TypeSeen(arriving.type)
    BY <1>6 DEF FirstPacket
  <2>2. arriving.type \in Types /\ GapAhead => arriving.type = "IDR"
    BY <2>1 DEF TypeOK, NumbersType, Position, GapAhead
  <2>3. /\ waitingForIdrFrame' => waitingForIdrFrame /\ arriving.type # "IDR"
        /\ arriving.type = "P" /\ waitingForNextSuccessfulFrame
             => waitingForNextSuccessfulFrame'
        /\ Asked' <=> Asked
    BY <2>1, Zenon DEF TypeSeen, Asked
  <2>4. arriving.type \in Types
    BY <2>1, UnitFields DEF TypeOK, UnitsType
  <2>5. CASE ~kind.speculative
    <3>1. Served
      BY <2>5 DEF AllServed
    <3>2. waitingForIdrFrame' => Asked \/ waitingForNextSuccessfulFrame'
      BY <1>6, <2>1, <2>2, <2>3, <2>4, <2>5, <3>1 DEF Served, Types
    <3>3. dropStatePending => Asked \/ arriving.type = "IDR"
      BY <1>6, <2>1, <2>2, <2>3, <2>4, <2>5, <3>1, <3>2
         DEF Decodable, Chain, Served, AssertsHold, GapAhead, IdrIn,
             RfiIsPossible, RacingRefresh, Newest, Validated, FaultOf,
             Assert, dropFrameState, notifyFrameLost, FrameOver,
             FrameComplete, Types, Units, KindsOfStream, vars, Receive,
             Decode, Init, Spec, IdrIsRequested, DecoderInputDecodable
    <3> QED
      BY <1>1, <1>2, <1>3, <1>4, <1>5, <1>6, <2>1, <2>2, <2>3, <2>4, <2>5,
         <3>1, <3>2, <3>3
         DEF AllServed, Served, FirstPacket, TypeSeen
  <2> QED
    BY <2>1, <2>5 DEF AllServed
<1>7. CASE CorruptFrame
  BY <1>7
     DEF Waits, AllServed, Served, Asked, GapAhead, CorruptFrame,
         dropFrameState
<1>8. CASE LastPacketWaits
  <2>1. /\ receiver' = "idle" /\ arriving' = None
        /\ UNCHANGED <<kind, decoder>>
        /\ dropFrameState(waitingForIdrFrame,
             IF ~waitingForIdrFrame THEN "rfi"
             ELSE IF waitingForNextSuccessfulFrame THEN "idr" ELSE "none")
        /\ waitingForIdrFrame \in BOOLEAN
    BY <1>8
       DEF FlagsType, LastPacketWaits, FrameOver, vars, TypeOK, NumbersType,
           UnitsType
  <2>2. dropStatePending' = FALSE
    BY <2>1, DropFacts, Zenon
  <2>3. ~kind.speculative /\ waitingForIdrFrame' => Asked'
    BY <1>8, WaitIsServed, Zenon
  <2> QED
    BY <2>1, <2>2, <2>3 DEF Served, AllServed
<1>9. CASE LastPacketGoesOn
  BY <1>9
     DEF Waits, AllServed, Served, Asked, GapAhead, LastPacketGoesOn, Assert
<1>10. CASE DropPendingState
  BY <1>10
     DEF Waits, AllServed, Served, Asked, GapAhead, DropPendingState,
         dropFrameState
<1>11. CASE KeepState
  BY <1>11 DEF Waits, AllServed, Served, Asked, KeepState
<1>12. CASE QueueUnit
  BY <1>12
     DEF Waits, AllServed, Served, Asked, GapAhead, QueueUnit, FrameComplete
<1>13. CASE QueueOverflow
  BY <1>13
     DEF Waits, AllServed, Served, Asked, GapAhead, QueueOverflow,
         dropFrameState
<1>14. CASE FlushOverflow
  BY <1>14 DEF Waits, AllServed, Served, Asked, FlushOverflow
<1>15. CASE TakeUnit
  BY <1>15 DEF Waits, AllServed, Served, Asked, GapAhead, TakeUnit
<1>16. CASE LiPeekNextVideoFrame
  BY <1>16 DEF Waits, AllServed, Served, Asked, GapAhead, LiPeekNextVideoFrame
<1>17. CASE CompleteOk
  BY <1>17
     DEF Position, DecoderThread, Waits, AllServed, Served, Asked,
         CompleteOk, Unraced, Next, IInv, FirstIdr, Decodable, Chain,
         AssertsHold, GapAhead, IdrIn, RfiIsPossible, RacingRefresh, Newest,
         Validated, FaultOf, Assert, dropFrameState, notifyFrameLost,
         FrameOver, FrameComplete, TypeSeen, Types, Units, KindsOfStream,
         vars, Receive, Decode, Init, Spec, IdrIsRequested,
         DecoderInputDecodable
<1>18. CASE CompleteNeedIdr
  BY <1>18 DEF Waits, AllServed, Served, Asked, CompleteNeedIdr
<1>19. CASE RefreshFlush
  BY <1>19 DEF Waits, AllServed, Served, Asked, RefreshFlush
<1>20. CASE RefreshDrop
  BY <1>20 DEF Waits, AllServed, Served, Asked, RefreshDrop
<1>21. CASE RefreshRequest
  BY <1>21 DEF Waits, AllServed, Served, Asked, RefreshRequest
<1>22. CASE \E s \in {"DR_OK", "DR_NEED_IDR"} : SubmitDirectly(s)
  <2>1. PICK s \in {"DR_OK", "DR_NEED_IDR"} : SubmitDirectly(s)
    BY <1>22
  <2> QED
    BY <2>1 DEF Waits, AllServed, Served, Asked, GapAhead, SubmitDirectly
<1>23. CASE UNCHANGED vars
  BY <1>23
     DEF Position, DecoderThread, Waits, AllServed, Served, Asked, vars,
         Unraced, Next, IInv, FirstIdr, Decodable, Chain, AssertsHold,
         GapAhead, IdrIn, RfiIsPossible, RacingRefresh, Newest, Validated,
         FaultOf, Assert, dropFrameState, notifyFrameLost, FrameOver,
         FrameComplete, TypeSeen, Types, Units, KindsOfStream, Receive,
         Decode, Init, Spec, IdrIsRequested, DecoderInputDecodable
<1> QED
  BY <1>1, <1>2, <1>3, <1>4, <1>5, <1>6, <1>7, <1>8, <1>9, <1>10, <1>11, <1>12,
     <1>13, <1>14, <1>15, <1>16, <1>17, <1>18, <1>19, <1>20, <1>21, <1>22,
     <1>23, Zenon
     DEF Next, Receive, Decode

(* Steps fail no assertion.                                                *)
LEMMA NextAsserts ==
  ASSUME TypeOK, Position, DecoderThread, Waits, Unraced, FirstIdr,
         AssertsHold, [Next]_vars
  PROVE  AssertsHold'
<1>1. CASE \E type \in Types : HostSends(type)
  <2>1. PICK type \in Types : HostSends(type)
    BY <1>1
  <2>2. /\ arriving' \in Units /\ arriving' # None
        /\ arriving'.n = sent + 1 /\ arriving'.type = type
    BY <2>1, SentUnit, Zenon
  <2> QED
    BY <2>1 DEF FirstIdr, AssertsHold, RacingRefresh, Validated, HostSends
<1>2. CASE NetworkLoses
  BY <1>2 DEF FirstIdr, AssertsHold, RacingRefresh, NetworkLoses
<1>3. CASE ReportLoss
  <2>1. PICK f \in 1..sent :
          /\ f = sent => arriving = None \/ kind.speculative
          /\ f > done /\ f > lost
          /\ notifyFrameLost(f)
    BY <1>3, Zenon DEF ReportLoss
  <2>2. f >= startFrameNumber
    BY <2>1 DEF TypeOK, NumbersType, Position
  <2>3. ~decodingFrame
    BY <2>1, Zenon DEF Position, notifyFrameLost
  <2>4. ~waitingForIdrFrame' => waitingForRefInvalFrame'
    BY <2>1, Zenon DEF notifyFrameLost, dropFrameState
  <2> QED
    BY <1>1, <1>2, <1>3, <2>1, <2>2, <2>3, <2>4, DropCount, HeadIsFirst,
       AppendFirst, WaitIsServed, Zenon
       DEF AssertsHold, RacingRefresh, notifyFrameLost, ReportLoss,
           dropFrameState, FlagsType, TypeOK, NumbersType, UnitsType,
           Position, DecoderThread, Waits, Unraced, FirstIdr, Next, IInv,
           Decodable, Chain, AllServed, Served, Asked, GapAhead, IdrIn,
           RfiIsPossible, Newest, Validated, FaultOf, Assert, FrameOver,
           FrameComplete, TypeSeen, Types, Units, KindsOfStream, vars,
           Receive, Decode, Init, Spec, IdrIsRequested,
           DecoderInputDecodable
<1>4. CASE OldFrame
  BY <1>4 DEF FirstIdr, AssertsHold, RacingRefresh, OldFrame
<1>5. CASE FrameGap
  BY <1>5
     DEF UnitsType, Position, DecoderThread, Waits, Unraced, FirstIdr,
         AssertsHold, RacingRefresh, Validated, FrameGap, dropFrameState,
         Assert
<1>6. CASE FirstPacket
  BY <1>6
     DEF UnitsType, Position, DecoderThread, Waits, Unraced, FirstIdr,
         AssertsHold, RacingRefresh, Validated, FirstPacket, Assert
<1>7. CASE CorruptFrame
  BY <1>7 DEF FirstIdr, AssertsHold, RacingRefresh, Validated, CorruptFrame
<1>8. CASE LastPacketWaits
  BY <1>8 DEF FirstIdr, AssertsHold, RacingRefresh, Validated, LastPacketWaits
<1>9. CASE LastPacketGoesOn
  BY <1>9
     DEF Waits, Unraced, FirstIdr, AssertsHold, RacingRefresh, Validated,
         Assert, LastPacketGoesOn
<1>10. CASE DropPendingState
  BY <1>10
     DEF FirstIdr, AssertsHold, RacingRefresh, Validated, DropPendingState
<1>11. CASE KeepState
  BY <1>11 DEF FirstIdr, AssertsHold, RacingRefresh, KeepState
<1>12. CASE QueueUnit
  BY <1>12
     DEF Unraced, FirstIdr, AssertsHold, RacingRefresh, Validated,
         QueueUnit, FrameComplete
<1>13. CASE QueueOverflow
  BY <1>13
     DEF Unraced, FirstIdr, AssertsHold, RacingRefresh, Validated,
         QueueOverflow, dropFrameState
<1>14. CASE FlushOverflow
  BY <1>14 DEF FirstIdr, AssertsHold, RacingRefresh, FlushOverflow
<1>15. CASE TakeUnit
  <2>1. Validated(Head(decodeUnitQueue)) \/ RacingRefresh
    BY <1>15, HeadIsFirst, Zenon
       DEF Validated, TakeUnit, TypeOK, Position, DecoderThread, Waits,
           Unraced, FirstIdr, AssertsHold, Next
  <2> QED
    BY <1>1, <1>2, <1>3, <1>4, <1>5, <1>6, <1>7, <1>8, <1>9, <1>10, <1>11,
       <1>12, <1>13, <1>14, <1>15, <2>1, HeadIsFirst, AppendFirst,
       WaitIsServed, Zenon
       DEF AssertsHold, TakeUnit, Assert, FlagsType, TypeOK, NumbersType,
           UnitsType, Position, DecoderThread, Waits, Unraced, FirstIdr,
           Next, IInv, Decodable, Chain, AllServed, Served, Asked, GapAhead,
           IdrIn, RfiIsPossible, RacingRefresh, Newest, Validated, FaultOf,
           dropFrameState, notifyFrameLost, FrameOver, FrameComplete,
           TypeSeen, Types, Units, KindsOfStream, vars, Receive, Decode,
           Init, Spec, IdrIsRequested, DecoderInputDecodable
<1>16. CASE LiPeekNextVideoFrame
  <2>1. Validated(Head(decodeUnitQueue)) \/ RacingRefresh
    BY <1>16, HeadIsFirst, Zenon
       DEF Validated, LiPeekNextVideoFrame, TypeOK, Position, DecoderThread,
           Waits, Unraced, FirstIdr, AssertsHold, Next
  <2> QED
    BY <1>1, <1>2, <1>3, <1>4, <1>5, <1>6, <1>7, <1>8, <1>9, <1>10, <1>11,
       <1>12, <1>13, <1>14, <1>15, <1>16, <2>1, HeadIsFirst, AppendFirst,
       WaitIsServed, Zenon
       DEF AssertsHold, LiPeekNextVideoFrame, Assert, FlagsType, TypeOK,
           NumbersType, UnitsType, Position, DecoderThread, Waits, Unraced,
           FirstIdr, Next, IInv, Decodable, Chain, AllServed, Served, Asked,
           GapAhead, IdrIn, RfiIsPossible, RacingRefresh, Newest, Validated,
           FaultOf, dropFrameState, notifyFrameLost, FrameOver,
           FrameComplete, TypeSeen, Types, Units, KindsOfStream, vars,
           Receive, Decode, Init, Spec, IdrIsRequested,
           DecoderInputDecodable
<1>17. CASE CompleteOk
  BY <1>17 DEF FirstIdr, AssertsHold, RacingRefresh, CompleteOk
<1>18. CASE CompleteNeedIdr
  BY <1>18 DEF FirstIdr, AssertsHold, RacingRefresh, CompleteNeedIdr
<1>19. CASE RefreshFlush
  BY <1>19 DEF FirstIdr, AssertsHold, RacingRefresh, RefreshFlush
<1>20. CASE RefreshDrop
  BY <1>20 DEF FirstIdr, AssertsHold, RacingRefresh, RefreshDrop
<1>21. CASE RefreshRequest
  BY <1>21 DEF FirstIdr, AssertsHold, RacingRefresh, RefreshRequest
<1>22. CASE \E s \in {"DR_OK", "DR_NEED_IDR"} : SubmitDirectly(s)
  <2>1. PICK s \in {"DR_OK", "DR_NEED_IDR"} : SubmitDirectly(s)
    BY <1>22
  <2>2. ~RacingRefresh /\ decoder = "idle" /\ decodeUnitQueue = <<>>
    BY <2>1 DEF DecoderThread, RacingRefresh, SubmitDirectly
  <2>3. Validated(arriving)
    BY <1>22, <2>1, <2>2
       DEF Unraced, FirstIdr, Validated, SubmitDirectly, FrameComplete,
           Assert, FlagsType, TypeOK, NumbersType, UnitsType, AssertsHold,
           Position, DecoderThread, Waits, Next, IInv, Decodable, Chain,
           AllServed, Served, Asked, GapAhead, IdrIn, RfiIsPossible,
           RacingRefresh, Newest, FaultOf, dropFrameState, notifyFrameLost,
           FrameOver, TypeSeen, Types, Units, KindsOfStream, vars, Receive,
           Decode, Init, Spec, IdrIsRequested, DecoderInputDecodable
  <2> QED
    BY <2>1, <2>2, <2>3 DEF AssertsHold, Assert, SubmitDirectly, FrameComplete
<1>23. CASE UNCHANGED vars
  BY <1>23 DEF FirstIdr, AssertsHold, RacingRefresh, vars
<1> QED
  BY <1>1, <1>2, <1>3, <1>4, <1>5, <1>6, <1>7, <1>8, <1>9, <1>10, <1>11, <1>12,
     <1>13, <1>14, <1>15, <1>16, <1>17, <1>18, <1>19, <1>20, <1>21, <1>22,
     <1>23, Zenon
     DEF Next, Receive, Decode

(* The chain of what is decoded stays whole.                               *)
LEMMA NextDecodable ==
  ASSUME TypeOK, Position, DecoderThread, Waits, Unraced, Decodable, [Next]_vars
  PROVE  Decodable'
<1>1. CASE \E type \in Types : HostSends(type)
  <2>1. PICK type \in Types : HostSends(type)
    BY <1>1
  <2>2. /\ arriving' \in Units /\ arriving' # None
        /\ arriving'.n = sent + 1 /\ arriving'.type = type
    BY <2>1, SentUnit, Zenon
  <2> QED
    BY <2>1
       DEF Unraced, Decodable, Chain, IdrIn, RacingRefresh, Newest, FaultOf,
           HostSends
<1>2. CASE NetworkLoses
  BY <1>2
     DEF Unraced, Decodable, Chain, IdrIn, RacingRefresh, Newest,
         NetworkLoses
<1>3. CASE ReportLoss
  <2>1. PICK f \in 1..sent :
          /\ f = sent => arriving = None \/ kind.speculative
          /\ f > done /\ f > lost
          /\ notifyFrameLost(f)
    BY <1>3, Zenon DEF ReportLoss
  <2> QED
    BY <2>1
       DEF Unraced, Decodable, Chain, IdrIn, RacingRefresh, Newest, FaultOf,
           notifyFrameLost, dropFrameState
<1>4. CASE OldFrame
  BY <1>4 DEF Unraced, Decodable, Chain, IdrIn, RacingRefresh, Newest, OldFrame
<1>5. CASE FrameGap
  BY <1>5
     DEF Unraced, Decodable, Chain, IdrIn, RacingRefresh, Newest, FaultOf,
         FrameGap, dropFrameState
<1>6. CASE FirstPacket
  BY <1>6
     DEF Unraced, Decodable, Chain, IdrIn, RacingRefresh, Newest, FaultOf,
         FirstPacket, TypeSeen
<1>7. CASE CorruptFrame
  BY <1>7
     DEF Unraced, Decodable, Chain, IdrIn, RacingRefresh, Newest, FaultOf,
         CorruptFrame, dropFrameState
<1>8. CASE LastPacketWaits
  BY <1>8
     DEF Unraced, Decodable, Chain, IdrIn, RacingRefresh, Newest, FaultOf,
         LastPacketWaits, dropFrameState
<1>9. CASE LastPacketGoesOn
  BY <1>9
     DEF Unraced, Decodable, Chain, IdrIn, RacingRefresh, Newest, FaultOf,
         LastPacketGoesOn, Assert
<1>10. CASE DropPendingState
  BY <1>10
     DEF Unraced, Decodable, Chain, IdrIn, RacingRefresh, Newest, FaultOf,
         DropPendingState
<1>11. CASE KeepState
  BY <1>11
     DEF Unraced, Decodable, Chain, IdrIn, RacingRefresh, Newest, KeepState
<1>12. CASE QueueUnit
  <2> DEFINE q == decodeUnitQueue
             k == Len(decodeUnitQueue)
  <2>1. /\ arriving \in Units /\ q \in Seq(Units) /\ k \in Nat
        /\ q' = Append(q, arriving)
        /\ receiver = "reassemble" /\ receiver' = "idle"
        /\ nextFrameNumber = arriving.n + 1
        /\ UNCHANGED <<waitingForIdrFrame, waitingForRefInvalFrame, kind,
                       lastDecoded, fault, needsIdr, nextFrameNumber>>
    BY <1>12
       DEF TypeOK, UnitsType, QueueUnit, FrameComplete, vars, Position,
           DecoderThread, Waits, Unraced, Decodable, Next
  <2>2. /\ k' = k + 1 /\ q' # <<>> /\ q'[k + 1] = arriving
        /\ \A i \in 1..k : q'[i] = q[i]
    BY <2>1, AppendProperties
  <2>3. q'[1] = IF q = <<>> THEN arriving ELSE q[1]
    BY <2>1, AppendFirst, Zenon
  <2>4. q # <<>> => k >= 1
    BY <2>1, EmptySeq
  <2>5. CASE ~RacingRefresh /\ ~kind.lateCorruption
    <3>1. Chain /\ ~waitingForIdrFrame /\ ~waitingForRefInvalFrame
      BY <2>1, <2>5 DEF Decodable, Unraced
    <3>2. Newest' = arriving.n
      BY <2>2 DEF Newest
    <3>3. arriving.type = "P" => Newest + 1 = arriving.n
      BY <2>1, <3>1 DEF Chain
    <3>4. needsIdr => q'[1].type = "IDR"
      BY <1>12, <2>1, <2>2, <2>3, <2>4, <2>5, <3>1, <3>2, <3>3, DropCount,
         HeadIsFirst, AppendFirst, WaitIsServed
         DEF IdrIn, QueueUnit, FrameComplete, FlagsType, TypeOK,
             NumbersType, UnitsType, Decodable, Position, DecoderThread,
             Waits, Unraced, Next, IInv, FirstIdr, Chain, AllServed, Served,
             AssertsHold, Asked, GapAhead, RfiIsPossible, RacingRefresh,
             Newest, Validated, FaultOf, Assert, dropFrameState,
             notifyFrameLost, FrameOver, TypeSeen, Types, Units,
             KindsOfStream, vars, Receive, Decode, Init, Spec,
             IdrIsRequested, DecoderInputDecodable
    <3>5. q'[1].type = "P" => q'[1].n = lastDecoded + 1
      BY <1>12, <2>1, <2>2, <2>3, <2>4, <2>5, <3>1, <3>2, <3>3, <3>4
         DEF Chain, Newest, QueueUnit, FrameComplete, Decodable
    <3>6. ASSUME NEW i \in 1..k', i > 1, q'[i].type = "P"
          PROVE  q'[i].n = q'[i - 1].n + 1
      <4>1. CASE i <= k
        <5>1. i - 1 \in 1..k /\ i \in 1..k
          BY <3>6, <4>1
        <5>2. q[i].type = "P" => q[i].n = q[i - 1].n + 1
          BY <3>1, <5>1 DEF Chain
        <5> QED
          BY <2>2, <3>6, <5>1, <5>2
      <4>2. CASE i = k + 1
        <5>1. q # <<>> /\ k \in 1..k /\ i - 1 = k
          BY <3>6, <4>2
        <5>2. q'[i] = arriving /\ q'[i - 1] = q[k]
          BY <2>2, <4>2, <5>1
        <5> QED
          BY <3>3, <3>6, <4>1, <4>2, <5>1, <5>2 DEF Newest
      <4>3. k \in Nat /\ i \in 1..(k + 1)
        BY <2>1, <2>2
      <4> QED
        BY <4>1, <4>2, <4>3
    <3> HIDE DEF q, k
    <3> QED
      BY <2>1, <2>2, <2>4, <2>5, <3>1, <3>2, <3>3, <3>4, <3>5, <3>6
         DEF Decodable, Chain, q, k
  <2> QED
    BY <2>1, <2>5 DEF Decodable, RacingRefresh
<1>13. CASE QueueOverflow
  BY <1>13
     DEF Unraced, Decodable, Chain, IdrIn, RacingRefresh, Newest, FaultOf,
         dropFrameState, QueueOverflow
<1>14. CASE FlushOverflow
  <2>1. /\ receiver = "overflow" /\ receiver' = "idle"
        /\ decodeUnitQueue' = <<>> /\ Len(decodeUnitQueue') = 0
        /\ UNCHANGED <<waitingForIdrFrame, waitingForRefInvalFrame, kind,
                       lastDecoded, fault>>
    BY <1>14, EmptySeq DEF FlushOverflow
  <2>2. RacingRefresh \/ waitingForIdrFrame'
    BY <2>1 DEF Unraced
  <2> QED
    BY <2>1, <2>2 DEF RacingRefresh, Chain, FlushOverflow, Decodable
<1>15. CASE TakeUnit
  <2> DEFINE q == decodeUnitQueue
             k == Len(decodeUnitQueue)
             u == decodeUnitQueue[1]
  <2>1. /\ q \in Seq(Units) /\ q # <<>> /\ Head(q) = u /\ u \in Units
    BY <1>15
       DEF UnitsType, TakeUnit, TypeOK, Position, DecoderThread, Waits,
           Unraced, Decodable, Next
  <2>2. /\ q' = Tail(q) /\ lastDecoded' = u.n /\ fault' = FaultOf(u)
        /\ needsIdr' = (needsIdr /\ u.type # "IDR")
        /\ UNCHANGED <<waitingForIdrFrame, waitingForRefInvalFrame, kind,
                       nextFrameNumber, arriving, receiver>>
    BY <1>15, <2>1 DEF TakeUnit
  <2>3. /\ k \in Nat /\ k >= 1 /\ q' \in Seq(Units) /\ k' = k - 1
        /\ \A i \in 1..k' : q'[i] = q[i + 1]
    BY <1>15, <2>1, <2>2
  <2>4. q' # <<>> => k > 1
    BY <2>3, EmptySeq
  <2>5. q' = <<>> => k = 1
    BY <2>3, EmptySeq
  <2>6. CASE Chain
    <3>1. fault' = "none" /\ needsIdr' = FALSE
      BY <2>1, <2>2, <2>6 DEF FaultOf, Chain, Types
    <3>2. Newest' = Newest
      <4>1. CASE q' = <<>>
        BY <2>2, <2>5, <4>1 DEF Newest
      <4>2. CASE q' # <<>>
        BY <2>3, <2>4, <4>2 DEF Newest
      <4> QED
        BY <4>1, <4>2
    <3>3. ASSUME NEW i \in 1..k', q'[i].type = "P"
          PROVE  q'[i].n = q[i].n + 1
      <4>1. i + 1 \in 1..k /\ i + 1 > 1 /\ (i + 1) - 1 = i
        BY <2>3
      <4> QED
        BY <2>3, <2>6, <3>3, <4>1 DEF Chain
    <3>4. ASSUME NEW i \in 1..k', i > 1, q'[i].type = "P"
          PROVE  q'[i].n = q'[i - 1].n + 1
      <4>1. i - 1 \in 1..k' /\ (i - 1) + 1 = i
        BY <2>3, <3>4
      <4>2. q'[i - 1] = q[i]
        BY <2>3, <4>1
      <4> QED
        BY <3>3, <3>4, <4>2
    <3>5. q' # <<>> /\ q'[1].type = "P" => q'[1].n = lastDecoded' + 1
      <4>1. q' # <<>> => 1 \in 1..k'
        BY <2>3, <2>4
      <4> QED
        BY <2>2, <3>3, <4>1
    <3>6. Chain'
      <4>1. \A i \in 1..k' : i > 1 =>
              (q'[i].type = "P" => q'[i].n = q'[i - 1].n + 1)
        BY <3>4
      <4>2. /\ needsIdr' /\ q' # <<>> => q'[1].type = "IDR"
            /\ needsIdr' /\ ~waitingForIdrFrame' =>
                 q' # <<>> \/ IdrIn({"frame", "checked", "reassemble"})'
        BY <3>1
      <4>3. (~waitingForIdrFrame /\ ~waitingForRefInvalFrame)' =>
              /\ receiver' \in {"idle", "header"} =>
                   Newest' + 1 = nextFrameNumber'
              /\ receiver' \in {"frame", "checked", "reassemble"}
                 /\ arriving'.type = "P" => Newest' + 1 = arriving'.n
        BY <2>2, <2>6, <3>2 DEF Chain
      <4> QED
        BY <3>1, <3>5, <4>1, <4>2, <4>3 DEF Chain
    <3> QED
      BY <3>6 DEF Decodable
  <2> QED
    BY <2>2, <2>6 DEF Decodable, RacingRefresh
<1>16. CASE LiPeekNextVideoFrame
  BY <1>16
     DEF Unraced, Decodable, Chain, IdrIn, RacingRefresh, Newest, FaultOf,
         LiPeekNextVideoFrame
<1>17. CASE CompleteOk
  BY <1>17
     DEF Unraced, Decodable, Chain, IdrIn, RacingRefresh, Newest, CompleteOk
<1>18. CASE CompleteNeedIdr
  BY <1>18
     DEF DecoderThread, Waits, Unraced, Decodable, Chain, IdrIn,
         RacingRefresh, Newest, CompleteNeedIdr
<1>19. CASE RefreshFlush
  BY <1>19
     DEF DecoderThread, Waits, Unraced, Decodable, Chain, IdrIn,
         RacingRefresh, Newest, RefreshFlush
<1>20. CASE RefreshDrop
  BY <1>20
     DEF Unraced, Decodable, Chain, IdrIn, RacingRefresh, Newest,
         RefreshDrop
<1>21. CASE RefreshRequest
  BY <1>21
     DEF Unraced, Decodable, Chain, IdrIn, RacingRefresh, Newest,
         RefreshRequest
<1>22. CASE \E s \in {"DR_OK", "DR_NEED_IDR"} : SubmitDirectly(s)
  <2>1. PICK s \in {"DR_OK", "DR_NEED_IDR"} : SubmitDirectly(s)
    BY <1>22
  <2> QED
    BY <2>1
       DEF Position, DecoderThread, Waits, Unraced, Decodable, Chain, IdrIn,
           RacingRefresh, Newest, FaultOf, SubmitDirectly, FrameComplete,
           Assert
<1>23. CASE UNCHANGED vars
  BY <1>23 DEF Unraced, Decodable, Chain, IdrIn, RacingRefresh, Newest, vars
<1> QED
  BY <1>1, <1>2, <1>3, <1>4, <1>5, <1>6, <1>7, <1>8, <1>9, <1>10, <1>11, <1>12,
     <1>13, <1>14, <1>15, <1>16, <1>17, <1>18, <1>19, <1>20, <1>21, <1>22,
     <1>23, Zenon
     DEF Next, Receive, Decode

(***************************************************************************)
(* The theorems                                                            *)
(***************************************************************************)

LEMMA InitIInv == Init => IInv
<1> SUFFICES ASSUME Init PROVE IInv
  OBVIOUS
<1>1. TypeOK
  <2>1. FlagsType
    BY DepacketizerAssumption DEF Init, FlagsType
  <2>2. NumbersType
    BY DepacketizerAssumption DEF Init, NumbersType
  <2>3. UnitsType
    BY DepacketizerAssumption DEF Init, UnitsType
  <2> QED
    BY <2>1, <2>2, <2>3 DEF TypeOK
<1>2. Position /\ DecoderThread /\ Waits /\ Unraced /\ FirstIdr
  BY DEF Init, Position, Waits, Unraced, FirstIdr, IdrIn, IInv, DecoderThread
<1>3. Decodable
  BY DEF Init, Decodable, Chain
<1>4. AllServed /\ AssertsHold
  BY DEF AllServed, Served, GapAhead, AssertsHold, IInv, Init
<1> QED
  BY <1>1, <1>2, <1>3, <1>4 DEF IInv

LEMMA NextIInv == IInv /\ [Next]_vars => IInv'
<1> SUFFICES ASSUME IInv, [Next]_vars PROVE IInv'
  OBVIOUS
<1>1. /\ TypeOK /\ Position /\ DecoderThread /\ Waits /\ Unraced /\ FirstIdr
      /\ Decodable /\ AllServed /\ AssertsHold
  BY DEF IInv
<1>2. TypeOK'
  BY <1>1, NextFlags, NextNumbers, NextUnits
     DEF FlagsType, TypeOK, NumbersType, UnitsType
<1>3. Position' /\ DecoderThread' /\ Waits' /\ Unraced' /\ FirstIdr'
  BY <1>1, NextPosition, NextDecoderThread, NextWaits, NextUnraced,
     NextFirstIdr, Zenon
<1>4. Decodable' /\ AllServed' /\ AssertsHold'
  BY <1>1, NextDecodable, NextAllServed, NextAsserts, Zenon
<1> QED
  BY <1>2, <1>3, <1>4 DEF IInv

(* The depacketizer never leaves the inductive invariant: frame numbers,   *)
(* the waits of processRtpPayload and the requests to the host stay in     *)
(* step, whatever the order of the two threads.                            *)
THEOREM InductiveInvariant == Spec => []IInv
  BY InitIInv, NextIInv, PTL DEF Spec

(* Every variable of the depacketizer keeps its type, decodeUnitQueue its  *)
(* bound and the frame numbers their range, whatever the threads do.       *)
THEOREM TypeCorrect == Spec => []TypeOK
<1>1. IInv => TypeOK
  BY DEF IInv
<1> QED
  BY <1>1, InductiveInvariant, PTL

(* The decoder only ever gets what it can decode: reassembleFrame queues   *)
(* a P frame only after its predecessor, and nothing but an IDR frame      *)
(* after a flush (VideoDepacketizer.c), unless a refresh races or a frame  *)
(* proves corrupt after its first packet.                                  *)
THEOREM DecoderInputIsDecodable == Spec => []DecoderInputDecodable
<1>1. IInv => DecoderInputDecodable
  BY DEF IInv, Decodable, Chain, DecoderInputDecodable
<1> QED
  BY <1>1, InductiveInvariant, PTL

(* No LC_ASSERT of VideoDepacketizer.c fails, unless a refresh races.      *)
THEOREM AssertionsHold == Spec => []AssertsHold
<1>1. IInv => AssertsHold
  BY DEF IInv
<1> QED
  BY <1>1, InductiveInvariant, PTL

(* Both together: what the receive thread and the decoder thread share     *)
(* stays within its types and bounds and as the LC_ASSERTs expect it.      *)
THEOREM StateStaysIntact == Spec => []StateIntact
<1>1. TypeOK /\ AssertsHold => StateIntact
  BY DEF StateIntact
<1> QED
  BY <1>1, TypeCorrect, AssertionsHold, PTL

(* processRtpPayload drops a complete frame for want of an IDR frame only  *)
(* while one is on order or the decoder thread is about to order it,       *)
(* unless a loss was predicted wrongly.                                    *)
THEOREM IdrOnOrder == Spec => IdrIsRequested
<1> DEFINE A == receiver = "frame" /\ receiver' = "idle" /\ waitingForIdrFrame'
                => \/ idrRequested' \/ decoder \in {"flush", "drop", "request"}
                   \/ kind.speculative
<1>1. ASSUME IInv, [Next]_vars PROVE A
  <2> SUFFICES ASSUME receiver = "frame", receiver' = "idle",
                      waitingForIdrFrame', ~kind.speculative
               PROVE  idrRequested' \/ decoder \in {"flush", "drop", "request"}
    OBVIOUS
  <2>1. CorruptFrame \/ LastPacketWaits
    BY <1>1
       DEF Next, Receive, Decode, vars, HostSends, NetworkLoses, ReportLoss,
           notifyFrameLost, OldFrame, FrameGap, FirstPacket, LastPacketGoesOn,
           DropPendingState, KeepState, QueueUnit, QueueOverflow,
           FlushOverflow, SubmitDirectly, TakeUnit, LiPeekNextVideoFrame,
           CompleteOk, CompleteNeedIdr, RefreshFlush, RefreshDrop,
           RefreshRequest
  <2>2. CASE CorruptFrame
    <3>1. dropFrameState(waitingForIdrFrame, "any")
          /\ waitingForIdrFrame \in BOOLEAN /\ TypeOK
      BY <1>1, <2>2
         DEF IInv, FlagsType, CorruptFrame, FrameOver, dropFrameState,
             TypeOK, NumbersType, UnitsType
    <3> QED
      BY <3>1, DropFacts, Zenon
  <2>3. CASE LastPacketWaits
    <3>1. Asked' /\ UNCHANGED decoder
      BY <1>1, <2>1, <2>3
         DEF LastPacketWaits, vars, FlagsType, TypeOK, NumbersType,
             UnitsType, Asked, Spec, IdrIsRequested, IInv, Position,
             DecoderThread, Waits, Unraced, FirstIdr, Decodable, Chain,
             AllServed, Served, AssertsHold, GapAhead, IdrIn, RfiIsPossible,
             RacingRefresh, Newest, Validated, FaultOf, Assert,
             dropFrameState, notifyFrameLost, FrameOver, FrameComplete,
             TypeSeen, Types, Units, KindsOfStream, Next, Receive, Decode,
             Init, DecoderInputDecodable
    <3> QED
      BY <3>1 DEF Asked
  <2> QED
    BY <2>1, <2>2, <2>3
<1>2. IInv /\ [Next]_vars => A
  BY <1>1
<1> QED
  BY <1>2, InductiveInvariant, PTL DEF IdrIsRequested, Spec
=============================================================================
