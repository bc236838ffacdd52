-------------------------- MODULE VideoDepacketizer --------------------------
(***************************************************************************)
(* The depacketizer (VideoDepacketizer.c): the receive thread turns the    *)
(* frames that RtpVideoQueue submits into decode units, the decoder thread *)
(* takes them from decodeUnitQueue, and both ask the host for an IDR frame *)
(* or for reference frame invalidation (RFI) when the decoder lacks a      *)
(* reference.  The two threads share waitingForIdrFrame, dropStatePending  *)
(* and idrFrameProcessed without a lock, so every access of one of them    *)
(* that the other thread can tell apart is a step of its own.              *)
(*                                                                         *)
(* A frame is a number and a type: "IDR", "P", or "RFI" for a P frame that *)
(* the host encodes without the invalidated references.  Its payload is    *)
(* left out; the code sees the type in the frame header or in the first    *)
(* NAL units, with the first packet.  Host and network are external: the   *)
(* host sends numbered frames and answers requests when it likes, and of   *)
(* RtpVideoQueue only what it promises is used - whole frames in order,    *)
(* loss reports for frames it did not submit, and speculative reports for  *)
(* the frame it is receiving.  Hosts before version 7.1.350 (lines 888 to  *)
(* 895), failing allocations and the shutdown of decodeUnitQueue are left  *)
(* out; connectionReceivedCompleteFrame belongs to the control stream.     *)
(*                                                                         *)
(* An operator M_X is X with a plausible defect, which shows that the      *)
(* properties notice it.  The specification does not use it.               *)
(***************************************************************************)
EXTENDS Naturals, Sequences

CONSTANTS
  MaxFrames,      \* bound on the frames the host sends
  QueueBound,     \* size of decodeUnitQueue, 15 in the code
  DropLimit,      \* CONSECUTIVE_DROP_LIMIT, 120 in the code
  Kinds,          \* what to check, a subset of KindsOfStream
  None

(* What a decoder is: it cannot do without IDR frames                      *)
(* (strictIdrFrameWait), it decodes in the receive thread                  *)
(* (CAPABILITY_DIRECT_SUBMIT), it may answer DR_NEED_IDR, it calls         *)
(* LiPeekNextVideoFrame.  What its stream is: RtpVideoQueue predicts       *)
(* losses, and corruption is noticed with the first packet of a frame or   *)
(* with a later one too (see CorruptFrame).                                *)
KindsOfStream ==
  [strictIdrFrameWait : BOOLEAN, directSubmit : BOOLEAN, needIdr : BOOLEAN,
   peeks : BOOLEAN, speculative : BOOLEAN, lateCorruption : BOOLEAN]

Types == {"IDR", "P", "RFI"}
Units == [n : 1..MaxFrames, type : Types]

ASSUME DepacketizerAssumption ==
  /\ {MaxFrames, QueueBound, DropLimit} \subseteq Nat \ {0}
  /\ Kinds \subseteq KindsOfStream
  /\ None \notin Units

VARIABLES
  \* the statics of VideoDepacketizer.c
  nextFrameNumber, startFrameNumber, waitingForNextSuccessfulFrame,
  waitingForIdrFrame, waitingForRefInvalFrame, decodingFrame,
  dropStatePending, idrFrameProcessed, consecutiveFrameDrops,
  kind,                \* decoder and stream, strictIdrFrameWait included
  decodeUnitQueue,     \* the queued decode units, oldest first
  \* the threads
  receiver,            \* where the receive thread is in processRtpPayload
  decoder,             \* where the decoder thread is
  unit,                \* the decode unit the decoder thread works on
  \* host and network
  sent,                \* number of the last frame the host sent
  arriving,            \* the frame RtpVideoQueue is receiving
  done,                \* number of the last frame it submitted
  lost,                \* the highest frame it reported lost
  idrRequested,        \* LiRequestIdrFrame since the host's last IDR frame
  rfiRequested,        \* a loss was reported to the host, unanswered
  \* history
  lastDecoded,         \* number of the last unit the decoder got
  needsIdr,            \* whether it can decode nothing but an IDR frame
  fault,               \* the first fault in what it got
  asserts              \* whether every LC_ASSERT so far held

waits   == <<waitingForNextSuccessfulFrame, waitingForIdrFrame,
             waitingForRefInvalFrame>>
frames  == <<nextFrameNumber, startFrameNumber, decodingFrame>>
drops   == <<dropStatePending, consecutiveFrameDrops>>
network == <<sent, arriving, done, lost>>
host    == <<idrRequested, rfiRequested>>
history == <<lastDecoded, needsIdr, fault>>
app     == <<decoder, unit>>
vars    == <<waits, frames, drops, idrFrameProcessed, kind,
             decodeUnitQueue, receiver, app, network, host, history, asserts>>

(* initializeVideoDepacketizer.  consecutiveFrameDrops is not reset there: *)
(* it has what the previous connection left, of which the worst is tried.  *)
Init ==
  /\ nextFrameNumber = 1 /\ startFrameNumber = 0
  /\ waitingForNextSuccessfulFrame = FALSE
  /\ waitingForIdrFrame = TRUE /\ waitingForRefInvalFrame = FALSE
  /\ decodingFrame = FALSE
  /\ dropStatePending = FALSE /\ idrFrameProcessed = FALSE
  /\ consecutiveFrameDrops \in {0, DropLimit - 1}
  /\ kind \in Kinds
  /\ decodeUnitQueue = <<>>
  /\ receiver = "idle" /\ decoder = "idle" /\ unit = None
  /\ sent = 0 /\ arriving = None /\ done = 0 /\ lost = 0
  /\ idrRequested = FALSE /\ rfiRequested = FALSE
  /\ lastDecoded = 0 /\ needsIdr = TRUE /\ fault = "none" /\ asserts = TRUE

-----------------------------------------------------------------------------
(* Shared parts                                                            *)

(* dropFrameState, and what its caller asks the host for afterwards:       *)
(* nothing, "rfi" if waitingForIdrFrame is not set by then, "any" for an   *)
(* IDR frame or RFI as waitingForIdrFrame says, or "idr".  wantIdr is      *)
(* waitingForIdrFrame as the caller left it.                               *)
dropFrameState(wantIdr, ask) ==
  LET idr == kind.strictIdrFrameWait \/ ~idrFrameProcessed \/ wantIdr
      hit == consecutiveFrameDrops + 1 = DropLimit
  IN  /\ dropStatePending' = FALSE
      /\ waitingForIdrFrame' = (idr \/ hit)
      /\ waitingForRefInvalFrame' = (waitingForRefInvalFrame \/ ~idr)
      /\ consecutiveFrameDrops' = IF hit THEN 0 ELSE consecutiveFrameDrops + 1
      /\ idrRequested' = (idrRequested \/ hit \/ ask = "idr"
                          \/ (ask = "any" /\ idr))
      /\ rfiRequested' = (rfiRequested
                          \/ (ask \in {"rfi", "any"} /\ ~idr /\ ~hit))

Assert(c) == asserts' = (asserts /\ c)

(* The first thing wrong with giving unit u to the decoder                *)
FaultOf(u) ==
  IF fault # "none" \/ u.type = "IDR" THEN fault
  ELSE IF needsIdr THEN "no IDR frame"
  ELSE IF u.type = "P" /\ u.n # lastDecoded + 1 THEN "gap"
  ELSE "none"

(* validateDecodeUnitForPlayback                                           *)
Validated(u) == u.type # "IDR" => idrFrameProcessed

-----------------------------------------------------------------------------
(* Host and network (external)                                             *)
HostSends(type) ==
  /\ arriving = None /\ receiver = "idle"
  /\ sent < MaxFrames
  /\ sent = 0 => type = "IDR"
  /\ type = "RFI" => rfiRequested
  /\ sent' = sent + 1
  /\ arriving' = [n |-> sent + 1, type |-> type]
  /\ idrRequested' = (idrRequested /\ type # "IDR")
  /\ rfiRequested' = (rfiRequested /\ type = "P")
  /\ UNCHANGED <<done, lost, waits, frames, drops, idrFrameProcessed,
                 kind, decodeUnitQueue, receiver, app, history,
                 asserts>>

NetworkLoses ==
  /\ arriving # None /\ receiver = "idle"
  /\ arriving' = None
  /\ UNCHANGED <<sent, done, lost, waits, frames, drops, idrFrameProcessed,
                 kind, decodeUnitQueue, receiver, app, host,
                 history, asserts>>

-----------------------------------------------------------------------------
(* The receive thread                                                      *)

(* notifyFrameLost                                                         *)
notifyFrameLost(f) ==
  /\ receiver = "idle"
  /\ dropFrameState(waitingForIdrFrame, "rfi")
  /\ nextFrameNumber' = IF waitingForIdrFrame' THEN nextFrameNumber ELSE f + 1
  /\ Assert(/\ ~decodingFrame /\ f >= startFrameNumber
            /\ ~waitingForIdrFrame' => waitingForRefInvalFrame')
  /\ lost' = f
  /\ UNCHANGED <<startFrameNumber, decodingFrame,
                 waitingForNextSuccessfulFrame, idrFrameProcessed,
                 kind, decodeUnitQueue, receiver, app, sent,
                 arriving, done, history>>

(* RtpVideoQueue reports a frame that it gave up, before it goes on with   *)
(* the next one, or one that it expects to lose while it receives it.      *)
ReportLoss ==
  \E f \in 1..sent :
    /\ f = sent => arriving = None \/ kind.speculative
    /\ f > done /\ f > lost
    /\ notifyFrameLost(f)

(* processRtpPayload from its first packet on to the last: frames behind   *)
(* are dropped, gaps are noticed, the type of the frame is learnt.         *)
OldFrame ==
  /\ receiver = "idle" /\ arriving # None
  /\ arriving.n < nextFrameNumber
  /\ arriving' = None
  /\ done' = arriving.n
  /\ UNCHANGED <<waits, frames, drops, idrFrameProcessed, kind,
                 decodeUnitQueue, receiver, app, sent, lost, host, history,
                 asserts>>

(* The frame header and the NAL units end a wait.                          *)
TypeSeen(type) ==
  /\ waitingForIdrFrame' = (waitingForIdrFrame /\ type # "IDR")
  /\ waitingForRefInvalFrame' = (waitingForRefInvalFrame /\ type = "P")
  /\ waitingForNextSuccessfulFrame' =
       (waitingForNextSuccessfulFrame
        /\ (type = "P" \/ (type = "RFI" /\ ~waitingForRefInvalFrame)))

M_FrameGap ==
  /\ receiver = "idle" /\ arriving # None
  /\ nextFrameNumber < arriving.n
  /\ nextFrameNumber' = arriving.n
  /\ waitingForNextSuccessfulFrame' = waitingForNextSuccessfulFrame
  /\ dropFrameState(waitingForIdrFrame, "none")
  /\ Assert(~decodingFrame)
  /\ receiver' = "header"
  /\ UNCHANGED <<startFrameNumber, decodingFrame, idrFrameProcessed,
                 kind, decodeUnitQueue, app, network, history>>

M_KeepOnGap ==
  /\ receiver = "idle" /\ arriving # None
  /\ nextFrameNumber < arriving.n
  /\ nextFrameNumber' = arriving.n
  /\ waitingForNextSuccessfulFrame' = TRUE
  /\ Assert(~decodingFrame)
  /\ receiver' = "header"
  /\ UNCHANGED <<startFrameNumber, decodingFrame, idrFrameProcessed, drops,
                 waitingForIdrFrame, waitingForRefInvalFrame, host,
                 kind, decodeUnitQueue, app, network, history>>

(* A gap before the frame: drop the state, then go on with the header.     *)
FrameGap ==
  /\ receiver = "idle" /\ arriving # None
  /\ nextFrameNumber < arriving.n
  /\ nextFrameNumber' = arriving.n
  /\ waitingForNextSuccessfulFrame' = TRUE
  /\ dropFrameState(waitingForIdrFrame, "none")
  /\ Assert(~decodingFrame)
  /\ receiver' = "header"
  /\ UNCHANGED <<startFrameNumber, decodingFrame, idrFrameProcessed,
                 kind, decodeUnitQueue, app, network, history>>

FirstPacket ==
  /\ receiver \in {"idle", "header"} /\ arriving # None
  /\ nextFrameNumber = arriving.n
  /\ Assert(~decodingFrame)
  /\ decodingFrame' = TRUE
  /\ TypeSeen(arriving.type)
  /\ receiver' = "frame"
  /\ UNCHANGED <<nextFrameNumber, startFrameNumber, drops, idrFrameProcessed,
                 kind, decodeUnitQueue, app, network, host,
                 history>>

(* The frame ends without having been queued.                              *)
FrameOver ==
  /\ decodingFrame' = FALSE
  /\ nextFrameNumber' = arriving.n + 1
  /\ arriving' = None
  /\ done' = arriving.n
  /\ receiver' = "idle"
  /\ UNCHANGED <<startFrameNumber, sent, lost>>

(* A packet whose index does not fit, the first of the frame (receiver     *)
(* "idle") or a later one ("frame"), or a wrong length of the last packet  *)
CorruptFrame ==
  /\ receiver = "idle" \/ (receiver = "frame" /\ kind.lateCorruption)
  /\ arriving # None
  /\ nextFrameNumber <= arriving.n
  /\ FrameOver
  /\ dropFrameState(waitingForIdrFrame, "any")
  /\ UNCHANGED <<waitingForNextSuccessfulFrame, idrFrameProcessed,
                 kind, decodeUnitQueue, app, history, asserts>>

(* The last packet, while the bitstream has a discontinuity                *)
LastPacketWaits ==
  /\ receiver = "frame"
  /\ waitingForIdrFrame \/ waitingForRefInvalFrame
  /\ FrameOver
  /\ waitingForNextSuccessfulFrame' = FALSE
  /\ dropFrameState(waitingForIdrFrame,
       IF ~waitingForIdrFrame THEN "rfi"
       ELSE IF waitingForNextSuccessfulFrame THEN "idr" ELSE "none")
  /\ UNCHANGED <<idrFrameProcessed, kind, decodeUnitQueue, app,
                 history, asserts>>

LastPacketGoesOn ==
  /\ receiver = "frame"
  /\ ~waitingForIdrFrame /\ ~waitingForRefInvalFrame
  /\ Assert(~waitingForNextSuccessfulFrame)
  /\ decodingFrame' = FALSE
  /\ nextFrameNumber' = arriving.n + 1
  /\ receiver' = "checked"
  /\ UNCHANGED <<startFrameNumber, waits, drops, idrFrameProcessed,
                 kind, decodeUnitQueue, app, network, host,
                 history>>

(* The decoder thread asked for the state to be dropped.                   *)
DropPendingState ==
  /\ receiver = "checked"
  /\ dropStatePending /\ arriving.type # "IDR"
  /\ FrameOver
  /\ dropFrameState(waitingForIdrFrame, "none")
  /\ UNCHANGED <<waitingForNextSuccessfulFrame, idrFrameProcessed,
                 kind, decodeUnitQueue, app, history, asserts>>

KeepState ==
  /\ receiver = "checked"
  /\ dropStatePending => arriving.type = "IDR"
  /\ dropStatePending' = FALSE
  /\ receiver' = "reassemble"
  /\ UNCHANGED <<waits, frames, consecutiveFrameDrops, idrFrameProcessed,
                 kind, decodeUnitQueue, app, network, host,
                 history, asserts>>

(* reassembleFrame: the frame was queued or submitted.                     *)
FrameComplete ==
  /\ consecutiveFrameDrops' = 0
  /\ startFrameNumber' = nextFrameNumber
  /\ arriving' = None
  /\ done' = arriving.n
  /\ receiver' = "idle"
  /\ UNCHANGED <<nextFrameNumber, decodingFrame, sent, lost>>

QueueUnit ==
  /\ receiver = "reassemble" /\ ~kind.directSubmit
  /\ Len(decodeUnitQueue) < QueueBound
  /\ decodeUnitQueue' = Append(decodeUnitQueue, arriving)
  /\ FrameComplete
  /\ UNCHANGED <<waits, dropStatePending, idrFrameProcessed,
                 kind, app, host, history, asserts>>

(* LBQ_BOUND_EXCEEDED: ask for an IDR frame, then flush the queue.         *)
QueueOverflow ==
  /\ receiver = "reassemble" /\ ~kind.directSubmit
  /\ Len(decodeUnitQueue) = QueueBound
  /\ receiver' = "overflow"
  /\ dropFrameState(TRUE, "none")
  /\ UNCHANGED <<waitingForNextSuccessfulFrame, frames, idrFrameProcessed,
                 kind, decodeUnitQueue, app, network, history,
                 asserts>>

FlushOverflow ==
  /\ receiver = "overflow"
  /\ decodeUnitQueue' = <<>>
  /\ needsIdr' = TRUE
  /\ idrRequested' = TRUE
  /\ arriving' = None
  /\ done' = arriving.n
  /\ receiver' = "idle"
  /\ UNCHANGED <<waits, frames, drops, idrFrameProcessed, kind,
                 app, sent, lost, rfiRequested, lastDecoded, fault, asserts>>

M_SubmitDirectly(status) ==
  /\ receiver = "reassemble" /\ kind.directSubmit
  /\ Assert(Validated(arriving))
  /\ lastDecoded' = arriving.n
  /\ needsIdr' = (status = "DR_NEED_IDR" \/ (needsIdr /\ arriving.type # "IDR"))
  /\ fault' = FaultOf(arriving)
  /\ dropStatePending' = (dropStatePending \/ status = "DR_NEED_IDR")
  /\ idrRequested' = (idrRequested \/ status = "DR_NEED_IDR")
  /\ idrFrameProcessed' = (idrFrameProcessed
                           \/ (status = "DR_OK" /\ arriving.type = "IDR"))
  /\ FrameComplete
  /\ UNCHANGED <<waits, kind, decodeUnitQueue, app,
                 rfiRequested>>

(* CAPABILITY_DIRECT_SUBMIT: submitDecodeUnit and LiCompleteVideoFrame in  *)
(* the receive thread                                                      *)
SubmitDirectly(status) ==
  /\ receiver = "reassemble" /\ kind.directSubmit
  /\ Assert(Validated(arriving))
  /\ lastDecoded' = arriving.n
  /\ needsIdr' = (status = "DR_NEED_IDR" \/ (needsIdr /\ arriving.type # "IDR"))
  /\ fault' = FaultOf(arriving)
  /\ waitingForIdrFrame' = (waitingForIdrFrame \/ status = "DR_NEED_IDR")
  /\ dropStatePending' = (dropStatePending \/ status = "DR_NEED_IDR")
  /\ idrRequested' = (idrRequested \/ status = "DR_NEED_IDR")
  /\ idrFrameProcessed' = (idrFrameProcessed
                           \/ (status = "DR_OK" /\ arriving.type = "IDR"))
  /\ FrameComplete
  /\ UNCHANGED <<waitingForNextSuccessfulFrame, waitingForRefInvalFrame,
                 kind, decodeUnitQueue, app, rfiRequested>>

-----------------------------------------------------------------------------
(* The decoder thread                                                      *)
receiveSide == <<frames, receiver, network, kind,
                 waitingForNextSuccessfulFrame, waitingForRefInvalFrame,
                 consecutiveFrameDrops, rfiRequested>>

(* LiWaitForNextVideoFrame, LiPollNextVideoFrame                           *)
TakeUnit ==
  /\ decoder = "idle"
  /\ decodeUnitQueue # <<>>
  /\ LET u == Head(decodeUnitQueue) IN
     /\ unit' = u
     /\ Assert(Validated(u))
     /\ lastDecoded' = u.n
     /\ needsIdr' = (needsIdr /\ u.type # "IDR")
     /\ fault' = FaultOf(u)
  /\ decodeUnitQueue' = Tail(decodeUnitQueue)
  /\ decoder' = "decoding"
  /\ UNCHANGED <<receiveSide, waitingForIdrFrame, dropStatePending,
                 idrFrameProcessed, idrRequested>>

(* The frame that is returned is not looked at: a flush may free it.       *)
LiPeekNextVideoFrame ==
  /\ kind.peeks
  /\ decoder = "idle"
  /\ decodeUnitQueue # <<>>
  /\ Assert(Validated(Head(decodeUnitQueue)))
  /\ UNCHANGED <<receiveSide, waitingForIdrFrame, dropStatePending,
                 idrFrameProcessed, idrRequested, decodeUnitQueue, decoder,
                 unit, history>>

(* LiCompleteVideoFrame with DR_OK                                         *)
CompleteOk ==
  /\ decoder = "decoding"
  /\ idrFrameProcessed' = (idrFrameProcessed \/ unit.type = "IDR")
  /\ decoder' = "idle" /\ unit' = None
  /\ UNCHANGED <<receiveSide, waitingForIdrFrame, dropStatePending,
                 idrRequested, decodeUnitQueue, history, asserts>>

(* LiCompleteVideoFrame with DR_NEED_IDR: requestDecoderRefresh, one step  *)
(* per access of what the receive thread shares.                           *)
CompleteNeedIdr ==
  /\ decoder = "decoding" /\ kind.needIdr
  /\ waitingForIdrFrame' = TRUE
  /\ needsIdr' = TRUE
  /\ decoder' = "flush"
  /\ UNCHANGED <<receiveSide, dropStatePending, idrFrameProcessed,
                 idrRequested, decodeUnitQueue, unit, lastDecoded,
                 fault, asserts>>

RefreshFlush ==
  /\ decoder = "flush"
  /\ decodeUnitQueue' = <<>>
  /\ decoder' = "drop"
  /\ UNCHANGED <<receiveSide, waitingForIdrFrame, dropStatePending,
                 idrFrameProcessed, idrRequested, unit, history,
                 asserts>>

RefreshDrop ==
  /\ decoder = "drop"
  /\ dropStatePending' = TRUE
  /\ decoder' = "request"
  /\ UNCHANGED <<receiveSide, waitingForIdrFrame, idrFrameProcessed,
                 idrRequested, decodeUnitQueue, unit, history, asserts>>

RefreshRequest ==
  /\ decoder = "request"
  /\ idrRequested' = TRUE
  /\ decoder' = "idle" /\ unit' = None
  /\ UNCHANGED <<receiveSide, waitingForIdrFrame, dropStatePending,
                 idrFrameProcessed, decodeUnitQueue, history, asserts>>

-----------------------------------------------------------------------------
Receive ==
  \/ ReportLoss \/ OldFrame \/ FrameGap \/ FirstPacket \/ CorruptFrame
  \/ LastPacketWaits \/ LastPacketGoesOn \/ DropPendingState \/ KeepState
  \/ QueueUnit \/ QueueOverflow \/ FlushOverflow
  \/ SubmitDirectly("DR_OK") \/ (kind.needIdr /\ SubmitDirectly("DR_NEED_IDR"))

Decode ==
  \/ TakeUnit \/ LiPeekNextVideoFrame \/ CompleteOk \/ CompleteNeedIdr
  \/ RefreshFlush \/ RefreshDrop \/ RefreshRequest

Next ==
  \/ \E type \in Types : HostSends(type)
  \/ NetworkLoses
  \/ Receive
  \/ Decode

Spec == Init /\ [][Next]_vars

-----------------------------------------------------------------------------
(* Properties                                                              *)

FlagsType ==
  /\ waitingForNextSuccessfulFrame \in BOOLEAN
  /\ waitingForIdrFrame \in BOOLEAN /\ waitingForRefInvalFrame \in BOOLEAN
  /\ decodingFrame \in BOOLEAN /\ dropStatePending \in BOOLEAN
  /\ idrFrameProcessed \in BOOLEAN
  /\ idrRequested \in BOOLEAN /\ rfiRequested \in BOOLEAN
  /\ needsIdr \in BOOLEAN /\ asserts \in BOOLEAN
  /\ kind \in KindsOfStream
  /\ fault \in {"none", "gap", "no IDR frame"}

NumbersType ==
  /\ nextFrameNumber \in 1..MaxFrames + 1
  /\ startFrameNumber \in 0..nextFrameNumber
  /\ consecutiveFrameDrops \in 0..DropLimit - 1
  /\ sent \in 0..MaxFrames /\ done \in 0..sent /\ lost \in 0..sent
  /\ lastDecoded \in 0..MaxFrames

UnitsType ==
  /\ decodeUnitQueue \in Seq(Units) /\ Len(decodeUnitQueue) <= QueueBound
  /\ receiver \in {"idle", "header", "frame", "checked", "reassemble",
                   "overflow"}
  /\ decoder \in {"idle", "decoding", "flush", "drop", "request"}
  /\ unit \in Units \cup {None}
  /\ arriving \in Units \cup {None}

(* Every variable keeps its type, decodeUnitQueue its bound, and the frame *)
(* numbers of the receive thread stay in step with the stream.             *)
TypeOK == FlagsType /\ NumbersType /\ UnitsType

(* A decoder in a thread of its own may answer DR_NEED_IDR while the       *)
(* receive thread is past its checks (see RefreshGivesIdr).                *)
RacingRefresh == kind.needIdr /\ ~kind.directSubmit

(* The decoder only gets what it can decode: it starts with an IDR frame,  *)
(* a P frame follows its predecessor, and after the queue was flushed      *)
(* nothing comes before an IDR frame.  This holds unless a refresh races,  *)
(* or a frame proves corrupt when its first packet has already ended the   *)
(* wait for it (VideoDepacketizer.c:681).                                  *)
DecoderInputDecodable ==
  RacingRefresh \/ kind.lateCorruption \/ fault = "none"

(* requestDecoderRefresh "ensures the next frame submitted to the decoder  *)
(* will be an IDR frame" (VideoDepacketizer.c:715).                        *)
RefreshGivesIdr == fault # "no IDR frame"

(* No LC_ASSERT of VideoDepacketizer.c fails, among them that no P frame   *)
(* is dequeued before an IDR frame has been processed, that a frame that   *)
(* was received is not invalidated, and that a wait for the next complete  *)
(* frame never outlives the wait for an IDR or RFI frame.  Again a refresh *)
(* that races is out.                                                      *)
AssertsHold == RacingRefresh \/ asserts

(* The state stays intact, whatever is lost and however the two threads    *)
(* interleave: types and bounds, and the assertions.                       *)
StateIntact == TypeOK /\ AssertsHold

(* A frame that is received whole and dropped for want of an IDR frame is  *)
(* only dropped while an IDR frame is on order, or about to be ordered by  *)
(* the decoder thread: the client does not wait for what nobody asked for. *)
(* A loss that was predicted wrongly is the exception: notifyFrameLost     *)
(* leaves the wait to itself when the decoder is strict or has yet to      *)
(* process its first IDR frame (VideoDepacketizer.c:1137).                 *)
IdrIsRequested ==
  [][receiver = "frame" /\ receiver' = "idle" /\ waitingForIdrFrame'
       => \/ idrRequested' \/ decoder \in {"flush", "drop", "request"}
          \/ kind.speculative]_vars
=============================================================================
