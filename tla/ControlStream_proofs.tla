------------------------- MODULE ControlStream_proofs -------------------------
(***************************************************************************)
(* Proofs about ControlStream, for any number of frames, any bounds of the *)
(* two queues, any messages of the host and any threads that cannot be     *)
(* created.                                                                *)
(***************************************************************************)
EXTENDS ControlStream, SequenceTheorems, TLAPS

(***************************************************************************)
(* The inductive invariant                                                 *)
(***************************************************************************)

(* The thread that is created last                                         *)
LastThread == IF mode.rfi THEN "rfi" ELSE "async"

(* Where main is.  What it is still to create does not run yet, so a start *)
(* that fails leaves the last thread out; only then is asyncCallbackQueue  *)
(* shut down and not drained.                                              *)
Lifecycle ==
  /\ stopping <=> main \notin {"create", "run"}
  /\ main = "create" =>
       /\ todo \in Seq(Threads) /\ todo # <<>>
       /\ \A i \in 1..Len(todo) : at[todo[i]] = "none"
       /\ \A i, j \in 1..Len(todo) : todo[i] = todo[j] => i = j
       /\ todo[Len(todo)] = LastThread
  /\ main = "giveUp" => at[LastThread] = "none"
  /\ asyncCallbackQueue.shutdown => stopping /\ mode.rfi /\ ~Created("rfi")

control == referenceFrameControlQueue.items

(* The entries of a sequence are in the order of their frames.             *)
Ordered(s) ==
  \A i, j \in 1..Len(s) :
    i <= j => s[i].start <= s[j].start /\ s[i].end <= s[j].end

(* The range in hand comes before what is queued, which is in the order of *)
(* the frames and ends with the last one.                                  *)
ControlOrder ==
  /\ startFrame <= frame + 1
  /\ Ordered(control)
  /\ \A i \in 1..Len(control) :
       /\ control[i].start <= control[i].end
       /\ control[i].start <= startFrame /\ control[i].end <= frame
       /\ range.start <= control[i].start /\ range.end <= control[i].end
  /\ range.start <= range.end
  /\ range.start <= startFrame /\ range.end <= frame

callbacks == asyncCallbackQueue.items

HasKey(s, k) == \E i \in 1..Len(s) : Key(s[i]) = k

(* The last message for k in s says v.                                     *)
LastSays(s, k, v) ==
  \A i \in 1..Len(s) :
    /\ Key(s[i]) = k
    /\ \A j \in 1..Len(s) : i < j => Key(s[j]) # k
    => s[i].value = v

InHand(k) ==
  at["async"] \in {"peek", "poll", "call"} /\ Key(queuedCb["async"]) = k

(* The last state of k that was queued is the one of the last message in   *)
(* the queue, in hand, or delivered.                                       *)
PendingState(k) ==
  /\ LastSays(callbacks, k, latest[k])
  /\ ~HasKey(callbacks, k) /\ InHand(k) => queuedCb["async"].value = latest[k]
  /\ ~HasKey(callbacks, k) /\ ~InHand(k) => delivered[k] = latest[k]

(* A change of the HDR mode is delivered, or its notification is under way *)
PendingHdr ==
  <<"hdr">> \in Keys =>
    \/ hdrDropped
    \/ delivered[<<"hdr">>] = hdrEnabled
    \/ at["recv"] = "queue" /\ queuedCb["recv"].type = "hdr"
    \/ HasKey(callbacks, <<"hdr">>)
    \/ InHand(<<"hdr">>)

(* What the threads "recv" and "async" have in hand                        *)
CallbackThreads ==
  /\ at["recv"] = "queue" => queuedCb["recv"] \in Messages
  /\ at["async"] \in {"peek", "poll", "call"} => queuedCb["async"] \in Messages
  /\ at["async"] = "poll" =>
       callbacks # <<>> /\ Key(callbacks[1]) = Key(queuedCb["async"])
  /\ at["async"] = "done" =>
       \/ asyncCallbackQueue.shutdown
       \/ asyncCallbackQueue.draining /\ callbacks = <<>>

Callbacks ==
  /\ CallbackThreads
  /\ \A k \in Keys : k # <<"hdr">> => PendingState(k)
  /\ PendingHdr

IInv == /\ TypeOK /\ Lifecycle /\ ControlOrder /\ AssertsHold
        /\ NoLossForgotten /\ Callbacks

-----------------------------------------------------------------------------
(***************************************************************************)
(* The operations of a queue                                               *)
(***************************************************************************)

(* Offer adds an element behind the others.                                *)
LEMMA OfferFacts ==
  ASSUME NEW S, NEW n \in Nat, NEW q, IsQueue(q, S, n), ~Full(q, n),
         NEW x \in S
  PROVE  /\ IsQueue(Offer(q, x), S, n)
         /\ Offer(q, x).items = Append(q.items, x)
         /\ Offer(q, x).shutdown = q.shutdown
         /\ Offer(q, x).draining = q.draining
<1>1. q.items \in Seq(S) /\ Len(q.items) \in Nat /\ Len(q.items) < n
  BY LenProperties DEF IsQueue, Full
<1>2. Append(q.items, x) \in Seq(S) /\ Len(Append(q.items, x)) <= n
  BY <1>1, AppendProperties
<1>. QED
  BY <1>2 DEF IsQueue, Offer

(* Poll takes the first element.                                           *)
LEMMA PollFacts ==
  ASSUME NEW S, NEW n \in Nat, NEW q, IsQueue(q, S, n), HasElement(q)
  PROVE  /\ IsQueue(Poll(q), S, n)
         /\ Poll(q).items = Tail(q.items)
         /\ Poll(q).shutdown = q.shutdown
         /\ Poll(q).draining = q.draining
         /\ Head(q.items) \in S
         /\ q.items \in Seq(S) /\ q.items # <<>>
<1>1. q.items \in Seq(S) /\ q.items # <<>> /\ Len(q.items) \in Nat
  BY LenProperties DEF IsQueue, HasElement
<1>2. /\ Tail(q.items) \in Seq(S) /\ Head(q.items) \in S
      /\ Len(Tail(q.items)) <= n
  BY <1>1, HeadTailProperties DEF IsQueue
<1>. QED
  BY <1>1, <1>2 DEF IsQueue, Poll

(* Flush empties the queue.                                                *)
LEMMA FlushFacts ==
  ASSUME NEW S, NEW n \in Nat, NEW q, IsQueue(q, S, n)
  PROVE  /\ IsQueue(Flush(q), S, n)
         /\ Flush(q).items = <<>>
         /\ Flush(q).shutdown = q.shutdown
         /\ Flush(q).draining = q.draining
<1>1. <<>> \in Seq(S) /\ Len(<<>>) <= n
  BY EmptySeq
<1>. QED
  BY <1>1 DEF IsQueue, Flush

(* A flag of a queue changes nothing else.                                 *)
LEMMA FlagFacts ==
  ASSUME NEW S, NEW n \in Nat, NEW q, IsQueue(q, S, n), NEW b \in BOOLEAN
  PROVE  /\ IsQueue([q EXCEPT !.shutdown = b], S, n)
         /\ [q EXCEPT !.shutdown = b].items = q.items
         /\ [q EXCEPT !.shutdown = b].shutdown = b
         /\ [q EXCEPT !.shutdown = b].draining = q.draining
         /\ IsQueue([q EXCEPT !.draining = b], S, n)
         /\ [q EXCEPT !.draining = b].items = q.items
         /\ [q EXCEPT !.draining = b].shutdown = q.shutdown
         /\ [q EXCEPT !.draining = b].draining = b
BY DEF IsQueue

(* LiRequestIdrFrame and OfferControl keep the types of what they change.  *)
LEMMA RequestFacts ==
  ASSUME VideoType, NEW c \in {"video", "decoder"}, LiRequestIdrFrame(c)
  PROVE  /\ IsQueue(referenceFrameControlQueue', Ranges, ControlBound)
         /\ control' = <<>>
         /\ caller' \in [{"video", "decoder"} -> {"idle", "set"}]
         /\ caller'[c] = "set"
         /\ idrOwed' \in BOOLEAN
<1>1. ControlBound \in Nat
  BY ControlAssumption
<1>2. /\ IsQueue(referenceFrameControlQueue', Ranges, ControlBound)
      /\ control' = <<>>
  BY <1>1, FlushFacts DEF VideoType, LiRequestIdrFrame, control
<1>. QED
  BY <1>2 DEF VideoType, LiRequestIdrFrame

LEMMA OfferControlFacts ==
  ASSUME VideoType, NEW e \in Ranges, OfferControl(e)
  PROVE  /\ IsQueue(referenceFrameControlQueue', Ranges, ControlBound)
         /\ \/ control' = Append(control, e) /\ UNCHANGED caller
            \/ control' = <<>> /\ caller'["video"] = "set"
         /\ caller' \in [{"video", "decoder"} -> {"idle", "set"}]
         /\ idrOwed' \in BOOLEAN
<1>1. ControlBound \in Nat
  BY ControlAssumption
<1>2. CASE ~Full(referenceFrameControlQueue, ControlBound)
  <2>. DEFINE q == referenceFrameControlQueue
  <2>1. IsQueue(q, Ranges, ControlBound) /\ ~Full(q, ControlBound)
    BY <1>2 DEF VideoType
  <2> HIDE DEF q
  <2>2. /\ IsQueue(Offer(q, e), Ranges, ControlBound)
        /\ Offer(q, e).items = Append(q.items, e)
    BY <1>1, <2>1, OfferFacts DEF IsQueue
  <2>3. /\ referenceFrameControlQueue' = Offer(q, e)
        /\ UNCHANGED <<caller, idrOwed>>
    BY <1>2 DEF OfferControl, q
  <2>4. control' = Append(control, e)
    BY <2>2, <2>3 DEF control, q
  <2>. QED
    BY <2>2, <2>3, <2>4 DEF VideoType
<1>3. CASE Full(referenceFrameControlQueue, ControlBound)
  BY <1>3, RequestFacts DEF OfferControl
<1>. QED
  BY <1>2, <1>3

(* The messages the host may send are the ones of the scripts.             *)
LEMMA MessageFacts ==
  /\ Scripts \subseteq Seq(Messages)
  /\ Messages \subseteq MessageKinds
  /\ \A m \in Messages : /\ Key(m) \in Keys
                         /\ m.value \in BOOLEAN
                         /\ Key(m) = <<"hdr">> <=> m.type = "hdr"
<1>1. ASSUME NEW s \in Scripts
      PROVE  s \in Seq(Messages)
  <2>1. s \in Seq(MessageKinds)
    BY ControlAssumption
  <2>2. Len(s) \in Nat /\ s = [i \in 1..Len(s) |-> s[i]]
    BY <2>1, LenProperties
  <2>3. \A i \in 1..Len(s) : s[i] \in Messages
    BY <1>1 DEF Messages
  <2>. QED
    BY <2>2, <2>3, SeqDef
<1>2. Messages \subseteq MessageKinds
  <2>. SUFFICES ASSUME NEW s \in Scripts, NEW i \in 1..Len(s)
                PROVE  s[i] \in MessageKinds
    BY DEF Messages
  <2>. QED
    BY ControlAssumption, ElementOfSeq
<1>3. ASSUME NEW m \in Messages
      PROVE  Key(m) = <<"hdr">> <=> m.type = "hdr"
  <2>1. <<m.type, m.controller>> # <<"hdr">>
    <3>1. Len(<<m.type, m.controller>>) = 2 /\ Len(<<"hdr">>) = 1
      OBVIOUS
    <3>. QED
      BY <3>1
  <2>. QED
    BY <2>1 DEF Key
<1>. QED
  BY <1>1, <1>2, <1>3 DEF Keys, MessageKinds

-----------------------------------------------------------------------------
(***************************************************************************)
(* Types                                                                   *)
(***************************************************************************)

(* Nothing runs yet, and both queues are empty.                            *)
LEMMA InitTypeOK == Init => TypeOK
<1>. SUFFICES ASSUME Init
              PROVE  TypeOK
  OBVIOUS
<1>1. MaxFrame \in Nat \ {0} /\ ControlBound \in Nat /\ AsyncBound \in Nat
  BY ControlAssumption
<1>2. ASSUME NEW S, NEW n \in Nat
      PROVE  IsQueue(EmptyQueue, S, n)
  BY EmptySeq DEF IsQueue, EmptyQueue
<1>3. mode \in ModeKinds /\ inbox \in Seq(Messages)
  BY ControlAssumption, MessageFacts, EmptySeq DEF Init
<1>4. LifeType
  BY <1>3 DEF Init, LifeType
<1>5. VideoType
  <2>1. IsQueue(referenceFrameControlQueue, Ranges, ControlBound)
    BY <1>1, <1>2 DEF Init
  <2>2. range \in Ranges
    BY <1>1 DEF Init, Ranges, NoRange
  <2>3. caller \in [{"video", "decoder"} -> {"idle", "set"}]
    BY DEF Init
  <2>4. frame \in 0..MaxFrame /\ startFrame \in 1..MaxFrame + 1
    BY <1>1 DEF Init
  <2>5. open \subseteq 1..MaxFrame
    BY DEF Init
  <2>6. idrFrameRequiredEvent \in BOOLEAN /\ idrOwed \in BOOLEAN
    BY DEF Init
  <2>. QED
    BY <2>1, <2>2, <2>3, <2>4, <2>5, <2>6 DEF VideoType
<1>6. HostType
  BY <1>1, <1>2, <1>3 DEF Init, HostType
<1>. QED
  BY <1>4, <1>5, <1>6 DEF TypeOK

(* The requests of the other components                                    *)
LEMMA RequestsType ==
  ASSUME TypeOK, ControlOrder,
         \/ connectionDetectedFrameLoss
         \/ \E frameIsLTR \in BOOLEAN :
              connectionReceivedCompleteFrame(frameIsLTR)
         \/ DecoderNeedsIdr
         \/ \E c \in {"video", "decoder"} : SetIdrFrameRequired(c)
  PROVE  TypeOK'
<1>. USE DEF TypeOK, life, host
<1>1. MaxFrame \in Nat \ {0}
  BY ControlAssumption
<1>2. CASE connectionDetectedFrameLoss
  <2>. DEFINE e == [invalidate |-> TRUE, start |-> startFrame, end |-> frame + 1]
  <2>1. e \in Ranges
    BY <1>1, <1>2 DEF VideoType, ControlOrder, Ranges, connectionDetectedFrameLoss
  <2>. HIDE DEF e
  <2>2. OfferControl(e) \/ LiRequestIdrFrame("video")
    BY <1>2 DEF connectionDetectedFrameLoss, queueFrameInvalidationTuple, e
  <2>3. VideoType'
    <3>1. /\ IsQueue(referenceFrameControlQueue', Ranges, ControlBound)
          /\ caller' \in [{"video", "decoder"} -> {"idle", "set"}]
          /\ idrOwed' \in BOOLEAN
      BY <2>1, <2>2, OfferControlFacts, RequestFacts
    <3>. QED
      BY <1>1, <1>2, <3>1 DEF VideoType, connectionDetectedFrameLoss
  <2>. QED
    BY <1>2, <2>3 DEF LifeType, HostType, connectionDetectedFrameLoss,
                      queueFrameInvalidationTuple
<1>3. CASE \E frameIsLTR \in BOOLEAN :
             connectionReceivedCompleteFrame(frameIsLTR)
  <2>. DEFINE e == [invalidate |-> FALSE, start |-> frame + 1, end |-> frame + 1]
  <2>1. e \in Ranges
    BY <1>1, <1>3 DEF VideoType, Ranges, connectionReceivedCompleteFrame
  <2>. HIDE DEF e
  <2>2. OfferControl(e) \/ UNCHANGED <<referenceFrameControlQueue, caller, idrOwed>>
    BY <1>3 DEF connectionReceivedCompleteFrame, e
  <2>3. VideoType'
    <3>1. /\ IsQueue(referenceFrameControlQueue', Ranges, ControlBound)
          /\ caller' \in [{"video", "decoder"} -> {"idle", "set"}]
          /\ idrOwed' \in BOOLEAN
      BY <2>1, <2>2, OfferControlFacts DEF VideoType
    <3>. QED
      BY <1>1, <1>3, <3>1 DEF VideoType, connectionReceivedCompleteFrame
  <2>. QED
    BY <1>3, <2>3 DEF LifeType, HostType, connectionReceivedCompleteFrame
<1>4. CASE DecoderNeedsIdr
  <2>1. VideoType'
    BY <1>4, RequestFacts DEF VideoType, DecoderNeedsIdr
  <2>. QED
    BY <1>4, <2>1 DEF LifeType, HostType, DecoderNeedsIdr
<1>5. CASE \E c \in {"video", "decoder"} : SetIdrFrameRequired(c)
  <2>1. VideoType'
    BY <1>5 DEF VideoType, SetIdrFrameRequired
  <2>. QED
    BY <1>5, <2>1 DEF LifeType, HostType, SetIdrFrameRequired
<1>. QED
  BY <1>2, <1>3, <1>4, <1>5

(* A step of one thread                                                    *)
LEMMA GotoType ==
  ASSUME LifeType, NEW t,
         NEW l \in {"none", "loop", "wait", "clear", "check", "send", "poll",
                    "peek", "call", "queue", "done"},
         Goto(t, l), UNCHANGED life, asserts' \in BOOLEAN,
         terminated' \in BOOLEAN
  PROVE  LifeType'
BY DEF LifeType, Goto, life

LEMMA VideoUnchanged ==
  ASSUME VideoType, UNCHANGED video
  PROVE  VideoType'
BY DEF VideoType, video

LEMMA HostUnchanged ==
  ASSUME HostType, UNCHANGED host
  PROVE  HostType'
BY DEF HostType, host

(* The thread "idr"                                                        *)
LEMMA IdrThreadType ==
  ASSUME TypeOK, IdrThread
  PROVE  TypeOK'
<1>. USE DEF TypeOK
<1>1. ControlBound \in Nat
  BY ControlAssumption
<1>2. CASE IdrLoop
  <2>1. LifeType'
    BY <1>2, GotoType DEF IdrLoop, LifeType
  <2>. QED
    BY <1>2, <2>1, VideoUnchanged, HostUnchanged DEF IdrLoop
<1>3. CASE PltWaitForEvent
  <2>1. LifeType'
    BY <1>3, GotoType DEF PltWaitForEvent, LifeType
  <2>. QED
    BY <1>3, <2>1, VideoUnchanged, HostUnchanged DEF PltWaitForEvent
<1>4. CASE PltClearEvent
  <2>1. LifeType'
    BY <1>4, GotoType DEF PltClearEvent, LifeType
  <2>2. VideoType'
    BY <1>4 DEF PltClearEvent, VideoType
  <2>. QED
    BY <1>4, <2>1, <2>2, HostUnchanged DEF PltClearEvent
<1>5. CASE IdrCheck
  <2>1. LifeType'
    BY <1>5, GotoType DEF IdrCheck, LifeType
  <2>2. IsQueue(referenceFrameControlQueue', Ranges, ControlBound)
    <3>1. IsQueue(Flush(referenceFrameControlQueue), Ranges, ControlBound)
      BY <1>1, FlushFacts, Zenon DEF VideoType
    <3>. QED
      BY <1>5, <3>1 DEF IdrCheck, VideoType
  <2>3. VideoType'
    BY <1>5, <2>2 DEF IdrCheck, VideoType
  <2>. QED
    BY <1>5, <2>1, <2>3, HostUnchanged DEF IdrCheck
<1>6. CASE requestIdrFrame
  <2>1. LifeType'
    BY <1>6, GotoType DEF requestIdrFrame, LifeType
  <2>2. VideoType'
    BY <1>6 DEF requestIdrFrame, VideoType
  <2>. QED
    BY <1>6, <2>1, <2>2, HostUnchanged DEF requestIdrFrame
<1>. QED
  BY <1>2, <1>3, <1>4, <1>5, <1>6 DEF IdrThread

(* The thread "rfi"                                                        *)
LEMMA RfiThreadType ==
  ASSUME TypeOK, RfiThread
  PROVE  TypeOK'
<1>. USE DEF TypeOK
<1>1. MaxFrame \in Nat \ {0} /\ ControlBound \in Nat
  BY ControlAssumption
<1>2. CASE RfiLoop
  <2>1. LifeType'
    BY <1>2, GotoType DEF RfiLoop, LifeType
  <2>. QED
    BY <1>2, <2>1, VideoUnchanged, HostUnchanged DEF RfiLoop
<1>3. ASSUME TakeControl
      PROVE  TypeOK'
  <2>1. /\ IsQueue(referenceFrameControlQueue', Ranges, ControlBound)
        /\ Head(control) \in Ranges
    BY <1>1, <1>3, PollFacts, Zenon DEF TakeControl, VideoType, control
  <2>2. range' \in Ranges
    BY <1>1, <1>3, <2>1
    DEF TakeControl, Aggregate, VideoType, Ranges, control
  <2>3. VideoType'
    BY <1>3, <2>1, <2>2 DEF TakeControl, VideoType
  <2>4. LifeType'
    <3>1. asserts' \in BOOLEAN /\ terminated' \in BOOLEAN
      BY <1>3 DEF TakeControl, LifeType
    <3>. QED
      BY <1>3, <3>1, GotoType DEF TakeControl
  <2>. QED
    BY <1>3, <2>3, <2>4, HostUnchanged DEF TakeControl
<1>4. CASE ~TakeControl /\ (RfiWait \/ RfiPoll)
  <2>1. LifeType'
    BY <1>4, GotoType DEF RfiWait, RfiPoll, LifeType
  <2>. QED
    BY <1>4, <2>1, VideoUnchanged, HostUnchanged DEF RfiWait, RfiPoll
<1>5. CASE requestInvalidateReferenceFrames
  <2>1. LifeType'
    <3>1. asserts' \in BOOLEAN /\ terminated' \in BOOLEAN
      BY <1>5 DEF requestInvalidateReferenceFrames, LifeType
    <3>. QED
      BY <1>5, <3>1, GotoType DEF requestInvalidateReferenceFrames
  <2>2. VideoType'
    <3>1. range' \in Ranges
      BY <1>1, <1>5 DEF Ranges, requestInvalidateReferenceFrames, NoRange
    <3>. QED
      BY <1>5, <3>1 DEF VideoType, requestInvalidateReferenceFrames
  <2>. QED
    BY <1>5, <2>1, <2>2, HostUnchanged DEF requestInvalidateReferenceFrames
<1>. QED
  BY <1>2, <1>3, <1>4, <1>5 DEF RfiThread, RfiWait, RfiPoll

(* The threads "recv", "stats" and "async"                                 *)
LEMMA HostThreadsType ==
  ASSUME TypeOK, CallbackThreads,
         \/ ReceiveMessage \/ queueAsyncCallback \/ ReceiveEnds \/ StatsEnds
         \/ AsyncThread
  PROVE  TypeOK'
<1>. USE DEF TypeOK
<1>1. AsyncBound \in Nat
  BY ControlAssumption
<1>2. CASE ReceiveMessage
  <2>1. LifeType'
    BY <1>2, GotoType DEF ReceiveMessage, LifeType
  <2>2. Head(inbox) \in Messages /\ Tail(inbox) \in Seq(Messages)
    BY <1>2, HeadTailProperties DEF HostType, ReceiveMessage
  <2>3. hdrEnabled' \in BOOLEAN
    BY <1>2, <2>2, MessageFacts DEF HostType, ReceiveMessage
  <2>4. HostType'
    BY <1>2, <2>2, <2>3 DEF HostType, ReceiveMessage
  <2>. QED
    BY <1>2, <2>1, <2>4, VideoUnchanged DEF ReceiveMessage
<1>3. CASE queueAsyncCallback
  <2>. DEFINE m == queuedCb["recv"]
              q == asyncCallbackQueue
  <2>1. LifeType'
    BY <1>3, GotoType DEF queueAsyncCallback, LifeType
  <2>2. m \in Messages /\ Key(m) \in Keys /\ m.value \in BOOLEAN
    BY <1>3, MessageFacts DEF CallbackThreads, queueAsyncCallback
  <2>3. IsQueue(asyncCallbackQueue', Messages, AsyncBound)
    <3>1. IsQueue(q, Messages, AsyncBound)
      BY DEF HostType
    <3>2. ~Full(q, AsyncBound) => IsQueue(Offer(q, m), Messages, AsyncBound)
      BY <1>1, <2>2, <3>1, OfferFacts, Zenon
    <3>. QED
      BY <1>3, <3>1, <3>2, Zenon DEF queueAsyncCallback
  <2>4. latest' \in [Keys -> BOOLEAN] /\ hdrDropped' \in BOOLEAN
    BY <1>3, <2>2 DEF HostType, queueAsyncCallback
  <2>5. HostType'
    BY <1>3, <2>3, <2>4 DEF HostType, queueAsyncCallback
  <2>. QED
    BY <1>3, <2>1, <2>5, VideoUnchanged DEF queueAsyncCallback
<1>4. CASE ReceiveEnds
  <2>1. LifeType'
    BY <1>4, GotoType DEF ReceiveEnds, LifeType
  <2>. QED
    BY <1>4, <2>1, VideoUnchanged, HostUnchanged DEF ReceiveEnds
<1>5. CASE StatsEnds
  <2>1. LifeType'
    BY <1>5, GotoType DEF StatsEnds, LifeType
  <2>. QED
    BY <1>5, <2>1, VideoUnchanged, HostUnchanged DEF StatsEnds
<1>6. CASE AsyncWait \/ AsyncPoll
  <2>. DEFINE q == asyncCallbackQueue
  <2>1. LifeType'
    BY <1>6, GotoType DEF AsyncWait, AsyncPoll, LifeType
  <2>2. CASE /\ HasElement(q)
             /\ asyncCallbackQueue' = Poll(q)
             /\ queuedCb' = [queuedCb EXCEPT !["async"] = Head(q.items)]
    <3>1. IsQueue(Poll(q), Messages, AsyncBound) /\ Head(q.items) \in Messages
      BY <1>1, <2>2, PollFacts, Zenon DEF HostType
    <3>2. HostType'
      BY <1>6, <2>2, <3>1 DEF HostType, AsyncWait, AsyncPoll
    <3>. QED
      BY <1>6, <2>1, <3>2, VideoUnchanged DEF AsyncWait, AsyncPoll
  <2>3. CASE UNCHANGED <<asyncCallbackQueue, queuedCb>>
    BY <1>6, <2>1, <2>3, VideoUnchanged, HostUnchanged
    DEF AsyncWait, AsyncPoll, host
  <2>. QED
    BY <1>6, <2>2, <2>3 DEF AsyncWait, AsyncPoll
<1>7. CASE AsyncPeek
  <2>1. LifeType'
    BY <1>7, GotoType DEF AsyncPeek, LifeType
  <2>. QED
    BY <1>7, <2>1, VideoUnchanged, HostUnchanged DEF AsyncPeek
<1>8. CASE AsyncCall
  <2>1. LifeType'
    BY <1>8, GotoType DEF AsyncCall, LifeType
  <2>2. queuedCb["async"].value \in BOOLEAN
    BY <1>8, MessageFacts DEF CallbackThreads, AsyncCall
  <2>3. HostType'
    BY <1>8, <2>2 DEF HostType, AsyncCall
  <2>. QED
    BY <1>8, <2>1, <2>3, VideoUnchanged DEF AsyncCall
<1>. QED
  BY <1>2, <1>3, <1>4, <1>5, <1>6, <1>7, <1>8 DEF AsyncThread

(* main: start, failure and stop                                           *)
LEMMA MainType ==
  ASSUME TypeOK, CreateThread \/ StartFails \/ StopBegins \/ Rundown
  PROVE  TypeOK'
<1>. USE DEF TypeOK
<1>1. ControlBound \in Nat /\ AsyncBound \in Nat
  BY ControlAssumption
<1>2. CASE CreateThread
  <2>1. LifeType'
    BY <1>2 DEF LifeType, CreateThread, Entry
  <2>. QED
    BY <1>2, <2>1, VideoUnchanged, HostUnchanged DEF CreateThread
<1>3. CASE StartFails \/ StopBegins
  <2>1. LifeType'
    BY <1>3 DEF LifeType, StartFails, StopBegins
  <2>. QED
    BY <1>3, <2>1, VideoUnchanged, HostUnchanged DEF StartFails, StopBegins
<1>4. CASE GiveUp
  <2>1. LifeType'
    BY <1>4 DEF LifeType, GiveUp
  <2>2. VideoType'
    BY <1>4 DEF VideoType, GiveUp
  <2>3. IsQueue(asyncCallbackQueue', Messages, AsyncBound)
    <3>1. Created("async") \in BOOLEAN
      BY DEF Created
    <3>. QED
      BY <1>1, <1>4, <3>1, FlagFacts, Zenon DEF GiveUp, HostType
  <2>4. HostType'
    BY <1>4, <2>3 DEF HostType, GiveUp
  <2>. QED
    BY <2>1, <2>2, <2>4
<1>5. CASE StopShutdown
  <2>1. LifeType'
    BY <1>5 DEF LifeType, StopShutdown
  <2>2. IsQueue(referenceFrameControlQueue', Ranges, ControlBound)
    BY <1>1, <1>5, FlagFacts, Zenon DEF StopShutdown, VideoType
  <2>3. VideoType'
    BY <1>5, <2>2 DEF VideoType, StopShutdown
  <2>. QED
    BY <1>5, <2>1, <2>3, HostUnchanged DEF StopShutdown
<1>6. CASE StopDrain
  <2>1. LifeType'
    BY <1>6 DEF LifeType, StopDrain
  <2>2. IsQueue(asyncCallbackQueue', Messages, AsyncBound)
    BY <1>1, <1>6, FlagFacts, Zenon DEF StopDrain, HostType
  <2>3. HostType'
    BY <1>6, <2>2 DEF HostType, StopDrain
  <2>. QED
    BY <1>6, <2>1, <2>3, VideoUnchanged DEF StopDrain
<1>7. CASE StopSignal
  <2>1. LifeType'
    BY <1>7 DEF LifeType, StopSignal
  <2>2. VideoType'
    BY <1>7 DEF VideoType, StopSignal
  <2>. QED
    BY <1>7, <2>1, <2>2, HostUnchanged DEF StopSignal
<1>8. CASE StopInterrupt \/ PltInterruptThread \/ PltJoinThread
  <2>1. LifeType'
    BY <1>8
    DEF LifeType, StopInterrupt, PltInterruptThread, PltJoinThread
  <2>. QED
    BY <1>8, <2>1, VideoUnchanged, HostUnchanged
    DEF StopInterrupt, PltInterruptThread, PltJoinThread
<1>9. CASE destroyControlStream
  <2>1. LifeType'
    BY <1>9 DEF LifeType, destroyControlStream
  <2>. QED
    BY <1>9, <2>1, VideoUnchanged, HostUnchanged DEF destroyControlStream
<1>. QED
  BY <1>2, <1>3, <1>4, <1>5, <1>6, <1>7, <1>8, <1>9 DEF Rundown

LEMMA NextTypeOK ==
  ASSUME TypeOK, ControlOrder, CallbackThreads, [Next]_vars
  PROVE  TypeOK'
<1>1. CASE Next
  BY <1>1, RequestsType, IdrThreadType, RfiThreadType, HostThreadsType,
     MainType, Zenon DEF Next
<1>2. CASE UNCHANGED vars
  BY <1>2, VideoUnchanged, HostUnchanged DEF TypeOK, LifeType, vars, life
<1>. QED
  BY <1>1, <1>2

-----------------------------------------------------------------------------
(***************************************************************************)
(* Lifecycle                                                               *)
(***************************************************************************)

(* A step of a thread that runs, or of another component                   *)
LEMMA RunningLifecycle ==
  ASSUME LifeType, Lifecycle, UNCHANGED life,
         asyncCallbackQueue'.shutdown = asyncCallbackQueue.shutdown,
         \A t \in Threads : at[t] = "none" <=> at'[t] = "none"
  PROVE  Lifecycle'
<1>1. LastThread' = LastThread /\ LastThread \in Threads
  BY DEF LastThread, life, Threads
<1>2. Created("rfi")' <=> Created("rfi")
  BY DEF Created, Threads
<1>3. main = "create" => \A i \in 1..Len(todo) : at'[todo[i]] = "none"
  BY ElementOfSeq DEF Lifecycle
<1>. QED
  BY <1>1, <1>2, <1>3 DEF Lifecycle, life

LEMMA GotoLifecycle ==
  ASSUME LifeType, Lifecycle, UNCHANGED life,
         asyncCallbackQueue'.shutdown = asyncCallbackQueue.shutdown,
         NEW t \in Threads, at[t] # "none", NEW l, l # "none", Goto(t, l)
  PROVE  Lifecycle'
<1>1. \A u \in Threads : at[u] = "none" <=> at'[u] = "none"
  BY DEF LifeType, Goto
<1>. QED
  BY <1>1, RunningLifecycle

LEMMA NextLifecycle ==
  ASSUME TypeOK, Lifecycle, [Next]_vars
  PROVE  Lifecycle'
<1>. USE DEF TypeOK
<1>1. /\ {"recv", "stats", "idr", "async", "rfi"} = Threads
      /\ AsyncBound \in Nat
  BY ControlAssumption DEF Threads
<1>2. CASE \/ connectionDetectedFrameLoss
           \/ \E frameIsLTR \in BOOLEAN :
                connectionReceivedCompleteFrame(frameIsLTR)
           \/ DecoderNeedsIdr
           \/ \E c \in {"video", "decoder"} : SetIdrFrameRequired(c)
  <2>1. UNCHANGED <<life, at, asyncCallbackQueue>>
    BY <1>2 DEF connectionDetectedFrameLoss, connectionReceivedCompleteFrame,
                DecoderNeedsIdr, SetIdrFrameRequired, host
  <2>. QED
    BY <2>1, RunningLifecycle
<1>3. CASE IdrThread
  <2>1. UNCHANGED <<life, asyncCallbackQueue>> /\ at["idr"] # "none"
    BY <1>3 DEF IdrThread, IdrLoop, PltWaitForEvent, PltClearEvent, IdrCheck,
                requestIdrFrame, host
  <2>2. \E l \in {"wait", "clear", "check", "send", "loop", "done"} :
          Goto("idr", l)
    BY <1>3 DEF IdrThread, IdrLoop, PltWaitForEvent, PltClearEvent, IdrCheck,
                requestIdrFrame
  <2>. QED
    BY <1>1, <2>1, <2>2, GotoLifecycle
<1>4. CASE RfiThread
  <2>1. UNCHANGED <<life, asyncCallbackQueue>> /\ at["rfi"] # "none"
    BY <1>4 DEF RfiThread, RfiLoop, RfiWait, RfiPoll, TakeControl,
                requestInvalidateReferenceFrames, host
  <2>2. \E l \in {"wait", "poll", "send", "loop", "done"} : Goto("rfi", l)
    BY <1>4 DEF RfiThread, RfiLoop, RfiWait, RfiPoll, TakeControl,
                requestInvalidateReferenceFrames
  <2>. QED
    BY <1>1, <2>1, <2>2, GotoLifecycle
<1>5. CASE ReceiveMessage \/ ReceiveEnds
  <2>1. UNCHANGED <<life, asyncCallbackQueue>> /\ at["recv"] # "none"
    BY <1>5 DEF ReceiveMessage, ReceiveEnds, host
  <2>2. \E l \in {"queue", "done"} : Goto("recv", l)
    BY <1>5 DEF ReceiveMessage, ReceiveEnds
  <2>. QED
    BY <1>1, <2>1, <2>2, GotoLifecycle
<1>6. CASE queueAsyncCallback
  <2>1. asyncCallbackQueue'.shutdown = asyncCallbackQueue.shutdown
    BY <1>6 DEF queueAsyncCallback, HostType, IsQueue, Offer
  <2>. QED
    BY <1>1, <1>6, <2>1, GotoLifecycle DEF queueAsyncCallback
<1>7. CASE StatsEnds
  BY <1>1, <1>7, GotoLifecycle DEF StatsEnds, host
<1>8. CASE AsyncThread
  <2>1. asyncCallbackQueue'.shutdown = asyncCallbackQueue.shutdown
    BY <1>8 DEF AsyncThread, AsyncWait, AsyncPeek, AsyncPoll, AsyncCall, host,
                HostType, IsQueue, Poll
  <2>2. UNCHANGED life /\ at["async"] # "none"
    BY <1>8 DEF AsyncThread, AsyncWait, AsyncPeek, AsyncPoll, AsyncCall
  <2>3. \E l \in {"wait", "peek", "poll", "call", "done"} : Goto("async", l)
    BY <1>8 DEF AsyncThread, AsyncWait, AsyncPeek, AsyncPoll, AsyncCall
  <2>. QED
    BY <1>1, <2>1, <2>2, <2>3, GotoLifecycle
<1>9. CASE CreateThread
  <2>. DEFINE n == Len(todo)
  <2>1. /\ todo \in Seq(Threads) /\ todo # <<>> /\ Head(todo) = todo[1]
        /\ n \in Nat \ {0} /\ todo[1] \in Threads
        /\ Tail(todo) \in Seq(Threads) /\ Len(Tail(todo)) = n - 1
        /\ \A i \in 1..n - 1 : Tail(todo)[i] = todo[i + 1]
    BY <1>9, HeadTailProperties, EmptySeq, ElementOfSeq
    DEF Lifecycle, CreateThread
  <2>2. Tail(todo) # <<>> => Len(Tail(todo)) \in Nat \ {0}
    BY <2>1, EmptySeq
  <2>3. ASSUME main' = "create"
        PROVE  /\ \A i \in 1..Len(todo') : at'[todo'[i]] = "none"
               /\ \A i, j \in 1..Len(todo') : todo'[i] = todo'[j] => i = j
               /\ todo'[Len(todo')] = LastThread'
    <3>1. todo' = Tail(todo) /\ n - 1 \in Nat \ {0}
      BY <1>9, <2>1, <2>2, <2>3 DEF CreateThread
    <3>2. \A i \in 1..n - 1 : /\ i + 1 \in 1..n /\ todo'[i] = todo[i + 1]
                              /\ todo'[i] # todo[1] /\ todo'[i] \in Threads
      BY <1>9, <2>1, <3>1, ElementOfSeq DEF Lifecycle, CreateThread
    <3>3. \A i \in 1..n - 1 : at'[todo'[i]] = "none"
      BY <1>9, <2>1, <3>2 DEF Lifecycle, CreateThread, LifeType
    <3>4. todo'[n - 1] = LastThread'
      BY <1>9, <2>1, <3>1, <3>2 DEF Lifecycle, CreateThread, LastThread
    <3>. QED
      BY <1>9, <2>1, <3>1, <3>2, <3>3, <3>4 DEF Lifecycle, CreateThread
  <2>4. stopping' = FALSE /\ main' \in {"create", "run"}
    BY <1>9 DEF Lifecycle, CreateThread, LifeType
  <2>5. asyncCallbackQueue'.shutdown = FALSE
    BY <1>9, <2>4 DEF Lifecycle, CreateThread, host, HostType, IsQueue
  <2>. QED
    BY <1>9, <2>1, <2>3, <2>4, <2>5 DEF Lifecycle, CreateThread
<1>10. CASE StartFails
  <2>1. at[LastThread] = "none"
    BY <1>10, EmptySeq DEF Lifecycle, StartFails
  <2>. QED
    BY <1>10, <2>1
    DEF Lifecycle, StartFails, LastThread, host, LifeType, Created
<1>11. CASE StopBegins
  BY <1>11 DEF Lifecycle, StopBegins, host, LifeType, Created
<1>12. CASE GiveUp
  <2>1. asyncCallbackQueue'.shutdown = Created("async")
    BY <1>12 DEF GiveUp, HostType, IsQueue
  <2>2. Created("async") => mode.rfi /\ ~Created("rfi")
    BY <1>12 DEF GiveUp, Lifecycle, LastThread, Created
  <2>. QED
    BY <1>12, <2>1, <2>2 DEF GiveUp, Lifecycle, Created
<1>13. CASE Rundown /\ ~GiveUp
  <2>1. asyncCallbackQueue'.shutdown = asyncCallbackQueue.shutdown
    BY <1>13
    DEF Rundown, StopShutdown, StopDrain, StopSignal, StopInterrupt,
        PltInterruptThread, PltJoinThread, destroyControlStream, host,
        HostType, IsQueue
  <2>2. /\ UNCHANGED <<stopping, mode, at>>
        /\ main \notin {"create", "run"}
        /\ main' \notin {"create", "run", "giveUp"}
    BY <1>13
    DEF Rundown, StopShutdown, StopDrain, StopSignal, StopInterrupt,
        PltInterruptThread, PltJoinThread, destroyControlStream
  <2>. QED
    BY <2>1, <2>2 DEF Lifecycle, Created
<1>14. CASE UNCHANGED vars
  BY <1>14, RunningLifecycle DEF vars, host
<1>. QED
  BY <1>2, <1>3, <1>4, <1>5, <1>6, <1>7, <1>8, <1>9, <1>10, <1>11, <1>12,
     <1>13, <1>14 DEF Next

-----------------------------------------------------------------------------
(***************************************************************************)
(* The order of losses and acknowledgements                                *)
(***************************************************************************)

LEMMA RangeFacts ==
  /\ \A e \in Ranges : /\ e.invalidate \in BOOLEAN
                       /\ e.start \in Nat /\ e.end \in Nat
                       /\ e = [invalidate |-> e.invalidate, start |-> e.start,
                               end |-> e.end]
  /\ VideoType => /\ control \in Seq(Ranges) /\ Len(control) \in Nat
                  /\ \A i \in 1..Len(control) : control[i] \in Ranges
                  /\ frame \in Nat /\ startFrame \in Nat
                  /\ range \in Ranges
<1>1. MaxFrame \in Nat
  BY ControlAssumption
<1>2. VideoType => control \in Seq(Ranges)
  BY DEF VideoType, IsQueue, control
<1>3. VideoType => \A i \in 1..Len(control) : control[i] \in Ranges
  BY <1>2, ElementOfSeq
<1>4. VideoType => Len(control) \in Nat
  BY <1>2, LenProperties
<1>. QED
  BY <1>1, <1>2, <1>3, <1>4 DEF Ranges, VideoType

(* What a step does to the queue of losses: an entry e is added, the first *)
(* one is taken, it is emptied, or nothing.                                *)
LEMMA ControlAppend ==
  ASSUME VideoType, ControlOrder, NEW e \in Ranges,
         control' = Append(control, e), e.start <= e.end,
         e.end = frame', frame' = frame + 1, e.start \in {startFrame, frame'},
         e.start <= startFrame', startFrame <= startFrame',
         startFrame' \in Nat, startFrame' <= frame' + 1, UNCHANGED range
  PROVE  ControlOrder'
<1>1. /\ control \in Seq(Ranges) /\ Len(control) \in Nat
      /\ Len(control') = Len(control) + 1
      /\ \A i \in 1..Len(control) : control'[i] = control[i]
      /\ control'[Len(control) + 1] = e
  BY RangeFacts, AppendProperties
<1>2. \A i \in 1..Len(control) :
        control[i].start \in Nat /\ control[i].end \in Nat
  BY RangeFacts
<1>3. /\ frame \in Nat /\ startFrame \in Nat
      /\ e.start \in Nat /\ e.end \in Nat
      /\ range.start \in Nat /\ range.end \in Nat
  BY RangeFacts
<1>4. \A i \in 1..Len(control') : i \in 1..Len(control) \/ i = Len(control) + 1
  BY <1>1
<1>5. \A i \in 1..Len(control') :
        /\ control'[i].start <= control'[i].end
        /\ control'[i].start <= startFrame' /\ control'[i].end <= frame'
        /\ control'[i].start <= e.start /\ control'[i].end <= e.end
        /\ range'.start <= control'[i].start /\ range'.end <= control'[i].end
  BY <1>1, <1>2, <1>3, <1>4 DEF ControlOrder
<1>6. Ordered(control)'
  BY <1>1, <1>2, <1>4, <1>5 DEF Ordered, ControlOrder
<1>. QED
  BY <1>3, <1>5, <1>6 DEF ControlOrder

LEMMA ControlEmpty ==
  ASSUME VideoType, ControlOrder, control' = <<>> \/ UNCHANGED control,
         startFrame <= startFrame', frame <= frame', frame' \in Nat,
         startFrame' \in Nat, startFrame' <= frame' + 1,
         range' \in {range, NoRange}
  PROVE  ControlOrder'
<1>1. /\ frame \in Nat /\ startFrame \in Nat
      /\ range.start \in Nat /\ range.end \in Nat
  BY RangeFacts
<1>2. \A i \in 1..Len(control) :
        control[i].start \in Nat /\ control[i].end \in Nat
  BY RangeFacts
<1>3. control' = <<>> => Len(control') = 0
  BY EmptySeq
<1>4. Ordered(control)'
  BY <1>3 DEF ControlOrder, Ordered
<1>5. /\ range'.start \in {range.start, 0} /\ range'.end \in {range.end, 0}
      /\ range'.start <= range'.end
  BY <1>1 DEF ControlOrder, NoRange
<1>6. \A i \in 1..Len(control') :
        /\ control'[i].start <= control'[i].end
        /\ control'[i].start <= startFrame' /\ control'[i].end <= frame'
        /\ range'.start <= control'[i].start /\ range'.end <= control'[i].end
  <2>1. CASE control' = <<>>
    BY <1>3, <2>1
  <2>2. CASE UNCHANGED control
    BY <1>1, <1>2, <1>5, <2>2 DEF ControlOrder
  <2>. QED
    BY <2>1, <2>2
<1>7. range'.start <= startFrame' /\ range'.end <= frame'
  BY <1>1, <1>5 DEF ControlOrder
<1>. QED
  BY <1>4, <1>5, <1>6, <1>7 DEF ControlOrder

(* Taking an entry keeps the order, and the assertion of line 1539 holds.  *)
LEMMA ControlTake ==
  ASSUME VideoType, ControlOrder, TakeControl
  PROVE  /\ ControlOrder'
         /\ control # <<>> /\ control \in Seq(Ranges)
         /\ control' = Tail(control)
         /\ control[1].end >= range.end
<1>1. control # <<>> /\ control \in Seq(Ranges) /\ control' = Tail(control)
  BY DEF TakeControl, HasElement, VideoType, IsQueue, control, Poll
<1>2. /\ Len(control) \in Nat \ {0} /\ Head(control) = control[1]
      /\ Len(Tail(control)) = Len(control) - 1
      /\ \A i \in 1..Len(control) - 1 : Tail(control)[i] = control[i + 1]
  BY <1>1, HeadTailProperties, EmptySeq
<1>3. \A i \in 1..Len(control) :
        control[i].start \in Nat /\ control[i].end \in Nat
  BY RangeFacts
<1>4. range.start \in Nat /\ range.end \in Nat
  BY RangeFacts
<1>5. /\ range.start <= range.end /\ control[1].start <= control[1].end
      /\ range.end <= control[1].end
  BY <1>2 DEF ControlOrder
<1>6. /\ range'.end \in {range.end, control[1].end}
      /\ range'.start \in {range.start, control[1].start}
      /\ range'.start <= range'.end
  <2>1. range' \in {range, control[1], [range EXCEPT !.end = control[1].end]}
    BY <1>2, Zenon DEF TakeControl, Aggregate, control
  <2>2. LET r == [range EXCEPT !.end = control[1].end]
        IN  r.start = range.start /\ r.end = control[1].end
    BY RangeFacts DEF Ranges
  <2>3. CASE range' \in {range, control[1]}
    BY <1>5, <2>3
  <2>4. CASE range' = [range EXCEPT !.end = control[1].end]
    BY <1>2, <1>3, <1>4, <1>5, <2>2, <2>4
  <2>. QED
    BY <2>1, <2>3, <2>4
<1>7. \A i \in 1..Len(control') :
        /\ i + 1 \in 1..Len(control) /\ control'[i] = control[i + 1]
        /\ range'.start <= control'[i].start /\ range'.end <= control'[i].end
  BY <1>1, <1>2, <1>3, <1>4, <1>6 DEF ControlOrder, Ordered
<1>8. Ordered(control)'
  <2>. SUFFICES ASSUME NEW i \in 1..Len(control'), NEW j \in 1..Len(control'),
                       i <= j
                PROVE  /\ control'[i].start <= control'[j].start
                       /\ control'[i].end <= control'[j].end
    BY DEF Ordered
  <2>. QED
    BY <1>2, <1>7 DEF ControlOrder, Ordered
<1>9. /\ range'.start <= startFrame /\ range'.end <= frame
      /\ UNCHANGED <<frame, startFrame>>
  BY <1>2, <1>6 DEF ControlOrder, TakeControl
<1>. QED
  BY <1>1, <1>2, <1>6, <1>7, <1>8, <1>9 DEF ControlOrder

(* A step that leaves the queue of losses and the range in hand alone      *)
LEMMA OrderUntouched ==
  ASSUME TypeOK, ControlOrder, AssertsHold,
         UNCHANGED <<control, range, frame, startFrame, asserts>>
  PROVE  ControlOrder' /\ AssertsHold'
BY DEF ControlOrder, Ordered, AssertsHold

LEMMA NextControlOrder ==
  ASSUME TypeOK, Lifecycle, ControlOrder, AssertsHold, [Next]_vars
  PROVE  ControlOrder' /\ AssertsHold'
<1>1. /\ VideoType /\ frame \in Nat /\ startFrame \in Nat /\ MaxFrame \in Nat
      /\ range \in Ranges
  BY RangeFacts, ControlAssumption DEF TypeOK
<1>2. CASE connectionDetectedFrameLoss
  <2>. DEFINE e == [invalidate |-> TRUE, start |-> startFrame, end |-> frame + 1]
  <2>1. /\ e \in Ranges /\ e.start = startFrame /\ e.end = frame + 1
        /\ frame' = frame + 1 /\ UNCHANGED <<startFrame, range>>
        /\ startFrame <= frame + 1
    BY <1>1, <1>2 DEF VideoType, ControlOrder, Ranges, connectionDetectedFrameLoss
  <2>2. AssertsHold'
    BY <1>2, <2>1
    DEF connectionDetectedFrameLoss, queueFrameInvalidationTuple, AssertsHold
  <2>3. OfferControl(e) \/ LiRequestIdrFrame("video")
    BY <1>2 DEF connectionDetectedFrameLoss, queueFrameInvalidationTuple
  <2>. HIDE DEF e
  <2>4. control' = Append(control, e) \/ control' = <<>>
    BY <1>1, <2>1, <2>3, OfferControlFacts, RequestFacts
  <2>5. CASE control' = Append(control, e)
    BY <1>1, <2>1, <2>2, <2>5, ControlAppend
  <2>6. CASE control' = <<>>
    BY <1>1, <2>1, <2>2, <2>6, ControlEmpty
  <2>. QED
    BY <2>4, <2>5, <2>6
<1>3. CASE \E frameIsLTR \in BOOLEAN :
             connectionReceivedCompleteFrame(frameIsLTR)
  <2>. DEFINE e == [invalidate |-> FALSE, start |-> frame + 1, end |-> frame + 1]
  <2>1. /\ e \in Ranges /\ e.start = frame + 1 /\ e.end = frame + 1
        /\ frame' = frame + 1 /\ startFrame' = frame + 2
        /\ UNCHANGED <<range, asserts>> /\ startFrame <= frame + 1
    BY <1>1, <1>3
    DEF VideoType, ControlOrder, Ranges, connectionReceivedCompleteFrame
  <2>2. OfferControl(e) \/ UNCHANGED referenceFrameControlQueue
    BY <1>3 DEF connectionReceivedCompleteFrame
  <2>. HIDE DEF e
  <2>3. \/ control' = Append(control, e) \/ control' = <<>>
        \/ UNCHANGED control
    BY <1>1, <2>1, <2>2, OfferControlFacts DEF control
  <2>4. CASE control' = Append(control, e)
    BY <1>1, <2>1, <2>4, ControlAppend DEF AssertsHold
  <2>5. CASE control' = <<>> \/ UNCHANGED control
    BY <1>1, <2>1, <2>5, ControlEmpty DEF AssertsHold
  <2>. QED
    BY <2>3, <2>4, <2>5
<1>4. CASE DecoderNeedsIdr
  <2>1. control' = <<>>
    BY <1>1, <1>4, RequestFacts DEF DecoderNeedsIdr
  <2>. QED
    BY <1>1, <1>4, <2>1, ControlEmpty
    DEF DecoderNeedsIdr, AssertsHold, ControlOrder
<1>5. CASE \/ \E c \in {"video", "decoder"} : SetIdrFrameRequired(c)
           \/ IdrLoop \/ PltWaitForEvent \/ PltClearEvent \/ requestIdrFrame
           \/ RfiLoop
  BY <1>5, OrderUntouched
  DEF SetIdrFrameRequired, IdrLoop, PltWaitForEvent, PltClearEvent,
      requestIdrFrame, RfiLoop, video, control
<1>6. CASE IdrCheck
  <2>1. control' = <<>> \/ UNCHANGED control
    BY <1>1, <1>6 DEF IdrCheck, Flush, VideoType, IsQueue, control
  <2>. QED
    BY <1>1, <1>6, <2>1, ControlEmpty DEF IdrCheck, AssertsHold, ControlOrder
<1>7. ASSUME TakeControl
      PROVE  ControlOrder' /\ AssertsHold'
  <2>1. /\ ControlOrder' /\ Head(control) = control[1]
        /\ control[1].end >= range.end
    BY <1>1, <1>7, ControlTake
  <2>. QED
    BY <1>7, <2>1 DEF TakeControl, AssertsHold, control
<1>8. CASE ~TakeControl /\ (RfiWait \/ RfiPoll)
  BY <1>8, OrderUntouched DEF RfiWait, RfiPoll, video, control
<1>9. CASE requestInvalidateReferenceFrames
  <2>1. ControlOrder'
    BY <1>1, <1>9, ControlEmpty
    DEF requestInvalidateReferenceFrames, control, ControlOrder
  <2>. QED
    BY <1>9, <2>1
    DEF requestInvalidateReferenceFrames, AssertsHold, ControlOrder
<1>10. CASE \/ AsyncThread \/ ReceiveMessage \/ queueAsyncCallback
            \/ ReceiveEnds \/ StatsEnds \/ CreateThread \/ StartFails
            \/ StopBegins
  <2>1. UNCHANGED <<video, asserts>>
    BY <1>10
    DEF AsyncThread, AsyncWait, AsyncPeek, AsyncPoll, AsyncCall,
        ReceiveMessage, queueAsyncCallback, ReceiveEnds, StatsEnds,
        CreateThread, StartFails, StopBegins
  <2>. QED
    BY <2>1, OrderUntouched DEF video, control
<1>11. CASE Rundown
  <2>1. UNCHANGED <<control, range, frame, startFrame>>
    BY <1>1, <1>11
    DEF Rundown, GiveUp, StopShutdown, StopDrain, StopSignal, StopInterrupt,
        PltInterruptThread, PltJoinThread, destroyControlStream, video,
        control, VideoType, IsQueue
  <2>2. AssertsHold'
    BY <1>11
    DEF Rundown, GiveUp, StopShutdown, StopDrain, StopSignal, StopInterrupt,
        PltInterruptThread, PltJoinThread, destroyControlStream,
        Lifecycle, AssertsHold
  <2>. QED
    BY <2>1, <2>2 DEF ControlOrder, Ordered
<1>12. CASE UNCHANGED vars
  BY <1>12, OrderUntouched DEF vars, video, control
<1>. QED
  BY <1>2, <1>3, <1>4, <1>5, <1>6, <1>7, <1>8, <1>9, <1>10, <1>11, <1>12
  DEF Next, IdrThread, RfiThread, RfiWait, RfiPoll

-----------------------------------------------------------------------------
(***************************************************************************)
(* No loss is forgotten                                                    *)
(***************************************************************************)
OnRecord(f) ==
  \/ \E i \in 1..Len(control) : Covers(control[i], f)
  \/ Covers(range, f)
  \/ IdrComing

(* A step after which everything is on record that was                     *)
LEMMA StillOnRecord ==
  ASSUME NoLossForgotten, stopping => stopping', terminated => terminated',
         ~stopping' /\ ~terminated' =>
           \A f \in open' : f \in open /\ (OnRecord(f) => OnRecord(f)')
  PROVE  NoLossForgotten'
<1>. SUFFICES ASSUME ~stopping', ~terminated', NEW f \in open'
              PROVE  OnRecord(f)'
  BY DEF NoLossForgotten, OnRecord, control
<1>1. OnRecord(f)
  BY DEF NoLossForgotten, OnRecord, control
<1>. QED
  BY <1>1

LEMMA RecordUntouched ==
  ASSUME NoLossForgotten, UNCHANGED <<control, range>>, open' \subseteq open,
         stopping => stopping', terminated => terminated',
         IdrComing => IdrComing'
  PROVE  NoLossForgotten'
<1>1. \A f : OnRecord(f) => OnRecord(f)'
  BY DEF OnRecord, Covers
<1>. QED
  BY <1>1, StillOnRecord

LEMMA IdrComes ==
  ASSUME IdrComing'
  PROVE  NoLossForgotten'
BY DEF NoLossForgotten

(* An entry that is added covers what it is about.                         *)
LEMMA AppendOnRecord ==
  ASSUME VideoType, NEW e \in Ranges, control' = Append(control, e),
         UNCHANGED <<range, caller, idrFrameRequiredEvent, at>>
  PROVE  \A f : /\ OnRecord(f) => OnRecord(f)'
                /\ Covers(e, f) => OnRecord(f)'
<1>1. /\ control \in Seq(Ranges) /\ Len(control) \in Nat
      /\ Len(control') = Len(control) + 1
      /\ \A i \in 1..Len(control) : control'[i] = control[i]
      /\ control'[Len(control) + 1] = e
  BY RangeFacts, AppendProperties
<1>2. /\ \A i \in 1..Len(control) : i \in 1..Len(control')
      /\ Len(control) + 1 \in 1..Len(control')
  BY <1>1
<1>3. \A f : Covers(e, f) => OnRecord(f)'
  BY <1>1, <1>2 DEF OnRecord
<1>4. ASSUME NEW f, OnRecord(f)
      PROVE  OnRecord(f)'
  <2>1. CASE \E i \in 1..Len(control) : Covers(control[i], f)
    <3>1. PICK i \in 1..Len(control) : Covers(control[i], f)
      BY <2>1
    <3>2. i \in 1..Len(control') /\ Covers(control'[i], f)
      BY <1>1, <1>2, <3>1
    <3>. QED
      BY <3>2 DEF OnRecord
  <2>2. CASE Covers(range, f) \/ IdrComing
    BY <2>2 DEF OnRecord, IdrComing, Covers
  <2>. QED
    BY <1>4, <2>1, <2>2 DEF OnRecord
<1>. QED
  BY <1>3, <1>4

(* What "rfi" takes from the queue is in its range afterwards.             *)
LEMMA TakeOnRecord ==
  ASSUME TypeOK, ControlOrder, TakeControl
  PROVE  \A f : f \in Nat /\ OnRecord(f) => OnRecord(f)'
<1>. DEFINE e == control[1]
<1>1. /\ control # <<>> /\ control \in Seq(Ranges) /\ control' = Tail(control)
      /\ e.end >= range.end /\ Head(control) = e
  BY ControlTake DEF TypeOK
<1>2. /\ Len(control) \in Nat \ {0}
      /\ Len(control') = Len(control) - 1
      /\ \A i \in 1..Len(control) - 1 : control'[i] = control[i + 1]
      /\ e \in Ranges /\ range \in Ranges
  BY <1>1, HeadTailProperties, EmptySeq, RangeFacts DEF TypeOK
<1>3. /\ e.start \in Nat /\ e.end \in Nat /\ e.start <= e.end
      /\ range.start \in Nat /\ range.end \in Nat /\ range.start <= e.start
  BY <1>2, RangeFacts DEF ControlOrder
<1>4. ASSUME NEW f \in Nat, Covers(e, f) \/ Covers(range, f)
      PROVE  Covers(range', f)
  <2>1. CASE e.invalidate
    <3>1. range' = Aggregate(e)
      BY <1>1, <2>1 DEF TakeControl, control
    <3>2. CASE range.invalidate
      <4>1. /\ range'.invalidate /\ range'.start = range.start
            /\ range'.end = e.end
        BY <1>2, <3>1, <3>2 DEF Aggregate, Ranges
      <4>. QED
        BY <1>1, <1>3, <1>4, <4>1 DEF Covers
    <3>3. CASE ~range.invalidate
      BY <1>4, <3>1, <3>3 DEF Aggregate, Covers
    <3>. QED
      BY <3>2, <3>3
  <2>2. CASE ~e.invalidate
    BY <1>1, <1>4, <2>2 DEF TakeControl, Covers, control
  <2>. QED
    BY <2>1, <2>2
<1>5. IdrComing => IdrComing'
  BY DEF TakeControl, IdrComing, Goto, TypeOK, LifeType
<1>6. ASSUME NEW f \in Nat, OnRecord(f)
      PROVE  OnRecord(f)'
  <2>1. CASE \E i \in 1..Len(control) : Covers(control[i], f)
    <3>1. PICK i \in 1..Len(control) : Covers(control[i], f)
      BY <2>1
    <3>2. CASE i = 1
      BY <1>4, <3>1, <3>2 DEF OnRecord
    <3>3. CASE i # 1
      <4>1. i - 1 \in 1..Len(control') /\ control'[i - 1] = control[i]
        BY <1>2, <3>3
      <4>. QED
        BY <3>1, <4>1 DEF OnRecord
    <3>. QED
      BY <3>2, <3>3
  <2>. QED
    BY <1>4, <1>5, <1>6, <2>1 DEF OnRecord
<1>. QED
  BY <1>6

LEMMA NextNoLossForgotten ==
  ASSUME TypeOK, Lifecycle, ControlOrder, NoLossForgotten, [Next]_vars
  PROVE  NoLossForgotten'
<1>1. /\ VideoType /\ LifeType /\ range \in Ranges /\ frame \in Nat
      /\ startFrame \in Nat /\ MaxFrame \in Nat /\ open \subseteq Nat
      /\ "idr" \in Threads
  BY RangeFacts, ControlAssumption DEF TypeOK, VideoType, Threads
<1>2. CASE connectionDetectedFrameLoss
  <2>. DEFINE e == [invalidate |-> TRUE, start |-> startFrame, end |-> frame + 1]
  <2>1. e \in Ranges
    BY <1>1, <1>2 DEF VideoType, ControlOrder, Ranges, connectionDetectedFrameLoss
  <2>2. OfferControl(e) \/ LiRequestIdrFrame("video")
    BY <1>2 DEF connectionDetectedFrameLoss, queueFrameInvalidationTuple
  <2>3. \A f \in open' : f \in open \/ Covers(e, f)
    BY <1>2 DEF connectionDetectedFrameLoss, Covers
  <2>. HIDE DEF e
  <2>4. CASE caller'["video"] = "set"
    BY <2>4, IdrComes DEF IdrComing
  <2>5. CASE caller'["video"] # "set"
    <3>1. /\ control' = Append(control, e)
          /\ UNCHANGED <<range, caller, idrFrameRequiredEvent, at, stopping,
                         terminated>>
      BY <1>1, <1>2, <2>1, <2>2, <2>5, OfferControlFacts, RequestFacts
      DEF connectionDetectedFrameLoss, life
    <3>2. \A f \in open' : (f \in open => OnRecord(f)) => OnRecord(f)'
      BY <1>1, <2>1, <2>3, <3>1, AppendOnRecord
    <3>. QED
      BY <3>1, <3>2 DEF NoLossForgotten, OnRecord, control
  <2>. QED
    BY <2>4, <2>5
<1>3. CASE \E frameIsLTR \in BOOLEAN :
             connectionReceivedCompleteFrame(frameIsLTR)
  <2>. DEFINE e == [invalidate |-> FALSE, start |-> frame + 1, end |-> frame + 1]
  <2>1. e \in Ranges
    BY <1>1, <1>3 DEF VideoType, Ranges, connectionReceivedCompleteFrame
  <2>2. OfferControl(e) \/ UNCHANGED <<referenceFrameControlQueue, caller>>
    BY <1>3 DEF connectionReceivedCompleteFrame
  <2>3. UNCHANGED <<range, idrFrameRequiredEvent, at, stopping, terminated, open>>
    BY <1>3 DEF connectionReceivedCompleteFrame, life
  <2>. HIDE DEF e
  <2>4. \/ caller'["video"] = "set"
        \/ control' = Append(control, e) /\ UNCHANGED caller
        \/ UNCHANGED <<control, caller>>
    BY <1>1, <2>1, <2>2, OfferControlFacts DEF control
  <2>5. CASE caller'["video"] = "set"
    BY <2>5, IdrComes DEF IdrComing
  <2>6. CASE control' = Append(control, e) /\ UNCHANGED caller
    <3>1. \A f : OnRecord(f) => OnRecord(f)'
      BY <1>1, <2>1, <2>3, <2>6, AppendOnRecord
    <3>. QED
      BY <2>3, <3>1, StillOnRecord
  <2>7. CASE UNCHANGED <<control, caller>>
    BY <2>3, <2>7, RecordUntouched DEF IdrComing
  <2>. QED
    BY <2>4, <2>5, <2>6, <2>7
<1>4. CASE DecoderNeedsIdr
  <2>1. caller'["decoder"] = "set"
    BY <1>1, <1>4, RequestFacts DEF DecoderNeedsIdr
  <2>. QED
    BY <2>1, IdrComes DEF IdrComing
<1>5. CASE \E c \in {"video", "decoder"} : SetIdrFrameRequired(c)
  BY <1>5, IdrComes DEF SetIdrFrameRequired, IdrComing
<1>6. CASE IdrLoop
  <2>1. at["idr"] = "loop" /\ UNCHANGED <<life, video, terminated>>
    BY <1>6 DEF IdrLoop
  <2>. QED
    BY <2>1, RecordUntouched DEF IdrComing, life, video, control
<1>7. CASE PltWaitForEvent \/ PltClearEvent
  <2>1. at'["idr"] \in {"clear", "check"}
    BY <1>1, <1>7 DEF PltWaitForEvent, PltClearEvent, Goto, LifeType
  <2>. QED
    BY <2>1, IdrComes DEF IdrComing
<1>8. CASE IdrCheck
  <2>1. stopping' \/ at'["idr"] = "send"
    BY <1>1, <1>8 DEF IdrCheck, Goto, LifeType, life
  <2>. QED
    BY <2>1 DEF NoLossForgotten, IdrComing
<1>9. CASE requestIdrFrame
  BY <1>9 DEF requestIdrFrame, NoLossForgotten
<1>10. CASE RfiLoop
  <2>1. IdrComing => IdrComing'
    BY <1>1, <1>10 DEF RfiLoop, IdrComing, Goto, LifeType, video
  <2>. QED
    BY <1>10, <2>1, RecordUntouched DEF RfiLoop, life, video, control
<1>11. ASSUME TakeControl
       PROVE  NoLossForgotten'
  <2>1. \A f \in open' : f \in open /\ (OnRecord(f) => OnRecord(f)')
    BY <1>1, <1>11, TakeOnRecord DEF TakeControl
  <2>2. UNCHANGED stopping
    BY <1>11 DEF TakeControl, life
  <2>3. terminated => terminated'
    <3>1. terminated' = terminated \/ terminated' = TRUE
      BY <1>11 DEF TakeControl
    <3>. QED
      BY <3>1, Zenon
  <2>. QED
    BY <2>1, <2>2, <2>3, StillOnRecord
<1>12. CASE ~TakeControl /\ (RfiWait \/ RfiPoll)
  <2>1. IdrComing => IdrComing'
    BY <1>1, <1>12 DEF RfiWait, RfiPoll, IdrComing, Goto, LifeType, video
  <2>2. UNCHANGED <<life, video, terminated>>
    BY <1>12 DEF RfiWait, RfiPoll
  <2>. QED
    BY <2>1, <2>2, RecordUntouched DEF life, video, control
<1>13. CASE requestInvalidateReferenceFrames
  <2>1. IdrComing => IdrComing'
    BY <1>1, <1>13
    DEF requestInvalidateReferenceFrames, IdrComing, Goto, LifeType
  <2>2. UNCHANGED <<control, stopping>> /\ (terminated => terminated')
    BY <1>13 DEF requestInvalidateReferenceFrames, life, control
  <2>3. ~terminated' => \A f \in open' : f \in open /\ ~Covers(range, f)
    BY <1>1, <1>13 DEF requestInvalidateReferenceFrames, Covers, LifeType
  <2>4. \A f : ~Covers(range, f) /\ OnRecord(f) => OnRecord(f)'
    BY <2>1, <2>2 DEF OnRecord
  <2>. QED
    BY <2>2, <2>3, <2>4, StillOnRecord
<1>14. CASE \/ AsyncThread \/ ReceiveMessage \/ queueAsyncCallback
            \/ ReceiveEnds \/ StatsEnds
  <2>1. UNCHANGED <<life, video>> /\ (terminated => terminated')
    BY <1>14
    DEF AsyncThread, AsyncWait, AsyncPeek, AsyncPoll, AsyncCall,
        ReceiveMessage, queueAsyncCallback, ReceiveEnds, StatsEnds
  <2>2. at'["idr"] = at["idr"]
    BY <1>1, <1>14
    DEF AsyncThread, AsyncWait, AsyncPeek, AsyncPoll, AsyncCall,
        ReceiveMessage, queueAsyncCallback, ReceiveEnds, StatsEnds, Goto,
        LifeType
  <2>. QED
    BY <2>1, <2>2, RecordUntouched DEF life, video, IdrComing, control
<1>15. CASE CreateThread
  <2>1. /\ Head(todo) = todo[1] /\ at[todo[1]] = "none"
        /\ UNCHANGED <<video, stopping, terminated>>
    BY <1>15, EmptySeq DEF CreateThread, Lifecycle
  <2>2. at["idr"] \in {"clear", "check", "send"} => at'["idr"] = at["idr"]
    BY <1>1, <1>15, <2>1 DEF CreateThread, LifeType
  <2>. QED
    BY <2>1, <2>2, RecordUntouched DEF video, IdrComing, control
<1>16. CASE StartFails \/ StopBegins \/ Rundown
  <2>1. stopping'
    BY <1>16
    DEF StartFails, StopBegins, Rundown, GiveUp, StopShutdown, StopDrain,
        StopSignal, StopInterrupt, PltInterruptThread, PltJoinThread,
        destroyControlStream, Lifecycle
  <2>. QED
    BY <2>1 DEF NoLossForgotten
<1>17. CASE UNCHANGED vars
  BY <1>17, RecordUntouched DEF vars, life, video, IdrComing, control
<1>. QED
  BY <1>2, <1>3, <1>4, <1>5, <1>6, <1>7, <1>8, <1>9, <1>10, <1>11, <1>12,
     <1>13, <1>14, <1>15, <1>16, <1>17
  DEF Next, IdrThread, RfiThread, RfiWait, RfiPoll

-----------------------------------------------------------------------------
(***************************************************************************)
(* The callbacks                                                           *)
(***************************************************************************)

(* A message that is queued is the last one for its key.                   *)
LEMMA AppendKeys ==
  ASSUME NEW S, NEW s \in Seq(S), NEW m \in S
  PROVE  /\ \A k : HasKey(Append(s, m), k) <=> HasKey(s, k) \/ k = Key(m)
         /\ LastSays(Append(s, m), Key(m), m.value)
         /\ \A k, v : k # Key(m) /\ LastSays(s, k, v)
                        => LastSays(Append(s, m), k, v)
<1>. DEFINE a == Append(s, m)
            n == Len(s)
<1>1. /\ n \in Nat /\ Len(a) = n + 1
      /\ \A i \in 1..n : a[i] = s[i]
      /\ a[n + 1] = m
  BY AppendProperties, LenProperties
<1>2. /\ \A i \in 1..Len(a) : i \in 1..n \/ i = n + 1
      /\ \A i \in 1..n : i \in 1..Len(a) /\ i < n + 1
      /\ n + 1 \in 1..Len(a)
  BY <1>1
<1>. HIDE DEF a, n
<1>3. ASSUME NEW k
      PROVE  HasKey(a, k) <=> HasKey(s, k) \/ k = Key(m)
  BY <1>1, <1>2 DEF HasKey, n
<1>4. LastSays(a, Key(m), m.value)
  <2>. SUFFICES ASSUME NEW i \in 1..Len(a),
                       \A j \in 1..Len(a) : i < j => Key(a[j]) # Key(m)
                PROVE  a[i].value = m.value
    BY DEF LastSays
  <2>1. i = n + 1
    BY <1>1, <1>2
  <2>. QED
    BY <1>1, <2>1
<1>5. ASSUME NEW k, NEW v, k # Key(m), LastSays(s, k, v)
      PROVE  LastSays(a, k, v)
  <2>. SUFFICES ASSUME NEW i \in 1..Len(a), Key(a[i]) = k,
                       \A j \in 1..Len(a) : i < j => Key(a[j]) # k
                PROVE  a[i].value = v
    BY DEF LastSays
  <2>1. i \in 1..n
    BY <1>1, <1>2, <1>5
  <2>2. Key(s[i]) = k /\ \A j \in 1..n : i < j => Key(s[j]) # k
    BY <1>1, <1>2, <2>1
  <2>. QED
    BY <1>1, <1>5, <2>1, <2>2 DEF LastSays, n
<1>. QED
  BY <1>3, <1>4, <1>5 DEF a

(* Taking the first message leaves the last ones.                          *)
LEMMA TailKeys ==
  ASSUME NEW S, NEW s \in Seq(S), s # <<>>
  PROVE  /\ Head(s) = s[1]
         /\ \A k : HasKey(s, k) <=> HasKey(Tail(s), k) \/ k = Key(s[1])
         /\ \A k, v : LastSays(s, k, v) => LastSays(Tail(s), k, v)
         /\ \A v : LastSays(s, Key(s[1]), v) /\ ~HasKey(Tail(s), Key(s[1]))
                     => s[1].value = v
<1>. DEFINE r == Tail(s)
            n == Len(s)
<1>1. /\ n \in Nat \ {0} /\ Len(r) = n - 1
      /\ \A i \in 1..n - 1 : r[i] = s[i + 1]
  BY HeadTailProperties, EmptySeq
<1>2. /\ \A i \in 1..Len(r) : i + 1 \in 1..n /\ 1 < i + 1
      /\ \A i \in 1..n : i = 1 \/ i - 1 \in 1..Len(r)
      /\ 1 \in 1..n
  BY <1>1
<1>3. \A i \in 1..n : i # 1 => s[i] = r[i - 1] /\ i - 1 \in 1..Len(r)
  BY <1>1, <1>2
<1>. HIDE DEF r, n
<1>4. ASSUME NEW k
      PROVE  HasKey(s, k) <=> HasKey(r, k) \/ k = Key(s[1])
  <2>1. HasKey(r, k) => HasKey(s, k)
    BY <1>1, <1>2 DEF HasKey, n
  <2>2. HasKey(s, k) => HasKey(r, k) \/ k = Key(s[1])
    BY <1>3 DEF HasKey, n
  <2>. QED
    BY <1>2, <2>1, <2>2 DEF HasKey, n
<1>5. ASSUME NEW k, NEW v, LastSays(s, k, v)
      PROVE  LastSays(r, k, v)
  <2>. SUFFICES ASSUME NEW i \in 1..Len(r), Key(r[i]) = k,
                       \A j \in 1..Len(r) : i < j => Key(r[j]) # k
                PROVE  r[i].value = v
    BY DEF LastSays
  <2>1. i + 1 \in 1..n /\ r[i] = s[i + 1]
    BY <1>1, <1>2
  <2>2. ASSUME NEW j \in 1..n, i + 1 < j
        PROVE  Key(s[j]) # k
    <3>1. j # 1 /\ i < j - 1
      BY <2>1, <2>2
    <3>. QED
      BY <1>3, <3>1
  <2>. QED
    BY <1>5, <2>1, <2>2 DEF LastSays, n
<1>6. ASSUME NEW v, LastSays(s, Key(s[1]), v), ~HasKey(r, Key(s[1]))
      PROVE  s[1].value = v
  <2>1. \A j \in 1..n : 1 < j => Key(s[j]) # Key(s[1])
    BY <1>3, <1>6 DEF HasKey
  <2>. QED
    BY <1>2, <1>6, <2>1 DEF LastSays, n
<1>. QED
  BY <1>4, <1>5, <1>6 DEF r

(* A step that leaves what the host sent, "recv" and "async" alone         *)
LEMMA CallbacksUntouched ==
  ASSUME Callbacks, UNCHANGED host, at'["recv"] = at["recv"],
         at'["async"] = at["async"]
  PROVE  Callbacks'
<1>1. CallbackThreads'
  BY DEF Callbacks, CallbackThreads, host, callbacks
<1>2. ASSUME NEW k
      PROVE  PendingState(k)' <=> PendingState(k)
  BY DEF PendingState, HasKey, LastSays, InHand, host, callbacks
<1>3. PendingHdr'
  BY DEF Callbacks, PendingHdr, HasKey, InHand, host, callbacks
<1>. QED
  BY <1>1, <1>2, <1>3 DEF Callbacks

(* "recv" takes a message from the network and queues it.                  *)
LEMMA ReceiveCallbacks ==
  ASSUME TypeOK, Callbacks, ReceiveMessage \/ queueAsyncCallback \/ ReceiveEnds
  PROVE  Callbacks'
<1>. DEFINE q == asyncCallbackQueue
            m == queuedCb["recv"]
<1>1. /\ HostType /\ LifeType /\ {"recv", "async"} \subseteq Threads
      /\ callbacks \in Seq(Messages)
  BY DEF TypeOK, Threads, HostType, IsQueue, callbacks
<1>2. CASE ReceiveMessage
  <2>1. Head(inbox) \in Messages
    BY <1>1, <1>2, HeadTailProperties DEF HostType, ReceiveMessage
  <2>2. /\ at'["recv"] = "queue" /\ at'["async"] = at["async"]
        /\ queuedCb'["recv"] = Head(inbox)
        /\ queuedCb'["async"] = queuedCb["async"]
        /\ UNCHANGED <<asyncCallbackQueue, latest, delivered, hdrDropped>>
    BY <1>1, <1>2 DEF ReceiveMessage, Goto, LifeType, HostType
  <2>3. CallbackThreads'
    BY <2>1, <2>2 DEF Callbacks, CallbackThreads, callbacks
  <2>4. ASSUME NEW k
        PROVE  PendingState(k)' <=> PendingState(k)
    BY <2>2 DEF PendingState, HasKey, LastSays, InHand, callbacks
  <2>5. PendingHdr'
    <3>1. CASE Head(inbox).type = "hdr"
      BY <2>2, <3>1 DEF PendingHdr
    <3>2. CASE Head(inbox).type # "hdr"
      <4>1. hdrEnabled' = hdrEnabled /\ at["recv"] = "loop"
        BY <1>2, <3>2 DEF ReceiveMessage
      <4>. QED
        BY <2>2, <4>1 DEF Callbacks, PendingHdr, HasKey, InHand, callbacks
    <3>. QED
      BY <3>1, <3>2
  <2>. QED
    BY <2>3, <2>4, <2>5 DEF Callbacks
<1>3. CASE queueAsyncCallback
  <2>1. m \in Messages /\ (Key(m) = <<"hdr">> <=> m.type = "hdr")
    BY <1>3, MessageFacts DEF Callbacks, CallbackThreads, queueAsyncCallback
  <2>2. /\ at'["recv"] = "loop" /\ at'["async"] = at["async"]
        /\ queuedCb'["async"] = queuedCb["async"]
        /\ UNCHANGED <<delivered, hdrEnabled>> /\ at["recv"] = "queue"
    BY <1>1, <1>3 DEF queueAsyncCallback, Goto, LifeType, HostType
  <2>3. CASE ~q.shutdown /\ ~q.draining /\ ~Full(q, AsyncBound)
    <3>1. /\ callbacks' = Append(callbacks, m)
          /\ asyncCallbackQueue'.shutdown = q.shutdown
          /\ asyncCallbackQueue'.draining = q.draining
          /\ UNCHANGED hdrDropped
          /\ latest' = IF m.type = "hdr" THEN latest
                       ELSE [latest EXCEPT ![Key(m)] = m.value]
      BY <1>1, <1>3, <2>3
      DEF queueAsyncCallback, Offer, callbacks, HostType, IsQueue
    <3>2. callbacks # <<>> => callbacks'[1] = callbacks[1]
      BY <1>1, <3>1, AppendProperties, EmptySeq
    <3>3. callbacks' # <<>>
      BY <1>1, <2>1, <3>1, AppendProperties, EmptySeq
    <3>4. /\ \A k : HasKey(callbacks', k) <=> HasKey(callbacks, k) \/ k = Key(m)
          /\ LastSays(callbacks', Key(m), m.value)
          /\ \A k, v : k # Key(m) /\ LastSays(callbacks, k, v)
                         => LastSays(callbacks', k, v)
      <4>1. /\ callbacks \in Seq(Messages) /\ m \in Messages
            /\ callbacks' = Append(callbacks, m)
        BY <1>1, <2>1, <3>1
      <4>. HIDE DEF m
      <4>. QED
        BY <4>1, AppendKeys, Zenon
    <3>5. CallbackThreads'
      BY <2>2, <2>3, <3>1, <3>2, <3>3 DEF Callbacks, CallbackThreads
    <3>6. ASSUME NEW k \in Keys, k # <<"hdr">>
          PROVE  PendingState(k)'
      <4>1. PendingState(k) /\ (InHand(k)' <=> InHand(k))
        BY <2>2, <3>6 DEF Callbacks, InHand
      <4>2. CASE k = Key(m)
        <5>1. latest'[k] = m.value
          BY <1>1, <2>1, <3>1, <3>6, <4>2 DEF HostType
        <5>2. HasKey(callbacks', k) /\ LastSays(callbacks', k, m.value)
          BY <3>4, <4>2
        <5>. QED
          BY <5>1, <5>2 DEF PendingState
      <4>3. CASE k # Key(m)
        <5>1. latest'[k] = latest[k]
          BY <1>1, <3>1, <4>3 DEF HostType
        <5>2. /\ HasKey(callbacks', k) <=> HasKey(callbacks, k)
              /\ LastSays(callbacks, k, latest[k])
                   => LastSays(callbacks', k, latest[k])
          BY <3>4, <4>3
        <5>. QED
          BY <2>2, <4>1, <5>1, <5>2 DEF PendingState
      <4>. QED
        BY <4>2, <4>3
    <3>7. PendingHdr'
      <4>1. HasKey(callbacks', <<"hdr">>)
              <=> HasKey(callbacks, <<"hdr">>) \/ m.type = "hdr"
        BY <2>1, <3>4
      <4>. QED
        BY <2>2, <3>1, <4>1 DEF Callbacks, PendingHdr, InHand
    <3>. QED
      BY <3>5, <3>6, <3>7 DEF Callbacks
  <2>4. CASE q.shutdown \/ q.draining \/ Full(q, AsyncBound)
    <3>1. /\ UNCHANGED <<asyncCallbackQueue, latest>>
          /\ hdrDropped' = (hdrDropped \/ m.type = "hdr")
      BY <1>3, <2>4 DEF queueAsyncCallback
    <3>2. CallbackThreads'
      BY <2>2, <3>1 DEF Callbacks, CallbackThreads, callbacks
    <3>3. ASSUME NEW k
          PROVE  PendingState(k)' <=> PendingState(k)
      BY <2>2, <3>1 DEF PendingState, HasKey, LastSays, InHand, callbacks
    <3>4. PendingHdr'
      BY <2>2, <3>1 DEF Callbacks, PendingHdr, HasKey, InHand, callbacks
    <3>. QED
      BY <3>2, <3>3, <3>4 DEF Callbacks
  <2>. QED
    BY <2>3, <2>4
<1>4. CASE ReceiveEnds
  <2>1. /\ at'["recv"] = "done" /\ at["recv"] = "loop"
        /\ at'["async"] = at["async"] /\ UNCHANGED host
    BY <1>1, <1>4 DEF ReceiveEnds, Goto, LifeType
  <2>2. CallbackThreads'
    BY <2>1 DEF Callbacks, CallbackThreads, callbacks, host
  <2>3. ASSUME NEW k
        PROVE  PendingState(k)' <=> PendingState(k)
    BY <2>1 DEF PendingState, HasKey, LastSays, InHand, callbacks, host
  <2>4. PendingHdr'
    BY <2>1 DEF Callbacks, PendingHdr, HasKey, InHand, callbacks, host
  <2>. QED
    BY <2>2, <2>3, <2>4 DEF Callbacks
<1>. QED
  BY <1>2, <1>3, <1>4

(* "async" takes messages, lets one replace another of its key, and calls  *)
(* the application.                                                        *)
LEMMA AsyncCallbacks ==
  ASSUME TypeOK, Callbacks, AsyncThread
  PROVE  Callbacks'
<1>. DEFINE q == asyncCallbackQueue
            m == queuedCb["async"]
<1>1. /\ HostType /\ LifeType /\ {"recv", "async"} \subseteq Threads
      /\ callbacks \in Seq(Messages)
  BY DEF TypeOK, Threads, HostType, IsQueue, callbacks
<1>2. ASSUME AsyncWait \/ AsyncPoll,
             HasElement(q), asyncCallbackQueue' = Poll(q),
             queuedCb' = [queuedCb EXCEPT !["async"] = Head(q.items)],
             at'["async"] \in {"peek", "call"}
      PROVE  Callbacks'
  <2>1. /\ callbacks # <<>> /\ callbacks' = Tail(callbacks)
        /\ asyncCallbackQueue'.shutdown = q.shutdown
        /\ asyncCallbackQueue'.draining = q.draining
    BY <1>1, <1>2 DEF Poll, callbacks, HostType, IsQueue, HasElement
  <2>2. /\ Head(callbacks) = callbacks[1]
        /\ \A k : HasKey(callbacks, k)
                    <=> HasKey(callbacks', k) \/ k = Key(callbacks[1])
        /\ \A k, v : LastSays(callbacks, k, v) => LastSays(callbacks', k, v)
        /\ \A v : /\ LastSays(callbacks, Key(callbacks[1]), v)
                  /\ ~HasKey(callbacks', Key(callbacks[1]))
                  => callbacks[1].value = v
    BY <1>1, <2>1, TailKeys, Zenon
  <2>3. /\ queuedCb'["async"] = callbacks[1] /\ callbacks[1] \in Messages
        /\ queuedCb'["recv"] = queuedCb["recv"]
    BY <1>1, <1>2, <2>1, <2>2, HeadTailProperties DEF HostType, callbacks
  <2>4. /\ at'["recv"] = at["recv"]
        /\ UNCHANGED <<latest, delivered, hdrEnabled, hdrDropped>>
    BY <1>1, <1>2 DEF AsyncWait, AsyncPoll, Goto, LifeType
  <2>5. \A k : InHand(k) => k = Key(callbacks[1])
    BY <1>2 DEF Callbacks, CallbackThreads, InHand, AsyncWait, AsyncPoll
  <2>6. \A k : InHand(k)' <=> k = Key(callbacks[1])
    BY <1>2, <2>3 DEF InHand
  <2>7. CallbackThreads'
    BY <1>2, <2>3, <2>4 DEF Callbacks, CallbackThreads
  <2>8. ASSUME NEW k \in Keys, k # <<"hdr">>
        PROVE  PendingState(k)'
    <3>1. PendingState(k)
      BY <2>8 DEF Callbacks
    <3>2. LastSays(callbacks', k, latest'[k])
      BY <2>2, <2>4, <3>1 DEF PendingState
    <3>3. CASE HasKey(callbacks', k)
      BY <3>2, <3>3 DEF PendingState
    <3>4. CASE ~HasKey(callbacks', k) /\ k = Key(callbacks[1])
      BY <2>2, <2>3, <2>4, <2>6, <3>1, <3>2, <3>4 DEF PendingState
    <3>5. CASE ~HasKey(callbacks', k) /\ k # Key(callbacks[1])
      BY <2>2, <2>4, <2>5, <2>6, <3>1, <3>2, <3>5 DEF PendingState
    <3>. QED
      BY <3>3, <3>4, <3>5
  <2>9. PendingHdr'
    BY <2>2, <2>3, <2>4, <2>5, <2>6 DEF Callbacks, PendingHdr
  <2>. QED
    BY <2>7, <2>8, <2>9 DEF Callbacks
<1>3. CASE AsyncWait
  <2>1. CASE /\ HasElement(q) /\ asyncCallbackQueue' = Poll(q)
             /\ queuedCb' = [queuedCb EXCEPT !["async"] = Head(q.items)]
             /\ \E l \in {"peek", "call"} : Goto("async", l)
    <3>1. at'["async"] \in {"peek", "call"}
      BY <1>1, <2>1 DEF Goto, LifeType
    <3>. QED
      BY <1>2, <1>3, <2>1, <3>1
  <2>2. CASE Interrupted(q) /\ UNCHANGED <<asyncCallbackQueue, queuedCb>>
             /\ Goto("async", "done")
    <3>1. /\ at["async"] = "wait" /\ at'["async"] = "done"
          /\ at'["recv"] = at["recv"]
          /\ UNCHANGED <<asyncCallbackQueue, queuedCb, latest, delivered,
                         hdrEnabled, hdrDropped>>
      BY <1>1, <1>3, <2>2 DEF AsyncWait, Goto, LifeType
    <3>2. CallbackThreads'
      BY <2>2, <3>1 DEF Callbacks, CallbackThreads, callbacks, Interrupted
    <3>3. ASSUME NEW k
          PROVE  PendingState(k)' <=> PendingState(k)
      BY <3>1 DEF PendingState, HasKey, LastSays, InHand, callbacks
    <3>4. PendingHdr'
      BY <3>1 DEF Callbacks, PendingHdr, HasKey, InHand, callbacks
    <3>. QED
      BY <3>2, <3>3, <3>4 DEF Callbacks
  <2>. QED
    BY <1>3, <2>1, <2>2 DEF AsyncWait
<1>4. CASE AsyncPeek
  <2>1. /\ at["async"] = "peek" /\ at'["recv"] = at["recv"] /\ UNCHANGED host
        /\ at'["async"] = IF MayBatch(m) THEN "poll" ELSE "call"
    BY <1>1, <1>4 DEF AsyncPeek, Goto, LifeType
  <2>2. MayBatch(m) => callbacks # <<>> /\ Key(callbacks[1]) = Key(m)
    BY <1>1 DEF MayBatch, HasElement, callbacks
  <2>3. CallbackThreads'
    BY <2>1, <2>2 DEF Callbacks, CallbackThreads, callbacks, host
  <2>4. ASSUME NEW k
        PROVE  PendingState(k)' <=> PendingState(k)
    BY <2>1 DEF PendingState, HasKey, LastSays, InHand, callbacks, host
  <2>5. PendingHdr'
    BY <2>1 DEF Callbacks, PendingHdr, HasKey, InHand, callbacks, host
  <2>. QED
    BY <2>3, <2>4, <2>5 DEF Callbacks
<1>5. CASE AsyncPoll
  <2>1. CASE HasElement(q)
    BY <1>1, <1>2, <1>5, <2>1 DEF AsyncPoll, Goto, LifeType
  <2>2. CASE ~HasElement(q)
    <3>1. /\ at["async"] = "poll" /\ at'["async"] = "call"
          /\ at'["recv"] = at["recv"] /\ UNCHANGED host
      BY <1>1, <1>5, <2>2 DEF AsyncPoll, Goto, LifeType, host
    <3>2. CallbackThreads'
      BY <3>1 DEF Callbacks, CallbackThreads, callbacks, host
    <3>3. ASSUME NEW k
          PROVE  PendingState(k)' <=> PendingState(k)
      BY <3>1 DEF PendingState, HasKey, LastSays, InHand, callbacks, host
    <3>4. PendingHdr'
      BY <3>1 DEF Callbacks, PendingHdr, HasKey, InHand, callbacks, host
    <3>. QED
      BY <3>2, <3>3, <3>4 DEF Callbacks
  <2>. QED
    BY <2>1, <2>2
<1>6. CASE AsyncCall
  <2>1. /\ m \in Messages /\ Key(m) \in Keys
        /\ (Key(m) = <<"hdr">> <=> m.type = "hdr")
    BY <1>6, MessageFacts DEF AsyncCall, Callbacks, CallbackThreads
  <2>2. /\ at["async"] = "call" /\ at'["async"] = "wait"
        /\ at'["recv"] = at["recv"] /\ queuedCb'["recv"] = queuedCb["recv"]
        /\ UNCHANGED <<asyncCallbackQueue, latest, hdrEnabled, hdrDropped>>
        /\ delivered' = [delivered EXCEPT ![Key(m)] =
                           IF m.type = "hdr" THEN hdrEnabled ELSE m.value]
    BY <1>1, <1>6 DEF AsyncCall, Goto, LifeType, HostType
  <2>3. CallbackThreads'
    BY <2>2 DEF Callbacks, CallbackThreads, callbacks
  <2>4. ASSUME NEW k \in Keys, k # <<"hdr">>
        PROVE  PendingState(k)'
    <3>1. PendingState(k) /\ ~InHand(k)' /\ (InHand(k) <=> k = Key(m))
      BY <2>2, <2>4 DEF Callbacks, InHand
    <3>2. delivered'[k] = IF k = Key(m) THEN m.value ELSE delivered[k]
      BY <1>1, <2>1, <2>2, <2>4 DEF HostType
    <3>. QED
      BY <2>2, <3>1, <3>2 DEF PendingState, HasKey, LastSays, callbacks
  <2>5. PendingHdr'
    <3>1. CASE m.type = "hdr"
      BY <1>1, <2>1, <2>2, <3>1 DEF PendingHdr, HostType
    <3>2. CASE m.type # "hdr"
      <4>1. delivered'[<<"hdr">>] = delivered[<<"hdr">>]
        BY <1>1, <2>1, <2>2, <3>2 DEF HostType
      <4>. QED
        BY <2>1, <2>2, <3>2, <4>1
        DEF Callbacks, PendingHdr, HasKey, InHand, callbacks
    <3>. QED
      BY <3>1, <3>2
  <2>. QED
    BY <2>3, <2>4, <2>5 DEF Callbacks
<1>. QED
  BY <1>3, <1>4, <1>5, <1>6 DEF AsyncThread

(* main creates "recv" and "async", and ends them.                         *)
LEMMA MainCallbacks ==
  ASSUME TypeOK, Lifecycle, Callbacks,
         CreateThread \/ StartFails \/ StopBegins \/ Rundown
  PROVE  Callbacks'
<1>1. HostType /\ LifeType /\ {"recv", "async"} \subseteq Threads
  BY DEF TypeOK, Threads
<1>2. CASE CreateThread
  <2>1. /\ Head(todo) = todo[1] /\ at[todo[1]] = "none" /\ UNCHANGED host
    BY <1>2, EmptySeq DEF CreateThread, Lifecycle
  <2>2. ASSUME NEW t \in Threads
        PROVE  \/ at'[t] = at[t]
               \/ at[t] = "none" /\ at'[t] = Entry(t)
    BY <1>1, <1>2, <2>1 DEF CreateThread, LifeType
  <2>3. /\ at'["recv"] = "queue" <=> at["recv"] = "queue"
        /\ \/ at'["async"] = at["async"]
           \/ at["async"] = "none" /\ at'["async"] = "wait"
    BY <1>1, <2>2 DEF Entry
  <2>4. CallbackThreads'
    BY <2>1, <2>3 DEF Callbacks, CallbackThreads, callbacks, host
  <2>5. ASSUME NEW k
        PROVE  PendingState(k)' <=> PendingState(k)
    BY <2>1, <2>3 DEF PendingState, HasKey, LastSays, InHand, callbacks, host
  <2>6. PendingHdr'
    BY <2>1, <2>3 DEF Callbacks, PendingHdr, HasKey, InHand, callbacks, host
  <2>. QED
    BY <2>4, <2>5, <2>6 DEF Callbacks
<1>3. CASE GiveUp \/ StopDrain
  <2>. DEFINE q == asyncCallbackQueue
  <2>1. UNCHANGED <<at, queuedCb, hdrEnabled, latest, delivered, hdrDropped>>
    BY <1>3 DEF GiveUp, StopDrain
  <2>2. /\ callbacks' = callbacks
        /\ at["async"] = "done" /\ q.shutdown => asyncCallbackQueue'.shutdown
        /\ q.draining => asyncCallbackQueue'.draining
    BY <1>1, <1>3
    DEF GiveUp, StopDrain, HostType, IsQueue, Created, callbacks
  <2>3. CallbackThreads'
    BY <2>1, <2>2 DEF Callbacks, CallbackThreads
  <2>4. ASSUME NEW k
        PROVE  PendingState(k)' <=> PendingState(k)
    BY <2>1, <2>2 DEF PendingState, HasKey, LastSays, InHand
  <2>5. PendingHdr'
    BY <2>1, <2>2 DEF Callbacks, PendingHdr, HasKey, InHand
  <2>. QED
    BY <2>3, <2>4, <2>5 DEF Callbacks
<1>4. CASE \/ StartFails \/ StopBegins \/ StopShutdown \/ StopSignal
           \/ StopInterrupt \/ PltInterruptThread \/ PltJoinThread
           \/ destroyControlStream
  <2>1. UNCHANGED <<host, at>>
    BY <1>4
    DEF StartFails, StopBegins, StopShutdown, StopSignal, StopInterrupt,
        PltInterruptThread, PltJoinThread, destroyControlStream
  <2>. QED
    BY <2>1, CallbacksUntouched
<1>. QED
  BY <1>2, <1>3, <1>4 DEF Rundown

LEMMA NextCallbacks ==
  ASSUME TypeOK, Lifecycle, Callbacks, [Next]_vars
  PROVE  Callbacks'
<1>1. LifeType /\ {"recv", "async"} \subseteq Threads
  BY DEF TypeOK, Threads
<1>2. CASE \/ connectionDetectedFrameLoss
           \/ \E frameIsLTR \in BOOLEAN :
                connectionReceivedCompleteFrame(frameIsLTR)
           \/ DecoderNeedsIdr
           \/ \E c \in {"video", "decoder"} : SetIdrFrameRequired(c)
  BY <1>2, CallbacksUntouched
  DEF connectionDetectedFrameLoss, connectionReceivedCompleteFrame,
      DecoderNeedsIdr, SetIdrFrameRequired
<1>3. CASE IdrThread \/ RfiThread \/ StatsEnds
  <2>1. UNCHANGED host
    BY <1>3
    DEF IdrThread, IdrLoop, PltWaitForEvent, PltClearEvent, IdrCheck,
        requestIdrFrame, RfiThread, RfiLoop, RfiWait, RfiPoll, TakeControl,
        requestInvalidateReferenceFrames, StatsEnds
  <2>2. \E t \in {"idr", "rfi", "stats"} : \E l : Goto(t, l)
    BY <1>3, Zenon
    DEF IdrThread, IdrLoop, PltWaitForEvent, PltClearEvent, IdrCheck,
        requestIdrFrame, RfiThread, RfiLoop, RfiWait, RfiPoll, TakeControl,
        requestInvalidateReferenceFrames, StatsEnds
  <2>3. at'["recv"] = at["recv"] /\ at'["async"] = at["async"]
    BY <1>1, <2>2 DEF Goto, LifeType
  <2>. QED
    BY <2>1, <2>3, CallbacksUntouched
<1>4. CASE UNCHANGED vars
  BY <1>4, CallbacksUntouched DEF vars
<1>. QED
  BY <1>2, <1>3, <1>4, ReceiveCallbacks, AsyncCallbacks, MainCallbacks
  DEF Next

-----------------------------------------------------------------------------
(***************************************************************************)
(* The theorems                                                            *)
(***************************************************************************)
LEMMA InitIInv == Init => IInv
<1>. SUFFICES ASSUME Init
              PROVE  IInv
  OBVIOUS
<1>1. TypeOK
  BY InitTypeOK
<1>2. Lifecycle
  <2>1. todo \in Seq(Threads) /\ todo # <<>>
    <3>1. /\ <<"recv", "stats", "idr", "async", "rfi">> \in Seq(Threads)
          /\ <<"recv", "stats", "idr", "async">> \in Seq(Threads)
      BY DEF Threads
    <3>2. /\ <<"recv", "stats", "idr", "async", "rfi">> # <<>>
          /\ <<"recv", "stats", "idr", "async">> # <<>>
      OBVIOUS
    <3>. QED
      BY <3>1, <3>2 DEF Init
  <2>2. \A i \in 1..Len(todo) : at[todo[i]] = "none"
    BY <2>1, ElementOfSeq DEF Init
  <2>3. /\ \A i, j \in 1..Len(todo) : todo[i] = todo[j] => i = j
        /\ todo[Len(todo)] = LastThread
    <3>1. CASE mode.rfi
      BY <3>1 DEF Init, LastThread
    <3>2. CASE ~mode.rfi
      BY <3>2 DEF Init, LastThread
    <3>. QED
      BY <3>1, <3>2
  <2>. QED
    BY <2>1, <2>2, <2>3 DEF Init, Lifecycle, EmptyQueue
<1>3. control = <<>> /\ callbacks = <<>> /\ Len(<<>>) = 0
  BY EmptySeq DEF Init, control, callbacks, EmptyQueue
<1>4. ControlOrder
  BY <1>3 DEF Init, ControlOrder, Ordered, NoRange
<1>5. AssertsHold /\ NoLossForgotten
  BY DEF Init, AssertsHold, NoLossForgotten
<1>6. CallbackThreads
  BY DEF Init, CallbackThreads, Threads
<1>7. ASSUME NEW k \in Keys
      PROVE  PendingState(k)
  BY <1>3 DEF Init, PendingState, HasKey, LastSays, InHand, Threads
<1>8. PendingHdr
  BY DEF Init, PendingHdr
<1>. QED
  BY <1>1, <1>2, <1>4, <1>5, <1>6, <1>7, <1>8 DEF IInv, Callbacks

LEMMA NextIInv == IInv /\ [Next]_vars => IInv'
BY NextTypeOK, NextLifecycle, NextControlOrder, NextNoLossForgotten,
   NextCallbacks DEF IInv, Callbacks

LEMMA Invariance == Spec => []IInv
BY InitIInv, NextIInv, PTL DEF Spec

(* Neither queue of the control stream exceeds its bound, and every        *)
(* variable keeps its type.                                                *)
THEOREM TypeCorrect == Spec => []TypeOK
<1>1. IInv => TypeOK
  BY DEF IInv
<1>. QED
  BY <1>1, Invariance, PTL

(* The assertions of ControlStream.c:375, 387, 1539 and 1606 hold: ranges  *)
(* of lost frames are not empty and are merged in the order of their       *)
(* frames.                                                                 *)
THEOREM AssertionsHold == Spec => []AssertsHold
<1>1. IInv => AssertsHold
  BY DEF IInv
<1>. QED
  BY <1>1, Invariance, PTL

(* A frame reported with connectionDetectedFrameLoss stays in the queue of *)
(* losses, in the range about to be invalidated, or an IDR frame is going  *)
(* to be requested, until the host was told.                               *)
THEOREM LossesAreRemembered == Spec => []NoLossForgotten
<1>1. IInv => NoLossForgotten
  BY DEF IInv
<1>. QED
  BY <1>1, Invariance, PTL

(* When asyncCallbackThreadFunc has nothing left to do, the application    *)
(* has seen the last state of every actuator that was queued.              *)
THEOREM LatestStateIsDelivered == Spec => []LatestIsDelivered
<1>1. IInv => LatestIsDelivered
  <2>. SUFFICES ASSUME IInv,
                       \/ at["async"] = "wait" /\ callbacks = <<>>
                       \/ at["async"] = "done" /\ (mode.rfi => Created("rfi")),
                       NEW k \in Keys
                PROVE  IF k = <<"hdr">>
                       THEN \/ at["recv"] = "queue" \/ hdrDropped
                            \/ delivered[k] = hdrEnabled
                       ELSE delivered[k] = latest[k]
    BY DEF LatestIsDelivered, callbacks
  <2>1. callbacks = <<>> /\ at["async"] \in {"wait", "done"}
    BY DEF IInv, Lifecycle, Callbacks, CallbackThreads
  <2>2. ~HasKey(callbacks, k) /\ ~InHand(k)
    BY <2>1, EmptySeq DEF HasKey, InHand
  <2>. QED
    BY <2>2 DEF IInv, Callbacks, PendingState, PendingHdr
<1>. QED
  BY <1>1, Invariance, PTL
=============================================================================
