---------------------------- MODULE ControlStream ----------------------------
(***************************************************************************)
(* The control stream (ControlStream.c): its five threads, what the other  *)
(* components ask of them, and their creation and end.                     *)
(*                                                                         *)
(* A loss that the video stream reports becomes an entry of                *)
(* referenceFrameControlQueue, which the thread "rfi" turns into a request *)
(* to invalidate reference frames, or sets idrFrameRequiredEvent, on which *)
(* the thread "idr" requests an IDR frame; each way of asking undoes the   *)
(* other.  What the host sends is read by "recv" and passed to the         *)
(* application by "async", through asyncCallbackQueue.  "stats" sends      *)
(* pings.  main is the thread in LiStartConnection and LiStopConnection.   *)
(*                                                                         *)
(* The queues are used as BoundedQueue describes them, one step per call.  *)
(* ENet and the host are external: a send may fail, and a message may come *)
(* or the connection break whenever "recv" looks.  Left out: the bytes of  *)
(* messages and their encryption, the deferred disconnect (lines 1144 to   *)
(* 1183), frameFecStatusQueue and the statistics of connectionSawFrame,    *)
(* failing allocations, and hosts before version 5.                        *)
(*                                                                         *)
(* An operator M_X is X with a plausible defect, which shows that the      *)
(* properties notice it.  The specification does not use it.               *)
(***************************************************************************)
EXTENDS Naturals, Sequences

CONSTANTS
  MaxFrame,       \* bound on the number of the last frame
  ControlBound,   \* size of referenceFrameControlQueue, 20 in the code
  AsyncBound,     \* size of asyncCallbackQueue, 30 in the code
  Scripts,        \* the sequences of messages the host may send
  Unstartable,    \* the threads whose creation may fail
  Modes           \* the configurations to check, see ModeKinds

Threads == {"recv", "stats", "idr", "async", "rfi"}

(* isReferenceFrameInvalidationEnabled(), and who is active: the video     *)
(* stream and a decoder, or the host                                       *)
ModeKinds == [rfi : BOOLEAN, traffic : {"video", "host"}]

(* What the host reports: the state of an actuator of a controller         *)
MessageKinds == [type : STRING, controller : Nat, value : BOOLEAN]

Messages == UNION {{s[i] : i \in 1..Len(s)} : s \in Scripts}

ASSUME ControlAssumption ==
  /\ {MaxFrame, ControlBound, AsyncBound} \subseteq Nat \ {0}
  /\ Scripts \subseteq Seq(MessageKinds)
  /\ Unstartable \subseteq Threads
  /\ Modes \subseteq ModeKinds

VARIABLES
  main,          \* where the thread is that starts and stops the stream
  todo,          \* the threads it still has to create, or to join
  at,            \* at[t]: where thread t is
  cancelled,     \* cancelled[t]: PltInterruptThread was called
  stopping,
  idrFrameRequiredEvent,
  referenceFrameControlQueue,
  asyncCallbackQueue,
  caller,        \* caller[c]: the video thread or decoder, in LiRequestIdrFrame
  range,         \* what "rfi" is to invalidate
  queuedCb,      \* the callback of "recv" or "async" in hand
  hdrEnabled,
  frame,         \* the last frame of the stream
  startFrame,    \* the first after the last good one (startFrameNumber)
  inbox,         \* the messages the host is still to send
  mode,
  asserts,       \* whether every LC_ASSERT so far held
  terminated,    \* history: connectionTerminated was called
  open,          \* history: the lost frames the host was not told of
  idrOwed,       \* history: an IDR frame was asked for and not requested
  latest,        \* history: latest[k]: last message for k that was queued
  delivered,     \* history: delivered[k]: last callback for k
  hdrDropped     \* history: a notification of the HDR mode was not queued

queues  == <<referenceFrameControlQueue, asyncCallbackQueue>>
life    == <<main, todo, cancelled, stopping, mode>>
video   == <<frame, startFrame, open, idrOwed, caller, range,
             idrFrameRequiredEvent, referenceFrameControlQueue>>
host    == <<queuedCb, hdrEnabled, inbox, latest, delivered, hdrDropped,
             asyncCallbackQueue>>
vars    == <<life, at, video, host, asserts, terminated>>

-----------------------------------------------------------------------------
(* A LINKED_BLOCKING_QUEUE (see LinkedBlockingQueue)                       *)

EmptyQueue == [items |-> <<>>, shutdown |-> FALSE, draining |-> FALSE,
               used |-> FALSE]

M_Full(q, bound)  == Len(q.items) = bound + 1
Full(q, bound)    == Len(q.items) = bound
Offer(q, x)       == [q EXCEPT !.items = Append(@, x), !.used = TRUE]
HasElement(q)     == ~q.shutdown /\ q.items # <<>>
Interrupted(q)    == q.shutdown \/ (q.draining /\ q.items = <<>>)
Poll(q)           == [q EXCEPT !.items = Tail(@)]
Flush(q)          == [q EXCEPT !.items = <<>>]

-----------------------------------------------------------------------------
(* Requests of the other components                                        *)

(* LiRequestIdrFrame empties the queue first and sets the event then.      *)
LiRequestIdrFrame(c) ==
  /\ referenceFrameControlQueue' = Flush(referenceFrameControlQueue)
  /\ caller' = [caller EXCEPT ![c] = "set"]
  /\ idrOwed' = TRUE

SetIdrFrameRequired(c) ==
  /\ caller[c] = "set"
  /\ idrFrameRequiredEvent' = TRUE
  /\ caller' = [caller EXCEPT ![c] = "idle"]
  /\ UNCHANGED <<life, at, host, asserts, terminated, frame, startFrame, open,
                 idrOwed, range, referenceFrameControlQueue>>

(* An entry goes to the queue, or an IDR frame is requested when it is     *)
(* full.                                                                   *)
OfferControl(entry) ==
  \/ /\ ~Full(referenceFrameControlQueue, ControlBound)
     /\ referenceFrameControlQueue' = Offer(referenceFrameControlQueue, entry)
     /\ UNCHANGED <<caller, idrOwed>>
  \/ /\ Full(referenceFrameControlQueue, ControlBound)
     /\ LiRequestIdrFrame("video")

M_queueFrameInvalidationTuple(first, last) ==
  /\ asserts' = (asserts /\ last <= first)
  /\ \/ /\ mode.rfi
        /\ OfferControl([invalidate |-> TRUE, start |-> last, end |-> first])
     \/ /\ ~mode.rfi
        /\ LiRequestIdrFrame("video")

queueFrameInvalidationTuple(first, last) ==
  /\ asserts' = (asserts /\ first <= last)
  /\ \/ /\ mode.rfi
        /\ OfferControl([invalidate |-> TRUE, start |-> first, end |-> last])
     \/ /\ ~mode.rfi
        /\ LiRequestIdrFrame("video")

VideoRuns ==
  mode.traffic = "video" /\ main = "run" /\ caller["video"] = "idle"

(* The depacketizer reports what it missed since its last good frame.      *)
connectionDetectedFrameLoss ==
  /\ VideoRuns
  /\ frame < MaxFrame
  /\ frame' = frame + 1
  /\ open' = open \cup startFrame..frame + 1
  /\ queueFrameInvalidationTuple(startFrame, frame + 1)
  /\ UNCHANGED <<life, at, host, terminated, startFrame, range,
                 idrFrameRequiredEvent>>

(* A good frame; one that became a long-term reference is acknowledged.    *)
connectionReceivedCompleteFrame(frameIsLTR) ==
  /\ VideoRuns
  /\ frame < MaxFrame
  /\ frame' = frame + 1
  /\ startFrame' = frame + 2
  /\ \/ /\ frameIsLTR /\ mode.rfi
        /\ OfferControl([invalidate |-> FALSE, start |-> frame + 1,
                         end |-> frame + 1])
     \/ /\ ~(frameIsLTR /\ mode.rfi)
        /\ UNCHANGED <<referenceFrameControlQueue, caller, idrOwed>>
  /\ UNCHANGED <<life, at, host, asserts, terminated, open, range,
                 idrFrameRequiredEvent>>

(* A decoder asks for an IDR frame from a thread of its own.               *)
DecoderNeedsIdr ==
  /\ mode.traffic = "video" /\ main = "run" /\ caller["decoder"] = "idle"
  /\ LiRequestIdrFrame("decoder")
  /\ UNCHANGED <<life, at, host, asserts, terminated, frame, startFrame, open,
                 range, idrFrameRequiredEvent>>

-----------------------------------------------------------------------------
(* The thread "idr" (requestIdrFrameFunc)                                  *)

Goto(t, label) == at' = [at EXCEPT ![t] = label]

M_IdrLoop ==
  /\ at["idr"] = "loop"
  /\ IF cancelled["idr"] THEN Goto("idr", "done") ELSE Goto("idr", "wait")
  /\ idrFrameRequiredEvent' = FALSE
  /\ UNCHANGED <<life, host, asserts, terminated, frame, startFrame, open,
                 idrOwed, caller, range, referenceFrameControlQueue>>

IdrLoop ==
  /\ at["idr"] = "loop"
  /\ IF cancelled["idr"] THEN Goto("idr", "done") ELSE Goto("idr", "wait")
  /\ UNCHANGED <<life, video, host, asserts, terminated>>

PltWaitForEvent ==
  /\ at["idr"] = "wait"
  /\ idrFrameRequiredEvent
  /\ Goto("idr", "clear")
  /\ UNCHANGED <<life, video, host, asserts, terminated>>

PltClearEvent ==
  /\ at["idr"] = "clear"
  /\ idrFrameRequiredEvent' = FALSE
  /\ Goto("idr", "check")
  /\ UNCHANGED <<life, host, asserts, terminated, frame, startFrame, open,
                 idrOwed, caller, range, referenceFrameControlQueue>>

IdrCheck ==
  /\ at["idr"] = "check"
  /\ \/ /\ stopping
        /\ Goto("idr", "done")
        /\ UNCHANGED referenceFrameControlQueue
     \/ /\ ~stopping
        /\ Goto("idr", "send")
        /\ referenceFrameControlQueue' = Flush(referenceFrameControlQueue)
  /\ UNCHANGED <<life, host, asserts, terminated, frame, startFrame, open,
                 idrOwed, caller, range, idrFrameRequiredEvent>>

(* An IDR frame makes up for every loss before it.                         *)
requestIdrFrame ==
  /\ at["idr"] = "send"
  /\ Goto("idr", "loop")
  /\ \/ open' = {} /\ idrOwed' = FALSE /\ UNCHANGED terminated
     \/ terminated' = TRUE /\ UNCHANGED <<open, idrOwed>>
  /\ UNCHANGED <<life, host, asserts, frame, startFrame, caller, range,
                 idrFrameRequiredEvent, referenceFrameControlQueue>>

-----------------------------------------------------------------------------
(* The thread "rfi" (referenceFrameControlFunc)                            *)

NoRange == [invalidate |-> FALSE, start |-> 0, end |-> 0]

RfiLoop ==
  /\ at["rfi"] = "loop"
  /\ IF cancelled["rfi"] THEN Goto("rfi", "done") ELSE Goto("rfi", "wait")
  /\ UNCHANGED <<life, video, host, asserts, terminated>>

(* All lost frames go into one range.                                      *)
M_Aggregate(entry) ==
  IF range.invalidate THEN range ELSE entry

Aggregate(entry) ==
  IF range.invalidate THEN [range EXCEPT !.end = entry.end] ELSE entry

(* One entry: a loss is added to the range, a good frame is acknowledged   *)
(* at once (confirmLongtermReferenceFrame).                                *)
TakeControl ==
  LET entry == Head(referenceFrameControlQueue.items)
  IN  /\ HasElement(referenceFrameControlQueue)
      /\ referenceFrameControlQueue' = Poll(referenceFrameControlQueue)
      /\ Goto("rfi", "poll")
      /\ \/ /\ entry.invalidate
            /\ range' = Aggregate(entry)
            /\ asserts' = (asserts /\ entry.end >= range.end)
            /\ UNCHANGED terminated
         \/ /\ ~entry.invalidate
            /\ terminated' \in {terminated, TRUE}
            /\ UNCHANGED <<range, asserts>>
      /\ UNCHANGED <<life, host, frame, startFrame, open, idrOwed, caller,
                     idrFrameRequiredEvent>>

RfiWait ==
  \/ at["rfi"] = "wait" /\ TakeControl
  \/ /\ at["rfi"] = "wait"
     /\ Interrupted(referenceFrameControlQueue)
     /\ Goto("rfi", "done")
     /\ UNCHANGED <<life, video, host, asserts, terminated>>

RfiPoll ==
  \/ at["rfi"] = "poll" /\ TakeControl
  \/ /\ at["rfi"] = "poll"
     /\ ~HasElement(referenceFrameControlQueue)
     /\ Goto("rfi", IF range.invalidate THEN "send" ELSE "loop")
     /\ UNCHANGED <<life, video, host, asserts, terminated>>

requestInvalidateReferenceFrames ==
  /\ at["rfi"] = "send"
  /\ asserts' = (asserts /\ range.start <= range.end)
  /\ Goto("rfi", "loop")
  /\ range' = NoRange
  /\ \/ open' = open \ (range.start..range.end) /\ UNCHANGED terminated
     \/ terminated' = TRUE /\ UNCHANGED open
  /\ UNCHANGED <<life, host, frame, startFrame, idrOwed, caller,
                 idrFrameRequiredEvent, referenceFrameControlQueue>>

-----------------------------------------------------------------------------
(* The threads "recv", "async" and "stats"                                 *)

NoMessage == [type |-> "none", controller |-> 0, value |-> FALSE]

(* controlReceiveThreadFunc takes a message; the HDR mode is set at once.  *)
ReceiveMessage ==
  /\ at["recv"] = "loop" /\ ~cancelled["recv"]
  /\ inbox # <<>>
  /\ inbox' = Tail(inbox)
  /\ queuedCb' = [queuedCb EXCEPT !["recv"] = Head(inbox)]
  /\ hdrEnabled' =
       IF Head(inbox).type = "hdr" THEN Head(inbox).value ELSE hdrEnabled
  /\ Goto("recv", "queue")
  /\ UNCHANGED <<life, video, asserts, terminated, asyncCallbackQueue, latest,
                 delivered, hdrDropped>>

Key(m) == IF m.type = "hdr" THEN <<"hdr">> ELSE <<m.type, m.controller>>
Keys   == {Key(m) : m \in Messages}

queueAsyncCallback ==
  LET m == queuedCb["recv"]
      q == asyncCallbackQueue
  IN  /\ at["recv"] = "queue"
      /\ Goto("recv", "loop")
      /\ queuedCb' = [queuedCb EXCEPT !["recv"] = NoMessage]
      /\ \/ /\ ~q.shutdown /\ ~q.draining /\ ~Full(q, AsyncBound)
            /\ asyncCallbackQueue' = Offer(q, m)
            /\ latest' = IF m.type = "hdr" THEN latest
                         ELSE [latest EXCEPT ![Key(m)] = m.value]
            /\ UNCHANGED hdrDropped
         \/ /\ q.shutdown \/ q.draining \/ Full(q, AsyncBound)
            /\ hdrDropped' = (hdrDropped \/ m.type = "hdr")
            /\ UNCHANGED <<asyncCallbackQueue, latest>>
      /\ UNCHANGED <<life, video, asserts, terminated, hdrEnabled, inbox,
                     delivered>>

(* It ends when it is interrupted, or with the connection: the host ended  *)
(* the stream or disconnected, or ENet failed.                             *)
ReceiveEnds ==
  /\ at["recv"] = "loop"
  /\ \/ cancelled["recv"] /\ UNCHANGED terminated
     \/ ~cancelled["recv"] /\ mode.traffic = "host" /\ terminated' = TRUE
  /\ Goto("recv", "done")
  /\ UNCHANGED <<life, video, host, asserts>>

(* lossStatsThreadFunc ends when it is interrupted or a ping is not sent.  *)
StatsEnds ==
  /\ at["stats"] = "loop"
  /\ \/ cancelled["stats"] /\ UNCHANGED terminated
     \/ ~cancelled["stats"] /\ mode.traffic = "host" /\ terminated' = TRUE
  /\ Goto("stats", "done")
  /\ UNCHANGED <<life, video, host, asserts>>

(* asyncCallbackThreadFunc                                                 *)
Batched == {"rumble", "rumbleTriggers", "led", "hdr"}

AsyncWait ==
  LET q == asyncCallbackQueue
  IN  /\ at["async"] = "wait"
      /\ \/ /\ HasElement(q)
            /\ asyncCallbackQueue' = Poll(q)
            /\ queuedCb' = [queuedCb EXCEPT !["async"] = Head(q.items)]
            /\ Goto("async", IF Head(q.items).type \in Batched THEN "peek"
                             ELSE "call")
         \/ /\ Interrupted(q)
            /\ Goto("async", "done")
            /\ UNCHANGED <<asyncCallbackQueue, queuedCb>>
      /\ UNCHANGED <<life, video, asserts, terminated, hdrEnabled, inbox,
                     latest, delivered, hdrDropped>>

(* Whether the next message replaces the one in hand                       *)
M_MayBatch(m) ==
  /\ HasElement(asyncCallbackQueue)
  /\ Head(asyncCallbackQueue.items).type = m.type

MayBatch(m) ==
  /\ HasElement(asyncCallbackQueue)
  /\ Key(Head(asyncCallbackQueue.items)) = Key(m)

AsyncPeek ==
  /\ at["async"] = "peek"
  /\ Goto("async", IF MayBatch(queuedCb["async"]) THEN "poll" ELSE "call")
  /\ UNCHANGED <<life, video, host, asserts, terminated>>

AsyncPoll ==
  LET q == asyncCallbackQueue
  IN  /\ at["async"] = "poll"
      /\ \/ /\ HasElement(q)
            /\ asyncCallbackQueue' = Poll(q)
            /\ queuedCb' = [queuedCb EXCEPT !["async"] = Head(q.items)]
            /\ Goto("async", "peek")
         \/ /\ ~HasElement(q)
            /\ Goto("async", "call")
            /\ UNCHANGED <<asyncCallbackQueue, queuedCb>>
      /\ UNCHANGED <<life, video, asserts, terminated, hdrEnabled, inbox,
                     latest, delivered, hdrDropped>>

(* The application's callback; the HDR mode is the one of this moment.     *)
AsyncCall ==
  LET m == queuedCb["async"]
  IN  /\ at["async"] = "call"
      /\ delivered' = [delivered EXCEPT ![Key(m)] =
                         IF m.type = "hdr" THEN hdrEnabled ELSE m.value]
      /\ queuedCb' = [queuedCb EXCEPT !["async"] = NoMessage]
      /\ Goto("async", "wait")
      /\ UNCHANGED <<life, video, asserts, terminated, asyncCallbackQueue,
                     hdrEnabled, inbox, latest, hdrDropped>>

-----------------------------------------------------------------------------
(* startControlStream, stopControlStream, destroyControlStream             *)

Entry(t) == IF t = "async" THEN "wait" ELSE "loop"

CreateThread ==
  /\ main = "create"
  /\ at' = [at EXCEPT ![Head(todo)] = Entry(Head(todo))]
  /\ todo' = Tail(todo)
  /\ main' = IF Tail(todo) = <<>> THEN "run" ELSE "create"
  /\ UNCHANGED <<cancelled, stopping, mode, video, host, asserts, terminated>>

(* A thread cannot be created, or START A or START B, which come after     *)
(* "recv" was created, cannot be sent.                                     *)
StartFails ==
  /\ main = "create"
  /\ Head(todo) \in Unstartable \cup {"stats"}
  /\ stopping' = TRUE
  /\ main' = "giveUp"
  /\ UNCHANGED <<todo, cancelled, mode, at, video, host, asserts, terminated>>

Created(t) == at[t] # "none"

(* Whatever exists of the threads is told to end.                          *)
M_GiveUp ==
  /\ main = "giveUp"
  /\ asyncCallbackQueue' = [asyncCallbackQueue EXCEPT
                              !.shutdown = Created("async")]
  /\ todo' = SelectSeq(<<"stats", "recv", "idr", "async">>, Created)
  /\ main' = "join"
  /\ UNCHANGED <<cancelled, stopping, mode, at, video, asserts, terminated,
                 queuedCb, hdrEnabled, inbox, latest, delivered,
                 hdrDropped>>

GiveUp ==
  /\ main = "giveUp"
  /\ idrFrameRequiredEvent' = (idrFrameRequiredEvent \/ Created("idr"))
  /\ asyncCallbackQueue' = [asyncCallbackQueue EXCEPT
                              !.shutdown = Created("async")]
  /\ todo' = SelectSeq(<<"stats", "recv", "idr", "async">>, Created)
  /\ main' = "join"
  /\ UNCHANGED <<cancelled, stopping, mode, at, asserts, terminated, frame,
                 startFrame, open, idrOwed, caller, range,
                 referenceFrameControlQueue, queuedCb, hdrEnabled, inbox,
                 latest, delivered, hdrDropped>>

(* stopControlStream, once the video stream has been stopped               *)
StopBegins ==
  /\ main = "run" /\ caller["video"] = "idle"
  /\ stopping' = TRUE
  /\ main' = "shutdown"
  /\ UNCHANGED <<todo, cancelled, mode, at, video, host, asserts, terminated>>

StopShutdown ==
  /\ main = "shutdown"
  /\ referenceFrameControlQueue' =
       [referenceFrameControlQueue EXCEPT !.shutdown = TRUE]
  /\ main' = "drain"
  /\ UNCHANGED <<todo, cancelled, stopping, mode, at, host, asserts,
                 terminated, frame, startFrame, open, idrOwed, caller, range,
                 idrFrameRequiredEvent>>

StopDrain ==
  /\ main = "drain"
  /\ asyncCallbackQueue' = [asyncCallbackQueue EXCEPT !.draining = TRUE]
  /\ main' = "signal"
  /\ UNCHANGED <<todo, cancelled, stopping, mode, at, video, asserts,
                 terminated, queuedCb, hdrEnabled, inbox, latest,
                 delivered, hdrDropped>>

StopSignal ==
  /\ main = "signal"
  /\ idrFrameRequiredEvent' = TRUE
  /\ main' = "interrupt"
  /\ UNCHANGED <<todo, cancelled, stopping, mode, at, host, asserts,
                 terminated, frame, startFrame, open, idrOwed, caller, range,
                 referenceFrameControlQueue>>

StopInterrupt ==
  /\ main = "interrupt"
  /\ cancelled' = [t \in Threads |-> t # "rfi"]
  /\ todo' = SelectSeq(<<"stats", "idr", "recv", "async", "rfi">>, Created)
  /\ main' = "join"
  /\ UNCHANGED <<stopping, mode, at, video, host, asserts, terminated>>

PltInterruptThread ==
  /\ main = "join" /\ todo # <<>> /\ ~cancelled[Head(todo)]
  /\ cancelled' = [cancelled EXCEPT ![Head(todo)] = TRUE]
  /\ UNCHANGED <<main, todo, stopping, mode, at, video, host, asserts,
                 terminated>>

PltJoinThread ==
  /\ main = "join" /\ todo # <<>>
  /\ cancelled[Head(todo)] /\ at[Head(todo)] = "done"
  /\ todo' = Tail(todo)
  /\ UNCHANGED <<main, cancelled, stopping, mode, at, video, host, asserts,
                 terminated>>

(* The application no longer uses the connection.                          *)
destroyControlStream ==
  /\ main = "join" /\ todo = <<>> /\ caller["decoder"] = "idle"
  /\ asserts' = (asserts /\ stopping)
  /\ main' = "destroyed"
  /\ UNCHANGED <<todo, cancelled, stopping, mode, at, video, host, terminated>>

-----------------------------------------------------------------------------
(* initializeControlStream                                                 *)
Init ==
  /\ mode \in Modes
  /\ main = "create"
  /\ todo = IF mode.rfi THEN <<"recv", "stats", "idr", "async", "rfi">>
            ELSE <<"recv", "stats", "idr", "async">>
  /\ at = [t \in Threads |-> "none"]
  /\ cancelled = [t \in Threads |-> FALSE]
  /\ stopping = FALSE
  /\ idrFrameRequiredEvent = FALSE
  /\ referenceFrameControlQueue = EmptyQueue
  /\ asyncCallbackQueue = EmptyQueue
  /\ caller = [c \in {"video", "decoder"} |-> "idle"]
  /\ range = NoRange
  /\ queuedCb = [t \in {"recv", "async"} |-> NoMessage]
  /\ hdrEnabled = FALSE
  /\ frame = 0 /\ startFrame = 1
  /\ inbox \in (IF mode.traffic = "host" THEN Scripts ELSE {<<>>})
  /\ asserts = TRUE /\ terminated = FALSE
  /\ open = {} /\ idrOwed = FALSE
  /\ latest = [k \in Keys |-> FALSE]
  /\ delivered = [k \in Keys |-> FALSE]
  /\ hdrDropped = FALSE

IdrThread == IdrLoop \/ PltWaitForEvent \/ PltClearEvent \/ IdrCheck
             \/ requestIdrFrame
RfiThread == RfiLoop \/ RfiWait \/ RfiPoll \/ requestInvalidateReferenceFrames
AsyncThread == AsyncWait \/ AsyncPeek \/ AsyncPoll \/ AsyncCall
Rundown == GiveUp \/ StopShutdown \/ StopDrain \/ StopSignal \/ StopInterrupt
           \/ PltInterruptThread \/ PltJoinThread \/ destroyControlStream

Next ==
  \/ connectionDetectedFrameLoss
  \/ \E frameIsLTR \in BOOLEAN : connectionReceivedCompleteFrame(frameIsLTR)
  \/ DecoderNeedsIdr
  \/ \E c \in {"video", "decoder"} : SetIdrFrameRequired(c)
  \/ IdrThread \/ RfiThread \/ AsyncThread
  \/ ReceiveMessage \/ queueAsyncCallback \/ ReceiveEnds \/ StatsEnds
  \/ CreateThread \/ StartFails \/ StopBegins \/ Rundown

Spec == Init /\ [][Next]_vars

(* The threads run, a caller comes out of LiRequestIdrFrame, and main goes *)
(* on once it stops or gives up.  Nobody has to call anything, the host    *)
(* has to send nothing, and a ping never has to fail.                      *)
Fairness ==
  /\ WF_vars(IdrThread) /\ WF_vars(RfiThread) /\ WF_vars(AsyncThread)
  /\ WF_vars(queueAsyncCallback)
  /\ WF_vars(cancelled["recv"] /\ ReceiveEnds)
  /\ WF_vars(cancelled["stats"] /\ StatsEnds)
  /\ \A c \in {"video", "decoder"} : WF_vars(SetIdrFrameRequired(c))
  /\ WF_vars(Rundown)

FairSpec == Spec /\ Fairness

-----------------------------------------------------------------------------
(* Properties                                                              *)

IsQueue(q, elements, bound) ==
  /\ q \in [items : Seq(elements), shutdown : BOOLEAN, draining : BOOLEAN,
            used : BOOLEAN]
  /\ Len(q.items) <= bound

Ranges == [invalidate : BOOLEAN, start : 0..MaxFrame, end : 0..MaxFrame]

LifeType ==
  /\ main \in {"create", "run", "giveUp", "shutdown", "drain", "signal",
               "interrupt", "join", "destroyed"}
  /\ at \in [Threads -> {"none", "loop", "wait", "clear", "check", "send",
                         "poll", "peek", "call", "queue", "done"}]
  /\ cancelled \in [Threads -> BOOLEAN]
  /\ mode \in ModeKinds
  /\ stopping \in BOOLEAN /\ asserts \in BOOLEAN /\ terminated \in BOOLEAN

VideoType ==
  /\ IsQueue(referenceFrameControlQueue, Ranges, ControlBound)
  /\ caller \in [{"video", "decoder"} -> {"idle", "set"}]
  /\ frame \in 0..MaxFrame /\ startFrame \in 1..MaxFrame + 1
  /\ open \subseteq 1..MaxFrame
  /\ range \in Ranges
  /\ idrFrameRequiredEvent \in BOOLEAN /\ idrOwed \in BOOLEAN

HostType ==
  /\ IsQueue(asyncCallbackQueue, Messages, AsyncBound)
  /\ queuedCb \in [{"recv", "async"} -> Messages \cup {NoMessage}]
  /\ inbox \in Seq(Messages)
  /\ latest \in [Keys -> BOOLEAN] /\ delivered \in [Keys -> BOOLEAN]
  /\ hdrEnabled \in BOOLEAN /\ hdrDropped \in BOOLEAN

(* Neither queue exceeds its bound, and every variable keeps its type.     *)
TypeOK == LifeType /\ VideoType /\ HostType

(* The assertions of ControlStream.c:375, 387, 1539 and 1606: ranges are   *)
(* not empty and are merged in the order of their frames, although three   *)
(* threads put entries into the queue and throw them away.  (The one at    *)
(* line 446, that an acknowledgement always fits into the queue, is not    *)
(* among them: a thread "rfi" that is slow enough refutes it.)             *)
AssertsHold == asserts

Covers(r, f) == r.invalidate /\ f \in r.start..r.end

(* An IDR frame is going to be requested after this moment.                *)
IdrComing ==
  \/ idrFrameRequiredEvent
  \/ \E c \in {"video", "decoder"} : caller[c] = "set"
  \/ at["idr"] \in {"clear", "check", "send"}

(* However the threads, the flushes and the limits of the queue interact,  *)
(* a frame that was reported lost (connectionDetectedFrameLoss) stays on   *)
(* record until the host is told of it: it is in the queue, in the range   *)
(* about to be invalidated, or an IDR frame is going to be requested.      *)
NoLossForgotten ==
  ~stopping /\ ~terminated =>
    \A f \in open :
      \/ \E i \in 1..Len(referenceFrameControlQueue.items) :
           Covers(referenceFrameControlQueue.items[i], f)
      \/ Covers(range, f)
      \/ IdrComing

(* An IDR frame that somebody asks for with LiRequestIdrFrame "will arrive *)
(* soon" (Limelight.h:1007): a request for it goes out after the call,     *)
(* unless the connection ends first.                                       *)
IdrIsSent == idrOwed ~> (~idrOwed \/ terminated \/ stopping)

(* Every thread that was created can be joined: a start that fails and a   *)
(* stop always come to their end.                                          *)
StopCompletes == stopping ~> main = "destroyed"

(* When nothing is left to deliver, and in particular after an orderly     *)
(* stop, the application has seen the last state of every actuator of      *)
(* every controller that was queued, whatever was batched, and the HDR     *)
(* mode of the host unless its notification found the queue full.          *)
LatestIsDelivered ==
  \/ at["async"] = "wait" /\ asyncCallbackQueue.items = <<>>
  \/ at["async"] = "done" /\ (mode.rfi => Created("rfi"))
  => \A k \in Keys :
       IF k = <<"hdr">>
       THEN at["recv"] = "queue" \/ hdrDropped \/ delivered[k] = hdrEnabled
       ELSE delivered[k] = latest[k]
=============================================================================
