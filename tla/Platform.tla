------------------------------ MODULE Platform ------------------------------
(* The threads, handles and queues that the streams of the library hold,     *)
(* with the operations of Platform.c and PlatformSockets.c on them, and the  *)
(* steps a call of the application still has to take.  A function of the     *)
(* library that starts or stops a stream is a sequence of steps; a step that *)
(* can fail carries the steps that its error path takes.                     *)
EXTENDS Naturals, Sequences, FiniteSets

Threads == {"AudioPing", "ControlRecv", "LossStats", "ReqIdrFrame",
            "CtrlAsyncCb", "InvRefFrames", "VideoRecv", "VideoDec",
            "VideoPing", "AudioRecv", "AudioDec", "InputSend"}

Handles == {"rtspTcp", "rtspEnet", "audio", "control", "video",
            "firstFrame", "input"}

(* What a blocked thread waits for, besides being interrupted.  "acks" says  *)
(* that no reliable data of the control stream is in transit.                *)
Signals == {"packetQueue", "decodeUnitQueue", "inputQueue", "freeList",
            "asyncCallbackQueue", "referenceFrameControlQueue",
            "frameFecStatusQueue", "idrFrameRequiredEvent", "ctlSock",
            "stopping", "acks"}

VARIABLES
  conf,       \* what the application and the host bring to this connection
  todo,       \* the steps the application's call has yet to take
  threads,    \* "none", "running", "reporting" a loss, or "lost": returned
  cancelled,  \* the threads that were interrupted (PLT_THREAD.cancelled)
  ran,        \* the threads that ran since the platform was initialised
  handles,    \* "invalid", "open", or "dangling": closed but not forgotten
  signalled,  \* the queues shut down, the events set, the sockets shut down
  faults      \* the assertions of the code that failed, handles closed twice

platform == <<threads, cancelled, ran, handles, signalled, faults>>

-----------------------------------------------------------------------------

Step(op, on, undo) == [op |-> op, on |-> on, undo |-> undo]

(* PltCreateThread, and the error path if it fails.                          *)
Create(t, undo) == Step("create", {t}, undo)

Cancel(ts)  == Step("cancel", ts, <<>>)     \* PltInterruptThread
Join(t)     == Step("join", {t}, <<>>)      \* PltJoinThread
Signal(qs)  == Step("signal", qs, <<>>)
Open(h, undo) == Step("open", {h}, undo)
Close(h)    == Step("close", {h}, <<>>)     \* closeSocket; s = INVALID_SOCKET
Drop(h)     == Step("drop", {h}, <<>>)      \* closeSocket alone
Failed      == Step("failed", {}, <<>>)

StopThread(t) == <<Cancel({t}), Join(t)>>

At(op)  == todo # <<>> /\ Head(todo).op = op
On      == CHOOSE x \in Head(todo).on : TRUE
Advance == todo' = Tail(todo)

(* The rest of the stage is not run: the error path of the step is, then the *)
(* stage is reported as failed.                                              *)
Fail    == todo' = Head(todo).undo \o <<Failed>>

LcAssert(holds, name) == faults' = IF holds THEN faults ELSE faults \cup {name}

-----------------------------------------------------------------------------

Running(t) == threads[t] \in {"running", "reporting"}

activeThreads == Cardinality({t \in Threads : threads[t] # "none"})

PltCreateThread ==
  /\ At("create")
  /\ \/ /\ threads' = [threads EXCEPT ![On] = "running"]
        /\ cancelled' = cancelled \ {On}
        /\ ran' = ran \cup {On}
        /\ Advance
     \/ /\ On \in conf.noThread
        /\ Fail
        /\ UNCHANGED <<threads, cancelled, ran>>
  /\ UNCHANGED <<conf, handles, signalled, faults>>

PltInterruptThread ==
  /\ At("cancel")
  /\ cancelled' = cancelled \cup Head(todo).on
  /\ Advance
  /\ UNCHANGED <<conf, threads, ran, handles, signalled, faults>>

(* A thread returns once it sees that it is interrupted, and one that waits  *)
(* for a queue, an event or a socket once that is signalled.  The input       *)
(* thread sends what is queued first, and before it sends text it waits until *)
(* nothing is in transit, which is never so on TCP (InputStream.c:557).       *)
WaitsFor(t) ==
  CASE t = "VideoDec" -> {"decodeUnitQueue"}
    [] t = "AudioDec" -> {"packetQueue"}
    [] t = "InputSend" -> {"inputQueue"}
         \cup (IF conf.text /\ conf.version[1] >= 5 THEN {"acks"} ELSE {})
    [] t = "CtrlAsyncCb" -> {"asyncCallbackQueue"}
    [] t = "InvRefFrames" -> {"referenceFrameControlQueue"}
    [] t = "ReqIdrFrame" -> {"idrFrameRequiredEvent", "stopping"}
    [] t = "LossStats" /\ conf.version[1] < 5 -> {"ctlSock"}
    [] OTHER -> {}

Returns(t) ==
  /\ WaitsFor(t) \subseteq signalled
  /\ \/ t \in cancelled \/ WaitsFor(t) # {}
     \/ t = "ControlRecv" /\ conf.version[1] < 5

(* A join waits for the thread to return; when that happens matters to nobody *)
(* else, so a thread of the model runs until it is joined or has lost the     *)
(* connection.  A join of a thread that was never created, or that has been   *)
(* joined, is a fault.                                                        *)
PltJoinThread ==
  /\ At("join")
  /\ \/ threads[On] \in {"none", "lost"}
     \/ threads[On] = "running" /\ Returns(On)
  /\ LcAssert(threads[On] # "none", "join")
  /\ threads' = [threads EXCEPT ![On] = "none"]
  /\ Advance
  /\ UNCHANGED <<conf, cancelled, ran, handles, signalled>>

(* LbqSignalQueueShutdown and LbqSignalQueueDrain, PltSetEvent,              *)
(* shutdownTcpSocket, and the flag that goes with them.                      *)
SignalWaiters ==
  /\ At("signal")
  /\ signalled' = signalled \cup Head(todo).on
  /\ Advance
  /\ UNCHANGED <<conf, threads, cancelled, ran, handles, faults>>

(* bindUdpSocket, connectTcpSocket, and the creation of an ENet host with a  *)
(* connected peer.                                                           *)
OpenHandle ==
  /\ At("open")
  /\ \/ handles' = [handles EXCEPT ![On] = "open"] /\ Advance
     \/ On \in conf.noHandle /\ Fail /\ UNCHANGED handles
  /\ UNCHANGED <<conf, threads, cancelled, ran, signalled, faults>>

(* Closing what is not open is a fault unless the handle is INVALID_SOCKET   *)
(* (or NULL), which every caller tests.                                      *)
closeSocket ==
  /\ At("close") \/ At("drop")
  /\ LcAssert(handles[On] # "dangling", "closed twice")
  /\ handles' = [handles EXCEPT ![On] =
       IF @ # "invalid" /\ At("drop") THEN "dangling" ELSE "invalid"]
  /\ Advance
  /\ UNCHANGED <<conf, threads, cancelled, ran, signalled>>

PlatformStep ==
  \/ PltCreateThread \/ PltInterruptThread \/ PltJoinThread
  \/ SignalWaiters \/ OpenHandle \/ closeSocket

PlatformInit ==
  /\ todo = <<>>
  /\ threads = [t \in Threads |-> "none"]
  /\ cancelled = {} /\ ran = {} /\ signalled = {} /\ faults = {}
  /\ handles = [h \in Handles |-> "invalid"]
=============================================================================
