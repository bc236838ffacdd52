----------------------------- MODULE Connection -----------------------------
(* The life of a connection: LiStartConnection, LiStopConnection and          *)
(* LiInterruptConnection of Connection.c with the functions that start, stop, *)
(* initialise and destroy the streams, while the threads they start may lose  *)
(* the connection and report it.                                              *)
EXTENDS RtspHandshake

CONSTANTS
  Configs,    \* what an application and a host may bring
  MaxReports  \* how many terminations may be undelivered at a time

ASSUME ConnectionAssumption == {RtspRetries, MaxReports} \subseteq Nat

Stages == <<"platform", "nameResolution", "audioInit", "rtspHandshake",
            "controlInit", "videoInit", "inputInit", "controlStart",
            "videoStart", "audioStart", "inputStart">>

Parts == {"platform", "audio", "control", "video", "input"}

VARIABLES
  stage,              \* the number of the last stage that is complete
  alreadyTerminated,
  parts,              \* the parts that are initialised
  renderers,          \* "none", "ready" (between setup and cleanup), "started"
  told,               \* stageFailed and connectionTerminated calls
  asyncTerm,          \* AsyncTerm threads that have yet to run the callback
  asked,              \* whether the application asked for the end, and how
  connections

lifecycle == <<stage, alreadyTerminated, parts, renderers, told, asyncTerm,
               asked, connections>>
vars == <<conf, todo, platform, ConnectionInterrupted, rtsp, lifecycle>>

-----------------------------------------------------------------------------
(* The streams.                                                               *)

Initialize(p)       == Step("initialize", {p}, <<>>)
Destroy(p)          == Step("destroy", {p}, <<>>)
Attempt(what, undo) == Step("attempt", {what}, undo)
Call(what, r)       == Step(what, {r}, <<>>)   \* of a renderer's callbacks
Assume(what)        == Step("assume", {what}, <<>>)
Interrupt           == Step("interrupt", {}, <<>>)

When(c, steps) == IF c THEN steps ELSE <<>>

Gen3  == conf.version[1] = 3
OnTcp == conf.version[1] < 5   \* control and input have TCP sockets
RfiEnabled == conf.rfiDecoder /\ neg.rfi

startControlStream ==
  LET Undo(signals, joins) ==
        <<Signal({"stopping"} \cup signals
                 \cup (IF OnTcp THEN {"ctlSock"} ELSE {}))>>
        \o When(~OnTcp, <<Interrupt>>) \o joins \o <<Close("control")>>
      recv == StopThread("ControlRecv")
      both == StopThread("LossStats") \o recv
      three == both \o StopThread("ReqIdrFrame")
      idr == {"idrFrameRequiredEvent"}
  IN  <<Assume("controlPort"),
        Open("control", <<Signal({"stopping"})>>),
        Create("ControlRecv", <<Signal({"stopping"}), Close("control")>>),
        Attempt("start A", Undo({}, recv)),
        Attempt("start B", Undo({}, recv)),
        Create("LossStats", Undo({}, recv)),
        Create("ReqIdrFrame", Undo({}, both)),
        Create("CtrlAsyncCb", Undo(idr, three))>>
      \o When(RfiEnabled,
           <<Create("InvRefFrames", Undo(idr \cup {"asyncCallbackQueue"},
                                    three \o StopThread("CtrlAsyncCb")))>>)

stopControlStream ==
  <<Signal({"stopping", "referenceFrameControlQueue", "frameFecStatusQueue",
            "asyncCallbackQueue", "idrFrameRequiredEvent"}),
    Assume("interrupted")>>
  \o When(OnTcp, <<Signal({"ctlSock"})>>)
  \o <<Cancel({"LossStats", "ReqIdrFrame", "ControlRecv", "CtrlAsyncCb"}),
       Join("LossStats"), Join("ReqIdrFrame"), Join("ControlRecv"),
       Join("CtrlAsyncCb")>>
  \o When(RfiEnabled, StopThread("InvRefFrames"))
  \o <<Close("control")>>

Decoder(steps) == When(~conf.directVideo, steps)

(* The two last error paths of startVideoStream.                              *)
UndoVideo ==
  <<Call("stop", "video"), Signal({"decodeUnitQueue"}), Cancel({"VideoRecv"})>>
  \o Decoder(<<Cancel({"VideoDec"})>>) \o <<Join("VideoRecv")>>
  \o Decoder(<<Join("VideoDec")>>) \o <<Drop("video")>>

startVideoStream ==
  LET cleanup == <<Call("cleanup", "video")>>
      stop == <<Call("stop", "video")>>
  IN  <<Assume("video"), Attempt("setup", <<>>), Call("setup", "video"),
        Open("video", cleanup), Call("start", "video"),
        Create("VideoRecv", stop \o <<Drop("video")>> \o cleanup)>>
      \o Decoder(<<Create("VideoDec", stop \o StopThread("VideoRecv")
                                      \o <<Drop("video")>> \o cleanup)>>)
      \o When(Gen3, <<Open("firstFrame", UndoVideo \o cleanup)>>)
      \o <<Create("VideoPing", UndoVideo
             \o When(Gen3, <<Close("firstFrame")>>) \o cleanup)>>
      \o When(Gen3, <<Close("firstFrame")>>)

(* Mutant: the socket is closed before the threads that use it are joined.    *)
M_stopVideoStream ==
  <<Call("stop", "video"), Signal({"decodeUnitQueue"}),
    Cancel({"VideoPing", "VideoRecv"})>>
  \o Decoder(<<Cancel({"VideoDec"})>>)
  \o <<Close("video"), Join("VideoPing"), Join("VideoRecv")>>
  \o Decoder(<<Join("VideoDec")>>) \o <<Call("cleanup", "video")>>

stopVideoStream ==
  <<Call("stop", "video"), Signal({"decodeUnitQueue"}),
    Cancel({"VideoPing", "VideoRecv"})>>
  \o Decoder(<<Cancel({"VideoDec"})>>)
  \o <<Join("VideoPing"), Join("VideoRecv")>> \o Decoder(<<Join("VideoDec")>>)
  \o <<Close("video"), Call("cleanup", "video")>>

(* The error paths of startAudioStream close the socket of the audio stream   *)
(* and leave its handle as it is.                                             *)
startAudioStream ==
  LET Undo(joins) == <<Call("stop", "audio")>> \o joins
                     \o <<Drop("audio"), Call("cleanup", "audio")>>
  IN  <<Assume("opus"), Attempt("init", <<>>), Call("setup", "audio"),
        Call("start", "audio"), Create("AudioRecv", Undo(<<>>))>>
      \o When(~conf.directAudio,
           <<Create("AudioDec", Undo(StopThread("AudioRecv")))>>)

(* Mutant: the packet queue is not shut down.                                 *)
M_stopAudioStream ==
  <<Call("stop", "audio"), Cancel({"AudioRecv"})>>
  \o When(~conf.directAudio, <<Cancel({"AudioDec"})>>)
  \o <<Join("AudioRecv")>> \o When(~conf.directAudio, <<Join("AudioDec")>>)
  \o <<Call("cleanup", "audio")>>

stopAudioStream ==
  <<Call("stop", "audio"), Cancel({"AudioRecv"})>>
  \o When(~conf.directAudio, <<Signal({"packetQueue"}), Cancel({"AudioDec"})>>)
  \o <<Join("AudioRecv")>> \o When(~conf.directAudio, <<Join("AudioDec")>>)
  \o <<Call("cleanup", "audio")>>

(* Mutant: the ping thread is left to itself.                                 *)
M_destroyAudioStream ==
  When(handles["audio"] # "invalid", <<Close("audio")>>)
  \o <<Destroy("audio")>>

destroyAudioStream ==
  When(handles["audio"] # "invalid",
    When(threads["AudioPing"] # "none", StopThread("AudioPing"))
    \o <<Close("audio")>>)
  \o <<Destroy("audio")>>

startInputStream ==
  When(OnTcp, <<Open("input", <<>>)>>)
  \o <<Create("InputSend", When(OnTcp, <<Close("input")>>))>>

stopInputStream ==
  <<Signal({"freeList", "inputQueue"}), Join("InputSend")>>
  \o When(OnTcp, <<Close("input")>>)

-----------------------------------------------------------------------------
(* The connection.                                                            *)

Stage(name, steps) == steps \o <<Step("complete", {name}, <<>>)>>

(* resolveHostName is tried on another port, or again, when it fails, and     *)
(* then the local address is looked up.                                       *)
LiStartConnection ==
  <<Step("check", {}, <<>>), Step("reset", {}, <<>>), Step("check", {}, <<>>)>>
  \o Stage("platform", <<Attempt("platform", <<>>), Initialize("platform")>>)
  \o Stage("nameResolution", <<Attempt("resolve", <<>>)>>)
  \o Stage("audioInit", <<Initialize("audio")>>)
  \o Stage("rtspHandshake", performRtspHandshake)
  \o Stage("controlInit", <<Initialize("control")>>)
  \o Stage("videoInit", <<Initialize("video")>>)
  \o Stage("inputInit", <<Initialize("input")>>)
  \o <<Step("startStreams", {}, <<>>)>>

(* The streams are started knowing what the handshake negotiated.             *)
StartStreams ==
  Stage("controlStart", startControlStream)
  \o Stage("videoStart", startVideoStream)
  \o Stage("audioStart", startAudioStream)
  \o Stage("inputStart", startInputStream)

(* How LiStopConnection undoes stage n.                                       *)
UndoStage(n) ==
  CASE Stages[n] = "inputStart" -> stopInputStream
    [] Stages[n] = "audioStart" -> stopAudioStream
    [] Stages[n] = "videoStart" -> stopVideoStream
    [] Stages[n] = "controlStart" -> stopControlStream
    [] Stages[n] = "inputInit" -> <<Destroy("input")>>
    [] Stages[n] = "videoInit" -> <<Destroy("video")>>
    [] Stages[n] = "controlInit" -> <<Destroy("control")>>
    [] Stages[n] = "audioInit" -> destroyAudioStream
    [] Stages[n] = "platform" -> <<Destroy("platform")>>
    [] OTHER -> <<>>

Undo == Step("undo", {}, <<>>)
Stop == Step("stopConnection", {}, <<>>)

AppStart ==
  /\ todo = <<>> /\ stage = 0
  /\ connections < conf.connections
  /\ todo' = LiStartConnection
  /\ connections' = connections + 1
  /\ told' = [failed |-> 0, terminated |-> 0]
  /\ asked' = {}
  /\ UNCHANGED <<conf, platform, ConnectionInterrupted, rtsp, stage,
                 alreadyTerminated, parts, renderers, asyncTerm>>

(* LiStopConnection is not thread-safe: it is called once LiStartConnection   *)
(* has returned.                                                              *)
AppStop ==
  /\ todo = <<>> /\ stage = Len(Stages)
  /\ todo' = <<Stop>>
  /\ asked' = asked \cup {"stop"}
  /\ UNCHANGED <<conf, platform, ConnectionInterrupted, rtsp, stage,
                 alreadyTerminated, parts, renderers, told, asyncTerm,
                 connections>>

LiInterruptConnection ==
  /\ todo # <<>> /\ "interrupt" \notin asked
  /\ conf.interrupts
  /\ ConnectionInterrupted' = TRUE
  /\ asked' = asked \cup {"interrupt"}
  /\ UNCHANGED <<conf, todo, platform, rtsp, stage, alreadyTerminated, parts,
                 renderers, told, asyncTerm, connections>>

(* Parameters that are refused end the call without a word to the listener.   *)
CheckParameters ==
  /\ At("check")
  /\ \/ Advance
     \/ conf.badParameters /\ todo' = <<Stop>>
  /\ UNCHANGED <<conf, platform, ConnectionInterrupted, rtsp, lifecycle>>

(* Mutant: the flag of the last connection is left as it is.                  *)
M_ResetGlobals ==
  /\ At("reset")
  /\ neg' = [neg EXCEPT !.format = "none",
                        !.ports = NothingNegotiated.ports]
  /\ ConnectionInterrupted' = FALSE
  /\ Advance
  /\ UNCHANGED <<conf, platform, connectRetries, answered, lifecycle>>

ResetGlobals ==
  /\ At("reset")
  /\ neg' = [neg EXCEPT !.format = "none",
                        !.ports = NothingNegotiated.ports]
  /\ alreadyTerminated' = FALSE
  /\ ConnectionInterrupted' = FALSE
  /\ Advance
  /\ UNCHANGED <<conf, platform, connectRetries, answered, stage, parts,
                 renderers, told, asyncTerm, asked, connections>>

(* A step that holds nothing and may fail.                                    *)
AttemptStep ==
  /\ At("attempt")
  /\ Advance \/ (conf.hostMayFail /\ Fail)
  /\ UNCHANGED <<conf, platform, ConnectionInterrupted, rtsp, lifecycle>>

(* A stage is complete, and the assertion on its number.                      *)
CompleteStage ==
  /\ At("complete")
  /\ stage' = stage + 1
  /\ LcAssert(stage < Len(Stages) /\ Stages[stage + 1] = On, "stage")
  /\ Advance
  /\ UNCHANGED <<conf, threads, cancelled, ran, handles, signalled,
                 ConnectionInterrupted, rtsp, alreadyTerminated, parts,
                 renderers, told, asyncTerm, asked, connections>>

BeginStreams ==
  /\ At("startStreams")
  /\ todo' = StartStreams
  /\ UNCHANGED <<conf, platform, ConnectionInterrupted, rtsp, lifecycle>>

(* stageFailed, and then the code at Cleanup.                                 *)
StageFailed ==
  /\ At("failed")
  /\ told' = [told EXCEPT !.failed = @ + 1]
  /\ todo' = <<Stop>>
  /\ UNCHANGED <<conf, platform, ConnectionInterrupted, rtsp, stage,
                 alreadyTerminated, parts, renderers, asyncTerm, asked,
                 connections>>

(* Mutant: the connection is not interrupted.                                 *)
M_LiStopConnection ==
  /\ At("stopConnection")
  /\ alreadyTerminated' = TRUE
  /\ todo' = <<Undo>>
  /\ UNCHANGED <<conf, platform, ConnectionInterrupted, rtsp, stage, parts,
                 renderers, told, asyncTerm, asked, connections>>

LiStopConnection ==
  /\ At("stopConnection")
  /\ alreadyTerminated' = TRUE
  /\ ConnectionInterrupted' = TRUE
  /\ todo' = <<Undo>>
  /\ UNCHANGED <<conf, platform, rtsp, stage, parts, renderers, told,
                 asyncTerm, asked, connections>>

UndoStages ==
  /\ At("undo")
  /\ todo' = IF stage = 0 THEN <<>>
             ELSE UndoStage(stage) \o <<Step("undone", {}, <<>>), Undo>>
  /\ UNCHANGED <<conf, platform, ConnectionInterrupted, rtsp, lifecycle>>

StageUndone ==
  /\ At("undone")
  /\ stage' = stage - 1
  /\ Advance
  /\ UNCHANGED <<conf, platform, ConnectionInterrupted, rtsp,
                 alreadyTerminated, parts, renderers, told, asyncTerm,
                 asked, connections>>

-----------------------------------------------------------------------------
(* The parts and what is asserted of them.                                    *)

SignalsOf(p) ==
  CASE p = "audio" -> {"packetQueue"}
    [] p = "video" -> {"decodeUnitQueue"}
    [] p = "input" -> {"inputQueue", "freeList", "acks"}
    [] p = "control" -> {"asyncCallbackQueue", "referenceFrameControlQueue",
                         "frameFecStatusQueue", "idrFrameRequiredEvent",
                         "ctlSock", "stopping"}
    [] OTHER -> {}

(* The threads that put items into the queues of a part.                      *)
Feeders(q) ==
  CASE q = "packetQueue" /\ ~conf.directAudio -> {"AudioRecv"}
    [] q = "decodeUnitQueue" /\ ~conf.directVideo -> {"VideoRecv"}
    [] q \in {"inputQueue", "freeList"} -> {"InputSend"}
    [] q = "asyncCallbackQueue" -> {"ControlRecv"}
    [] q \in {"referenceFrameControlQueue", "frameFecStatusQueue"}
         -> {"VideoRecv"}
    [] OTHER -> {}

InitializePart ==
  /\ At("initialize")
  /\ parts' = parts \cup {On}
  /\ signalled' = signalled \ SignalsOf(On)
  /\ ran' = IF On = "platform" THEN {} ELSE ran
  /\ Advance
  /\ UNCHANGED <<conf, threads, cancelled, handles, faults,
                 ConnectionInterrupted, rtsp, stage, alreadyTerminated,
                 renderers, told, asyncTerm, asked, connections>>

(* LbqDestroyLinkedBlockingQueue asserts that a queue that was ever used is   *)
(* shut down or draining, destroyControlStream that the control stream is     *)
(* stopping and cleanupPlatform that no thread is left.                       *)
DestroyPart ==
  LET live == {q \in SignalsOf(On) \ signalled : Feeders(q) \cap ran # {}}
  IN  /\ At("destroy")
      /\ parts' = parts \ {On}
      /\ \E itemsQueued \in SUBSET live :
           faults' = faults
             \cup (IF itemsQueued # {} THEN {"queue"} ELSE {})
             \cup (IF On = "control" /\ "stopping" \notin signalled
                   THEN {"stopping"} ELSE {})
             \cup (IF On = "platform" /\ activeThreads # 0
                   THEN {"threads"} ELSE {})
      /\ Advance
      /\ UNCHANGED <<conf, threads, cancelled, ran, handles, signalled,
                     ConnectionInterrupted, rtsp, stage, alreadyTerminated,
                     renderers, told, asyncTerm, asked, connections>>

(* The assertions of the streams on what the handshake negotiated, and the    *)
(* one of stopControlStream.                                                  *)
CheckAssumption ==
  /\ At("assume")
  /\ LcAssert(
       CASE On = "controlPort" -> OnTcp <=> neg.ports["control"] = "none"
         [] On = "video" -> neg.format # "none" /\ neg.ports["video"] # "none"
         [] On = "opus" ->
              IF neg.highQuality THEN neg.opus.high # 0 ELSE neg.opus.normal # 0
         [] On = "interrupted" -> ConnectionInterrupted,
       On)
  /\ Advance
  /\ UNCHANGED <<conf, threads, cancelled, ran, handles, signalled,
                 ConnectionInterrupted, rtsp, lifecycle>>

(* setup or init, start, stop and cleanup of a renderer, in this order.       *)
CallRenderer ==
  LET call == Head(todo).op
      before == CASE call = "setup" -> "none" [] call = "start" -> "ready"
                  [] call = "stop" -> "started" [] call = "cleanup" -> "ready"
      after == CASE call = "start" -> "started" [] call = "cleanup" -> "none"
                 [] OTHER -> "ready"
  IN  /\ \E c \in {"setup", "start", "stop", "cleanup"} : At(c)
      /\ LcAssert(renderers[On] = before, "renderer")
      /\ renderers' = [renderers EXCEPT ![On] = after]
      /\ Advance
      /\ UNCHANGED <<conf, threads, cancelled, ran, handles, signalled,
                     ConnectionInterrupted, rtsp, stage, alreadyTerminated,
                     parts, told, asyncTerm, asked, connections>>

(* The error paths of startControlStream interrupt the connection.            *)
InterruptStep ==
  /\ At("interrupt")
  /\ ConnectionInterrupted' = TRUE
  /\ Advance
  /\ UNCHANGED <<conf, platform, rtsp, lifecycle>>

-----------------------------------------------------------------------------
(* A thread that loses the connection calls ClInternalConnectionTerminated    *)
(* and returns.                                                               *)

TestTerminated(t) ==
  /\ t \in conf.losing /\ threads[t] = "running"
  /\ threads' = [threads EXCEPT ![t] =
       IF alreadyTerminated \/ ConnectionInterrupted
       THEN "lost" ELSE "reporting"]
  /\ UNCHANGED <<conf, todo, cancelled, ran, handles, signalled, faults,
                 ConnectionInterrupted, rtsp, lifecycle>>

CreateAsyncTerm(t) ==
  /\ threads[t] = "reporting"
  /\ asyncTerm < MaxReports
  /\ threads' = [threads EXCEPT ![t] = "lost"]
  /\ alreadyTerminated' = TRUE
  /\ asyncTerm' = asyncTerm + 1
  /\ UNCHANGED <<conf, todo, cancelled, ran, handles, signalled, faults,
                 ConnectionInterrupted, rtsp, stage, parts, renderers, told,
                 asked, connections>>

(* The AsyncTerm thread is detached: nobody waits for it.                     *)
terminationCallbackThreadFunc ==
  /\ asyncTerm > 0
  /\ asyncTerm' = asyncTerm - 1
  /\ told' = [told EXCEPT !.terminated = @ + 1]
  /\ UNCHANGED <<conf, todo, platform, ConnectionInterrupted, rtsp, stage,
                 alreadyTerminated, parts, renderers, asked, connections>>

(* What was in transit before the last text is acknowledged, the peer is gone *)
(* or no text was queued.  Once the connection is interrupted only LossStats  *)
(* still makes ENet look for acknowledgements, as it sends the next ping,     *)
(* which is then in transit itself; so nobody brings this about.              *)
Acknowledged ==
  /\ conf.text /\ threads["InputSend"] # "none"
  /\ "inputQueue" \in signalled /\ "acks" \notin signalled
  /\ signalled' = signalled \cup {"acks"}
  /\ UNCHANGED <<conf, todo, threads, cancelled, ran, handles, faults,
                 ConnectionInterrupted, rtsp, lifecycle>>

-----------------------------------------------------------------------------

Init ==
  /\ conf \in Configs
  /\ PlatformInit
  /\ RtspInitial
  /\ stage = 0 /\ alreadyTerminated = FALSE
  /\ parts = {} /\ renderers = [r \in {"video", "audio"} |-> "none"]
  /\ told = [failed |-> 0, terminated |-> 0]
  /\ asyncTerm = 0 /\ asked = {} /\ connections = 0

(* What the thread that runs LiStartConnection or LiStopConnection does.      *)
CallStep ==
  \/ PlatformStep /\ UNCHANGED <<ConnectionInterrupted, rtsp, lifecycle>>
  \/ RtspStep /\ UNCHANGED lifecycle
  \/ CheckParameters \/ ResetGlobals \/ AttemptStep \/ CompleteStage
  \/ BeginStreams \/ StageFailed \/ LiStopConnection \/ UndoStages
  \/ StageUndone \/ InitializePart \/ DestroyPart \/ CheckAssumption
  \/ CallRenderer \/ InterruptStep

Next ==
  \/ AppStart \/ AppStop \/ LiInterruptConnection
  \/ CallStep
  \/ \E t \in Threads : TestTerminated(t) \/ CreateAsyncTerm(t)
  \/ terminationCallbackThreadFunc
  \/ Acknowledged

Spec == Init /\ [][Next]_vars

(* The call waits, without a timeout, for a host on TCP to answer START A or  *)
(* START B (ControlStream.c:523).                                             *)
AwaitsReply == OnTcp /\ At("attempt") /\ On \in {"start A", "start B"}

(* It waits for the input thread, which waits for acknowledgements.           *)
AwaitsAcks == At("join") /\ WaitsFor(On) \ signalled = {"acks"}

(* Every other wait of a call has a timeout or is for a thread to return,     *)
(* threads are scheduled, and so is the one that runs the callback.  The      *)
(* application need not start, stop or interrupt, the connection need not be  *)
(* lost, and the host need neither answer on TCP nor acknowledge anything.    *)
FairSpec ==
  /\ Spec
  /\ WF_vars(~AwaitsReply /\ CallStep)
  /\ \A t \in Threads : WF_vars(CreateAsyncTerm(t))
  /\ WF_vars(terminationCallbackThreadFunc)

-----------------------------------------------------------------------------

(* Types: in particular, the host is asked to connect a bounded number of     *)
(* times (RtspConnection.c:423), and the stage is one of those there are.     *)
TypeOK ==
  /\ conf \in Configs
  /\ threads \in [Threads -> {"none", "running", "reporting", "lost"}]
  /\ cancelled \subseteq Threads /\ ran \subseteq Threads
  /\ handles \in [Handles -> {"invalid", "open", "dangling"}]
  /\ signalled \subseteq Signals
  /\ connectRetries \in 0 .. RtspRetries
  /\ stage \in 0 .. Len(Stages)
  /\ parts \subseteq Parts
  /\ renderers \in [{"video", "audio"} -> {"none", "ready", "started"}]
  /\ asyncTerm \in 0 .. MaxReports
  /\ asked \subseteq {"stop", "interrupt"}
  /\ {alreadyTerminated, ConnectionInterrupted, answered}
       \subseteq BOOLEAN

(* Every assertion of the code on the way up and down holds: on the stage, on *)
(* what the handshake negotiated, on queues that are destroyed, on threads    *)
(* that are joined and on those that are left (Connection.c, AudioStream.c:   *)
(* 429, VideoStream.c:324, LinkedBlockingQueue.c:5, Platform.c:174 and 635);  *)
(* and no handle is closed twice.                                             *)
AssertsHold == faults = {}

(* As long as no stage fails they all hold, and after a failure all but those *)
(* on queues and the closing of the audio socket.  A host that answers with a *)
(* status line without a number is out: the handshake then "succeeds" having  *)
(* negotiated nothing.                                                        *)
AssertsHoldOnceStarted ==
  [][faults' # faults =>
       \/ conf.statusZero
       \/ told.failed > 0 /\ faults' \subseteq {"queue", "closed twice"}]_vars

(* When LiStopConnection or a LiStartConnection that failed has returned, no  *)
(* part is initialised, no thread is left, no renderer waits for its cleanup  *)
(* and no handle is open, wherever it failed; a handshake leaves nothing      *)
(* allocated either, but for the contexts that its ENet error paths forget    *)
(* (RtspConnection.c:1020-1041), in this call or an earlier one.              *)
NothingOutlives ==
  todo = <<>> =>
    /\ handles["rtspTcp"] = "invalid" /\ handles["rtspEnet"] = "invalid"
    /\ ~neg.session
    /\ neg.contexts => /\ useEnet /\ stage = 0
                       /\ told.failed > 0 \/ connections > 1
    /\ stage = 0 =>
         /\ parts = {} /\ activeThreads = 0
         /\ \A r \in DOMAIN renderers : renderers[r] = "none"
         /\ \A h \in Handles : handles[h] # "open"

PartsUsed(t) ==
  CASE t \in {"VideoRecv", "VideoDec"} -> {"video", "control"}
    [] t \in {"AudioRecv", "AudioDec"} -> {"audio"}
    [] t = "InputSend" -> {"input", "control"}
    [] t \in {"VideoPing", "AudioPing"} -> {}
    [] OTHER -> {"control"}

(* Whether the audio stream may go on without a socket: nobody looks at the   *)
(* result of notifyAudioPortNegotiationComplete.                              *)
AudioUnbound == "audio" \in conf.noHandle \/ conf.statusZero

HandlesUsed(t) ==
  CASE t \in {"VideoRecv", "VideoPing"} -> {"video"}
    [] t = "AudioPing" -> {"audio"}
    [] t = "InputSend" -> IF OnTcp THEN {"input"} ELSE {"control"}
    [] t = "AudioRecv" -> IF AudioUnbound THEN {} ELSE {"audio"}
    [] t = "AudioDec" -> {}
    [] OTHER -> {"control"}

RenderersUsed(t) ==
  CASE t = (IF conf.directVideo THEN "VideoRecv" ELSE "VideoDec") -> {"video"}
    [] t = (IF conf.directAudio THEN "AudioRecv" ELSE "AudioDec") -> {"audio"}
    [] OTHER -> {}

(* A thread that runs finds what it uses, its own stream's and that of others *)
(* (the video threads queue messages for the control stream, input is sent on *)
(* it): the parts are initialised, the sockets are open, the renderer is not  *)
(* yet cleaned up.  Streams are therefore stopped in the reverse of the order *)
(* they start in, and threads joined before anything is closed.  The ping     *)
(* thread of the audio stream is not covered once startAudioStream failed     *)
(* (AudioStream.c:452 and 463).                                               *)
NoUseAfterRelease ==
  \A t \in Threads : Running(t) =>
    /\ PartsUsed(t) \subseteq parts
    /\ \A r \in RenderersUsed(t) : renderers[r] # "none"
    /\ \A h \in HandlesUsed(t) : \/ handles[h] = "open"
                                 \/ h = "audio" /\ handles[h] = "dangling"

(* The application hears of the end of a connection at most once, from        *)
(* stageFailed or from connectionTerminated (Limelight.h:393, Connection.c:   *)
(* 162).                                                                      *)
OneVerdict == told.failed + told.terminated <= 1

(* Every call returns: no join waits for a thread that nobody wakes up, at    *)
(* whatever point the start failed or was interrupted, unless the host never  *)
(* answers on TCP, or never acknowledges in time for the text that is queued  *)
(* when the connection is stopped (InputStream.c:557).                        *)
CallsReturn ==
  \/ <>[]AwaitsReply \/ <>[]AwaitsAcks
  \/ todo # <<>> ~> todo = <<>>

(* When a thread loses the connection the application hears of it, unless it  *)
(* has asked for the end itself; the flags of an earlier connection do not    *)
(* silence a later one (Connection.c:163 and 282).                            *)
LossIsReported ==
  \A t \in Threads :
    threads[t] \in {"reporting", "lost"}
      ~> (told.failed + told.terminated > 0 \/ asked # {})
=============================================================================
