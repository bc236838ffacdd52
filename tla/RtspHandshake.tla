---------------------------- MODULE RtspHandshake ----------------------------
(* The handshake of RtspConnection.c: the requests it makes of the host, over *)
(* ENet or over one TCP connection for each, what it takes from the answers,  *)
(* and what it holds while it runs.                                           *)
EXTENDS Platform, SequencesExt

CONSTANT
  RtspRetries  \* RTSP_CONNECT_TIMEOUT_SEC * 1000 / RTSP_RETRY_DELAY_MS

VARIABLES
  ConnectionInterrupted,
  connectRetries,
  answered, \* whether the request at hand has its answer
  neg       \* the globals that the handshake negotiates, and what it allocates

rtsp == <<connectRetries, answered, neg>>

-----------------------------------------------------------------------------

AppVersionAtLeast(a, b, c) ==
  LET v == conf.version
  IN  \/ v[1] > a
      \/ v[1] = a /\ v[2] > b
      \/ v[1] = a /\ v[2] = b /\ v[3] >= c

useEnet == conf.version[1] \in 5 .. 7 /\ conf.version[3] < 404

RtspExit == <<Step("rtspExit", {}, <<>>)>>
Request(r) == <<Step("request", {r}, RtspExit)>>

(* performRtspHandshake.  The error paths of the ENet connection return       *)
(* before Exit.                                                               *)
performRtspHandshake ==
  <<Step("rtspInit", {}, <<>>)>>
  \o (IF useEnet THEN <<Open("rtspEnet", <<>>)>> ELSE <<>>)
  \o Request("OPTIONS") \o Request("DESCRIBE")
  \o Request("SETUP audio") \o Request("SETUP video")
  \o (IF conf.version[1] >= 5 THEN Request("SETUP control") ELSE <<>>)
  \o Request("ANNOUNCE")
  \o (IF AppVersionAtLeast(7, 1, 431) THEN Request("PLAY")
      ELSE Request("PLAY video") \o Request("PLAY audio"))
  \o RtspExit

(* Start of the handshake: AudioEncryptionEnabled and the session are reset.  *)
RtspInit ==
  /\ At("rtspInit")
  /\ neg' = [neg EXCEPT !.contexts = TRUE, !.session = FALSE]
  /\ Advance
  /\ UNCHANGED <<conf, platform, ConnectionInterrupted, connectRetries,
                 answered>>

(* The code at the label Exit.                                                *)
RtspCleanup ==
  /\ At("rtspExit")
  /\ handles' = [handles EXCEPT !["rtspEnet"] = "invalid"]
  /\ neg' = [neg EXCEPT !.contexts = FALSE, !.session = FALSE]
  /\ Advance
  /\ UNCHANGED <<conf, threads, cancelled, ran, signalled, faults,
                 ConnectionInterrupted, connectRetries, answered>>

-----------------------------------------------------------------------------
(* What an answer negotiates.                                                 *)

(* The profiles of a codec that need the consent of both sides, in the order  *)
(* they are tried, and the one that is taken without.                         *)
Profiles(codec) ==
  CASE codec = "AV1" -> <<"AV1_HIGH10_444", "AV1_MAIN10", "AV1_HIGH8_444">>
    [] codec = "H265" -> <<"H265_REXT10_444", "H265_MAIN10", "H265_REXT8_444">>
    [] OTHER -> <<"H264_HIGH8_444">>

BaseProfile(codec) ==
  CASE codec = "AV1" -> "AV1_MAIN8" [] codec = "H265" -> "H265"
    [] OTHER -> "H264"

Formats(codec) == {BaseProfile(codec)} \cup ToSet(Profiles(codec))

(* described: the codecs whose marks are in the answer to DESCRIBE.           *)
NegotiatedVideoFormat(described) ==
  LET Usable(codec) ==
        codec \in described /\ Formats(codec) \cap conf.videoFormats # {}
      codec == IF Usable("AV1") THEN "AV1"
               ELSE IF Usable("H265") THEN "H265" ELSE "H264"
      agreed == SelectSeq(Profiles(codec), LAMBDA p :
                  p \in conf.serverCodecModes \cap conf.videoFormats)
  IN  IF agreed = <<>> THEN BaseProfile(codec) ELSE Head(agreed)

(* parseOpusConfigurations: the number of channels of the two configurations, *)
(* for an answer with that many surround-params.                              *)
Opus(surroundParams) ==
  [normal |-> IF conf.channels = 2 \/ surroundParams > 0 \/ conf.channels = 6
              THEN conf.channels ELSE 0,
   high |-> IF conf.channels > 2 /\ surroundParams > 1
            THEN conf.channels ELSE 0]

(* What the SDP of the ANNOUNCE asks for: getSdpPayloadForStreamConfig.       *)
HighQualitySurround ==
  /\ conf.version[1] >= 7
  /\ conf.highBitrate /\ conf.channels > 2
  /\ neg.opus.high # 0
  /\ ~conf.slowOpusDecoder

(* parseServerPortFromTransport, or the well known port.                      *)
serverPort == conf.ports

-----------------------------------------------------------------------------

TakeDescribe ==
  \E described \in conf.described, surroundParams \in conf.surroundParams,
     rfi \in conf.hostRfi :
    LET opus == Opus(surroundParams)
    IN  /\ neg' = [neg EXCEPT !.format = NegotiatedVideoFormat(described),
                              !.rfi = rfi, !.opus = opus]
        /\ IF opus.normal # 0 THEN Advance ELSE Fail
  /\ UNCHANGED <<threads, cancelled, ran, handles, faults>>

(* notifyAudioPortNegotiationComplete binds the audio socket and starts the   *)
(* ping thread; nobody looks at its result.                                   *)
notifyAudioPortNegotiationComplete ==
  \/ /\ "audio" \in conf.noHandle
     /\ UNCHANGED <<threads, cancelled, ran, handles>>
  \/ /\ handles' = [handles EXCEPT !["audio"] = "open"]
     /\ \/ /\ threads' = [threads EXCEPT !["AudioPing"] = "running"]
           /\ cancelled' = cancelled \ {"AudioPing"}
           /\ ran' = ran \cup {"AudioPing"}
        \/ /\ "AudioPing" \in conf.noThread
           /\ UNCHANGED <<threads, cancelled, ran>>

TakeSetupAudio ==
  \E port \in serverPort, session \in BOOLEAN :
    /\ LcAssert(neg.ports["audio"] = "none" /\ threads["AudioPing"] = "none",
                "audio port")
    /\ notifyAudioPortNegotiationComplete
    /\ neg' = [neg EXCEPT !.ports["audio"] = port, !.session = session]
    /\ IF session THEN Advance ELSE Fail

TakeSetup(stream) ==
  \E port \in serverPort :
    /\ LcAssert(neg.ports[stream] = "none", "port")
    /\ neg' = [neg EXCEPT !.ports[stream] = port]
    /\ Advance
    /\ UNCHANGED <<threads, cancelled, ran, handles>>

(* ANNOUNCE decides on the quality of surround sound as it is sent.           *)
TakeAnnounce ==
  /\ neg' = [neg EXCEPT !.highQuality = HighQualitySurround]
  /\ Advance
  /\ UNCHANGED <<threads, cancelled, ran, handles, faults>>

(* An answer with status 200.                                                 *)
Accepted ==
  CASE On = "DESCRIBE" -> TakeDescribe
    [] On = "SETUP audio" -> TakeSetupAudio
    [] On = "SETUP video" -> TakeSetup("video")
    [] On = "SETUP control" -> TakeSetup("control")
    [] On = "ANNOUNCE" -> TakeAnnounce
    [] OTHER -> Advance /\ UNCHANGED <<threads, cancelled, ran, handles,
                                       faults, neg>>

(* Any other status is the result of the handshake, so a status line without  *)
(* a number, which atoi turns into 0, ends it with success.  An answer to     *)
(* DESCRIBE without content is an error too.                                  *)
Refused ==
  /\ \/ Fail
     \/ /\ conf.statusZero
        /\ \E i \in 1 .. Len(todo) :
             /\ todo[i].op = "rtspExit"
             /\ todo' = SubSeq(todo, i, Len(todo))
  /\ UNCHANGED <<threads, cancelled, ran, handles, faults, neg>>

TakeAnswer ==
  /\ At("request") /\ answered
  /\ answered' = FALSE
  /\ Accepted \/ Refused
  /\ UNCHANGED <<conf, signalled, ConnectionInterrupted, connectRetries>>

-----------------------------------------------------------------------------
(* transactRtspMessage, for the request at hand.                              *)

Requesting ==
  At("request") /\ ~answered /\ handles["rtspTcp"] = "invalid"

RequestInterrupted ==
  /\ Requesting /\ connectRetries = 0 /\ ConnectionInterrupted
  /\ Fail
  /\ UNCHANGED <<conf, platform, ConnectionInterrupted, rtsp>>

(* An answer arrives and can be parsed, or the transaction fails: the host    *)
(* closes the connection, is silent for RTSP_RECEIVE_TIMEOUT_SEC, or answers  *)
(* what cannot be decrypted or parsed.                                        *)
AnswerOrNot ==
  \/ answered' = TRUE /\ UNCHANGED todo
  \/ conf.hostMayFail /\ Fail /\ UNCHANGED answered

transactRtspMessageEnet ==
  /\ Requesting /\ useEnet /\ ~ConnectionInterrupted
  /\ AnswerOrNot
  /\ UNCHANGED <<conf, platform, ConnectionInterrupted, connectRetries, neg>>

(* Mutant: nothing counts the retries.                                        *)
M_ConnectTcp ==
  /\ Requesting /\ ~useEnet
  /\ \/ /\ handles' = [handles EXCEPT !["rtspTcp"] = "open"]
        /\ UNCHANGED <<todo, connectRetries>>
     \/ /\ "rtspTcp" \in conf.noHandle /\ ~ConnectionInterrupted
        /\ connectRetries' = connectRetries + 1
        /\ UNCHANGED <<todo, handles>>
  /\ UNCHANGED <<conf, threads, cancelled, ran, signalled, faults,
                 ConnectionInterrupted, answered, neg>>

(* transactRtspMessageTcp connects again while the host refuses.              *)
ConnectTcp ==
  /\ Requesting /\ ~useEnet
  /\ connectRetries = 0 => ~ConnectionInterrupted
  /\ \/ /\ handles' = [handles EXCEPT !["rtspTcp"] = "open"]
        /\ UNCHANGED <<todo, connectRetries>>
     \/ /\ "rtspTcp" \in conf.noHandle
        /\ connectRetries < RtspRetries /\ ~ConnectionInterrupted
        /\ connectRetries' = connectRetries + 1
        /\ UNCHANGED <<todo, handles>>
     \/ /\ "rtspTcp" \in conf.noHandle
        /\ connectRetries' = 0
        /\ Fail
        /\ UNCHANGED handles
  /\ UNCHANGED <<conf, threads, cancelled, ran, signalled, faults,
                 ConnectionInterrupted, answered, neg>>

(* One connection serves one request.                                         *)
transactRtspMessageTcp ==
  /\ At("request") /\ handles["rtspTcp"] = "open"
  /\ handles' = [handles EXCEPT !["rtspTcp"] = "invalid"]
  /\ connectRetries' = 0
  /\ AnswerOrNot
  /\ UNCHANGED <<conf, threads, cancelled, ran, signalled, faults,
                 ConnectionInterrupted, neg>>

RtspStep ==
  \/ RtspInit \/ RtspCleanup \/ RequestInterrupted
  \/ transactRtspMessageEnet \/ ConnectTcp \/ transactRtspMessageTcp
  \/ TakeAnswer

NothingNegotiated ==
  [format |-> "none", rfi |-> FALSE, opus |-> [normal |-> 0, high |-> 0],
   ports |-> [s \in {"audio", "video", "control"} |-> "none"],
   highQuality |-> FALSE, contexts |-> FALSE, session |-> FALSE]

RtspInitial ==
  /\ ConnectionInterrupted = FALSE
  /\ connectRetries = 0
  /\ answered = FALSE
  /\ neg = NothingNegotiated
=============================================================================
