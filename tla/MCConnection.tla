---------------------------- MODULE MCConnection ----------------------------
(* Instances of Connection for TLC.                                         *)
EXTENDS Connection

(* A host and an application where nothing fails.                           *)
Smooth(version, channels) ==
  [version |-> version, channels |-> channels, highBitrate |-> TRUE,
   slowOpusDecoder |-> FALSE, rfiDecoder |-> FALSE,
   videoFormats |-> {"H264", "H265", "H265_MAIN10"},
   serverCodecModes |-> {"H264", "H265", "H265_MAIN10"},
   described |-> {{"H265"}}, surroundParams |-> {0}, hostRfi |-> {FALSE},
   ports |-> {"wellKnown"}, directVideo |-> FALSE, directAudio |-> FALSE,
   noThread |-> {}, noHandle |-> {}, hostMayFail |-> FALSE,
   statusZero |-> FALSE, badParameters |-> FALSE, interrupts |-> FALSE,
   losing |-> {}, text |-> FALSE, connections |-> 1]

Gen7    == Smooth(<<7, 1, 431>>, 2)
Gen7Old == Smooth(<<7, 1, 410>>, 8)
Gen5    == Smooth(<<5, 0, 0>>, 6)
GenThree == Smooth(<<3, 0, 0>>, 2)

(* Two threads that lose one connection after another; everything that can  *)
(* fail on the way up, with and without an interruption, for each kind of   *)
(* host; what can be negotiated; a status line without a number; and text   *)
(* that is queued when each of two connections is stopped.                  *)
SomeConfigs ==
  {[Gen7 EXCEPT !.losing = {"ControlRecv", "VideoRecv"}, !.connections = 2],
   [Gen7 EXCEPT !.noThread = Threads, !.noHandle = Handles,
                !.hostMayFail = TRUE, !.badParameters = TRUE,
                !.interrupts = TRUE, !.losing = {"InputSend", "AudioRecv"}],
   [Gen7Old EXCEPT !.noHandle = {"rtspTcp"}, !.hostRfi = BOOLEAN,
                   !.rfiDecoder = TRUE, !.surroundParams = 0 .. 2,
                   !.described = SUBSET {"AV1", "H265"},
                   !.ports = {"wellKnown", "fromTransport"},
                   !.noThread = {"InvRefFrames"}, !.connections = 2],
   [Gen5 EXCEPT !.noHandle = {"rtspEnet"}, !.hostMayFail = TRUE,
                !.interrupts = TRUE, !.directVideo = TRUE,
                !.directAudio = TRUE, !.badParameters = TRUE,
                !.connections = 2],
   [GenThree EXCEPT !.noThread = Threads, !.noHandle = Handles,
                    !.losing = {"LossStats"}, !.interrupts = TRUE],
   [Gen7 EXCEPT !.statusZero = TRUE],
   [Gen7 EXCEPT !.text = TRUE, !.connections = 2, !.losing = {"InputSend"}]}

(* A start that fails while a thread of the control stream loses the        *)
(* connection.                                                              *)
FailingStarts ==
  {[Gen7 EXCEPT !.noThread = Threads, !.hostMayFail = TRUE,
                !.losing = {"ControlRecv"}]}
=============================================================================
