--------------------------- MODULE MCControlStream ---------------------------
(* Instances of ControlStream for TLC.                                     *)
EXTENDS ControlStream

Message(type, controller, value) ==
  [type |-> type, controller |-> controller, value |-> value]

On(type, controller)  == Message(type, controller, TRUE)
Off(type, controller) == Message(type, controller, FALSE)

(* Two controllers that rumble, the HDR mode, and a message that is not    *)
(* batched, in orders that batch, that must not batch, and that overflow   *)
(* the queue                                                               *)
SomeScripts ==
  {<<On("rumble", 1), On("rumble", 2), Off("rumble", 1), Off("rumble", 2)>>,
   <<On("rumble", 1), Off("rumble", 1), On("hdr", 0), Off("hdr", 0)>>,
   <<On("hdr", 0), On("motion", 1), Off("hdr", 0), Off("motion", 1)>>}

(* Losses with and without RFI, and messages of the host                   *)
SomeModes == {m \in ModeKinds : m.traffic = "host" => m.rfi}
=============================================================================
