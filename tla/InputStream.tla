----------------------------- MODULE InputStream -----------------------------
(***************************************************************************)
(* The input stream (InputStream.c): threads of the application put input  *)
(* events into packetQueue with the LiSend... calls, and inputSendThread   *)
(* sends them to the host.                                                 *)
(*                                                                         *)
(* Motion of the mouse and of sensors is not queued: its latest state (the *)
(* sum, for relative motion) is kept aside and one packet in the queue,    *)
(* whose place `dirty' reserves, carries it.  Events of a controller are   *)
(* merged into its last queued packet while the buttons are the same, and  *)
(* pen events are merged as they leave the queue.  Packets live in holders *)
(* that go from hand to hand and come back through packetHolderFreeList.   *)
(*                                                                         *)
(* A critical section under batchedInputMutex is one step, and so is a     *)
(* call on a queue (see LinkedBlockingQueue).  A holder is a number, so    *)
(* that a pointer can outlive what it points to; malloc takes one that is  *)
(* not in use.  Sending is external: it succeeds or fails.  So is what the *)
(* control stream has in transit, for which the thread waits before text.  *)
(* inputSendThread is never interrupted, its checks for that are left out, *)
(* as are encryption, byte order, time, the `moreData' hint, fix-ups of    *)
(* key codes and button flags, failing allocations, and hosts before       *)
(* version 5.  The application is assumed to be out of the LiSend... calls *)
(* when destroyInputStream runs, but not before.                           *)
(*                                                                         *)
(* An operator M_X is X with a plausible defect, which shows that the      *)
(* properties notice it.  The specification does not use it.               *)
(***************************************************************************)
EXTENDS Integers, Sequences, FiniteSets, SequencesExt

CONSTANTS
  Callers,        \* the threads of the application
  NumHolders,     \* bound on the holders that exist at a time
  Int16Min, Int16Max,   \* what fits into a packet of relative motion
  WheelDelta,     \* LI_WHEEL_DELTA, 120 in the code
  MaxGamepads,    \* 16 in the code
  GfeGamepads,    \* 4 in the code
  Configs         \* see config

Threads == Callers \cup {"main"}
Holders == 1..NumHolders
None    == 0
Gamepads == 0..MaxGamepads - 1

(* The states that are sent as their latest value, and the devices whose   *)
(* changes of state must not be skipped                                    *)
Rel     == <<"rel", 0>>
Abs     == <<"abs", 0>>
SensorTypes == {"accel", "gyro"}
Sensors == SensorTypes \X Gamepads
Keys    == {Rel, Abs} \cup Sensors
NoKey   == <<"none", 0>>
Devices == {<<"pen", 0>>} \cup {"controller"} \X Gamepads

(* A packet, and what the application calls with: a type of sensor for     *)
(* motion, two coordinates for the mouse, of which a position has the size *)
(* of the screen as the second, and one amount for the wheel.              *)
PacketKinds == {"none", "rel", "abs", "relAsAbs", "button", "key", "text",
                "scroll", "hscroll", "touch", "ctouch", "pen", "controller",
                "arrival", "battery", "motion", "haptics"}

TouchTypes == {"hover", "down", "up", "move", "cancel", "buttonOnly",
               "hoverLeave", "cancelAll"}

Packets == [kind : PacketKinds, num : Nat,
            type : {"none"} \cup SensorTypes \cup TouchTypes,
            buttons : Nat, val : Seq(Int), reliable : BOOLEAN]

Events ==
  {e \in Packets :
     /\ e.kind = "motion" => e.type \in SensorTypes
     /\ e.kind \in {"rel", "abs", "relAsAbs"} => Len(e.val) = 2
     /\ e.kind \in {"abs", "relAsAbs"} => e.val[2] > 1
     /\ e.kind = "scroll" => Len(e.val) = 1}

ASSUME InputAssumption ==
  /\ {NumHolders, WheelDelta, MaxGamepads, GfeGamepads}
       \subseteq Nat \ {0}
  /\ GfeGamepads <= MaxGamepads
  /\ Int16Min \in Int /\ Int16Max \in Int /\ Int16Min < 0 /\ Int16Max > 0
  /\ "main" \notin Callers
  /\ \A c \in Configs :
       /\ DOMAIN c = {"scripts", "sunshine", "haptics", "sendFails", "sessions",
                       "bound"}
       /\ c.bound \in Nat \ {0} /\ c.sessions \in Nat
       /\ {c.sunshine, c.haptics, c.sendFails} \subseteq BOOLEAN
       /\ c.scripts \in [Callers -> Seq(Events)]

VARIABLES
  main,           \* where the thread is that starts and stops the stream
  initialized,
  session,        \* the number of the connection
  packetQueue, packetHolderFreeList,
  packet,         \* packet[h]: what holder h contains
  current,        \* currentRelativeMouseState, currentAbsoluteMouseState and
                  \* currentGamepadSensorState: [val, dirty] for each of Keys
  currentQueuedControllerPacket,
  currentPenButtonState,
  batchedScrollDelta,
  absCurrentPos,  \* absCurrentPosX as a fraction <<numerator, denominator>>
  todo,           \* todo[c]: the events that caller c is still to send
  caller,         \* caller[t]: where t is in its call, and what it holds
  sender,         \* the same of inputSendThread
  config,         \* what the callers do (scripts), what the host is (sunshine,
                  \* haptics), whether sending may fail, the number of
                  \* connections, and MAX_QUEUED_INPUT_PACKETS (bound)
  terminated,     \* connectionTerminated was called
  asserts,        \* whether the LC_ASSERTs of destroyInputStream held
  moved,          \* history: the relative motion of all calls
  seen            \* history, see NothingSeen

life   == <<main, initialized, session, config>>
queues == <<packetQueue, packetHolderFreeList, packet>>
batch  == <<current, currentQueuedControllerPacket>>
single == <<currentPenButtonState, batchedScrollDelta, absCurrentPos, moved>>
vars   == <<life, queues, batch, single, todo, caller, sender, terminated,
            asserts, seen>>

-----------------------------------------------------------------------------
(* Packets and holders                                                     *)

NoPacket == [kind |-> "none", num |-> 0, type |-> "none", buttons |-> 0,
             val |-> <<>>, reliable |-> TRUE]

(* TOUCH_EVENT_IS_BATCHABLE                                                *)
Batchable(type) == type \in {"hover", "move"}

KeyOf(p) ==
  CASE p.kind = "rel" -> Rel
    [] p.kind = "abs" -> Abs
    [] p.kind = "motion" -> <<p.type, p.num>>

HasKey(p)  == p.kind \in {"rel", "abs", "motion"}
Merged(p)  == HasKey(p) \/ p.kind \in {"controller", "pen"}
DeviceOf(p) == <<p.kind, p.num>>

InUse ==
  UNION {ToSet(packetQueue.items), ToSet(packetHolderFreeList.items),
         {caller[t].holder : t \in Threads}, {sender.holder}}

malloc == CHOOSE h \in Holders : h \notin InUse

(* Text longer than a holder is not put back into the free list.           *)
freePacketHolder(h) ==
  IF \/ packet[h].kind = "text" /\ Len(packet[h].val) > 1
     \/ packetHolderFreeList.shutdown
     \/ Len(packetHolderFreeList.items) = config.bound
  THEN packetHolderFreeList
  ELSE [packetHolderFreeList EXCEPT !.items = Append(@, h), !.used = TRUE]

(* What a free holder contains matters only while a controller points to   *)
(* it.                                                                     *)
Emptied(h) ==
  IF \E n \in Gamepads : currentQueuedControllerPacket[n] = h
  THEN packet ELSE [packet EXCEPT ![h] = NoPacket]

-----------------------------------------------------------------------------
(* History: what the application was told is going to be sent, and what    *)
(* was sent                                                                *)

Extend(s, x) == IF s # <<>> /\ Last(s) = x THEN s ELSE Append(s, x)

(* What a pen or a controller must not skip                                *)
StateOf(p) == <<p.type, p.buttons>>

Accept(p) ==
  IF HasKey(p)
  THEN [seen EXCEPT !.count[KeyOf(p)] = @ + 1]
  ELSE IF Merged(p)
  THEN [seen EXCEPT !.asked[DeviceOf(p)] = Extend(@, StateOf(p))]
  ELSE [seen EXCEPT
          !.accepted = Append(@, p),
          !.clicks = IF p.kind = "button"
                     THEN Append(@, <<seen.count[Rel], seen.count[Abs]>>)
                     ELSE @]

Refuse(p) ==
  IF HasKey(p) THEN [seen EXCEPT !.refused[KeyOf(p)] = TRUE]
  ELSE [seen EXCEPT !.notchRefused = @ \/ p.kind = "scroll"]

(* The sender took the state of key k into account.                        *)
Flush(k) == [seen EXCEPT !.flushed[k] = seen.count[k], !.refused[k] = FALSE]

Told(p) ==
  IF HasKey(p)
  THEN [seen EXCEPT !.last[KeyOf(p)] = [val |-> p.val,
                                        reliable |-> p.reliable]]
  ELSE IF Merged(p)
  THEN [seen EXCEPT !.told[DeviceOf(p)] = Extend(@, StateOf(p))]
  ELSE [seen EXCEPT !.sent = Append(@, p),
                    !.clicks = IF p.kind = "button" THEN Tail(@) ELSE @]

-----------------------------------------------------------------------------
(* The calls of the application                                            *)

Ready(c, kind) ==
  /\ caller[c].at = "idle" /\ todo[c] # <<>> /\ initialized
  /\ Head(todo[c]).kind = kind

Event(c) == Head(todo[c])

Idle == [at |-> "idle", next |-> "idle", packet |-> NoPacket, holder |-> None]

(* Thread t goes on at the label with packet p in mind, and then at next.  *)
Go(t, at, next, p) ==
  caller' = [caller EXCEPT ![t] = [at |-> at, next |-> next, packet |-> p,
                                   holder |-> None]]
Return(t) == caller' = [caller EXCEPT ![t] = Idle]
Taken(c)  == todo' = [todo EXCEPT ![c] = Tail(@)]

(* Calls before the stream has started are left out: they do nothing.      *)
NotInitialized(c) ==
  /\ main \in {"shutdown", "drain", "join", "destroy"} /\ ~initialized
  /\ caller[c].at = "idle" /\ todo[c] # <<>>
  /\ Taken(c)
  /\ UNCHANGED <<life, queues, batch, single, caller, sender, terminated,
                 asserts, seen>>

(* A call that allocates a holder, fills it in and queues it               *)
Simple(c, kind, supported, p) ==
  /\ Ready(c, kind)
  /\ Taken(c)
  /\ IF supported THEN Go(c, "alloc", "offer", p) ELSE Return(c)
  /\ UNCHANGED <<life, queues, batch, single, sender, terminated, asserts,
                 seen>>

LiSendMouseButtonEvent(c) == Simple(c, "button", TRUE, Event(c))
LiSendKeyboardEvent2(c)   == Simple(c, "key", TRUE, Event(c))
LiSendUtf8TextEvent(c)    == Simple(c, "text", TRUE, Event(c))
LiSendHighResHScrollEvent(c) ==
  Simple(c, "hscroll", config.sunshine /\ Event(c).val # <<0>>, Event(c))
LiSendControllerBatteryEvent(c) ==
  Simple(c, "battery", config.sunshine, Event(c))

(* Motion or scrolling by nothing                                          *)
NothingToSend(c) ==
  /\ Ready(c, "rel") \/ Ready(c, "scroll")
  /\ \A i \in DOMAIN Event(c).val : Event(c).val[i] = 0
  /\ Taken(c)
  /\ UNCHANGED <<life, queues, batch, single, caller, sender, terminated,
                 asserts, seen>>

DroppableTouch(e)   == [e EXCEPT !.reliable = ~Batchable(e.type)]

LiSendTouchEvent(c) ==
  Simple(c, "touch", config.sunshine, DroppableTouch(Event(c)))
LiSendControllerTouchEvent2(c) ==
  Simple(c, "ctouch", config.sunshine, DroppableTouch(Event(c)))

LiSendPenEvent(c) ==
  /\ Ready(c, "pen")
  /\ Taken(c)
  /\ IF config.sunshine THEN Go(c, "alloc", "fillPen", Event(c)) ELSE Return(c)
  /\ UNCHANGED <<life, queues, batch, single, sender, terminated, asserts,
                 seen>>

FillPen(c) ==
  /\ caller[c].at = "fillPen"
  /\ LET e == caller[c].packet
         p == [e EXCEPT !.reliable = \/ ~Batchable(e.type)
                                     \/ e.buttons # currentPenButtonState]
     IN /\ packet' = [packet EXCEPT ![caller[c].holder] = p]
        /\ caller' = [caller EXCEPT ![c].at = "offer", ![c].packet = p]
        /\ currentPenButtonState' = e.buttons
  /\ UNCHANGED <<life, packetQueue, packetHolderFreeList, batch,
                 batchedScrollDelta, absCurrentPos, moved, todo, sender,
                 terminated, asserts, seen>>

(* The new state goes where the sender will look for it.  Who finds        *)
(* nothing pending reserves the place of the packet that carries it, and   *)
(* queues that packet after it has left the critical section.              *)
Update(c, p, val) ==
  LET k == KeyOf(p) IN
  /\ current' = [current EXCEPT ![k] = [val |-> val, dirty |-> TRUE]]
  /\ \/ ~current[k].dirty /\ Go(c, "alloc", "offer", p) /\ UNCHANGED seen
     \/ current[k].dirty /\ Return(c) /\ seen' = Accept(p)

LiSendMouseMoveEvent(c) ==
  /\ Ready(c, "rel") /\ Event(c).val # <<0, 0>>
  /\ Taken(c)
  /\ LET d == Event(c).val
         v == current[Rel].val
     IN /\ Update(c, Event(c), <<v[1] + d[1], v[2] + d[2]>>)
        /\ moved' = <<moved[1] + d[1], moved[2] + d[2]>>
  /\ UNCHANGED <<life, queues, currentQueuedControllerPacket,
                 currentPenButtonState, batchedScrollDelta, absCurrentPos,
                 sender, terminated, asserts>>

Clamp(x, lo, hi) == IF x < lo THEN lo ELSE IF x > hi THEN hi ELSE x

(* The position is an x of a screen of the given width.                    *)
PositionEvent(c, x, width) ==
  /\ Taken(c)
  /\ Update(c, [Event(c) EXCEPT !.kind = "abs"], <<x, width>>)
  /\ absCurrentPos' = <<Clamp(x, 0, width - 1), width - 1>>
  /\ UNCHANGED <<life, queues, currentQueuedControllerPacket,
                 currentPenButtonState, batchedScrollDelta, moved, sender,
                 terminated, asserts>>

LiSendMousePositionEvent(c) ==
  Ready(c, "abs") /\ PositionEvent(c, Event(c).val[1], Event(c).val[2])

LiSendMouseMoveAsMousePositionEvent(c) ==
  /\ Ready(c, "relAsAbs")
  /\ LET width == Event(c).val[2]
         old   == (absCurrentPos[1] * width) \div absCurrentPos[2]
     IN PositionEvent(c, Clamp(old + Event(c).val[1], 0, width), width)

LiSendControllerMotionEvent(c) ==
  /\ Ready(c, "motion")
  /\ Taken(c)
  /\ \/ /\ config.sunshine
        /\ Update(c, [Event(c) EXCEPT !.num = @ % MaxGamepads], Event(c).val)
     \/ /\ ~config.sunshine
        /\ Return(c)
        /\ UNCHANGED <<current, seen>>
  /\ UNCHANGED <<life, queues, currentQueuedControllerPacket, single, sender,
                 terminated, asserts>>

-----------------------------------------------------------------------------
(* Scrolling: hosts of NVIDIA, taken to be 7.1.409 or later, only take     *)
(* whole notches.                                                          *)

needsBatchedScroll == ~config.sunshine

AddScroll(old, amount) ==
  (IF old * amount < 0 THEN 0 ELSE old) + amount

LiSendHighResScrollEvent(c) ==
  /\ Ready(c, "scroll") /\ Event(c).val # <<0>>
  /\ Taken(c)
  /\ \/ /\ needsBatchedScroll
        /\ batchedScrollDelta' =
             AddScroll(batchedScrollDelta, Event(c).val[1])
        /\ Go(c, "scroll", "idle", Event(c))
        /\ seen' = [seen EXCEPT !.lastScroll = Event(c).val[1]]
     \/ /\ ~needsBatchedScroll
        /\ Go(c, "alloc", "offer", Event(c))
        /\ UNCHANGED <<batchedScrollDelta, seen>>
  /\ UNCHANGED <<life, queues, batch, currentPenButtonState, absCurrentPos,
                 moved, sender, terminated, asserts>>

(* While a whole notch is left, it is queued.                              *)
ScrollLoop(c) ==
  /\ caller[c].at = "scroll"
  /\ LET d == batchedScrollDelta IN
       IF d >= WheelDelta \/ -d >= WheelDelta
       THEN Go(c, "alloc", "offer", [caller[c].packet EXCEPT
              !.val = <<IF d > 0 THEN WheelDelta ELSE -WheelDelta>>])
       ELSE Return(c)
  /\ UNCHANGED <<life, queues, batch, single, todo, sender, terminated,
                 asserts, seen>>

-----------------------------------------------------------------------------
(* Controllers                                                             *)

Gamepad(n) == n % (IF config.sunshine THEN MaxGamepads ELSE GfeGamepads)

ControllerPacket(e) ==
  [NoPacket EXCEPT !.kind = "controller", !.num = Gamepad(e.num),
                   !.buttons = e.buttons, !.val = e.val]

LiSendMultiControllerEvent(c) ==
  /\ Ready(c, "controller")
  /\ Taken(c)
  /\ Go(c, "match", "idle", ControllerPacket(Event(c)))
  /\ UNCHANGED <<life, queues, batch, single, sender, terminated, asserts,
                 seen>>

(* An arrival is followed by the neutral state of the controller.          *)
Neutral(e) == [e EXCEPT !.buttons = 0, !.val = <<0>>]

LiSendControllerArrivalEvent(c) ==
  /\ Ready(c, "arrival")
  /\ Taken(c)
  /\ \/ /\ config.sunshine
        /\ Go(c, "alloc", "offer", [Event(c) EXCEPT !.num = @ % MaxGamepads])
     \/ /\ ~config.sunshine
        /\ Go(c, "match", "idle", ControllerPacket(Neutral(Event(c))))
  /\ UNCHANGED <<life, queues, batch, single, sender, terminated, asserts,
                 seen>>

(* The first critical section of sendControllerEventInternal: the event    *)
(* goes into the queued packet of the controller if its buttons are the    *)
(* same, which ends the call, or needs a holder of its own.                *)
Compatible(h, p)   == h # None /\ packet[h].buttons = p.buttons

(* Holder h is queued, or about to be, or has just left the queue, and     *)
(* still belongs to the controller.                                        *)
OnItsWay(h, n) ==
  /\ \/ h \in ToSet(packetQueue.items)
     \/ \E t \in Threads : caller[t].at = "offer" /\ caller[t].holder = h
     \/ sender.at = "latch" /\ sender.holder = h
  /\ packet[h].kind = "controller" /\ packet[h].num = n

sendControllerEventInternal(c) ==
  /\ caller[c].at = "match"
  /\ LET p == caller[c].packet
         h == currentQueuedControllerPacket[p.num]
     IN \/ /\ ~initialized
           /\ Return(c)
           /\ UNCHANGED <<packet, seen>>
        \/ /\ initialized /\ Compatible(h, p)
           /\ packet' = [packet EXCEPT ![h] = p]
           /\ seen' = [Accept(p) EXCEPT !.stray = @ \/ ~OnItsWay(h, p.num)]
           /\ Return(c)
        \/ /\ initialized /\ ~Compatible(h, p)
           /\ Go(c, "alloc", "fillController", p)
           /\ UNCHANGED <<packet, seen>>
  /\ UNCHANGED <<life, packetQueue, packetHolderFreeList, batch, single, todo,
                 sender, terminated, asserts>>

(* The second one fills in the new holder and publishes it.                *)
FillController(c) ==
  /\ caller[c].at = "fillController"
  /\ LET p == caller[c].packet
         h == caller[c].holder
     IN /\ packet' = [packet EXCEPT ![h] = p]
        /\ currentQueuedControllerPacket' =
             [currentQueuedControllerPacket EXCEPT ![p.num] = h]
  /\ caller' = [caller EXCEPT ![c].at = "offer"]
  /\ UNCHANGED <<life, packetQueue, packetHolderFreeList, current, single,
                 todo, sender, terminated, asserts, seen>>

-----------------------------------------------------------------------------
(* The end of every call                                                   *)

(* packetHolderFreeList is shut down when the stream stops: there is no    *)
(* holder then, except for text.  A place that was reserved is given back. *)
GiveUp(t) ==
  /\ caller' = [caller EXCEPT
       ![t] = IF HasKey(@.packet) THEN [@ EXCEPT !.at = "reset", !.holder = None]
                                  ELSE Idle]
  /\ seen' = Refuse(caller[t].packet)

allocatePacketHolder(t) ==
  /\ caller[t].at = "alloc"
  /\ LET extended == caller[t].packet.kind = "text"
         free     == packetHolderFreeList.items
         Got(h)   == /\ caller' = [caller EXCEPT ![t].at = caller[t].next,
                                                 ![t].holder = h]
                     /\ packet' = IF caller[t].next = "offer"
                                  THEN [packet EXCEPT ![h] = caller[t].packet]
                                  ELSE packet
                     /\ UNCHANGED seen
     IN \/ /\ extended \/ (~packetHolderFreeList.shutdown /\ free = <<>>)
           /\ \E h \in Holders : h \notin InUse
           /\ Got(malloc)
           /\ UNCHANGED packetHolderFreeList
        \/ /\ ~extended /\ ~packetHolderFreeList.shutdown /\ free # <<>>
           /\ Got(Head(free))
           /\ packetHolderFreeList' =
                [packetHolderFreeList EXCEPT !.items = Tail(free)]
        \/ /\ ~extended /\ packetHolderFreeList.shutdown
           /\ GiveUp(t)
           /\ UNCHANGED <<packetHolderFreeList, packet>>
  /\ UNCHANGED <<life, packetQueue, batch, single, todo, sender, terminated,
                 asserts>>

(* The packet is queued, or refused because the queue is full or drained.  *)
(* Some calls go on after a packet was queued.                             *)
QueueFull   == Len(packetQueue.items) = config.bound

OfferOk(t) ==
  /\ caller[t].at = "offer"
  /\ ~packetQueue.draining /\ ~QueueFull
  /\ packetQueue' = [packetQueue EXCEPT
                        !.items = Append(@, caller[t].holder), !.used = TRUE]
  /\ LET p == caller[t].packet IN
       /\ seen' = Accept(p)
       /\ \/ p.kind = "arrival"
             /\ Go(t, "match", "idle", ControllerPacket(Neutral(p)))
             /\ UNCHANGED batchedScrollDelta
          \/ p.kind = "scroll" /\ needsBatchedScroll
             /\ batchedScrollDelta' = batchedScrollDelta - p.val[1]
             /\ Go(t, "scroll", "idle", p)
          \/ p.kind # "arrival" /\ ~(p.kind = "scroll" /\ needsBatchedScroll)
             /\ Return(t)
             /\ UNCHANGED batchedScrollDelta
  /\ UNCHANGED <<life, packetHolderFreeList, packet, batch,
                 currentPenButtonState, absCurrentPos, moved, todo, sender,
                 terminated, asserts>>

OfferRefused(t) ==
  /\ caller[t].at = "offer"
  /\ packetQueue.draining \/ QueueFull
  /\ packetHolderFreeList' = freePacketHolder(caller[t].holder)
  /\ packet' = Emptied(caller[t].holder)
  /\ GiveUp(t)
  /\ UNCHANGED <<life, packetQueue, batch, single, todo, sender,
                 terminated, asserts>>

(* Outside of the critical section                                         *)
M_ResetDirty(t) ==
  /\ caller[t].at = "reset"
  /\ Return(t)
  /\ UNCHANGED <<life, queues, batch, single, todo, sender, terminated,
                 asserts, seen>>

ResetDirty(t) ==
  /\ caller[t].at = "reset"
  /\ current' = [current EXCEPT ![KeyOf(caller[t].packet)].dirty = FALSE]
  /\ Return(t)
  /\ UNCHANGED <<life, queues, currentQueuedControllerPacket, single, todo,
                 sender, terminated, asserts, seen>>

-----------------------------------------------------------------------------
(* inputSendThread                                                         *)

Dispatch(p) ==
  CASE p.kind = "controller" -> "latch"
    [] p.kind \in {"rel", "abs", "motion"} -> p.kind
    [] p.kind = "text" -> "ack"
    [] p.kind = "pen" /\ Batchable(p.type) -> "pen"
    [] OTHER -> "send"

Hand == packet[sender.holder]

NoSender == [at |-> "none", holder |-> None, text |-> <<>>, key |-> NoKey]

(* The thread works on holder h; it keeps the sensor in local variables.   *)
Holding(h) ==
  [at |-> Dispatch(packet[h]), holder |-> h, text |-> packet[h].val,
   key |-> IF HasKey(packet[h]) THEN KeyOf(packet[h]) ELSE NoKey]

M_SenderWait ==
  /\ sender.at = "wait"
  /\ packetQueue.items # <<>>
  /\ sender' = Holding(Head(packetQueue.items))
  /\ packetQueue' = [packetQueue EXCEPT !.items = Tail(@)]
  /\ UNCHANGED <<life, packetHolderFreeList, packet, batch, single, todo,
                 caller, terminated, asserts, seen>>

SenderWait ==
  /\ sender.at = "wait"
  /\ \/ /\ packetQueue.items # <<>>
        /\ sender' = Holding(Head(packetQueue.items))
        /\ packetQueue' = [packetQueue EXCEPT !.items = Tail(@)]
     \/ /\ packetQueue.items = <<>> /\ packetQueue.draining
        /\ sender' = [sender EXCEPT !.at = "done"]
        /\ UNCHANGED packetQueue
  /\ UNCHANGED <<life, packetHolderFreeList, packet, batch, single, todo,
                 caller, terminated, asserts, seen>>

Done(at) ==
  /\ sender' = [NoSender EXCEPT !.at = at]
  /\ packetHolderFreeList' = freePacketHolder(sender.holder)
  /\ packet' = Emptied(sender.holder)

(* sendInputPacket: packet p goes to the control stream, or that fails,    *)
(* which ends the connection and the thread.                               *)
sendInputPacket(p, goesOn) ==
  \/ seen' = Told(p) /\ goesOn /\ UNCHANGED terminated
  \/ config.sendFails /\ Done("done") /\ terminated' = TRUE /\ UNCHANGED seen

Send ==
  /\ sender.at = "send"
  /\ sendInputPacket(Hand, Done("wait"))
  /\ UNCHANGED <<life, packetQueue, batch, single, todo, caller,
                 asserts>>

(* A controller packet: nothing may be merged into it from now on.         *)
Latch ==
  /\ sender.at = "latch"
  /\ currentQueuedControllerPacket' =
       [currentQueuedControllerPacket EXCEPT
          ![Hand.num] = IF @ = sender.holder THEN None ELSE @]
  /\ sender' = [sender EXCEPT !.at = "send"]
  /\ UNCHANGED <<life, queues, current, single, todo, caller, terminated,
                 asserts, seen>>

(* Relative motion: as many packets as it takes                            *)
Cut(d)   == Clamp(d, Int16Min, Int16Max)

M_SendRel ==
  /\ sender.at = "rel"
  /\ LET d   == current[Rel].val
         cut == <<Cut(d[1]), Cut(d[2])>>
     IN /\ packet' = [packet EXCEPT ![sender.holder].val = cut]
        /\ current' = [current EXCEPT
             ![Rel] = [val |-> <<d[1] - cut[1], d[2] - cut[2]>>,
                       dirty |-> FALSE]]
        /\ seen' = [Flush(Rel) EXCEPT !.motion = <<@[1] + cut[1],
                                                   @[2] + cut[2]>>]
        /\ sender' = [sender EXCEPT !.at = "send"]
  /\ UNCHANGED <<life, packetQueue, packetHolderFreeList,
                 currentQueuedControllerPacket, single, todo, caller,
                 terminated, asserts>>

SendRel ==
  /\ sender.at = "rel"
  /\ LET d == current[Rel].val IN
       \/ /\ d # <<0, 0>>
          /\ LET cut == <<Cut(d[1]), Cut(d[2])>> IN
               /\ packet' = [packet EXCEPT ![sender.holder].val = cut]
               /\ current' = [current EXCEPT
                                ![Rel].val = <<d[1] - cut[1], d[2] - cut[2]>>]
               /\ seen' = [seen EXCEPT !.motion = <<@[1] + cut[1],
                                                    @[2] + cut[2]>>]
          /\ sender' = [sender EXCEPT !.at = "relSend"]
          /\ UNCHANGED packetHolderFreeList
       \/ /\ d = <<0, 0>>
          /\ current' = [current EXCEPT ![Rel].dirty = FALSE]
          /\ seen' = Flush(Rel)
          /\ Done("wait")
  /\ UNCHANGED <<life, packetQueue, currentQueuedControllerPacket, single,
                 todo, caller, terminated, asserts>>

RelSend ==
  /\ sender.at = "relSend"
  /\ sendInputPacket(Hand, /\ sender' = [sender EXCEPT !.at = "rel"]
                           /\ UNCHANGED <<packetHolderFreeList, packet>>)
  /\ UNCHANGED <<life, packetQueue, batch, single, todo, caller,
                 asserts>>

(* The packet is filled in with the latest state, which is pending no      *)
(* longer.                                                                 *)
Fill(k, reliable) ==
  /\ packet' = [packet EXCEPT ![sender.holder].val = current[k].val,
                              ![sender.holder].reliable = reliable]
  /\ current' = [current EXCEPT ![k].dirty = FALSE]
  /\ seen' = Flush(k)
  /\ sender' = [sender EXCEPT !.at = "send"]
  /\ UNCHANGED <<life, packetQueue, packetHolderFreeList,
                 currentQueuedControllerPacket, single, todo, caller,
                 terminated, asserts>>

FillAbs == sender.at = "abs" /\ Fill(Abs, TRUE)

(* The null state of a gyro must arrive; other motion may be lost.         *)
FillMotion ==
  /\ sender.at = "motion"
  /\ LET k == sender.key IN
       Fill(k, k[1] = "gyro" /\ current[k].val = <<0>>)

(* A pen event is replaced by the next one in the queue as long as that    *)
(* has the same type and buttons.                                          *)
SamePen(p, q) ==
  q.kind = "pen" /\ p.type = q.type /\ p.buttons = q.buttons

PenPeek ==
  /\ sender.at = "pen"
  /\ sender' = [sender EXCEPT !.at =
       IF /\ packetQueue.items # <<>>
          /\ SamePen(Hand, packet[Head(packetQueue.items)])
       THEN "penPoll" ELSE "send"]
  /\ UNCHANGED <<life, queues, batch, single, todo, caller, terminated,
                 asserts, seen>>

M_PenPoll ==
  /\ sender.at = "penPoll"
  /\ packetHolderFreeList' = freePacketHolder(Head(packetQueue.items))
  /\ packet' = Emptied(sender.holder)
  /\ sender' = [sender EXCEPT !.at = "pen",
                              !.holder = Head(packetQueue.items)]
  /\ packetQueue' = [packetQueue EXCEPT !.items = Tail(@)]
  /\ UNCHANGED <<life, batch, single, todo, caller, terminated,
                 asserts, seen>>

PenPoll ==
  /\ sender.at = "penPoll"
  /\ packetHolderFreeList' = freePacketHolder(sender.holder)
  /\ packet' = Emptied(sender.holder)
  /\ sender' = [sender EXCEPT !.at = "pen",
                              !.holder = Head(packetQueue.items)]
  /\ packetQueue' = [packetQueue EXCEPT !.items = Tail(@)]
  /\ UNCHANGED <<life, batch, single, todo, caller, terminated,
                 asserts, seen>>

(* Before text the thread waits, without a timeout, until no reliable data *)
(* of the control stream is in transit (or the connection is lost).  Every *)
(* 100 ms a reliable ping is put in transit.  What is in transit is        *)
(* acknowledged when a thread services ENet: ControlRecv, until            *)
(* LiStopConnection interrupts it, which is before it stops the input      *)
(* stream; then only who sends, in particular the thread that sends the    *)
(* next ping as it does so.  So the wait may end at any time, and nobody   *)
(* makes it end once the stream stops.                                     *)
WaitForAcks ==
  /\ sender.at = "ack"
  /\ sender' = [sender EXCEPT !.at = "text"]
  /\ UNCHANGED <<life, queues, batch, single, todo, caller, terminated,
                 asserts, seen>>

(* Text is sent one code point at a time (sender.text is what is left, as  *)
(* lengths), up to the first byte that cannot begin one.                   *)
AtCodePoint == sender.text # <<>> /\ Head(sender.text) \in 1..4

SendText ==
  /\ sender.at = "text"
  /\ \/ /\ AtCodePoint
        /\ sendInputPacket([Hand EXCEPT !.val = <<Head(sender.text)>>],
             /\ sender' = [sender EXCEPT !.text = Tail(@)]
             /\ UNCHANGED <<packetHolderFreeList, packet>>)
     \/ /\ ~AtCodePoint
        /\ Done("wait")
        /\ UNCHANGED <<terminated, seen>>
  /\ UNCHANGED <<life, packetQueue, batch, single, todo, caller, asserts>>

-----------------------------------------------------------------------------
(* Start and stop                                                          *)

EmptyQueue == [items |-> <<>>, draining |-> FALSE, shutdown |-> FALSE,
               used |-> FALSE]

(* LbqDestroyLinkedBlockingQueue asserts this.                             *)
MayDestroy(q) == q.draining \/ q.shutdown \/ ~q.used

ZeroOf(k) == IF k = Rel THEN <<0, 0>> ELSE <<0>>

(* The history of a connection                                             *)
NothingSeen ==
  [accepted |-> <<>>,   \* packets that were queued and are not merged
   sent     |-> <<>>,   \* such packets that were sent
   asked    |-> [d \in Devices |-> <<>>],  \* the states queued, no repetitions
   told     |-> [d \in Devices |-> <<>>],  \* the states sent, no repetitions
   count    |-> [k \in Keys |-> 0],  \* updates accepted
   flushed  |-> [k \in Keys |-> 0],  \* of these, the ones sent
   refused  |-> [k \in Keys |-> FALSE],  \* an update was refused since
   last     |-> [k \in Keys |-> [val |-> ZeroOf(k), reliable |-> TRUE]],
                        \* what was sent last
   motion   |-> <<0, 0>>,  \* relative motion taken by the sender
   clicks   |-> <<>>,   \* the counts before each button in the queue
   lastScroll   |-> 0,
   notchRefused |-> FALSE,
   stray    |-> FALSE]  \* an event was merged into a packet that is not queued

M_initializeInputStream ==
  /\ main = "off" /\ session < config.sessions
  /\ main' = "start" /\ session' = session + 1
  /\ packetQueue' = EmptyQueue /\ packetHolderFreeList' = EmptyQueue
  /\ batchedScrollDelta' = 0 /\ currentPenButtonState' = 0
  /\ absCurrentPos' = <<1, 2>>
  /\ moved' = <<0, 0>> /\ seen' = NothingSeen
  /\ terminated' = FALSE
  /\ UNCHANGED <<initialized, config, packet, batch,
                 todo, caller, sender, asserts>>

initializeInputStream ==
  /\ main = "off" /\ session < config.sessions
  /\ main' = "start" /\ session' = session + 1
  /\ packetQueue' = EmptyQueue /\ packetHolderFreeList' = EmptyQueue
  /\ batchedScrollDelta' = 0 /\ currentPenButtonState' = 0
  /\ absCurrentPos' = <<1, 2>>
  /\ current' = [k \in Keys |-> [val |-> ZeroOf(k), dirty |-> FALSE]]
  /\ moved' = <<0, 0>> /\ seen' = NothingSeen
  /\ terminated' = FALSE
  /\ UNCHANGED <<initialized, config, packet, currentQueuedControllerPacket,
                 todo, caller, sender, asserts>>

(* The thread is created, or cannot be.                                    *)
startInputStream ==
  /\ main = "start"
  /\ \/ main' = "enable" /\ sender' = [sender EXCEPT !.at = "wait"]
     \/ main' = "destroy" /\ UNCHANGED sender
  /\ UNCHANGED <<initialized, session, config, queues, batch, single, todo,
                 caller, terminated, asserts, seen>>

Enable ==
  /\ main = "enable"
  /\ initialized' = TRUE
  /\ main' = "haptics"
  /\ UNCHANGED <<session, config, queues, batch, single, todo, caller, sender,
                 terminated, asserts, seen>>

sendEnableHaptics ==
  /\ main = "haptics"
  /\ \/ config.haptics
        /\ Go("main", "alloc", "offer", [NoPacket EXCEPT !.kind = "haptics"])
     \/ ~config.haptics /\ UNCHANGED caller
  /\ main' = "run"
  /\ UNCHANGED <<initialized, session, config, queues, batch, single, todo,
                 sender, terminated, asserts, seen>>

stopInputStream ==
  /\ main = "run" /\ caller["main"].at = "idle"
  /\ initialized' = FALSE
  /\ main' = "shutdown"
  /\ UNCHANGED <<session, config, queues, batch, single, todo, caller, sender,
                 terminated, asserts, seen>>

StopShutdown ==
  /\ main = "shutdown"
  /\ packetHolderFreeList' = [packetHolderFreeList EXCEPT !.shutdown = TRUE]
  /\ main' = "drain"
  /\ UNCHANGED <<initialized, session, config, packetQueue, packet, batch,
                 single, todo, caller, sender, terminated, asserts, seen>>

M_StopDrain ==
  /\ main = "drain"
  /\ packetQueue' = [packetQueue EXCEPT !.draining = TRUE, !.items = <<>>]
  /\ main' = "join"
  /\ UNCHANGED <<initialized, session, config, packetHolderFreeList, packet,
                 batch, single, todo, caller, sender, terminated, asserts,
                 seen>>

StopDrain ==
  /\ main = "drain"
  /\ packetQueue' = [packetQueue EXCEPT !.draining = TRUE]
  /\ main' = "join"
  /\ UNCHANGED <<initialized, session, config, packetHolderFreeList, packet,
                 batch, single, todo, caller, sender, terminated, asserts,
                 seen>>

StopJoin ==
  /\ main = "join" /\ sender.at = "done"
  /\ main' = "destroy"
  /\ UNCHANGED <<initialized, session, config, queues, batch, single, todo,
                 caller, sender, terminated, asserts, seen>>

destroyInputStream ==
  /\ main = "destroy"
  /\ \A t \in Threads : caller[t].at = "idle"
  /\ asserts' = (asserts /\ MayDestroy(packetQueue)
                         /\ MayDestroy(packetHolderFreeList))
  /\ packetQueue' = EmptyQueue /\ packetHolderFreeList' = EmptyQueue
  /\ sender' = NoSender
  /\ main' = "off"
  /\ packet' = [h \in Holders |->
                  IF \E n \in Gamepads : currentQueuedControllerPacket[n] = h
                  THEN packet[h] ELSE NoPacket]
  /\ UNCHANGED <<initialized, session, config, batch, single, todo, caller,
                 terminated, seen>>

-----------------------------------------------------------------------------
Init ==
  /\ config \in Configs
  /\ main = "off" /\ initialized = FALSE /\ session = 0
  /\ packetQueue = EmptyQueue /\ packetHolderFreeList = EmptyQueue
  /\ packet = [h \in Holders |-> NoPacket]
  /\ current = [k \in Keys |-> [val |-> ZeroOf(k), dirty |-> FALSE]]
  /\ currentQueuedControllerPacket = [n \in Gamepads |-> None]
  /\ currentPenButtonState = 0 /\ batchedScrollDelta = 0
  /\ absCurrentPos = <<1, 2>>
  /\ todo = config.scripts
  /\ caller = [t \in Threads |-> Idle]
  /\ sender = NoSender
  /\ terminated = FALSE /\ asserts = TRUE
  /\ moved = <<0, 0>> /\ seen = NothingSeen

SomeCall(c) ==
  \/ LiSendMouseMoveEvent(c) \/ LiSendMousePositionEvent(c)
  \/ LiSendMouseMoveAsMousePositionEvent(c) \/ LiSendMouseButtonEvent(c)
  \/ LiSendKeyboardEvent2(c) \/ LiSendUtf8TextEvent(c)
  \/ LiSendHighResScrollEvent(c) \/ LiSendHighResHScrollEvent(c)
  \/ LiSendTouchEvent(c) \/ LiSendPenEvent(c)
  \/ LiSendMultiControllerEvent(c) \/ LiSendControllerArrivalEvent(c)
  \/ LiSendControllerTouchEvent2(c) \/ LiSendControllerMotionEvent(c)
  \/ LiSendControllerBatteryEvent(c)
  \/ NothingToSend(c) \/ NotInitialized(c)

InCall(t) ==
  \/ FillPen(t) \/ ScrollLoop(t)
  \/ sendControllerEventInternal(t) \/ FillController(t)
  \/ allocatePacketHolder(t) \/ OfferOk(t) \/ OfferRefused(t) \/ ResetDirty(t)

inputSendThreadProc ==
  \/ SenderWait \/ Send \/ Latch \/ SendRel \/ RelSend \/ FillAbs \/ FillMotion
  \/ PenPeek \/ PenPoll \/ SendText

Begin    == initializeInputStream \/ startInputStream \/ Enable
            \/ sendEnableHaptics \/ stopInputStream
Rundown  == StopShutdown \/ StopDrain \/ StopJoin \/ destroyInputStream

Next ==
  \/ \E c \in Callers : SomeCall(c)
  \/ \E t \in Threads : InCall(t)
  \/ inputSendThreadProc \/ WaitForAcks
  \/ Begin \/ Rundown

Spec == Init /\ [][Next]_vars

(* A thread that is in a call comes out of it, the sender runs, and a stop *)
(* goes on.  Nobody has to call anything, or to stop, and what is in       *)
(* transit need not be acknowledged.                                       *)
Fairness ==
  /\ \A t \in Threads : WF_vars(InCall(t))
  /\ WF_vars(inputSendThreadProc)
  /\ WF_vars(Rundown)

FairSpec == Spec /\ Fairness

-----------------------------------------------------------------------------
(* Properties                                                              *)

IsQueue(q) ==
  /\ q \in [items : Seq(Holders), draining : BOOLEAN, shutdown : BOOLEAN,
            used : BOOLEAN]
  /\ Len(q.items) <= config.bound

LifeType ==
  /\ config \in Configs
  /\ main \in {"off", "start", "enable", "haptics", "run", "shutdown",
               "drain", "join", "destroy"}
  /\ initialized \in BOOLEAN /\ terminated \in BOOLEAN /\ asserts \in BOOLEAN

HolderType ==
  /\ IsQueue(packetQueue) /\ IsQueue(packetHolderFreeList)
  /\ packet \in [Holders -> Packets]
  /\ currentQueuedControllerPacket \in [Gamepads -> Holders \cup {None}]

StateType ==
  /\ current \in [Keys -> [val : Seq(Int), dirty : BOOLEAN]]
  /\ Len(current[Rel].val) = 2
  /\ batchedScrollDelta \in Int /\ currentPenButtonState \in Nat
  /\ absCurrentPos \in Int \X (Nat \ {0})
  /\ moved \in Int \X Int

CallRecords ==
  [at : {"idle", "alloc", "fillPen", "scroll", "match", "fillController",
         "offer", "reset"},
   next : {"idle", "offer", "fillPen", "fillController"},
   packet : Packets, holder : Holders \cup {None}]

SenderRecords ==
  [at : {"none", "wait", "send", "latch", "rel", "relSend", "abs", "motion",
         "pen", "penPoll", "ack", "text", "done"},
   holder : Holders \cup {None}, text : Seq(Int), key : Keys \cup {NoKey}]

ThreadType ==
  /\ todo \in [Callers -> Seq(Events)]
  /\ caller \in [Threads -> CallRecords]
  /\ sender \in SenderRecords

(* The queues keep their bound and every variable its type.                *)
TypeOK == LifeType /\ HolderType /\ StateType /\ ThreadType

(* The assertions of LbqDestroyLinkedBlockingQueue for both queues         *)
(* (LinkedBlockingQueue.c:5), also when the thread could not be created    *)
(* and when it ended early.                                                *)
AssertsHold == asserts

(* However holders pass between callers, queue, sender and free list (at   *)
(* InputStream.c:195, 504 and 614 in particular), each is in one place     *)
(* only: none is sent, freed or handed out twice.                          *)
OneOwner ==
  /\ IsInjective(packetQueue.items) /\ IsInjective(packetHolderFreeList.items)
  /\ ToSet(packetQueue.items) \cap ToSet(packetHolderFreeList.items) = {}
  /\ \A t \in Threads : caller[t].holder # None =>
       /\ caller[t].holder \notin ToSet(packetQueue.items)
       /\ caller[t].holder \notin ToSet(packetHolderFreeList.items)
       /\ caller[t].holder # sender.holder
       /\ \A u \in Threads \ {t} : caller[u].holder # caller[t].holder
  /\ sender.holder \notin ToSet(packetQueue.items)
  /\ sender.holder \notin ToSet(packetHolderFreeList.items)

(* Queues and holders are sound through any number of connections.         *)
QueuesIntact == TypeOK /\ AssertsHold /\ OneOwner

(* Holders of the packet that carries the state of key k                   *)
Carrier(h, k) == HasKey(packet[h]) /\ KeyOf(packet[h]) = k

(* Who holds the place that `dirty' reserves for key k: a caller, a packet *)
(* in the queue, or the sender                                             *)
Reserves(t, k) ==
  /\ caller[t].at \in {"alloc", "offer", "reset"}
  /\ HasKey(caller[t].packet) /\ KeyOf(caller[t].packet) = k

Carries(k) ==
  sender.at \in {"rel", "relSend", "abs", "motion"} /\ sender.key = k

Carriers(k) ==
  {<<"caller", t>> : t \in {u \in Threads : Reserves(u, k)}}
  \cup {<<"queue", h>> : h \in {g \in ToSet(packetQueue.items) : Carrier(g, k)}}
  \cup {<<"sender", h>> : h \in {g \in {sender.holder} : Carries(k)}}

(* While the sender lives, `dirty' is set exactly as long as one packet,   *)
(* and no more, is queued or about to be queued for the state, although    *)
(* it is set and reset in and outside of the critical sections of three    *)
(* threads (InputStream.c:729, 761, 425, 1586): otherwise motion would     *)
(* wait for ever, or be sent twice.  A controller event that is merged     *)
(* into a packet that is no longer its own (see MergedIsQueued) may        *)
(* overwrite the one that carries motion.                                  *)
DirtyHasCarrier ==
  main # "off" /\ ~terminated /\ ~seen.stray =>
    \A k \in Keys :
      IF current[k].dirty THEN \E x \in Carriers(k) : Carriers(k) = {x}
                          ELSE Carriers(k) = {}

(* No motion of the mouse is lost or doubled by batching it or by cutting  *)
(* it into pieces of 16 bits (InputStream.c:384): what the sender took and *)
(* what is pending add up to what was asked for, and each packet fits.     *)
MotionConserved ==
  /\ \A i \in 1..2 : seen.motion[i] + current[Rel].val[i] = moved[i]
  /\ \A i \in 1..2 : seen.last[Rel].val[i] \in Int16Min..Int16Max

(* When no update is pending, the last one that was accepted has gone to   *)
(* the host (InputStream.c:425, 462 and 542), unless one was refused since *)
(* because the queue was full or the stream stops.  What carries motion    *)
(* may be overwritten as above.                                            *)
LatestIsSent ==
  \A k \in Keys :
    /\ main # "off" /\ ~terminated /\ ~seen.stray
    /\ ~current[k].dirty /\ ~seen.refused[k]
    => /\ seen.flushed[k] = seen.count[k]
       /\ IF k = Rel THEN current[k].val = <<0, 0>>
          ELSE \/ sender.at = "send" /\ Carrier(sender.holder, k)
               \/ seen.last[k].val = current[k].val

(* A gyro that was set to the null state is not left moving by a lost      *)
(* packet: the last state was sent reliably (InputStream.c:529).           *)
GyroNullIsReliable ==
  \A k \in Keys :
    k[1] = "gyro" /\ seen.last[k].val = <<0>> => seen.last[k].reliable

(* A thread that alone moves the mouse and clicks can rely on their order, *)
(* although motion is sent from a state of its own and clicks through the  *)
(* queue: when a click goes out, all accepted motion before it has gone.   *)
ClickFollowsMotion ==
  LET mouse == {c \in Callers : \E i \in DOMAIN config.scripts[c] :
                  config.scripts[c][i].kind \in {"rel", "abs", "relAsAbs",
                                                 "button"}}
  IN /\ Cardinality(mouse) = 1
     /\ sender.at = "send" /\ Hand.kind = "button"
     => /\ Head(seen.clicks)[1] <= seen.flushed[Rel]
        /\ Head(seen.clicks)[2] <= seen.flushed[Abs]

(* Merging never skips a change of the buttons of a controller             *)
(* (InputStream.c:1054), or of the buttons or the kind of contact of a pen *)
(* (InputStream.c:493), and after an orderly stop none is missing.         *)
NoChangeSkipped ==
  \A d \in Devices :
    /\ IsPrefix(seen.told[d], seen.asked[d])
    /\ main = "destroy" /\ ~terminated => seen.told[d] = seen.asked[d]

Pieces(p) ==
  IF p.kind # "text" THEN <<p>>
  ELSE LET cut == SelectInSeq(p.val, LAMBDA n : n \notin 1..4)
           n   == IF cut = 0 THEN Len(p.val) ELSE cut - 1
       IN [i \in 1..n |-> [p EXCEPT !.val = <<p.val[i]>>]]

(* What is not merged is sent once and in the order of the queue, and stop *)
(* drains the queue (InputStream.c:691): unless sending failed, all of it  *)
(* has been sent when the thread has ended.                                *)
QueueIsDrained ==
  LET due == FlattenSeq([i \in DOMAIN seen.accepted |->
                           Pieces(seen.accepted[i])])
  IN /\ IsPrefix(seen.sent, due)
     /\ main = "destroy" /\ ~terminated => seen.sent = due

(* Less than a notch is held back from the host, never against the         *)
(* direction of the last scroll (InputStream.c:1206), except after a       *)
(* notch was refused.                                                      *)
ScrollHeldBack ==
  \/ \E t \in Threads : caller[t].packet.kind = "scroll"
  \/ seen.notchRefused
  \/ /\ batchedScrollDelta \in 1 - WheelDelta..WheelDelta - 1
     /\ batchedScrollDelta * seen.lastScroll >= 0

(* The state that the host has follows the state of the devices: motion    *)
(* adds up, and the latest values arrive and are sent so that they do.     *)
StateReachesHost == MotionConserved /\ LatestIsSent /\ GyroNullIsReliable

(* What was accepted is sent: packets that are not merged one by one, of   *)
(* those that are merged every change, and of the wheel all but a part of  *)
(* a notch.                                                                *)
SentAsAccepted == QueueIsDrained /\ NoChangeSkipped /\ ScrollHeldBack

(* A controller event is merged only into a packet that is going to be     *)
(* sent: "The packet holder we updated was already enqueued"               *)
(* (InputStream.c:1157).                                                   *)
MergedIsQueued == ~seen.stray

(* The sender waits for acknowledgements for ever (InputStream.c:557).     *)
WaitsForEver == <>[](sender.at = "ack")

(* Motion that has a packet on its way is sent, or the connection ends, or *)
(* the packet is behind text for which the sender waits for ever.          *)
PendingIsSent ==
  \/ WaitsForEver
  \/ \A k \in {Rel, Abs, <<"gyro", 0>>} :
       current[k].dirty ~> (~current[k].dirty \/ terminated)

(* stopInputStream lets the sender "drain all pending input packets before *)
(* shutting down" (InputStream.c:689) and comes to its end (line 692),     *)
(* whatever callers do meanwhile, unless text is pending and the sender    *)
(* waits for ever, which it may (line 557).                                *)
StopCompletes == WaitsForEver \/ (main = "shutdown" ~> main = "off")
=============================================================================
