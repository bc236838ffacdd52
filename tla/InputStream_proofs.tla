------------------------ MODULE InputStream_proofs ------------------------
(***************************************************************************)
(* Proofs about InputStream, for any threads that call it with any events, *)
(* any bound of the queues, any number of holders and of controllers, and  *)
(* through any number of connections.                                      *)
(***************************************************************************)
EXTENDS InputStream, SequenceTheorems, TLAPS

(***************************************************************************)
(* The inductive invariant                                                 *)
(***************************************************************************)

SeenType == "stray" \in DOMAIN seen /\ seen.stray \in BOOLEAN

(* Nobody calls, and nothing was queued yet.                               *)
NobodyCalls == \A t \in Threads : caller[t] = Idle
Quiet == packetQueue = EmptyQueue /\ packetHolderFreeList = EmptyQueue
         /\ NobodyCalls

(* What the thread that starts and stops the stream can rely on            *)
Lifecycle ==
  /\ initialized <=> main \in {"haptics", "run"}
  /\ main \in {"off", "start"} => sender = NoSender
  /\ main = "off" => NobodyCalls
  /\ main \in {"start", "enable"} => Quiet
  /\ main = "enable" => sender.at = "wait"
  /\ main = "haptics" => caller["main"] = Idle
  /\ main \in {"drain", "join"} => packetHolderFreeList.shutdown
  /\ main = "join" => packetQueue.draining
  /\ main = "destroy" =>
       /\ sender.at \in {"none", "done"}
       /\ Quiet \/ (packetHolderFreeList.shutdown /\ packetQueue.draining)

(* What a thread in a call holds and has in mind                           *)
CallOK(x) ==
  /\ x.holder # None <=> x.at \in {"fillPen", "fillController", "offer"}
  /\ x.at = "idle" => x = Idle
  /\ x.at = "alloc" => x.next # "idle"
  /\ x.at = "reset" => HasKey(x.packet)
  /\ x.at = "scroll" => x.packet.kind = "scroll"
  /\ x.packet.kind = "scroll" => Len(x.packet.val) = 1
  /\ x.at = "fillPen" \/ x.next = "fillPen" => x.packet.kind = "pen"
  /\ x.at \in {"match", "fillController"} \/ x.next = "fillController" =>
       x.packet.kind = "controller"
  /\ HasKey(x.packet) =>
       /\ x.at \in {"alloc", "offer", "reset"} /\ x.next = "offer"
       /\ KeyOf(x.packet) \in Keys

CallsOK == \A t \in Threads : CallOK(caller[t])

(* The same of the sender                                                  *)
SenderOK ==
  /\ sender.holder = None <=> sender.at \in {"none", "wait", "done"}
  /\ sender.at \in {"rel", "relSend"} => sender.key = Rel
  /\ sender.at = "abs" => sender.key = Abs
  /\ sender.at = "motion" => sender.key \in Keys
  /\ sender.at = "penPoll" => packetQueue.items # <<>>

(* What is in the holders.  A holder that is going to be queued has been   *)
(* filled in, and what the sender is about to merge is still a pen event,  *)
(* unless a stray controller event was put into it.                        *)
Contents ==
  /\ \A h \in Holders : HasKey(packet[h]) => KeyOf(packet[h]) \in Keys
  /\ ~seen.stray =>
       /\ \A t \in Threads : caller[t].at = "offer" =>
            /\ packet[caller[t].holder].kind = caller[t].packet.kind
            /\ HasKey(caller[t].packet) =>
                 KeyOf(packet[caller[t].holder]) = KeyOf(caller[t].packet)
       /\ sender.at = "penPoll" =>
            packet[Head(packetQueue.items)].kind = "pen"

(* DirtyHasCarrier, pair by pair of places                                 *)
Queued == ToSet(packetQueue.items)

OneCarrier(k) ==
  /\ current[k].dirty => \/ \E t \in Threads : Reserves(t, k)
                         \/ \E h \in Queued : Carrier(h, k)
                         \/ Carries(k)
  /\ \A t \in Threads : Reserves(t, k) =>
       /\ current[k].dirty /\ ~Carries(k)
       /\ \A u \in Threads : Reserves(u, k) => u = t
       /\ \A h \in Queued : ~Carrier(h, k)
  /\ \A h \in Queued : Carrier(h, k) =>
       /\ current[k].dirty /\ ~Carries(k)
       /\ \A g \in Queued : Carrier(g, k) => g = h
  /\ Carries(k) => current[k].dirty

Reserved == main # "off" /\ ~terminated /\ ~seen.stray
              => \A k \in Keys : OneCarrier(k)

IInv == /\ TypeOK /\ SeenType /\ Lifecycle /\ CallsOK /\ SenderOK /\ Contents
        /\ OneOwner /\ Reserved /\ AssertsHold

USE DEF life, queues, batch, single

(***************************************************************************)
(* Sequences of distinct holders                                           *)
(***************************************************************************)

(* What putting holder e at the end of a queue does                        *)
LEMMA AppendFacts ==
  ASSUME NEW S, NEW s \in Seq(S), NEW e \in S
  PROVE  /\ Append(s, e) \in Seq(S) /\ Append(s, e) # <<>>
         /\ Len(Append(s, e)) = Len(s) + 1
         /\ s # <<>> => Head(Append(s, e)) = Head(s)
         /\ ToSet(Append(s, e)) = ToSet(s) \cup {e}
         /\ IsInjective(s) /\ e \notin ToSet(s) => IsInjective(Append(s, e))
<1> DEFINE a == Append(s, e)
<1>1. /\ a \in Seq(S) /\ a # <<>> /\ Len(a) = Len(s) + 1 /\ Len(s) \in Nat
      /\ \A i \in 1..Len(s) : a[i] = s[i]
      /\ a[Len(s) + 1] = e
      /\ DOMAIN a = 1..Len(s) + 1 /\ DOMAIN s = 1..Len(s)
  BY AppendProperties, LenProperties
<1>2. s # <<>> => Len(s) >= 1 /\ Head(a) = a[1] /\ Head(s) = s[1]
  BY <1>1, EmptySeq
<1> HIDE DEF a
<1>3. \A i \in DOMAIN a : i \in DOMAIN s \/ i = Len(s) + 1
  BY <1>1
<1>4. ToSet(a) = ToSet(s) \cup {e}
  BY <1>1, <1>3 DEF ToSet
<1>5. IsInjective(s) /\ e \notin ToSet(s) => IsInjective(a)
  BY <1>1, <1>3 DEF ToSet, IsInjective
<1> QED
  BY <1>1, <1>2, <1>4, <1>5 DEF a

(* What taking the first holder from a queue does                          *)
LEMMA TailFacts ==
  ASSUME NEW S, NEW s \in Seq(S), s # <<>>
  PROVE  /\ Head(s) \in S /\ Head(s) \in ToSet(s)
         /\ Tail(s) \in Seq(S) /\ Len(Tail(s)) = Len(s) - 1
         /\ ToSet(s) = ToSet(Tail(s)) \cup {Head(s)}
         /\ IsInjective(s) =>
              IsInjective(Tail(s)) /\ Head(s) \notin ToSet(Tail(s))
<1> DEFINE r == Tail(s)
<1>1. /\ r \in Seq(S) /\ Len(r) = Len(s) - 1 /\ Len(s) \in Nat \ {0}
      /\ \A i \in 1..Len(r) : r[i] = s[i + 1]
      /\ DOMAIN r = 1..Len(s) - 1 /\ DOMAIN s = 1..Len(s)
      /\ s[1] \in S
  BY HeadTailProperties, EmptySeq, LenProperties, ElementOfSeq
<1>2. Head(s) = s[1]
  OBVIOUS
<1> HIDE DEF r
<1>3. /\ \A i \in DOMAIN r : i + 1 \in DOMAIN s /\ r[i] = s[i + 1] /\ i + 1 # 1
      /\ \A i \in DOMAIN s : i = 1 \/ (i - 1 \in DOMAIN r /\ r[i - 1] = s[i])
      /\ 1 \in DOMAIN s
  BY <1>1
<1>4. ToSet(s) = ToSet(r) \cup {s[1]}
  BY <1>3 DEF ToSet
<1>5. IsInjective(s) => IsInjective(r) /\ s[1] \notin ToSet(r)
  <2> SUFFICES ASSUME IsInjective(s) PROVE IsInjective(r) /\ s[1] \notin ToSet(r)
    OBVIOUS
  <2>1. \A i, j \in DOMAIN r : r[i] = r[j] => i + 1 = j + 1
    BY <1>3 DEF IsInjective
  <2>2. IsInjective(r)
    BY <1>1, <2>1 DEF IsInjective
  <2>3. s[1] \notin ToSet(r)
    BY <1>3 DEF IsInjective, ToSet
  <2> QED
    BY <2>2, <2>3
<1> QED
  BY <1>1, <1>2, <1>4, <1>5 DEF r

LEMMA EmptyFacts == ToSet(<<>>) = {} /\ IsInjective(<<>>)
  BY DEF ToSet, IsInjective

(***************************************************************************)
(* Packets, keys and history                                               *)
(***************************************************************************)

LEMMA KeyCases ==
  ASSUME NEW p
  PROVE  /\ p.kind = "rel" => KeyOf(p) = Rel
         /\ p.kind = "abs" => KeyOf(p) = Abs
         /\ p.kind = "motion" => KeyOf(p) = <<p.type, p.num>>
  BY DEF KeyOf

LEMMA EventFacts ==
  ASSUME NEW e \in Events
  PROVE  /\ e \in Packets /\ e.num \in Nat /\ e.buttons \in Nat
         /\ e.val \in Seq(Int)
         /\ e.kind = "motion" => e.type \in SensorTypes
         /\ e.kind \in {"rel", "abs", "relAsAbs"} => Len(e.val) = 2
         /\ e.kind \in {"abs", "relAsAbs"} => e.val[2] > 1
         /\ e.kind = "scroll" => Len(e.val) = 1
  BY DEF Events, Packets

LEMMA NoPacketFacts ==
  NoPacket \in Packets /\ NoPacket.kind = "none" /\ ~HasKey(NoPacket)
<1>1. <<>> \in Seq(Int)
  BY EmptySeq
<1>2. ASSUME NEW v \in Seq(Int)
      PROVE  [kind |-> "none", num |-> 0, type |-> "none", buttons |-> 0,
              val |-> v, reliable |-> TRUE] \in Packets
  BY DEF Packets, PacketKinds
<1>3. NoPacket.kind = "none"
  BY DEF NoPacket
<1>4. NoPacket \in Packets
  BY <1>1, <1>2, Zenon DEF NoPacket
<1> QED
  BY <1>3, <1>4 DEF HasKey

LEMMA IdleFacts == Idle \in CallRecords /\ CallOK(Idle) /\ ~HasKey(Idle.packet)
  BY NoPacketFacts DEF Idle, CallRecords, CallOK, None

(* The history says only where strays are concerned how it goes on.        *)
LEMMA HistoryFacts ==
  ASSUME SeenType, NEW p, NEW k
  PROVE  /\ "stray" \in DOMAIN Accept(p) /\ Accept(p).stray = seen.stray
         /\ "stray" \in DOMAIN Refuse(p) /\ Refuse(p).stray = seen.stray
         /\ "stray" \in DOMAIN Flush(k) /\ Flush(k).stray = seen.stray
         /\ "stray" \in DOMAIN Told(p) /\ Told(p).stray = seen.stray
<1>1. "stray" \in DOMAIN Accept(p) /\ Accept(p).stray = seen.stray
  BY DEF SeenType, Accept
<1>2. "stray" \in DOMAIN Refuse(p) /\ Refuse(p).stray = seen.stray
  BY DEF SeenType, Refuse
<1>3. "stray" \in DOMAIN Flush(k) /\ Flush(k).stray = seen.stray
  BY DEF SeenType, Flush
<1>4. "stray" \in DOMAIN Told(p) /\ Told(p).stray = seen.stray
  BY DEF SeenType, Told
<1> QED
  BY <1>1, <1>2, <1>3, <1>4

(***************************************************************************)
(* Entering a call                                                         *)
(***************************************************************************)

(* Caller c enters a call, or returns from it at once, and now is at x.    *)
(* If x is about to queue a carrier, it has reserved the place for it.     *)
CallStep(c, x) ==
  /\ caller[c] = Idle /\ caller' = [caller EXCEPT ![c] = x]
  /\ x \in CallRecords /\ CallOK(x) /\ x.holder = None
  /\ initialized \/ x = Idle
  /\ todo' \in [Callers -> Seq(Events)]
  /\ StateType'
  /\ UNCHANGED <<life, queues, currentQueuedControllerPacket, sender,
                 terminated, asserts>>
  /\ SeenType' /\ seen'.stray = seen.stray
  /\ \A k \in Keys :
       current'[k].dirty <=> \/ current[k].dirty
                             \/ HasKey(x.packet) /\ KeyOf(x.packet) = k
  /\ HasKey(x.packet) => ~current[KeyOf(x.packet)].dirty

LEMMA EventOf ==
  ASSUME TypeOK, CallsOK, NEW c \in Callers,
         caller[c].at = "idle", todo[c] # <<>>
  PROVE  /\ Event(c) \in Events
         /\ caller[c] = Idle /\ caller \in [Threads -> CallRecords]
         /\ c \in Threads
         /\ Taken(c) => todo' \in [Callers -> Seq(Events)]
<1>1. todo \in [Callers -> Seq(Events)] /\ todo[c] \in Seq(Events)
  BY DEF TypeOK, ThreadType
<1>2. Head(todo[c]) \in Events /\ Tail(todo[c]) \in Seq(Events)
  BY <1>1, HeadTailProperties
<1>3. Taken(c) => todo' \in [Callers -> Seq(Events)]
  BY <1>1, <1>2 DEF Taken
<1>4. c \in Threads /\ caller[c] = Idle
  BY DEF Threads, CallsOK, CallOK
<1> QED
  BY <1>2, <1>3, <1>4 DEF Event, TypeOK, ThreadType

(* A call that does not touch the state of a key                           *)
LEMMA PlainCall ==
  ASSUME TypeOK, SeenType, CallsOK, NEW c \in Callers,
         caller[c].at = "idle", todo[c] # <<>>, Taken(c),
         NEW x \in CallRecords, CallOK(x), x.holder = None, ~HasKey(x.packet),
         caller' = [caller EXCEPT ![c] = x], initialized \/ x = Idle,
         UNCHANGED <<life, queues, batch, currentPenButtonState, absCurrentPos,
                     moved, sender, terminated, asserts>>,
         batchedScrollDelta' \in Int, SeenType', seen'.stray = seen.stray
  PROVE  CallStep(c, x)
<1>1. caller[c] = Idle /\ todo' \in [Callers -> Seq(Events)]
  BY EventOf
<1>2. StateType'
  BY DEF TypeOK, StateType
<1>3. \A k \in Keys : current'[k].dirty = current[k].dirty
  OBVIOUS
<1> QED
  BY <1>1, <1>2, <1>3 DEF CallStep

(* A call that sets out to allocate a holder                               *)
LEMMA AllocRecord ==
  ASSUME NEW p \in Packets, NEW next \in {"offer", "fillPen", "fillController"},
         p.kind = "scroll" => Len(p.val) = 1,
         next = "fillPen" => p.kind = "pen",
         next = "fillController" => p.kind = "controller",
         HasKey(p) => KeyOf(p) \in Keys
  PROVE  LET x == [at |-> "alloc", next |-> next, packet |-> p, holder |-> None]
         IN  x \in CallRecords /\ CallOK(x) /\ x.holder = None /\ x.packet = p
  BY DEF CallRecords, CallOK, HasKey

LEMMA SimpleCall ==
  ASSUME TypeOK, SeenType, CallsOK, NEW c \in Callers, NEW kind, NEW supported,
         NEW p, Simple(c, kind, supported, p), p \in Packets,
         ~HasKey(p), p.kind # "scroll"
  PROVE  \E x : CallStep(c, x)
<1> DEFINE x == IF supported THEN [at |-> "alloc", next |-> "offer",
                                   packet |-> p, holder |-> None] ELSE Idle
<1>1. x \in CallRecords /\ CallOK(x) /\ x.holder = None /\ ~HasKey(x.packet)
  BY AllocRecord, IdleFacts DEF Idle
<1>2. /\ caller[c].at = "idle" /\ todo[c] # <<>> /\ initialized
      /\ Taken(c) /\ caller' = [caller EXCEPT ![c] = x]
      /\ UNCHANGED <<life, queues, batch, single, sender, terminated, asserts,
                     seen>>
  BY DEF Simple, Ready, Go, Return
<1>3. batchedScrollDelta' \in Int /\ SeenType' /\ seen'.stray = seen.stray
  BY <1>2 DEF TypeOK, StateType, SeenType
<1> HIDE DEF x
<1>4. CallStep(c, x)
  BY <1>1, <1>2, <1>3, PlainCall
<1> QED
  BY <1>4

(* A call that updates the state of a key                                  *)
LEMMA UpdateCall ==
  ASSUME TypeOK, SeenType, CallsOK, NEW c \in Callers,
         caller[c].at = "idle", todo[c] # <<>>, initialized, Taken(c),
         NEW p \in Packets, HasKey(p), KeyOf(p) \in Keys,
         NEW val \in Seq(Int), KeyOf(p) = Rel => Len(val) = 2,
         Update(c, p, val),
         UNCHANGED <<life, queues, currentQueuedControllerPacket,
                     currentPenButtonState, batchedScrollDelta, sender,
                     terminated, asserts>>,
         absCurrentPos' \in Int \X (Nat \ {0}), moved' \in Int \X Int
  PROVE  \E x : CallStep(c, x)
<1>1. /\ caller[c] = Idle /\ todo' \in [Callers -> Seq(Events)]
      /\ caller \in [Threads -> CallRecords] /\ c \in Threads
  BY EventOf
<1> DEFINE k == KeyOf(p)
           e == [val |-> val, dirty |-> TRUE]
           x == IF current[k].dirty THEN Idle
                ELSE [at |-> "alloc", next |-> "offer", packet |-> p,
                      holder |-> None]
<1>2. /\ current' = [current EXCEPT ![k] = e]
      /\ current \in [Keys -> [val : Seq(Int), dirty : BOOLEAN]]
      /\ Len(current[Rel].val) = 2 /\ k \in Keys /\ Rel \in Keys
      /\ e \in [val : Seq(Int), dirty : BOOLEAN]
  BY DEF Update, TypeOK, StateType, Keys
<1>3. StateType'
  BY <1>2 DEF StateType, TypeOK
<1>4. /\ \A j \in Keys : current'[j].dirty <=> current[j].dirty \/ j = k
      /\ current[k].dirty \in BOOLEAN
  BY <1>2
<1>5. caller' = [caller EXCEPT ![c] = x]
  BY <1>2 DEF Update, Go, Return
<1>6. SeenType' /\ seen'.stray = seen.stray
  BY HistoryFacts DEF Update, SeenType
<1>7. /\ x \in CallRecords /\ CallOK(x) /\ x.holder = None
      /\ HasKey(x.packet) => ~current[k].dirty /\ KeyOf(x.packet) = k
      /\ ~HasKey(x.packet) => current[k].dirty
  <2>1. CASE current[k].dirty
    BY <2>1, IdleFacts DEF Idle
  <2>2. CASE ~current[k].dirty
    <3>1. HasKey(p) => KeyOf(p) \in Keys
      OBVIOUS
    <3>2. p.kind = "scroll" => Len(p.val) = 1
      BY DEF HasKey
    <3>3. x \in CallRecords /\ CallOK(x) /\ x.holder = None /\ x.packet = p
      BY <2>2, <3>1, <3>2, AllocRecord
    <3> QED
      BY <2>2, <3>3
  <2> QED
    BY <2>1, <2>2
<1> HIDE DEF x, e, k
<1>8. CallStep(c, x)
  BY <1>1, <1>3, <1>4, <1>5, <1>6, <1>7 DEF CallStep
<1> QED
  BY <1>8

(* A position that is an integer, on a screen that is wide enough          *)
LEMMA PositionCall ==
  ASSUME TypeOK, SeenType, CallsOK, NEW c \in Callers, NEW kind,
         Ready(c, kind), NEW y \in Int, NEW width \in Int, width > 1,
         PositionEvent(c, y, width)
  PROVE  \E x : CallStep(c, x)
<1> DEFINE p == [Event(c) EXCEPT !.kind = "abs"]
<1>1. Event(c) \in Packets
  BY EventOf, EventFacts DEF Ready
<1>2. p \in Packets /\ p.kind = "abs"
  BY <1>1 DEF Packets, PacketKinds
<1>3. HasKey(p) /\ KeyOf(p) = Abs /\ Abs \in Keys /\ Abs # Rel
  BY <1>2, KeyCases DEF HasKey, Keys, Abs, Rel
<1>4. <<y, width>> \in Seq(Int)
  OBVIOUS
<1>5. absCurrentPos' \in Int \X (Nat \ {0})
  <2>1. Clamp(y, 0, width - 1) \in Int /\ width - 1 \in Nat \ {0}
    BY DEF Clamp
  <2> QED
    BY <2>1 DEF PositionEvent
<1>6. /\ caller[c].at = "idle" /\ todo[c] # <<>> /\ initialized /\ Taken(c)
      /\ UNCHANGED <<life, queues, currentQueuedControllerPacket,
                     currentPenButtonState, batchedScrollDelta, sender,
                     terminated, asserts, moved>>
      /\ Update(c, p, <<y, width>>)
  BY DEF PositionEvent, Ready
<1>7. moved' \in Int \X Int
  BY <1>6 DEF TypeOK, StateType
<1> HIDE DEF p
<1> QED
  BY <1>2, <1>3, <1>4, <1>5, <1>6, <1>7, UpdateCall

LEMMA ControllerPackets ==
  ASSUME TypeOK, NEW e \in Packets
  PROVE  /\ ControllerPacket(e) \in Packets
         /\ ControllerPacket(e).kind = "controller"
         /\ Neutral(e) \in Packets
<1>1. config.sunshine \in BOOLEAN
  BY InputAssumption DEF TypeOK, LifeType
<1>2. /\ MaxGamepads \in Nat \ {0} /\ GfeGamepads \in Nat \ {0}
      /\ e.num \in Nat /\ e.buttons \in Nat /\ e.val \in Seq(Int)
  BY InputAssumption DEF Packets
<1>3. Gamepad(e.num) \in Nat
  BY <1>1, <1>2 DEF Gamepad
<1>4. ControllerPacket(e) \in Packets
  BY <1>2, <1>3, NoPacketFacts DEF ControllerPacket, Packets, PacketKinds
<1>5. ControllerPacket(e).kind = "controller"
  BY DEF ControllerPacket, NoPacket
<1>6. <<0>> \in Seq(Int)
  OBVIOUS
<1>7. Neutral(e) \in Packets
  BY <1>6 DEF Neutral, Packets
<1> QED
  BY <1>4, <1>5, <1>7

(* A call about a controller, which first looks for a packet to merge with *)
LEMMA MatchRecord ==
  ASSUME NEW p \in Packets, p.kind = "controller"
  PROVE  LET x == [at |-> "match", next |-> "idle", packet |-> p,
                   holder |-> None]
         IN  /\ x \in CallRecords /\ CallOK(x) /\ x.holder = None
             /\ x.packet = p /\ ~HasKey(x.packet)
  BY DEF CallRecords, CallOK, HasKey

(* Every call enters as CallStep says.                                     *)
LEMMA EntersCall ==
  ASSUME TypeOK, SeenType, CallsOK, NEW c \in Callers, SomeCall(c)
  PROVE  \E x : CallStep(c, x)
<1>1. /\ batchedScrollDelta \in Int
      /\ absCurrentPos \in Int \X (Nat \ {0}) /\ moved \in Int \X Int
      /\ current[Rel].val \in Seq(Int) /\ Len(current[Rel].val) = 2
  BY DEF TypeOK, StateType, Keys
<1>2. ASSUME NEW kind, Ready(c, kind)
      PROVE  /\ caller[c].at = "idle" /\ todo[c] # <<>> /\ initialized
             /\ Event(c) \in Events /\ Event(c) \in Packets
             /\ Event(c).kind = kind
  BY <1>2, EventOf, EventFacts DEF Ready, Event
<1>3. CASE LiSendMouseMoveEvent(c)
  <2> DEFINE d == Event(c).val
             v == current[Rel].val
             val == <<v[1] + d[1], v[2] + d[2]>>
  <2>1. /\ caller[c].at = "idle" /\ todo[c] # <<>> /\ initialized
        /\ Event(c) \in Events /\ Event(c) \in Packets /\ Event(c).kind = "rel"
    BY <1>2, <1>3 DEF LiSendMouseMoveEvent
  <2>2. HasKey(Event(c)) /\ KeyOf(Event(c)) = Rel /\ Rel \in Keys
    BY <2>1, KeyCases DEF HasKey, Keys
  <2>3. v[1] \in Int /\ v[2] \in Int /\ d[1] \in Int /\ d[2] \in Int
    <3>1. d \in Seq(Int) /\ Len(d) = 2
      BY <2>1, EventFacts
    <3>2. ASSUME NEW s \in Seq(Int), Len(s) = 2
          PROVE  s[1] \in Int /\ s[2] \in Int
      BY <3>2, ElementOfSeq
    <3> QED
      BY <1>1, <3>1, <3>2
  <2>4. val \in Seq(Int) /\ Len(val) = 2
    BY <2>3
  <2>5. moved' = <<moved[1] + d[1], moved[2] + d[2]>>
    BY <1>3 DEF LiSendMouseMoveEvent
  <2>6. moved' \in Int \X Int
    BY <1>1, <2>3, <2>5
  <2>7. /\ Taken(c) /\ Update(c, Event(c), val)
        /\ UNCHANGED <<life, queues, currentQueuedControllerPacket,
                       currentPenButtonState, batchedScrollDelta,
                       absCurrentPos, sender, terminated, asserts>>
    BY <1>3 DEF LiSendMouseMoveEvent
  <2> HIDE DEF d, v, val
  <2> QED
    BY <1>1, <2>1, <2>2, <2>4, <2>6, <2>7, UpdateCall
<1>4. CASE LiSendMousePositionEvent(c)
  <2>1. Ready(c, "abs") /\ PositionEvent(c, Event(c).val[1], Event(c).val[2])
    BY <1>4 DEF LiSendMousePositionEvent
  <2>2. /\ Event(c).val[1] \in Int /\ Event(c).val[2] \in Int
        /\ Event(c).val[2] > 1
    BY <1>2, <2>1, EventFacts, ElementOfSeq
  <2> QED
    BY <2>1, <2>2, PositionCall
<1>5. CASE LiSendMouseMoveAsMousePositionEvent(c)
  <2> DEFINE w   == Event(c).val[2]
             old == (absCurrentPos[1] * w) \div absCurrentPos[2]
             new == Clamp(old + Event(c).val[1], 0, w)
  <2>1. Ready(c, "relAsAbs") /\ PositionEvent(c, new, w)
    BY <1>5 DEF LiSendMouseMoveAsMousePositionEvent
  <2>2. Event(c).val[1] \in Int /\ w \in Int /\ w > 1
    BY <1>2, <2>1, EventFacts, ElementOfSeq
  <2>3. absCurrentPos[1] \in Int /\ absCurrentPos[2] \in Nat \ {0}
    BY <1>1
  <2>4. absCurrentPos[1] * w \in Int
    BY <2>2, <2>3
  <2>5. \A a \in Int, b \in Nat \ {0} : a \div b \in Int
    OBVIOUS
  <2>6. old \in Int
    BY <2>3, <2>4, <2>5
  <2> HIDE DEF old
  <2>7. new \in Int
    BY <2>2, <2>6 DEF Clamp
  <2> HIDE DEF w, new
  <2> QED
    BY <2>1, <2>2, <2>7, PositionCall
<1>6. CASE LiSendMouseButtonEvent(c) \/ LiSendKeyboardEvent2(c)
           \/ LiSendUtf8TextEvent(c) \/ LiSendHighResHScrollEvent(c)
           \/ LiSendControllerBatteryEvent(c)
  <2>0. PICK kind \in {"button", "key", "text", "hscroll", "battery"} :
          \E supported : Simple(c, kind, supported, Event(c))
    BY <1>6 DEF LiSendMouseButtonEvent, LiSendKeyboardEvent2,
                LiSendUtf8TextEvent, LiSendHighResHScrollEvent,
                LiSendControllerBatteryEvent
  <2>1. PICK supported : Simple(c, kind, supported, Event(c))
    BY <2>0
  <2>2. Event(c) \in Packets /\ Event(c).kind = kind
    BY <1>2, <2>1 DEF Simple
  <2>3. ~HasKey(Event(c)) /\ Event(c).kind # "scroll"
    BY <2>2 DEF HasKey
  <2> QED
    BY <2>1, <2>2, <2>3, SimpleCall
<1>7. CASE LiSendTouchEvent(c) \/ LiSendControllerTouchEvent2(c)
  <2>1. PICK kind \in {"touch", "ctouch"} :
          Simple(c, kind, config.sunshine, DroppableTouch(Event(c)))
    BY <1>7 DEF LiSendTouchEvent, LiSendControllerTouchEvent2
  <2>2. Event(c) \in Packets /\ Event(c).kind = kind
    BY <1>2, <2>1 DEF Simple
  <2>3. (~Batchable(Event(c).type)) \in BOOLEAN
    BY DEF Batchable
  <2>4. /\ DroppableTouch(Event(c)) \in Packets
        /\ DroppableTouch(Event(c)).kind = kind
    BY <2>2, <2>3 DEF DroppableTouch, Packets
  <2>5. /\ ~HasKey(DroppableTouch(Event(c)))
        /\ DroppableTouch(Event(c)).kind # "scroll"
    BY <2>4 DEF HasKey
  <2> QED
    BY <2>1, <2>4, <2>5, SimpleCall
<1>8. CASE LiSendPenEvent(c)
  <2> DEFINE x == IF config.sunshine
                  THEN [at |-> "alloc", next |-> "fillPen",
                        packet |-> Event(c), holder |-> None] ELSE Idle
  <2>1. /\ caller[c].at = "idle" /\ todo[c] # <<>> /\ initialized
        /\ Event(c) \in Packets /\ Event(c).kind = "pen"
    BY <1>2, <1>8 DEF LiSendPenEvent
  <2>2. /\ Taken(c) /\ caller' = [caller EXCEPT ![c] = x]
        /\ UNCHANGED <<life, queues, batch, single, sender, terminated,
                       asserts, seen>>
    BY <1>8 DEF LiSendPenEvent, Go, Return
  <2>3. x \in CallRecords /\ CallOK(x) /\ x.holder = None /\ ~HasKey(x.packet)
    BY <2>1, AllocRecord, IdleFacts DEF Idle, HasKey
  <2>4. batchedScrollDelta' \in Int /\ SeenType' /\ seen'.stray = seen.stray
    BY <1>1, <2>2 DEF SeenType
  <2> HIDE DEF x
  <2>5. CallStep(c, x)
    BY <2>1, <2>2, <2>3, <2>4, PlainCall
  <2> QED
    BY <2>5
<1>9. CASE LiSendHighResScrollEvent(c)
  <2> DEFINE e == Event(c)
             x == [at |-> IF needsBatchedScroll THEN "scroll" ELSE "alloc",
                   next |-> IF needsBatchedScroll THEN "idle" ELSE "offer",
                   packet |-> e, holder |-> None]
  <2>1. /\ caller[c].at = "idle" /\ todo[c] # <<>> /\ initialized
        /\ e \in Packets /\ e.kind = "scroll" /\ Len(e.val) = 1
        /\ e.val \in Seq(Int)
    BY <1>2, <1>9, EventFacts DEF LiSendHighResScrollEvent
  <2>2. e.val[1] \in Int
    BY <2>1, ElementOfSeq
  <2>3. /\ Taken(c) /\ caller' = [caller EXCEPT ![c] = x]
        /\ UNCHANGED <<life, queues, batch, currentPenButtonState,
                       absCurrentPos, moved, sender, terminated, asserts>>
    BY <1>9 DEF LiSendHighResScrollEvent, Go
  <2>4. AddScroll(batchedScrollDelta, e.val[1]) \in Int
    BY <1>1, <2>2 DEF AddScroll
  <2>5. batchedScrollDelta' \in Int
    BY <1>1, <1>9, <2>4 DEF LiSendHighResScrollEvent
  <2>6. SeenType' /\ seen'.stray = seen.stray
    BY <1>9 DEF LiSendHighResScrollEvent, SeenType
  <2>7. x \in CallRecords /\ CallOK(x) /\ x.holder = None /\ ~HasKey(x.packet)
    BY <2>1 DEF CallRecords, CallOK, HasKey
  <2> HIDE DEF x, e
  <2>8. CallStep(c, x)
    BY <2>1, <2>3, <2>5, <2>6, <2>7, PlainCall
  <2> QED
    BY <2>8
<1>10. CASE LiSendMultiControllerEvent(c)
  <2> DEFINE x == [at |-> "match", next |-> "idle",
                   packet |-> ControllerPacket(Event(c)), holder |-> None]
  <2>1. /\ caller[c].at = "idle" /\ todo[c] # <<>> /\ initialized
        /\ Event(c) \in Packets
    BY <1>2, <1>10 DEF LiSendMultiControllerEvent
  <2>2. x \in CallRecords /\ CallOK(x) /\ x.holder = None /\ ~HasKey(x.packet)
    BY <2>1, ControllerPackets, MatchRecord
  <2>3. /\ Taken(c) /\ caller' = [caller EXCEPT ![c] = x]
        /\ UNCHANGED <<life, queues, batch, single, sender, terminated,
                       asserts, seen>>
    BY <1>10 DEF LiSendMultiControllerEvent, Go
  <2>4. batchedScrollDelta' \in Int /\ SeenType' /\ seen'.stray = seen.stray
    BY <1>1, <2>3 DEF SeenType
  <2> HIDE DEF x
  <2>5. CallStep(c, x)
    BY <2>1, <2>2, <2>3, <2>4, PlainCall
  <2> QED
    BY <2>5
<1>11. CASE LiSendControllerArrivalEvent(c)
  <2> DEFINE p == [Event(c) EXCEPT !.num = @ % MaxGamepads]
             q == ControllerPacket(Neutral(Event(c)))
             x == IF config.sunshine
                  THEN [at |-> "alloc", next |-> "offer", packet |-> p,
                        holder |-> None]
                  ELSE [at |-> "match", next |-> "idle", packet |-> q,
                        holder |-> None]
  <2>1. /\ caller[c].at = "idle" /\ todo[c] # <<>> /\ initialized
        /\ Event(c) \in Packets /\ Event(c).kind = "arrival"
    BY <1>2, <1>11 DEF LiSendControllerArrivalEvent
  <2>2. Event(c).num % MaxGamepads \in Nat
    BY <2>1, InputAssumption DEF Packets
  <2>3. p \in Packets /\ p.kind = "arrival" /\ ~HasKey(p)
    BY <2>1, <2>2 DEF Packets, HasKey
  <2>4. q \in Packets /\ q.kind = "controller"
    BY <2>1, ControllerPackets
  <2>5. /\ Taken(c) /\ caller' = [caller EXCEPT ![c] = x]
        /\ UNCHANGED <<life, queues, batch, single, sender, terminated,
                       asserts, seen>>
    BY <1>11 DEF LiSendControllerArrivalEvent, Go
  <2> HIDE DEF p, q
  <2>6. x \in CallRecords /\ CallOK(x) /\ x.holder = None /\ ~HasKey(x.packet)
    BY <2>3, <2>4, AllocRecord, MatchRecord
  <2>7. batchedScrollDelta' \in Int /\ SeenType' /\ seen'.stray = seen.stray
    BY <1>1, <2>5 DEF SeenType
  <2> HIDE DEF x
  <2>8. CallStep(c, x)
    BY <2>1, <2>5, <2>6, <2>7, PlainCall
  <2> QED
    BY <2>8
<1>12. CASE LiSendControllerMotionEvent(c)
  <2> DEFINE p == [Event(c) EXCEPT !.num = @ % MaxGamepads]
  <2>1. /\ caller[c].at = "idle" /\ todo[c] # <<>> /\ initialized
        /\ Event(c) \in Events /\ Event(c) \in Packets
        /\ Event(c).kind = "motion" /\ Event(c).type \in SensorTypes
        /\ Event(c).val \in Seq(Int)
    BY <1>2, <1>12, EventFacts DEF LiSendControllerMotionEvent
  <2>2. Event(c).num % MaxGamepads \in Gamepads
    BY <2>1, InputAssumption DEF Packets, Gamepads
  <2>3. /\ p \in Packets /\ p.kind = "motion" /\ p.type \in SensorTypes
        /\ p.num \in Gamepads
    BY <2>1, <2>2 DEF Packets, Gamepads
  <2>4. HasKey(p) /\ KeyOf(p) \in Keys /\ KeyOf(p) # Rel
    <3>1. HasKey(p) /\ KeyOf(p) = <<p.type, p.num>>
      BY <2>3, KeyCases DEF HasKey
    <3>2. <<p.type, p.num>> \in Sensors
      BY <2>3 DEF Sensors
    <3>3. Rel \notin Sensors
      BY DEF Rel, Sensors, SensorTypes
    <3> HIDE DEF p
    <3> QED
      BY <3>1, <3>2, <3>3 DEF Keys
  <2>5. /\ Taken(c)
        /\ UNCHANGED <<life, queues, currentQueuedControllerPacket, single,
                       sender, terminated, asserts>>
    BY <1>12 DEF LiSendControllerMotionEvent
  <2>6. CASE config.sunshine
    <3>1. Update(c, p, Event(c).val)
      BY <1>12, <2>6 DEF LiSendControllerMotionEvent
    <3> HIDE DEF p
    <3>2. absCurrentPos' \in Int \X (Nat \ {0}) /\ moved' \in Int \X Int
      BY <1>1, <2>5
    <3> QED
      BY <2>1, <2>3, <2>4, <2>5, <3>1, <3>2, UpdateCall
  <2>7. CASE ~config.sunshine
    <3>1. caller' = [caller EXCEPT ![c] = Idle] /\ UNCHANGED <<current, seen>>
      BY <1>12, <2>7 DEF LiSendControllerMotionEvent, Return
    <3>2. batchedScrollDelta' \in Int /\ SeenType' /\ seen'.stray = seen.stray
      BY <1>1, <2>5, <3>1 DEF SeenType
    <3>3. Idle.holder = None
      BY DEF Idle
    <3>4. CallStep(c, Idle)
      BY <2>1, <2>5, <3>1, <3>2, <3>3, IdleFacts, PlainCall
    <3> QED
      BY <3>4
  <2> QED
    BY <2>6, <2>7
<1>13. CASE NothingToSend(c) \/ NotInitialized(c)
  <2>1. /\ caller[c].at = "idle" /\ todo[c] # <<>> /\ Taken(c)
        /\ UNCHANGED <<life, queues, batch, single, caller, sender,
                       terminated, asserts, seen>>
    BY <1>13 DEF NothingToSend, NotInitialized, Ready
  <2>2. caller' = [caller EXCEPT ![c] = Idle]
    BY <2>1, EventOf
  <2>3. batchedScrollDelta' \in Int /\ SeenType' /\ seen'.stray = seen.stray
    BY <1>1, <2>1 DEF SeenType
  <2>4. Idle.holder = None
    BY DEF Idle
  <2>5. CallStep(c, Idle)
    BY <2>1, <2>2, <2>3, <2>4, IdleFacts, PlainCall
  <2> QED
    BY <2>5
<1> QED
  BY <1>3, <1>4, <1>5, <1>6, <1>7, <1>8, <1>9, <1>10, <1>11, <1>12, <1>13
     DEF SomeCall

(***************************************************************************)
(* Steps that move no holder and no carrier                                *)
(***************************************************************************)

LEMMA OneCaller ==
  ASSUME TypeOK, NEW t \in Threads, NEW x, caller' = [caller EXCEPT ![t] = x]
  PROVE  /\ caller'[t] = x
         /\ \A u \in Threads : u # t => caller'[u] = caller[u]
         /\ x \in CallRecords => caller' \in [Threads -> CallRecords]
  BY DEF TypeOK, ThreadType

LEMMA SameOwners ==
  ASSUME OneOwner,
         packetQueue'.items = packetQueue.items,
         packetHolderFreeList'.items = packetHolderFreeList.items,
         sender'.holder = sender.holder,
         \A t \in Threads : caller'[t].holder = caller[t].holder
  PROVE  OneOwner'
  BY DEF OneOwner

LEMMA SameCarriers ==
  ASSUME Reserved,
         main' # "off" => main # "off", terminated => terminated',
         seen.stray => seen'.stray,
         Queued' = Queued,
         \A k \in Keys : /\ current'[k].dirty <=> current[k].dirty
                         /\ Carries(k)' <=> Carries(k)
                         /\ \A t \in Threads : Reserves(t, k)' <=> Reserves(t, k)
                         /\ ~seen'.stray => \A h \in Queued :
                              Carrier(h, k)' <=> Carrier(h, k)
  PROVE  Reserved'
<1> SUFFICES ASSUME main' # "off" /\ ~terminated' /\ ~seen'.stray,
                    NEW k \in Keys
             PROVE  OneCarrier(k)'
  BY DEF Reserved
<1>1. OneCarrier(k)
  BY DEF Reserved
<1> QED
  BY <1>1 DEF OneCarrier

(***************************************************************************)
(* A call is entered                                                       *)
(***************************************************************************)

LEMMA CallKeeps ==
  ASSUME IInv, NEW c \in Callers, NEW x, CallStep(c, x)
  PROVE  IInv'
<1>1. /\ TypeOK /\ SeenType /\ Lifecycle /\ CallsOK /\ SenderOK /\ Contents
      /\ OneOwner /\ Reserved /\ AssertsHold
  BY DEF IInv
<1>2. /\ caller[c] = Idle /\ caller' = [caller EXCEPT ![c] = x]
      /\ x \in CallRecords /\ CallOK(x) /\ x.holder = None
      /\ initialized \/ x = Idle
      /\ todo' \in [Callers -> Seq(Events)] /\ StateType'
      /\ UNCHANGED <<main, initialized, session, config, packetQueue,
                     packetHolderFreeList, packet,
                     currentQueuedControllerPacket, sender, terminated,
                     asserts>>
      /\ SeenType' /\ seen'.stray = seen.stray
  BY DEF CallStep
<1>3. c \in Threads /\ c # "main"
  BY InputAssumption DEF Threads
<1>4. /\ caller'[c] = x /\ caller' \in [Threads -> CallRecords]
      /\ \A u \in Threads : u # c => caller'[u] = caller[u]
  BY <1>1, <1>2, <1>3, OneCaller
<1>5. TypeOK'
  BY <1>1, <1>2, <1>4 DEF TypeOK, LifeType, HolderType, ThreadType, IsQueue
<1>6. Lifecycle'
  <2>1. "main" \in Threads
    BY DEF Threads
  <2>2. CASE x = Idle
    <3>1. \A u \in Threads : caller'[u] = caller[u]
      BY <1>2, <1>4, <2>2
    <3> QED
      BY <1>1, <1>2, <2>1, <3>1 DEF Lifecycle, Quiet, NobodyCalls
  <2>3. CASE initialized
    BY <1>1, <1>2, <1>3, <1>4, <2>1, <2>3 DEF Lifecycle
  <2> QED
    BY <1>2, <2>2, <2>3
<1>7. CallsOK'
  <2>1. \A u \in Threads : CallOK(caller'[u])
    BY <1>1, <1>2, <1>4 DEF CallsOK
  <2> QED
    BY <2>1 DEF CallsOK, CallOK
<1>8. SenderOK' /\ AssertsHold'
  BY <1>1, <1>2 DEF SenderOK, AssertsHold
<1>9. x.at # "offer"
  BY <1>2 DEF CallOK
<1>10. Contents'
  BY <1>1, <1>2, <1>4, <1>9 DEF Contents
<1>11. OneOwner'
  <2>1. caller[c].holder = None
    BY <1>2 DEF Idle
  <2>2. \A t \in Threads : caller'[t].holder = caller[t].holder
    BY <1>2, <1>4, <2>1
  <2> QED
    BY <1>1, <1>2, <2>2, SameOwners
<1>12. Reserved'
  <2> SUFFICES ASSUME main' # "off" /\ ~terminated' /\ ~seen'.stray,
                      NEW k \in Keys
               PROVE  OneCarrier(k)'
    BY DEF Reserved
  <2>1. OneCarrier(k)
    BY <1>1, <1>2 DEF Reserved
  <2>2. ~Reserves(c, k)
    BY <1>2 DEF Reserves, Idle
  <2>3. Reserves(c, k)' <=> HasKey(x.packet) /\ KeyOf(x.packet) = k
    BY <1>2, <1>4 DEF Reserves, CallOK
  <2>4. \A u \in Threads : u # c => (Reserves(u, k)' <=> Reserves(u, k))
    BY <1>4 DEF Reserves
  <2>5. /\ Queued' = Queued /\ (Carries(k)' <=> Carries(k))
        /\ \A h : Carrier(h, k)' <=> Carrier(h, k)
    BY <1>2 DEF Queued, Carries, Carrier
  <2>6. /\ current'[k].dirty <=> current[k].dirty \/ Reserves(c, k)'
        /\ Reserves(c, k)' => ~current[k].dirty
    BY <2>3 DEF CallStep
  <2> QED
    BY <1>3, <2>1, <2>2, <2>4, <2>5, <2>6 DEF OneCarrier
<1> QED
  BY <1>2, <1>5, <1>6, <1>7, <1>8, <1>10, <1>11, <1>12 DEF IInv

(***************************************************************************)
(* Steps within a call                                                     *)
(***************************************************************************)

(* A holder goes on containing the same kind of packet for the same key.   *)
SameKind(h) ==
  /\ packet'[h].kind = packet[h].kind
  /\ HasKey(packet[h]) => KeyOf(packet'[h]) = KeyOf(packet[h])

(* What is left to show when thread t goes on to x.  A thread in a call    *)
(* finds the stream started and not destroyed yet.                         *)
LEMMA InCallKeeps ==
  ASSUME IInv, NEW t \in Threads, caller[t].at # "idle",
         NEW x \in CallRecords, CallOK(x), caller' = [caller EXCEPT ![t] = x],
         UNCHANGED <<life, todo, sender, terminated, asserts>>,
         HolderType', StateType', SeenType', seen.stray => seen'.stray,
         packetHolderFreeList'.shutdown = packetHolderFreeList.shutdown,
         packetQueue'.draining = packetQueue.draining,
         packetQueue.items # <<>> =>
           /\ packetQueue'.items # <<>>
           /\ Head(packetQueue'.items) = Head(packetQueue.items),
         \A h \in Holders : HasKey(packet'[h]) => KeyOf(packet'[h]) \in Keys,
         ~seen'.stray => \A h \in Queued : SameKind(h),
         ~seen'.stray => \A u \in Threads :
                           u # t /\ caller[u].holder # None =>
                             SameKind(caller[u].holder),
         ~seen'.stray /\ x.at = "offer" =>
           /\ packet'[x.holder].kind = x.packet.kind
           /\ HasKey(x.packet) => KeyOf(packet'[x.holder]) = KeyOf(x.packet),
         OneOwner', Reserved'
  PROVE  IInv'
<1>1. /\ TypeOK /\ Lifecycle /\ CallsOK /\ SenderOK /\ Contents /\ AssertsHold
  BY DEF IInv
<1>2. /\ caller'[t] = x /\ caller' \in [Threads -> CallRecords]
      /\ \A u \in Threads : u # t => caller'[u] = caller[u]
  BY <1>1, OneCaller
<1>3. TypeOK'
  BY <1>1, <1>2 DEF TypeOK, LifeType, ThreadType
<1>4. Lifecycle'
  <2>1. ~NobodyCalls /\ ~Quiet
    BY DEF NobodyCalls, Quiet, Idle
  <2>2. main = "haptics" => t # "main"
    BY <1>1 DEF Lifecycle, Idle
  <2>3. "main" \in Threads
    BY DEF Threads
  <2> QED
    BY <1>1, <1>2, <2>1, <2>2, <2>3 DEF Lifecycle
<1>5. CallsOK'
  <2>1. \A u \in Threads : CallOK(caller'[u])
    BY <1>1, <1>2 DEF CallsOK
  <2> QED
    BY <2>1 DEF CallsOK, CallOK
<1>6. SenderOK' /\ AssertsHold'
  BY <1>1 DEF SenderOK, AssertsHold
<1>7. Contents'
  <2> SUFFICES ASSUME ~seen'.stray
               PROVE  /\ \A u \in Threads : caller'[u].at = "offer" =>
                           /\ packet'[caller'[u].holder].kind
                                = caller'[u].packet.kind
                           /\ HasKey(caller'[u].packet) =>
                                KeyOf(packet'[caller'[u].holder])
                                  = KeyOf(caller'[u].packet)
                      /\ sender.at = "penPoll" =>
                           packet'[Head(packetQueue'.items)].kind = "pen"
    BY DEF Contents, HasKey, KeyOf
  <2>1. \A u \in Threads : u # t /\ caller[u].at = "offer" =>
          /\ SameKind(caller[u].holder)
          /\ packet[caller[u].holder].kind = caller[u].packet.kind
          /\ HasKey(caller[u].packet) =>
               KeyOf(packet[caller[u].holder]) = KeyOf(caller[u].packet)
    BY <1>1 DEF Contents, CallsOK, CallOK
  <2>2. \A u \in Threads : u # t /\ caller[u].at = "offer" =>
          /\ packet'[caller[u].holder].kind = caller[u].packet.kind
          /\ HasKey(caller[u].packet) =>
               KeyOf(packet'[caller[u].holder]) = KeyOf(caller[u].packet)
    BY <2>1 DEF SameKind, HasKey
  <2>3. ASSUME sender.at = "penPoll"
        PROVE  packet'[Head(packetQueue'.items)].kind = "pen"
    <3>1. packetQueue.items \in Seq(Holders) /\ packetQueue.items # <<>>
      BY <1>1, <2>3 DEF TypeOK, HolderType, IsQueue, SenderOK
    <3>2. Head(packetQueue.items) \in Queued
      BY <3>1, TailFacts DEF Queued
    <3> QED
      BY <1>1, <2>3, <3>1, <3>2 DEF Contents, SameKind
  <2> QED
    BY <1>2, <2>2, <2>3
<1> QED
  BY <1>3, <1>4, <1>5, <1>6, <1>7 DEF IInv

LEMMA ListedHolders ==
  ASSUME TypeOK
  PROVE  /\ Queued \subseteq Holders
         /\ ToSet(packetHolderFreeList.items) \subseteq Holders
  BY LenProperties DEF TypeOK, HolderType, IsQueue, Queued, ToSet

(* What thread t may rely on when it has a holder                          *)
LEMMA OwnHolder ==
  ASSUME IInv, NEW t \in Threads, caller[t].holder # None
  PROVE  /\ caller[t].holder \in Holders
         /\ caller[t].holder \notin Queued
         /\ caller[t].holder \notin ToSet(packetHolderFreeList.items)
         /\ caller[t].holder # sender.holder
         /\ \A u \in Threads : u # t => caller[u].holder # caller[t].holder
  BY DEF IInv, TypeOK, ThreadType, CallRecords, OneOwner, Queued

(* A step of t that writes no holder, queues none and reserves nothing     *)
LEMMA QuietStep ==
  ASSUME IInv, NEW t \in Threads, caller[t].at # "idle",
         NEW x \in CallRecords, CallOK(x), caller' = [caller EXCEPT ![t] = x],
         x.at # "offer", x.holder = caller[t].holder, StateType', SeenType',
         seen'.stray = seen.stray,
         UNCHANGED <<life, queues, currentQueuedControllerPacket, todo, sender,
                     terminated, asserts>>,
         Reserved'
  PROVE  IInv'
<1>1. TypeOK /\ OneOwner /\ Contents
  BY DEF IInv
<1>2. /\ caller'[t] = x
      /\ \A u \in Threads : u # t => caller'[u] = caller[u]
  BY <1>1, OneCaller
<1>3. OneOwner'
  BY <1>1, <1>2, SameOwners
<1>4. HolderType'
  BY <1>1 DEF TypeOK, HolderType, IsQueue
<1>5. \A h : SameKind(h)
  BY DEF SameKind
<1>6. \A h \in Holders : HasKey(packet'[h]) => KeyOf(packet'[h]) \in Keys
  BY <1>1 DEF Contents
<1> QED
  BY <1>3, <1>4, <1>5, <1>6, InCallKeeps

LEMMA FillPenKeeps ==
  ASSUME IInv, NEW t \in Threads, FillPen(t)
  PROVE  IInv'
<1> DEFINE e == caller[t].packet
           h == caller[t].holder
           p == [e EXCEPT !.reliable = \/ ~Batchable(e.type)
                                       \/ e.buttons # currentPenButtonState]
           x == [caller[t] EXCEPT !.at = "offer", !.packet = p]
<1>1. TypeOK /\ CallsOK /\ OneOwner /\ Reserved
  BY DEF IInv
<1>2. /\ caller[t].at = "fillPen" /\ packet' = [packet EXCEPT ![h] = p]
      /\ currentPenButtonState' = e.buttons
      /\ UNCHANGED <<life, packetQueue, packetHolderFreeList, batch,
                     batchedScrollDelta, absCurrentPos, moved, todo, sender,
                     terminated, asserts, seen>>
  BY DEF FillPen
<1>3. caller \in [Threads -> CallRecords] /\ caller[t] \in CallRecords
  BY <1>1 DEF TypeOK, ThreadType
<1>4. caller' = [caller EXCEPT ![t] = x]
  BY <1>3 DEF FillPen
<1>5. e \in Packets /\ e.kind = "pen" /\ h \in Holders /\ h # None
  BY <1>1, <1>2, <1>3 DEF CallsOK, CallOK, CallRecords, Holders, None
<1>6. p \in Packets /\ p.kind = "pen" /\ ~HasKey(p)
  BY <1>5 DEF Packets, HasKey
<1>7. x \in CallRecords /\ CallOK(x) /\ x.holder = h /\ x.at = "offer"
      /\ x.packet = p
  <2>1. CallOK(caller[t])
    BY <1>1 DEF CallsOK
  <2> HIDE DEF p
  <2> QED
    BY <1>2, <1>3, <1>5, <1>6, <2>1 DEF CallRecords, CallOK
<1> HIDE DEF x, p
<1>8. /\ packet \in [Holders -> Packets] /\ packet' \in [Holders -> Packets]
      /\ packet'[h] = p /\ \A g \in Holders : g # h => packet'[g] = packet[g]
  BY <1>1, <1>2, <1>5, <1>6 DEF TypeOK, HolderType
<1>9. HolderType' /\ StateType' /\ SeenType'
  BY <1>1, <1>2, <1>5, <1>8
     DEF IInv, TypeOK, HolderType, StateType, SeenType, IsQueue, Packets
<1>10. \A g \in Holders : g # h => SameKind(g)
  BY <1>8 DEF SameKind
<1>11. /\ h \notin Queued /\ Queued \subseteq Holders
       /\ \A u \in Threads : u # t /\ caller[u].holder # None =>
            caller[u].holder \in Holders /\ caller[u].holder # h
  BY <1>1, <1>3, <1>5, ListedHolders, OwnHolder DEF CallRecords
<1>12. /\ caller'[t] = x
       /\ \A u \in Threads : u # t => caller'[u] = caller[u]
  BY <1>1, <1>4, OneCaller
<1>13. OneOwner'
  BY <1>1, <1>2, <1>7, <1>12, SameOwners
<1>14. Reserved'
  <2>1. ASSUME NEW k
        PROVE  /\ \A u \in Threads : Reserves(u, k)' <=> Reserves(u, k)
               /\ Carries(k)' <=> Carries(k)
               /\ \A g \in Queued : Carrier(g, k)' <=> Carrier(g, k)
    BY <1>2, <1>6, <1>7, <1>8, <1>11, <1>12 DEF Reserves, Carries, Carrier
  <2>2. Queued' = Queued
    BY <1>2 DEF Queued
  <2> QED
    BY <1>1, <1>2, <2>1, <2>2, SameCarriers
<1>15. \A g \in Holders : HasKey(packet'[g]) => KeyOf(packet'[g]) \in Keys
  BY <1>6, <1>8 DEF IInv, Contents
<1> QED
  BY <1>2, <1>4, <1>6, <1>7, <1>8, <1>9, <1>10, <1>11, <1>13, <1>14, <1>15,
     InCallKeeps

LEMMA ScrollLoopKeeps ==
  ASSUME IInv, NEW t \in Threads, ScrollLoop(t)
  PROVE  IInv'
<1> DEFINE d == batchedScrollDelta
           v == <<IF d > 0 THEN WheelDelta ELSE -WheelDelta>>
           p == [caller[t].packet EXCEPT !.val = v]
           x == IF d >= WheelDelta \/ -d >= WheelDelta
                THEN [at |-> "alloc", next |-> "offer", packet |-> p,
                      holder |-> None]
                ELSE Idle
<1>1. TypeOK /\ CallsOK /\ Reserved /\ SeenType
  BY DEF IInv
<1>2. /\ caller[t].at = "scroll" /\ caller' = [caller EXCEPT ![t] = x]
      /\ UNCHANGED <<life, queues, batch, single, todo, sender, terminated,
                     asserts, seen>>
  BY DEF ScrollLoop, Go, Return
<1>3. /\ caller[t] \in CallRecords /\ caller[t].packet \in Packets
      /\ caller[t].packet.kind = "scroll" /\ caller[t].holder = None
  BY <1>1, <1>2 DEF TypeOK, ThreadType, CallRecords, CallsOK, CallOK
<1>4. v \in Seq(Int) /\ Len(v) = 1
  BY InputAssumption
<1> HIDE DEF v
<1>5. p \in Packets /\ p.kind = "scroll" /\ Len(p.val) = 1 /\ ~HasKey(p)
  BY <1>3, <1>4 DEF Packets, HasKey
<1> HIDE DEF p
<1>6. /\ x \in CallRecords /\ CallOK(x) /\ x.holder = None
      /\ ~HasKey(x.packet) /\ x.at # "offer"
  BY <1>5, AllocRecord, IdleFacts DEF Idle
<1> HIDE DEF x
<1>7. /\ caller'[t] = x
      /\ \A u \in Threads : u # t => caller'[u] = caller[u]
  BY <1>1, <1>2, OneCaller
<1>8. Reserved'
  <2>1. ASSUME NEW k
        PROVE  /\ \A u \in Threads : Reserves(u, k)' <=> Reserves(u, k)
               /\ Carries(k)' <=> Carries(k)
               /\ \A g \in Queued : Carrier(g, k)' <=> Carrier(g, k)
    BY <1>2, <1>6, <1>7 DEF Reserves, Carries, Carrier
  <2>2. Queued' = Queued
    BY <1>2 DEF Queued
  <2> QED
    BY <1>1, <1>2, <2>1, <2>2, SameCarriers
<1>9. StateType' /\ SeenType'
  BY <1>1, <1>2 DEF TypeOK, StateType, SeenType
<1> QED
  BY <1>2, <1>3, <1>6, <1>8, <1>9, QuietStep

LEMMA ResetDirtyKeeps ==
  ASSUME IInv, NEW t \in Threads, ResetDirty(t)
  PROVE  IInv'
<1> DEFINE k == KeyOf(caller[t].packet)
<1>1. TypeOK /\ CallsOK /\ Reserved /\ SeenType
  BY DEF IInv
<1>2. /\ caller[t].at = "reset" /\ caller' = [caller EXCEPT ![t] = Idle]
      /\ current' = [current EXCEPT ![k].dirty = FALSE]
      /\ UNCHANGED <<life, queues, currentQueuedControllerPacket, single, todo,
                     sender, terminated, asserts, seen>>
  BY DEF ResetDirty, Return
<1>3. /\ caller[t].holder = None /\ HasKey(caller[t].packet) /\ k \in Keys
      /\ CallOK(caller[t])
  BY <1>1, <1>2 DEF TypeOK, ThreadType, CallRecords, CallsOK, CallOK
<1>4. /\ caller'[t] = Idle
      /\ \A u \in Threads : u # t => caller'[u] = caller[u]
  BY <1>1, <1>2, OneCaller
<1> HIDE DEF k
<1>5. /\ current \in [Keys -> [val : Seq(Int), dirty : BOOLEAN]]
      /\ current' \in [Keys -> [val : Seq(Int), dirty : BOOLEAN]]
      /\ current'[k].dirty = FALSE /\ Rel \in Keys
      /\ \A j \in Keys : /\ current'[j].val = current[j].val
                         /\ j # k => current'[j] = current[j]
  BY <1>1, <1>2, <1>3 DEF TypeOK, StateType, Keys
<1>6. StateType' /\ SeenType'
  BY <1>1, <1>2, <1>5 DEF TypeOK, StateType, SeenType
<1>7. Reserved'
  <2> SUFFICES ASSUME main' # "off" /\ ~terminated' /\ ~seen'.stray,
                      NEW j \in Keys
               PROVE  OneCarrier(j)'
    BY DEF Reserved
  <2>1. OneCarrier(j)
    BY <1>1, <1>2 DEF Reserved
  <2>2. Reserves(t, j) <=> j = k
    BY <1>2, <1>3 DEF Reserves, k
  <2>3. ~Reserves(t, j)'
    BY <1>4 DEF Reserves, Idle
  <2>4. /\ Queued' = Queued /\ (Carries(j)' <=> Carries(j))
        /\ \A h : Carrier(h, j)' <=> Carrier(h, j)
        /\ \A u \in Threads : u # t => (Reserves(u, j)' <=> Reserves(u, j))
    BY <1>2, <1>4 DEF Queued, Carries, Carrier, Reserves
  <2>5. CASE j = k
    BY <1>5, <2>1, <2>2, <2>3, <2>4, <2>5 DEF OneCarrier
  <2>6. CASE j # k
    BY <1>5, <2>1, <2>2, <2>3, <2>4, <2>6 DEF OneCarrier
  <2> QED
    BY <2>5, <2>6
<1>8. Idle.holder = None /\ Idle.at # "offer"
  BY DEF Idle
<1> QED
  BY <1>2, <1>3, <1>6, <1>7, <1>8, IdleFacts, QuietStep

LEMMA MatchKeeps ==
  ASSUME IInv, NEW t \in Threads, sendControllerEventInternal(t)
  PROVE  IInv'
<1> DEFINE p == caller[t].packet
           h == currentQueuedControllerPacket[p.num]
<1>1. TypeOK /\ CallsOK /\ Reserved /\ SeenType /\ OneOwner /\ Contents
  BY DEF IInv
<1>2. /\ caller[t].at = "match"
      /\ UNCHANGED <<life, packetQueue, packetHolderFreeList, batch, single,
                     todo, sender, terminated, asserts>>
  BY DEF sendControllerEventInternal
<1>3. /\ caller[t] \in CallRecords /\ p \in Packets /\ p.kind = "controller"
      /\ ~HasKey(p) /\ caller[t].holder = None
  BY <1>1, <1>2
     DEF TypeOK, ThreadType, CallRecords, CallsOK, CallOK, HasKey
<1>4. StateType'
  BY <1>1, <1>2 DEF TypeOK, StateType
<1>5. /\ Idle.holder = None /\ Idle.at # "offer"
  BY DEF Idle
<1>6. ASSUME NEW x, ~HasKey(x.packet), caller' = [caller EXCEPT ![t] = x],
             \A k \in Keys : ~seen'.stray =>
               \A g \in Queued : Carrier(g, k)' <=> Carrier(g, k),
             seen.stray => seen'.stray
      PROVE  Reserved'
  <2>1. /\ caller'[t] = x
        /\ \A u \in Threads : u # t => caller'[u] = caller[u]
    BY <1>1, <1>6, OneCaller
  <2>2. ASSUME NEW k \in Keys
        PROVE  /\ \A u \in Threads : Reserves(u, k)' <=> Reserves(u, k)
               /\ Carries(k)' <=> Carries(k)
    BY <1>2, <1>3, <1>6, <2>1 DEF Reserves, Carries
  <2>3. Queued' = Queued
    BY <1>2 DEF Queued
  <2> QED
    BY <1>1, <1>2, <1>6, <2>2, <2>3, SameCarriers
<1>7. CASE ~initialized
  <2>1. caller' = [caller EXCEPT ![t] = Idle] /\ UNCHANGED <<packet, seen>>
    BY <1>7 DEF sendControllerEventInternal, Return
  <2>2. \A k \in Keys, g \in Queued : Carrier(g, k)' <=> Carrier(g, k)
    BY <2>1 DEF Carrier
  <2>3. Reserved'
    BY <1>6, <2>1, <2>2, IdleFacts
  <2>4. SeenType'
    BY <1>1, <2>1 DEF SeenType
  <2> QED
    BY <1>2, <1>3, <1>4, <1>5, <2>1, <2>3, <2>4, IdleFacts, QuietStep
<1>8. CASE initialized /\ ~Compatible(h, p)
  <2> DEFINE x == [at |-> "alloc", next |-> "fillController", packet |-> p,
                   holder |-> None]
  <2>1. caller' = [caller EXCEPT ![t] = x] /\ UNCHANGED <<packet, seen>>
    BY <1>8 DEF sendControllerEventInternal, Go
  <2>2. /\ x \in CallRecords /\ CallOK(x) /\ x.holder = None /\ x.packet = p
        /\ x.at # "offer"
    BY <1>3, AllocRecord
  <2> HIDE DEF x, p
  <2>3. \A k \in Keys, g \in Queued : Carrier(g, k)' <=> Carrier(g, k)
    BY <2>1 DEF Carrier
  <2>4. Reserved'
    BY <1>3, <1>6, <2>1, <2>2, <2>3
  <2>5. SeenType'
    BY <1>1, <2>1 DEF SeenType
  <2> QED
    BY <1>2, <1>3, <1>4, <2>1, <2>2, <2>4, <2>5, QuietStep
<1>9. CASE initialized /\ Compatible(h, p)
  <2>1. /\ caller' = [caller EXCEPT ![t] = Idle]
        /\ packet' = [packet EXCEPT ![h] = p]
        /\ seen' = [Accept(p) EXCEPT !.stray = @ \/ ~OnItsWay(h, p.num)]
    BY <1>9 DEF sendControllerEventInternal, Return
  <2>2. "stray" \in DOMAIN Accept(p) /\ Accept(p).stray = seen.stray
    BY <1>1, HistoryFacts
  <2>3. /\ "stray" \in DOMAIN seen'
        /\ seen'.stray = (seen.stray \/ ~OnItsWay(h, p.num))
    BY <2>1, <2>2
  <2>4. SeenType' /\ (seen.stray => seen'.stray)
    BY <1>1, <2>3 DEF SeenType
  <2>5. ~seen'.stray => packet[h].kind = "controller"
    BY <2>3 DEF OnItsWay
  <2>6. /\ packet \in [Holders -> Packets] /\ packet' \in [Holders -> Packets]
        /\ \A g \in Holders : packet'[g] = IF g = h THEN p ELSE packet[g]
    BY <1>1, <1>3, <2>1 DEF TypeOK, HolderType
  <2> HIDE DEF p, h
  <2>7. \A g \in Holders : ~seen'.stray => SameKind(g)
    BY <1>3, <2>5, <2>6 DEF SameKind, HasKey
  <2>8. Queued \subseteq Holders
    BY <1>1, ListedHolders
  <2>9. \A g \in Holders, k \in Keys :
          ~seen'.stray => (Carrier(g, k)' <=> Carrier(g, k))
    BY <1>3, <2>5, <2>6 DEF Carrier, HasKey
  <2>10. Reserved'
    BY <1>6, <2>1, <2>4, <2>8, <2>9, IdleFacts
  <2>11. OneOwner'
    <3>1. /\ caller'[t] = Idle
          /\ \A u \in Threads : u # t => caller'[u] = caller[u]
      BY <1>1, <2>1, OneCaller
    <3> QED
      BY <1>1, <1>2, <1>3, <1>5, <3>1, SameOwners
  <2>12. HolderType'
    BY <1>1, <1>2, <2>6 DEF TypeOK, HolderType, IsQueue
  <2>13. \A g \in Holders : HasKey(packet'[g]) => KeyOf(packet'[g]) \in Keys
    BY <1>1, <1>3, <2>6 DEF Contents
  <2>14. \A u \in Threads : caller[u].holder # None =>
           caller[u].holder \in Holders
    BY <1>1 DEF TypeOK, ThreadType, CallRecords
  <2> QED
    BY <1>2, <1>4, <1>5, <2>1, <2>4, <2>7, <2>8, <2>10, <2>11, <2>12, <2>13,
       <2>14, IdleFacts, InCallKeeps
<1> QED
  BY <1>7, <1>8, <1>9

LEMMA FillControllerKeeps ==
  ASSUME IInv, NEW t \in Threads, FillController(t)
  PROVE  IInv'
<1> DEFINE h == caller[t].holder
           p == caller[t].packet
           x == [caller[t] EXCEPT !.at = "offer"]
<1>1. TypeOK /\ CallsOK /\ OneOwner /\ Reserved /\ Contents /\ SeenType
  BY DEF IInv
<1>2. /\ caller[t].at = "fillController" /\ packet' = [packet EXCEPT ![h] = p]
      /\ currentQueuedControllerPacket' =
           [currentQueuedControllerPacket EXCEPT ![p.num] = h]
      /\ UNCHANGED <<life, packetQueue, packetHolderFreeList, current, single,
                     todo, sender, terminated, asserts, seen>>
  BY DEF FillController
<1>3. caller \in [Threads -> CallRecords] /\ caller[t] \in CallRecords
  BY <1>1 DEF TypeOK, ThreadType
<1>4. caller' = [caller EXCEPT ![t] = x]
  BY <1>3 DEF FillController
<1>5. /\ p \in Packets /\ p.kind = "controller" /\ ~HasKey(p)
      /\ h \in Holders /\ h # None
  BY <1>1, <1>2, <1>3
     DEF CallsOK, CallOK, CallRecords, Holders, None, HasKey
<1>6. x \in CallRecords /\ CallOK(x) /\ x.holder = h /\ x.at = "offer"
      /\ x.packet = p
  <2>1. CallOK(caller[t])
    BY <1>1 DEF CallsOK
  <2> QED
    BY <1>2, <1>3, <1>5, <2>1 DEF CallRecords, CallOK
<1> HIDE DEF x
<1>7. /\ packet' \in [Holders -> Packets]
      /\ packet'[h] = p /\ \A g \in Holders : g # h => packet'[g] = packet[g]
  BY <1>1, <1>2, <1>5 DEF TypeOK, HolderType
<1>8. HolderType' /\ StateType' /\ SeenType'
  BY <1>1, <1>2, <1>5, <1>7
     DEF TypeOK, HolderType, StateType, SeenType, IsQueue
<1>9. \A g \in Holders : g # h => SameKind(g)
  BY <1>7 DEF SameKind
<1>10. /\ h \notin Queued /\ Queued \subseteq Holders
       /\ \A u \in Threads : u # t /\ caller[u].holder # None =>
            caller[u].holder \in Holders /\ caller[u].holder # h
  BY <1>1, <1>3, <1>5, ListedHolders, OwnHolder DEF CallRecords
<1>11. /\ caller'[t] = x
       /\ \A u \in Threads : u # t => caller'[u] = caller[u]
  BY <1>1, <1>4, OneCaller
<1>12. OneOwner'
  BY <1>1, <1>2, <1>6, <1>11, SameOwners
<1>13. Reserved'
  <2>1. ASSUME NEW k
        PROVE  /\ \A u \in Threads : Reserves(u, k)' <=> Reserves(u, k)
               /\ Carries(k)' <=> Carries(k)
               /\ \A g \in Queued : Carrier(g, k)' <=> Carrier(g, k)
    <3>1. Reserves(t, k)' <=> Reserves(t, k)
      BY <1>2, <1>5, <1>6, <1>11 DEF Reserves
    <3>2. \A u \in Threads \ {t} : Reserves(u, k)' <=> Reserves(u, k)
      BY <1>11 DEF Reserves
    <3>3. \A g \in Queued : packet'[g] = packet[g]
      BY <1>7, <1>10
    <3> QED
      BY <1>2, <3>1, <3>2, <3>3 DEF Carries, Carrier
  <2>2. Queued' = Queued
    BY <1>2 DEF Queued
  <2> QED
    BY <1>1, <1>2, <2>1, <2>2, SameCarriers
<1>14. \A g \in Holders : HasKey(packet'[g]) => KeyOf(packet'[g]) \in Keys
  BY <1>1, <1>5, <1>7 DEF Contents
<1>15. /\ packet'[x.holder].kind = x.packet.kind
       /\ HasKey(x.packet) => KeyOf(packet'[x.holder]) = KeyOf(x.packet)
       /\ \A g \in Queued : SameKind(g)
       /\ \A u \in Threads : u # t /\ caller[u].holder # None =>
            SameKind(caller[u].holder)
  BY <1>6, <1>7, <1>9, <1>10
<1>16. /\ caller[t].at # "idle"
       /\ UNCHANGED <<life, packetQueue, packetHolderFreeList, todo, sender,
                      terminated, asserts, seen>>
  BY <1>2
<1> QED
  BY <1>4, <1>6, <1>8, <1>12, <1>13, <1>14, <1>15, <1>16, InCallKeeps

(***************************************************************************)
(* Holders that go from hand to hand                                       *)
(***************************************************************************)

(* Thread t has got holder h, which nobody has any longer.                 *)
LEMMA GotKeeps ==
  ASSUME IInv, NEW t \in Threads, caller[t].at = "alloc", NEW h \in Holders,
         caller' = [caller EXCEPT ![t].at = caller[t].next, ![t].holder = h],
         packet' = IF caller[t].next = "offer"
                   THEN [packet EXCEPT ![h] = caller[t].packet] ELSE packet,
         h \notin Queued, h # sender.holder,
         \A u \in Threads : caller[u].holder # h,
         UNCHANGED <<life, packetQueue, batch, single, todo, sender,
                     terminated, asserts, seen>>,
         IsQueue(packetHolderFreeList)',
         packetHolderFreeList'.shutdown = packetHolderFreeList.shutdown,
         IsInjective(packetHolderFreeList'.items),
         ToSet(packetHolderFreeList'.items)
           \subseteq ToSet(packetHolderFreeList.items) \ {h}
  PROVE  IInv'
<1> DEFINE p == caller[t].packet
           x == [caller[t] EXCEPT !.at = caller[t].next, !.holder = h]
<1>1. TypeOK /\ CallsOK /\ OneOwner /\ Reserved /\ Contents /\ SeenType
  BY DEF IInv
<1>2. /\ caller \in [Threads -> CallRecords] /\ caller[t] \in CallRecords
      /\ p \in Packets /\ CallOK(caller[t]) /\ caller[t].holder = None
      /\ h # None
  BY <1>1
     DEF TypeOK, ThreadType, CallRecords, CallsOK, CallOK, Holders, None
<1>3. caller' = [caller EXCEPT ![t] = x]
  BY <1>2
<1>4. /\ x \in CallRecords /\ CallOK(x) /\ x.holder = h /\ x.packet = p
      /\ x.at = caller[t].next
      /\ x.at \in {"offer", "fillPen", "fillController"}
      /\ HasKey(p) => x.at = "offer"
  BY <1>2 DEF CallRecords, CallOK
<1> HIDE DEF x
<1>5. /\ caller'[t] = x
      /\ \A u \in Threads : u # t => caller'[u] = caller[u]
  BY <1>1, <1>3, OneCaller
<1>6. /\ packet' \in [Holders -> Packets]
      /\ x.at = "offer" => packet'[h] = p
      /\ x.at # "offer" => packet'[h] = packet[h]
      /\ \A g \in Holders : g # h => packet'[g] = packet[g]
  BY <1>1, <1>2, <1>4 DEF TypeOK, HolderType
<1>7. HolderType' /\ StateType' /\ SeenType'
  BY <1>1, <1>6 DEF TypeOK, HolderType, StateType, SeenType, IsQueue
<1>8. \A g \in Holders : g # h => SameKind(g)
  BY <1>6 DEF SameKind
<1>9. /\ Queued \subseteq Holders
      /\ \A u \in Threads : u # t /\ caller[u].holder # None =>
           caller[u].holder \in Holders /\ caller[u].holder # h
  BY <1>2, <1>1, ListedHolders DEF CallRecords
<1>10. OneOwner'
  <2> DEFINE Q == ToSet(packetQueue.items)
             F == ToSet(packetHolderFreeList.items)
             G == ToSet(packetHolderFreeList'.items)
  <2>1. h \notin Q /\ h \notin G /\ G \subseteq F
    BY DEF Queued
  <2> HIDE DEF G
  <2>2. /\ IsInjective(packetQueue'.items)
        /\ ToSet(packetQueue'.items) = Q /\ sender'.holder = sender.holder
    BY <1>1 DEF OneOwner
  <2>3. /\ Q \cap G = {} /\ sender.holder \notin Q /\ sender.holder \notin G
    BY <1>1, <2>1 DEF OneOwner
  <2>4. \A u \in Threads : caller'[u].holder # None =>
          /\ caller'[u].holder \notin Q /\ caller'[u].holder \notin G
          /\ caller'[u].holder # sender.holder
    BY <1>1, <1>4, <1>5, <2>1 DEF OneOwner
  <2>5. \A u \in Threads : caller'[u].holder # None =>
          \A w \in Threads \ {u} : caller'[w].holder # caller'[u].holder
    BY <1>1, <1>2, <1>4, <1>5 DEF OneOwner
  <2> QED
    BY <2>2, <2>3, <2>4, <2>5 DEF OneOwner, G
<1>11. Reserved'
  <2>1. ASSUME NEW k
        PROVE  /\ \A u \in Threads : Reserves(u, k)' <=> Reserves(u, k)
               /\ Carries(k)' <=> Carries(k)
               /\ \A g \in Queued : Carrier(g, k)' <=> Carrier(g, k)
    <3>1. Reserves(t, k)' <=> Reserves(t, k)
      BY <1>4, <1>5 DEF Reserves
    <3>2. \A u \in Threads \ {t} : Reserves(u, k)' <=> Reserves(u, k)
      BY <1>5 DEF Reserves
    <3>3. \A g \in Queued : packet'[g] = packet[g]
      BY <1>6, <1>9
    <3> QED
      BY <3>1, <3>2, <3>3 DEF Carries, Carrier
  <2>2. Queued' = Queued
    BY DEF Queued
  <2> QED
    BY <1>1, <2>1, <2>2, SameCarriers
<1>12. \A g \in Holders : HasKey(packet'[g]) => KeyOf(packet'[g]) \in Keys
  BY <1>1, <1>2, <1>6 DEF Contents, CallOK
<1>13. x.at = "offer" =>
         /\ packet'[x.holder].kind = x.packet.kind
         /\ HasKey(x.packet) => KeyOf(packet'[x.holder]) = KeyOf(x.packet)
  BY <1>4, <1>6
<1>14. /\ \A g \in Queued : SameKind(g)
       /\ \A u \in Threads : u # t /\ caller[u].holder # None =>
            SameKind(caller[u].holder)
  BY <1>8, <1>9
<1> HIDE DEF p
<1> QED
  BY <1>3, <1>4, <1>7, <1>10, <1>11, <1>12, <1>13, <1>14, InCallKeeps

(* A free list takes a holder back, or lets go of it.                      *)
LEMMA FreeFacts ==
  ASSUME TypeOK, OneOwner, NEW h \in Holders,
         h \notin ToSet(packetHolderFreeList.items)
  PROVE  LET f == freePacketHolder(h)
         IN  /\ IsQueue(f) /\ IsInjective(f.items)
             /\ ToSet(f.items) \subseteq ToSet(packetHolderFreeList.items)
                                           \cup {h}
             /\ f.shutdown = packetHolderFreeList.shutdown
<1> DEFINE l == packetHolderFreeList
           f == freePacketHolder(h)
           g == [l EXCEPT !.items = Append(@, h), !.used = TRUE]
<1>1. IsQueue(l) /\ IsInjective(l.items)
  BY DEF TypeOK, HolderType, OneOwner
<1>2. f = l \/ (f = g /\ Len(l.items) # config.bound)
  BY DEF freePacketHolder
<1>3. /\ l.items \in Seq(Holders) /\ Len(l.items) <= config.bound
      /\ Len(l.items) \in Nat /\ config.bound \in Nat
  BY <1>1, LenProperties, InputAssumption DEF IsQueue, TypeOK, LifeType
<1>4. /\ Append(l.items, h) \in Seq(Holders)
      /\ Len(Append(l.items, h)) = Len(l.items) + 1
      /\ ToSet(Append(l.items, h)) = ToSet(l.items) \cup {h}
      /\ IsInjective(Append(l.items, h))
  BY <1>1, <1>3, AppendFacts
<1> DEFINE a == Append(l.items, h)
<1> HIDE DEF a
<1>5. /\ g.items = a /\ g.shutdown = l.shutdown
      /\ a \in Seq(Holders) =>
           g \in [items : Seq(Holders), draining : BOOLEAN,
                 shutdown : BOOLEAN, used : BOOLEAN]
  BY <1>1 DEF IsQueue, a
<1>6. Len(l.items) # config.bound => IsQueue(g)
  <2>1. Len(l.items) # config.bound => Len(a) <= config.bound
    BY <1>3, <1>4 DEF a
  <2> HIDE DEF g
  <2> QED
    BY <1>4, <1>5, <2>1 DEF IsQueue, a
<1> USE DEF a
<1> HIDE DEF f, g, l
<1>7. /\ IsQueue(f) /\ IsInjective(f.items)
      /\ ToSet(f.items) \subseteq ToSet(l.items) \cup {h}
      /\ f.shutdown = l.shutdown
  BY <1>1, <1>2, <1>4, <1>5, <1>6
<1> QED
  BY <1>7 DEF f, l

LEMMA EmptiedFacts ==
  ASSUME TypeOK, NEW h \in Holders
  PROVE  /\ Emptied(h) \in [Holders -> Packets]
         /\ \A g \in Holders : g # h => Emptied(h)[g] = packet[g]
         /\ Emptied(h)[h] = packet[h] \/ ~HasKey(Emptied(h)[h])
<1>1. packet \in [Holders -> Packets]
  BY DEF TypeOK, HolderType
<1>2. Emptied(h) = packet \/ Emptied(h) = [packet EXCEPT ![h] = NoPacket]
  BY DEF Emptied
<1> QED
  BY <1>1, <1>2, NoPacketFacts

(* Thread t gives up: it is done, or has to give a place back.             *)
LEMMA GiveUpFacts ==
  ASSUME IInv, NEW t \in Threads, caller[t].at \in {"alloc", "offer"},
         GiveUp(t)
  PROVE  \E x \in CallRecords :
           /\ CallOK(x) /\ caller' = [caller EXCEPT ![t] = x]
           /\ x.holder = None /\ x.at # "offer"
           /\ SeenType' /\ seen'.stray = seen.stray
           /\ \A u \in Threads : \A k : Reserves(u, k)' <=> Reserves(u, k)
<1> DEFINE p == caller[t].packet
           x == IF HasKey(p) THEN [caller[t] EXCEPT !.at = "reset",
                                                    !.holder = None]
                ELSE Idle
<1>1. TypeOK /\ SeenType
  BY DEF IInv
<1>2. /\ caller \in [Threads -> CallRecords] /\ caller[t] \in CallRecords
      /\ CallOK(caller[t])
  BY DEF IInv, TypeOK, ThreadType, CallsOK
<1>3. caller' = [caller EXCEPT ![t] = x] /\ seen' = Refuse(p)
  BY <1>2 DEF GiveUp
<1>4. /\ x \in CallRecords /\ CallOK(x) /\ x.holder = None /\ x.at # "offer"
      /\ HasKey(p) => x.packet = p /\ x.at = "reset"
      /\ ~HasKey(p) => ~HasKey(x.packet)
  <2>1. CASE HasKey(p)
    BY <1>2, <2>1 DEF CallRecords, CallOK, None
  <2>2. CASE ~HasKey(p)
    BY <2>2, IdleFacts DEF Idle
  <2> QED
    BY <2>1, <2>2
<1> HIDE DEF x
<1>5. SeenType' /\ seen'.stray = seen.stray
  BY <1>1, <1>3, HistoryFacts DEF SeenType
<1>6. /\ caller'[t] = x
      /\ \A u \in Threads : u # t => caller'[u] = caller[u]
  BY <1>1, <1>3, OneCaller
<1>7. \A u \in Threads : \A k : Reserves(u, k)' <=> Reserves(u, k)
  BY <1>4, <1>6 DEF Reserves
<1> QED
  BY <1>3, <1>4, <1>5, <1>7

LEMMA AllocateKeeps ==
  ASSUME IInv, NEW t \in Threads, allocatePacketHolder(t)
  PROVE  IInv'
<1> DEFINE free  == packetHolderFreeList.items
           Got(h) == /\ caller' = [caller EXCEPT ![t].at = caller[t].next,
                                                 ![t].holder = h]
                     /\ packet' = IF caller[t].next = "offer"
                                  THEN [packet EXCEPT ![h] = caller[t].packet]
                                  ELSE packet
                     /\ UNCHANGED seen
<1>1. TypeOK /\ CallsOK /\ OneOwner /\ Reserved
  BY DEF IInv
<1>2. /\ caller[t].at = "alloc"
      /\ UNCHANGED <<life, packetQueue, batch, single, todo, sender,
                     terminated, asserts>>
  BY DEF allocatePacketHolder
<1>3. /\ IsQueue(packetHolderFreeList) /\ free \in Seq(Holders)
      /\ IsInjective(free)
  BY <1>1 DEF TypeOK, HolderType, IsQueue, OneOwner
<1>4. CASE /\ \E h \in Holders : h \notin InUse
           /\ Got(malloc) /\ UNCHANGED packetHolderFreeList
  <2>1. malloc \in Holders /\ malloc \notin InUse
    BY <1>4 DEF malloc
  <2>2. /\ malloc \notin Queued /\ malloc \notin ToSet(free)
        /\ malloc # sender.holder
        /\ \A u \in Threads : caller[u].holder # malloc
    BY <2>1 DEF InUse, Queued
  <2>3. IsQueue(packetHolderFreeList)'
    BY <1>2, <1>3, <1>4 DEF IsQueue
  <2>4. ToSet(packetHolderFreeList'.items) \subseteq ToSet(free) \ {malloc}
    BY <1>4, <2>2
  <2> QED
    BY <1>2, <1>3, <1>4, <2>1, <2>2, <2>3, <2>4, GotKeeps
<1>5. CASE /\ free # <<>> /\ Got(Head(free))
           /\ packetHolderFreeList' =
                [packetHolderFreeList EXCEPT !.items = Tail(free)]
  <2>1. /\ Head(free) \in Holders /\ Head(free) \in ToSet(free)
        /\ Tail(free) \in Seq(Holders) /\ Len(Tail(free)) = Len(free) - 1
        /\ ToSet(free) = ToSet(Tail(free)) \cup {Head(free)}
        /\ IsInjective(Tail(free)) /\ Head(free) \notin ToSet(Tail(free))
    BY <1>3, <1>5, TailFacts
  <2>2. /\ Head(free) \notin Queued /\ Head(free) # sender.holder
        /\ \A u \in Threads : caller[u].holder # Head(free)
    <3>1. Head(free) # None
      BY <2>1 DEF Holders, None
    <3> QED
      BY <1>1, <2>1, <3>1 DEF OneOwner, Queued
  <2>3. /\ packetHolderFreeList'.items = Tail(free)
        /\ packetHolderFreeList'.shutdown = packetHolderFreeList.shutdown
        /\ packetHolderFreeList' \in
             [items : Seq(Holders), draining : BOOLEAN, shutdown : BOOLEAN,
              used : BOOLEAN]
    BY <1>3, <1>5, <2>1 DEF IsQueue
  <2>4. IsQueue(packetHolderFreeList)'
    <3>1. Len(free) <= config.bound /\ Len(free) \in Nat /\ config.bound \in Nat
      BY <1>1, <1>3, InputAssumption DEF IsQueue, TypeOK, LifeType
    <3>2. Len(Tail(free)) <= config.bound
      BY <2>1, <3>1
    <3> QED
      BY <1>2, <2>3, <3>2 DEF IsQueue
  <2>5. /\ IsInjective(packetHolderFreeList'.items)
        /\ ToSet(packetHolderFreeList'.items) \subseteq
             ToSet(free) \ {Head(free)}
    BY <2>1, <2>3
  <2> QED
    BY <1>2, <1>5, <2>1, <2>2, <2>3, <2>4, <2>5, GotKeeps
<1>6. CASE GiveUp(t) /\ UNCHANGED <<packetHolderFreeList, packet>>
  <2>1. PICK x \in CallRecords :
          /\ CallOK(x) /\ caller' = [caller EXCEPT ![t] = x]
          /\ x.holder = None /\ x.at # "offer"
          /\ SeenType' /\ seen'.stray = seen.stray
          /\ \A u \in Threads : \A k : Reserves(u, k)' <=> Reserves(u, k)
    BY <1>2, <1>6, GiveUpFacts
  <2>2. caller[t].holder = None
    BY <1>1, <1>2 DEF CallsOK, CallOK
  <2>3. StateType'
    BY <1>1, <1>2 DEF TypeOK, StateType
  <2>4. /\ Queued' = Queued
        /\ \A k : Carries(k)' <=> Carries(k)
        /\ \A k, h : Carrier(h, k)' <=> Carrier(h, k)
    BY <1>2, <1>6 DEF Queued, Carries, Carrier
  <2>5. Reserved'
    BY <1>1, <1>2, <2>1, <2>4, SameCarriers
  <2> QED
    BY <1>2, <1>6, <2>1, <2>2, <2>3, <2>5, QuietStep
<1> QED
  BY <1>4, <1>5, <1>6 DEF allocatePacketHolder

LEMMA OfferOkKeeps ==
  ASSUME IInv, NEW t \in Threads, OfferOk(t)
  PROVE  IInv'
<1> DEFINE p == caller[t].packet
           h == caller[t].holder
           s == packetQueue.items
           a == Append(s, h)
<1>1. /\ TypeOK /\ CallsOK /\ OneOwner /\ Reserved /\ Contents /\ SeenType
      /\ SenderOK
  BY DEF IInv
<1>2. /\ caller[t].at = "offer" /\ ~QueueFull
      /\ packetQueue' = [packetQueue EXCEPT !.items = a, !.used = TRUE]
      /\ seen' = Accept(p)
      /\ UNCHANGED <<life, packetHolderFreeList, packet, batch,
                     currentPenButtonState, absCurrentPos, moved, todo, sender,
                     terminated, asserts>>
  BY DEF OfferOk
<1>3. /\ caller \in [Threads -> CallRecords] /\ caller[t] \in CallRecords
      /\ CallOK(caller[t]) /\ p \in Packets
      /\ h \in Holders /\ h # None
  BY <1>1, <1>2
     DEF TypeOK, ThreadType, CallsOK, CallOK, CallRecords, Holders, None
<1>4. PICK x \in CallRecords :
        /\ CallOK(x) /\ x.holder = None /\ x.at # "offer" /\ ~HasKey(x.packet)
        /\ caller' = [caller EXCEPT ![t] = x] /\ batchedScrollDelta' \in Int
  <2>1. batchedScrollDelta \in Int
    BY <1>1 DEF TypeOK, StateType
  <2>2. CASE /\ p.kind = "arrival"
             /\ Go(t, "match", "idle", ControllerPacket(Neutral(p)))
             /\ UNCHANGED batchedScrollDelta
    <3> DEFINE q == ControllerPacket(Neutral(p))
               x == [at |-> "match", next |-> "idle", packet |-> q,
                     holder |-> None]
    <3>1. q \in Packets /\ q.kind = "controller"
      BY <1>1, <1>3, ControllerPackets
    <3>2. caller' = [caller EXCEPT ![t] = x]
      BY <2>2 DEF Go
    <3> HIDE DEF q
    <3>3. x \in CallRecords /\ CallOK(x) /\ x.holder = None /\ ~HasKey(x.packet)
      BY <3>1, MatchRecord
    <3>4. x.at # "offer"
      OBVIOUS
    <3> HIDE DEF x
    <3> QED
      BY <2>1, <2>2, <3>2, <3>3, <3>4
  <2>3. CASE /\ p.kind = "scroll"
             /\ batchedScrollDelta' = batchedScrollDelta - p.val[1]
             /\ Go(t, "scroll", "idle", p)
    <3> DEFINE x == [at |-> "scroll", next |-> "idle", packet |-> p,
                     holder |-> None]
    <3>1. p.val \in Seq(Int) /\ Len(p.val) = 1
      BY <1>3, <2>3 DEF CallOK, Packets
    <3>2. p.val[1] \in Int
      BY <3>1, ElementOfSeq
    <3>3. caller' = [caller EXCEPT ![t] = x]
      BY <2>3 DEF Go
    <3> HIDE DEF p
    <3>4. x \in CallRecords /\ CallOK(x) /\ x.holder = None /\ ~HasKey(x.packet)
      BY <1>3, <2>3, <3>1 DEF CallRecords, CallOK, HasKey
    <3>5. x.at # "offer"
      OBVIOUS
    <3>6. batchedScrollDelta' \in Int
      BY <2>1, <2>3, <3>2
    <3> HIDE DEF x
    <3> QED
      BY <3>3, <3>4, <3>5, <3>6
  <2>4. CASE Return(t) /\ UNCHANGED batchedScrollDelta
    BY <2>1, <2>4, IdleFacts DEF Return, Idle
  <2> QED
    BY <2>2, <2>3, <2>4 DEF OfferOk
<1>5. /\ IsQueue(packetQueue) /\ s \in Seq(Holders) /\ IsInjective(s)
      /\ h \notin Queued /\ h \notin ToSet(packetHolderFreeList.items)
      /\ h # sender.holder
      /\ \A u \in Threads : u # t => caller[u].holder # h
  <2>1. IsQueue(packetQueue) /\ s \in Seq(Holders) /\ IsInjective(s)
    BY <1>1 DEF TypeOK, HolderType, IsQueue, OneOwner
  <2> QED
    BY <1>3, <2>1, OwnHolder
<1>6. /\ a \in Seq(Holders) /\ a # <<>> /\ Len(a) = Len(s) + 1
      /\ s # <<>> => Head(a) = Head(s)
      /\ ToSet(a) = Queued \cup {h} /\ IsInjective(a)
  BY <1>3, <1>5, AppendFacts DEF Queued
<1> HIDE DEF a
<1>7. /\ packetQueue'.items = a /\ packetQueue'.draining = packetQueue.draining
      /\ packetQueue' \in [items : Seq(Holders), draining : BOOLEAN,
                           shutdown : BOOLEAN, used : BOOLEAN]
  BY <1>2, <1>5, <1>6 DEF IsQueue
<1>8. Queued' = Queued \cup {h}
  BY <1>6, <1>7 DEF Queued
<1>9. HolderType' /\ StateType' /\ SeenType' /\ seen'.stray = seen.stray
  <2>1. Len(a) <= config.bound
    <3>1. Len(s) <= config.bound /\ Len(s) \in Nat /\ config.bound \in Nat
      BY <1>1, <1>5, LenProperties, InputAssumption
         DEF IsQueue, TypeOK, LifeType
    <3> QED
      BY <1>2, <1>6, <3>1 DEF QueueFull
  <2>2. HolderType'
    BY <1>1, <1>2, <1>7, <2>1 DEF TypeOK, HolderType, IsQueue
  <2>3. StateType'
    BY <1>1, <1>2, <1>4 DEF TypeOK, StateType
  <2>4. SeenType' /\ seen'.stray = seen.stray
    BY <1>1, <1>2, HistoryFacts DEF SeenType
  <2> QED
    BY <2>2, <2>3, <2>4
<1>10. /\ caller'[t] = x
       /\ \A u \in Threads : u # t => caller'[u] = caller[u]
  BY <1>1, <1>4, OneCaller
<1>11. OneOwner'
  <2> DEFINE F == ToSet(packetHolderFreeList.items)
  <2>1. /\ IsInjective(packetQueue'.items) /\ ToSet(packetQueue'.items)
             = Queued \cup {h}
        /\ packetHolderFreeList' = packetHolderFreeList /\ sender' = sender
    BY <1>2, <1>6, <1>7
  <2>2. (Queued \cup {h}) \cap F = {}
    BY <1>1, <1>5 DEF OneOwner, Queued
  <2>3. \A u \in Threads : caller'[u].holder # None =>
          /\ caller'[u].holder \notin Queued \cup {h}
          /\ caller'[u].holder \notin F
          /\ caller'[u].holder # sender.holder
          /\ \A w \in Threads \ {u} : caller'[w].holder # caller'[u].holder
    BY <1>1, <1>4, <1>5, <1>10 DEF OneOwner, Queued
  <2>4. /\ sender.holder \notin Queued \cup {h} /\ sender.holder \notin F
        /\ IsInjective(packetHolderFreeList.items)
    BY <1>1, <1>5 DEF OneOwner, Queued
  <2> QED
    BY <2>1, <2>2, <2>3, <2>4 DEF OneOwner
<1>12. Reserved'
  <2> SUFFICES ASSUME main' # "off" /\ ~terminated' /\ ~seen'.stray,
                      NEW k \in Keys
               PROVE  OneCarrier(k)'
    BY DEF Reserved
  <2>1. OneCarrier(k)
    BY <1>1, <1>2, <1>9 DEF Reserved
  <2>2. ~seen.stray
    BY <1>9
  <2>3. Reserves(t, k) <=> Carrier(h, k)
    BY <1>1, <1>2, <2>2 DEF Reserves, Carrier, Contents, HasKey
  <2>4. ~Reserves(t, k)'
    BY <1>4, <1>10 DEF Reserves
  <2>5. /\ current'[k].dirty = current[k].dirty
        /\ Carries(k)' <=> Carries(k)
        /\ \A g : Carrier(g, k)' <=> Carrier(g, k)
        /\ \A u \in Threads : u # t => (Reserves(u, k)' <=> Reserves(u, k))
    BY <1>2, <1>10 DEF Carries, Carrier, Reserves
  <2> QED
    BY <1>5, <1>8, <2>1, <2>3, <2>4, <2>5 DEF OneCarrier
<1>13. \A g : SameKind(g)
  BY <1>2 DEF SameKind
<1>14. \A g \in Holders : HasKey(packet'[g]) => KeyOf(packet'[g]) \in Keys
  BY <1>1, <1>2 DEF Contents
<1> QED
  BY <1>2, <1>4, <1>6, <1>7, <1>9, <1>11, <1>12, <1>13, <1>14, InCallKeeps

LEMMA OfferRefusedKeeps ==
  ASSUME IInv, NEW t \in Threads, OfferRefused(t)
  PROVE  IInv'
<1> DEFINE h == caller[t].holder
           f == freePacketHolder(h)
           F == ToSet(packetHolderFreeList.items)
<1>1. /\ TypeOK /\ CallsOK /\ OneOwner /\ Reserved /\ Contents /\ SeenType
  BY DEF IInv
<1>2. /\ caller[t].at = "offer" /\ GiveUp(t)
      /\ packetHolderFreeList' = f /\ packet' = Emptied(h)
      /\ UNCHANGED <<life, packetQueue, batch, single, todo, sender,
                     terminated, asserts>>
  BY DEF OfferRefused
<1>3. h \in Holders /\ h # None
  BY <1>1, <1>2
     DEF TypeOK, ThreadType, CallsOK, CallOK, CallRecords, Holders, None
<1>4. /\ h \notin Queued /\ h \notin F /\ h # sender.holder
      /\ \A u \in Threads : u # t => caller[u].holder # h
      /\ Queued \subseteq Holders
  BY <1>1, <1>3, OwnHolder, ListedHolders
<1>5. PICK x \in CallRecords :
        /\ CallOK(x) /\ caller' = [caller EXCEPT ![t] = x]
        /\ x.holder = None /\ x.at # "offer"
        /\ SeenType' /\ seen'.stray = seen.stray
        /\ \A u \in Threads : \A k : Reserves(u, k)' <=> Reserves(u, k)
  BY <1>2, GiveUpFacts
<1>6. /\ IsQueue(f) /\ IsInjective(f.items)
      /\ ToSet(f.items) \subseteq F \cup {h}
      /\ f.shutdown = packetHolderFreeList.shutdown
  BY <1>1, <1>3, <1>4, FreeFacts
<1>7. /\ packet' \in [Holders -> Packets]
      /\ \A g \in Holders : g # h => packet'[g] = packet[g]
      /\ packet'[h] = packet[h] \/ ~HasKey(packet'[h])
  BY <1>1, <1>2, <1>3, EmptiedFacts
<1> HIDE DEF f, h
<1>8. HolderType' /\ StateType'
  BY <1>1, <1>2, <1>6, <1>7 DEF TypeOK, HolderType, StateType, IsQueue
<1>9. /\ caller'[t] = x
      /\ \A u \in Threads : u # t => caller'[u] = caller[u]
  BY <1>1, <1>5, OneCaller
<1>10. \A g \in Holders : g # h => SameKind(g)
  BY <1>7 DEF SameKind
<1>11. \A u \in Threads : caller[u].holder # None => caller[u].holder \in Holders
  BY <1>1 DEF TypeOK, ThreadType, CallRecords
<1>12. \A g \in Holders : HasKey(packet'[g]) => KeyOf(packet'[g]) \in Keys
  BY <1>1, <1>3, <1>7 DEF Contents
<1>13. OneOwner'
  <2>1. /\ packetQueue' = packetQueue /\ sender' = sender
        /\ packetHolderFreeList'.items = f.items
    BY <1>2
  <2>2. Queued \cap ToSet(f.items) = {} /\ sender.holder \notin ToSet(f.items)
    BY <1>1, <1>4, <1>6 DEF OneOwner, Queued
  <2>3. \A u \in Threads : caller'[u].holder # None =>
          /\ u # t /\ caller'[u] = caller[u] /\ caller[u].holder # h
    BY <1>4, <1>5, <1>9
  <2>4. \A u \in Threads : caller'[u].holder # None =>
          /\ caller'[u].holder \notin Queued
          /\ caller'[u].holder \notin ToSet(f.items)
          /\ caller'[u].holder # sender.holder
    BY <1>1, <1>6, <2>3 DEF OneOwner, Queued
  <2>5. \A u \in Threads : caller'[u].holder # None =>
          \A w \in Threads \ {u} : caller'[w].holder # caller'[u].holder
    BY <1>1, <1>5, <1>9, <2>3 DEF OneOwner
  <2>6. sender.holder \notin Queued /\ IsInjective(packetQueue.items)
    BY <1>1 DEF OneOwner, Queued
  <2> QED
    BY <1>6, <2>1, <2>2, <2>4, <2>5, <2>6 DEF OneOwner, Queued
<1>14. Reserved'
  <2>1. /\ Queued' = Queued
        /\ \A k : Carries(k)' <=> Carries(k)
        /\ \A k : \A g \in Queued : Carrier(g, k)' <=> Carrier(g, k)
    BY <1>2, <1>4, <1>7 DEF Queued, Carries, Carrier
  <2> QED
    BY <1>1, <1>2, <1>5, <2>1, SameCarriers
<1> QED
  BY <1>2, <1>4, <1>5, <1>6, <1>8, <1>10, <1>11, <1>12, <1>13, <1>14,
     InCallKeeps

(* Every step within a call keeps the invariant.                           *)
LEMMA InCallStep ==
  ASSUME IInv, NEW t \in Threads, InCall(t)
  PROVE  IInv'
  BY FillPenKeeps, ScrollLoopKeeps, ResetDirtyKeeps, MatchKeeps,
     FillControllerKeeps, AllocateKeeps, OfferOkKeeps, OfferRefusedKeeps
     DEF InCall

(***************************************************************************)
(* inputSendThread                                                         *)
(***************************************************************************)

(* What is left to show when the sender takes a step: it finds the stream  *)
(* started and not destroyed yet.                                          *)
LEMMA SenderKeeps ==
  ASSUME IInv, sender.at \notin {"none", "done"},
         sender.at # "wait" \/ packetQueue.items # <<>> \/ packetQueue.draining,
         UNCHANGED <<life, todo, caller, asserts>>, terminated' \in BOOLEAN,
         sender' \in SenderRecords, HolderType', StateType', SeenType',
         seen'.stray = seen.stray,
         packetHolderFreeList'.shutdown = packetHolderFreeList.shutdown,
         packetQueue'.draining = packetQueue.draining,
         \A h \in Holders : HasKey(packet'[h]) => KeyOf(packet'[h]) \in Keys,
         \A t \in Threads :
           caller[t].holder # None => SameKind(caller[t].holder),
         ~seen.stray /\ sender'.at = "penPoll" =>
           packet'[Head(packetQueue'.items)].kind = "pen",
         SenderOK', OneOwner', Reserved'
  PROVE  IInv'
<1>1. /\ TypeOK /\ Lifecycle /\ CallsOK /\ Contents /\ AssertsHold
  BY DEF IInv
<1>2. TypeOK'
  BY <1>1 DEF TypeOK, LifeType, ThreadType
<1>3. Lifecycle'
  <2>1. NoSender.at = "none"
    BY DEF NoSender
  <2>2. main \notin {"off", "start", "destroy"}
    BY <1>1, <2>1 DEF Lifecycle
  <2>3. main # "enable"
    BY <1>1 DEF Lifecycle, Quiet, EmptyQueue
  <2> QED
    BY <1>1, <2>2, <2>3 DEF Lifecycle
<1>4. CallsOK' /\ AssertsHold'
  BY <1>1 DEF CallsOK, AssertsHold
<1>5. Contents'
  <2>1. ASSUME ~seen.stray, NEW t \in Threads, caller[t].at = "offer"
        PROVE  /\ packet'[caller[t].holder].kind = caller[t].packet.kind
               /\ HasKey(caller[t].packet) =>
                    KeyOf(packet'[caller[t].holder]) = KeyOf(caller[t].packet)
    <3>1. SameKind(caller[t].holder)
      BY <1>1, <2>1 DEF CallsOK, CallOK
    <3> QED
      BY <1>1, <2>1, <3>1 DEF Contents, SameKind, HasKey
  <2> QED
    BY <2>1 DEF Contents
<1> QED
  BY <1>2, <1>3, <1>4, <1>5 DEF IInv

(* The sender loses a carrier only when it clears `dirty', and takes from  *)
(* the queue no other.                                                     *)
LEMMA SenderCarriers ==
  ASSUME Reserved, main' = main, caller' = caller, terminated => terminated',
         seen'.stray = seen.stray,
         ~terminated' /\ ~seen.stray =>
           /\ Queued' \subseteq Queued
           /\ \A k \in Keys :
                /\ Carries(k)' => Carries(k)
                /\ current'[k].dirty <=>
                     current[k].dirty /\ (Carries(k) => Carries(k)')
                /\ \A h \in Queued' : Carrier(h, k)' <=> Carrier(h, k)
                /\ \A h \in Queued \ Queued' : ~Carrier(h, k)
  PROVE  Reserved'
<1> SUFFICES ASSUME main' # "off" /\ ~terminated' /\ ~seen'.stray,
                    NEW k \in Keys
             PROVE  OneCarrier(k)'
  BY DEF Reserved
<1>1. OneCarrier(k)
  BY DEF Reserved
<1>2. \A t \in Threads : Reserves(t, k)' <=> Reserves(t, k)
  BY DEF Reserves
<1> QED
  BY <1>1, <1>2 DEF OneCarrier

(* What the sender may rely on when it has a holder                        *)
LEMMA SenderHolder ==
  ASSUME IInv, sender.at \notin {"none", "wait", "done"}
  PROVE  /\ sender \in SenderRecords /\ sender.holder \in Holders
         /\ sender.holder # None
         /\ sender.holder \notin Queued
         /\ sender.holder \notin ToSet(packetHolderFreeList.items)
         /\ \A t \in Threads : caller[t].holder # None =>
              caller[t].holder \in Holders /\ caller[t].holder # sender.holder
<1>1. TypeOK /\ OneOwner /\ SenderOK
  BY DEF IInv
<1>2. sender.holder # None /\ sender \in SenderRecords
  BY <1>1 DEF SenderOK, TypeOK, ThreadType
<1> QED
  BY <1>1, <1>2
     DEF OneOwner, Queued, SenderRecords, TypeOK, ThreadType, CallRecords

(* The sender goes on with the packet it has.                              *)
LEMMA GoesOnKeeps ==
  ASSUME IInv, sender.at \notin {"none", "wait", "done"},
         NEW s \in SenderRecords, sender' = s, s.holder = sender.holder,
         s.at \notin {"none", "wait", "done"},
         UNCHANGED <<life, packetQueue, packetHolderFreeList, todo, caller,
                     terminated, asserts>>,
         packet' \in [Holders -> Packets], \A h \in Holders : SameKind(h),
         currentQueuedControllerPacket' \in [Gamepads -> Holders \cup {None}],
         StateType', SeenType', seen'.stray = seen.stray,
         s.at \in {"rel", "relSend"} => s.key = Rel,
         s.at = "abs" => s.key = Abs, s.at = "motion" => s.key \in Keys,
         s.at = "penPoll" =>
           /\ packetQueue.items # <<>>
           /\ packet[Head(packetQueue.items)].kind = "pen",
         \A k \in Keys : /\ Carries(k)' => Carries(k)
                         /\ current'[k].dirty <=>
                              current[k].dirty /\ (Carries(k) => Carries(k)')
  PROVE  IInv'
<1>1. /\ TypeOK /\ OneOwner /\ Reserved /\ Contents
  BY DEF IInv
<1>2. sender.holder # None /\ Queued \subseteq Holders
  BY <1>1, SenderHolder, ListedHolders
<1>3. HolderType'
  BY <1>1 DEF TypeOK, HolderType, IsQueue
<1>4. OneOwner'
  BY <1>1, SameOwners
<1>5. SenderOK'
  BY <1>2 DEF SenderOK
<1>6. Reserved'
  <2>1. Queued' = Queued
    BY DEF Queued
  <2>2. \A h \in Holders, k \in Keys : Carrier(h, k)' <=> Carrier(h, k)
    BY DEF SameKind, Carrier, HasKey
  <2> QED
    BY <1>1, <1>2, <2>1, <2>2, SenderCarriers
<1>7. \A h \in Holders : HasKey(packet'[h]) => KeyOf(packet'[h]) \in Keys
  BY <1>1 DEF Contents, SameKind, HasKey
<1>8. \A t \in Threads : caller[t].holder # None => SameKind(caller[t].holder)
  BY SenderHolder
<1>9. s.at = "penPoll" => packet'[Head(packetQueue'.items)].kind = "pen"
  <2> SUFFICES ASSUME s.at = "penPoll"
               PROVE  packet'[Head(packetQueue.items)].kind = "pen"
    OBVIOUS
  <2>1. packetQueue.items \in Seq(Holders)
    BY <1>1 DEF TypeOK, HolderType, IsQueue
  <2>2. Head(packetQueue.items) \in Holders
    BY <2>1, TailFacts
  <2> QED
    BY <2>2 DEF SameKind
<1>10. terminated' \in BOOLEAN
  BY <1>1 DEF TypeOK, LifeType
<1> QED
  BY <1>3, <1>4, <1>5, <1>6, <1>7, <1>8, <1>9, <1>10, SenderKeeps

(* The sender puts its holder back, and waits for the next or ends.        *)
LEMMA DoneKeeps ==
  ASSUME IInv, sender.at \notin {"none", "wait", "done"},
         NEW at \in {"wait", "done"}, Done(at),
         UNCHANGED <<life, packetQueue, currentQueuedControllerPacket, todo,
                     caller, asserts>>,
         terminated' \in BOOLEAN, terminated => terminated',
         StateType', SeenType', seen'.stray = seen.stray,
         ~terminated' => \A k \in Keys :
           current'[k].dirty <=> current[k].dirty /\ ~Carries(k)
  PROVE  IInv'
<1> DEFINE h == sender.holder
           f == freePacketHolder(h)
           F == ToSet(packetHolderFreeList.items)
<1>1. TypeOK /\ OneOwner /\ Reserved /\ Contents
  BY DEF IInv
<1>2. /\ h \in Holders /\ h # None /\ h \notin Queued /\ h \notin F
      /\ \A t \in Threads : caller[t].holder # None =>
           caller[t].holder \in Holders /\ caller[t].holder # h
      /\ Queued \subseteq Holders
  BY <1>1, SenderHolder, ListedHolders
<1>3. /\ packetHolderFreeList' = f /\ packet' = Emptied(h)
      /\ sender' = [NoSender EXCEPT !.at = at]
  BY DEF Done
<1>4. /\ IsQueue(f) /\ IsInjective(f.items)
      /\ ToSet(f.items) \subseteq F \cup {h}
      /\ f.shutdown = packetHolderFreeList.shutdown
  BY <1>1, <1>2, FreeFacts
<1>5. /\ packet' \in [Holders -> Packets]
      /\ \A g \in Holders : g # h => packet'[g] = packet[g]
      /\ packet'[h] = packet[h] \/ ~HasKey(packet'[h])
  BY <1>1, <1>2, <1>3, EmptiedFacts
<1> HIDE DEF f, h
<1>6. /\ sender' \in SenderRecords /\ sender'.at = at /\ sender'.holder = None
  <2>1. <<>> \in Seq(Int)
    BY EmptySeq
  <2> QED
    BY <1>3, <2>1 DEF NoSender, SenderRecords
<1>7. HolderType'
  BY <1>1, <1>3, <1>4, <1>5 DEF TypeOK, HolderType, IsQueue
<1>8. SenderOK'
  BY <1>6 DEF SenderOK
<1>9. OneOwner'
  <2>1. /\ packetQueue' = packetQueue /\ caller' = caller
        /\ packetHolderFreeList'.items = f.items
    BY <1>3
  <2>2. None \notin Queued /\ None \notin ToSet(f.items)
    <3>1. None \notin Holders
      BY DEF None, Holders
    <3>2. F \subseteq Holders
      BY <1>1, ListedHolders
    <3> QED
      BY <1>2, <1>4, <3>1, <3>2
  <2>3. Queued \cap ToSet(f.items) = {} /\ IsInjective(packetQueue.items)
    BY <1>1, <1>2, <1>4 DEF OneOwner, Queued
  <2>4. \A t \in Threads : caller[t].holder # None =>
          /\ caller[t].holder \notin Queued
          /\ caller[t].holder \notin ToSet(f.items)
          /\ caller[t].holder # None
          /\ \A u \in Threads \ {t} : caller[u].holder # caller[t].holder
    BY <1>1, <1>2, <1>4 DEF OneOwner, Queued
  <2> QED
    BY <1>4, <1>6, <2>1, <2>2, <2>3, <2>4 DEF OneOwner, Queued
<1>10. Reserved'
  <2>1. Queued' = Queued
    BY DEF Queued
  <2>2. \A k : \A g \in Queued : Carrier(g, k)' <=> Carrier(g, k)
    BY <1>2, <1>5 DEF Carrier
  <2>3. \A k : ~Carries(k)'
    BY <1>6 DEF Carries
  <2> QED
    BY <1>1, <2>1, <2>2, <2>3, SenderCarriers
<1>11. \A g \in Holders : HasKey(packet'[g]) => KeyOf(packet'[g]) \in Keys
  BY <1>1, <1>2, <1>5 DEF Contents
<1>12. \A t \in Threads : caller[t].holder # None => SameKind(caller[t].holder)
  BY <1>2, <1>5 DEF SameKind
<1> QED
  BY <1>3, <1>4, <1>6, <1>7, <1>8, <1>9, <1>10, <1>11, <1>12, SenderKeeps

(* A packet that gets other values stays one for the same key.             *)
LEMMA FilledFacts ==
  ASSUME TypeOK, NEW h \in Holders, NEW v \in Seq(Int), NEW r \in BOOLEAN,
         packet' = [packet EXCEPT ![h].val = v, ![h].reliable = r]
  PROVE  /\ packet' \in [Holders -> Packets]
         /\ \A g \in Holders : SameKind(g)
<1> DEFINE q == [packet[h] EXCEPT !.val = v, !.reliable = r]
<1>1. packet \in [Holders -> Packets] /\ packet[h] \in Packets
  BY DEF TypeOK, HolderType
<1>2. /\ q \in Packets /\ q.kind = packet[h].kind /\ q.num = packet[h].num
      /\ q.type = packet[h].type
  BY <1>1 DEF Packets
<1>3. packet' = [packet EXCEPT ![h] = q]
  BY <1>1
<1>4. HasKey(packet[h]) => KeyOf(q) = KeyOf(packet[h])
  BY <1>2, KeyCases DEF HasKey
<1> HIDE DEF q
<1>5. packet' \in [Holders -> Packets]
  BY <1>1, <1>2, <1>3
<1>6. \A g \in Holders : packet'[g] = IF g = h THEN q ELSE packet[g]
  BY <1>1, <1>3
<1>7. \A g \in Holders : SameKind(g)
  BY <1>2, <1>4, <1>6 DEF SameKind
<1> QED
  BY <1>5, <1>7

(* What is left to show when the sender goes on without touching a packet  *)
LEMMA UntouchedFacts ==
  ASSUME TypeOK, SeenType,
         UNCHANGED <<packet, current, currentQueuedControllerPacket, single>>
  PROVE  /\ packet' \in [Holders -> Packets] /\ \A h \in Holders : SameKind(h)
         /\ currentQueuedControllerPacket'
              \in [Gamepads -> Holders \cup {None}]
         /\ StateType'
  BY DEF TypeOK, HolderType, StateType, SameKind

(* Sending that fails ends the thread.                                     *)
LEMMA SendFails ==
  ASSUME IInv, sender.at \notin {"none", "wait", "done"}, Done("done"),
         terminated' = TRUE,
         UNCHANGED <<life, packetQueue, batch, single, todo, caller, asserts,
                     seen>>
  PROVE  IInv'
<1>1. StateType' /\ SeenType' /\ seen'.stray = seen.stray
  BY DEF IInv, TypeOK, StateType, SeenType
<1> QED
  BY <1>1, DoneKeeps

LEMMA SendKeeps ==
  ASSUME IInv, Send
  PROVE  IInv'
<1>1. /\ sender.at = "send"
      /\ UNCHANGED <<life, packetQueue, batch, single, todo, caller, asserts>>
  BY DEF Send
<1>2. TypeOK /\ SeenType
  BY DEF IInv
<1>3. CASE /\ config.sendFails /\ Done("done") /\ terminated' = TRUE
           /\ UNCHANGED seen
  BY <1>1, <1>3, SendFails
<1>4. CASE seen' = Told(Hand) /\ Done("wait") /\ UNCHANGED terminated
  <2>1. SeenType' /\ seen'.stray = seen.stray
    BY <1>2, <1>4, HistoryFacts DEF SeenType
  <2>2. StateType' /\ terminated \in BOOLEAN
    BY <1>1, <1>2 DEF TypeOK, StateType, LifeType
  <2>3. \A k \in Keys : current'[k].dirty <=> current[k].dirty /\ ~Carries(k)
    BY <1>1, <1>2 DEF Carries, TypeOK, StateType
  <2> QED
    BY <1>1, <1>4, <2>1, <2>2, <2>3, DoneKeeps
<1> QED
  BY <1>3, <1>4 DEF Send, sendInputPacket

LEMMA LatchKeeps ==
  ASSUME IInv, Latch
  PROVE  IInv'
<1> DEFINE s == [sender EXCEPT !.at = "send"]
<1>1. /\ sender.at = "latch" /\ sender' = s
      /\ UNCHANGED <<life, queues, current, single, todo, caller, terminated,
                     asserts, seen>>
  BY DEF Latch
<1>2. TypeOK /\ SeenType
  BY DEF IInv
<1>3. s \in SenderRecords /\ s.at = "send" /\ s.holder = sender.holder
  BY <1>1, SenderHolder DEF SenderRecords
<1>4. currentQueuedControllerPacket' \in [Gamepads -> Holders \cup {None}]
  BY <1>2, Zenon DEF Latch, TypeOK, HolderType
<1>5. StateType' /\ SeenType' /\ seen'.stray = seen.stray
  BY <1>1, <1>2 DEF TypeOK, StateType, SeenType
<1>6. packet' \in [Holders -> Packets] /\ \A h \in Holders : SameKind(h)
  BY <1>1, <1>2 DEF TypeOK, HolderType, SameKind
<1>7. \A k \in Keys : ~Carries(k) /\ ~Carries(k)'
                      /\ current'[k].dirty = current[k].dirty
  BY <1>1, <1>3 DEF Carries
<1> HIDE DEF s
<1> QED
  BY <1>1, <1>3, <1>4, <1>5, <1>6, <1>7, GoesOnKeeps

LEMMA SendRelKeeps ==
  ASSUME IInv, SendRel
  PROVE  IInv'
<1> DEFINE d   == current[Rel].val
           cut == <<Cut(d[1]), Cut(d[2])>>
           new == <<d[1] - cut[1], d[2] - cut[2]>>
<1>1. /\ sender.at = "rel"
      /\ UNCHANGED <<life, packetQueue, currentQueuedControllerPacket, single,
                     todo, caller, terminated, asserts>>
  BY DEF SendRel
<1>2. TypeOK /\ SeenType /\ SenderOK
  BY DEF IInv
<1>3. sender \in SenderRecords /\ sender.holder \in Holders
  BY <1>1, SenderHolder
<1>4. /\ current \in [Keys -> [val : Seq(Int), dirty : BOOLEAN]]
      /\ Rel \in Keys /\ d[1] \in Int /\ d[2] \in Int
  BY <1>2, ElementOfSeq DEF TypeOK, StateType, Keys
<1>5. \A k \in Keys : Carries(k) <=> k = Rel
  BY <1>1, <1>2 DEF SenderOK, Carries
<1>6. CASE /\ packet' = [packet EXCEPT ![sender.holder].val = cut]
           /\ current' = [current EXCEPT ![Rel].val = new]
           /\ seen' = [seen EXCEPT !.motion = <<@[1] + cut[1], @[2] + cut[2]>>]
           /\ sender' = [sender EXCEPT !.at = "relSend"]
           /\ UNCHANGED packetHolderFreeList
  <2> DEFINE s == [sender EXCEPT !.at = "relSend"]
  <2>1. Cut(d[1]) \in Int /\ Cut(d[2]) \in Int
    BY <1>4, InputAssumption DEF Cut, Clamp
  <2>2. cut \in Seq(Int) /\ new \in Seq(Int) /\ Len(new) = 2
    BY <1>4, <2>1
  <2> HIDE DEF cut, new
  <2>3. packet' \in [Holders -> Packets] /\ \A h \in Holders : SameKind(h)
    <3>1. packet \in [Holders -> Packets] /\ packet[sender.holder] \in Packets
      BY <1>2, <1>3 DEF TypeOK, HolderType
    <3>2. packet[sender.holder].reliable \in BOOLEAN
      BY <3>1 DEF Packets
    <3>3. packet' = [packet EXCEPT ![sender.holder].val = cut,
                       ![sender.holder].reliable = packet[sender.holder].reliable]
      BY <1>3, <1>6, <3>1 DEF Packets
    <3> QED
      BY <1>2, <1>3, <2>2, <3>2, <3>3, FilledFacts
  <2>4. /\ current' \in [Keys -> [val : Seq(Int), dirty : BOOLEAN]]
        /\ Len(current'[Rel].val) = 2
        /\ \A k \in Keys : current'[k].dirty = current[k].dirty
    BY <1>4, <1>6, <2>2
  <2>5. StateType' /\ SeenType' /\ seen'.stray = seen.stray
    BY <1>1, <1>2, <1>6, <2>4 DEF TypeOK, StateType, SeenType
  <2>6. /\ s \in SenderRecords /\ s.at = "relSend" /\ s.holder = sender.holder
        /\ s.key = Rel
    BY <1>1, <1>2, <1>3 DEF SenderRecords, SenderOK
  <2>7. sender' = s
    BY <1>6
  <2> HIDE DEF s
  <2>8. \A k \in Keys : Carries(k)' <=> k = Rel
    BY <2>6, <2>7 DEF Carries
  <2>9. currentQueuedControllerPacket' \in [Gamepads -> Holders \cup {None}]
    BY <1>1, <1>2 DEF TypeOK, HolderType
  <2>10. \A k \in Keys : /\ Carries(k)' => Carries(k)
                         /\ current'[k].dirty <=>
                              current[k].dirty /\ (Carries(k) => Carries(k)')
    BY <1>4, <1>5, <2>4, <2>8
  <2> QED
    BY <1>1, <1>6, <2>3, <2>5, <2>6, <2>7, <2>9, <2>10, GoesOnKeeps
<1>7. CASE /\ current' = [current EXCEPT ![Rel].dirty = FALSE]
           /\ seen' = Flush(Rel) /\ Done("wait")
  <2>1. /\ current' \in [Keys -> [val : Seq(Int), dirty : BOOLEAN]]
        /\ \A k \in Keys : /\ current'[k].val = current[k].val
                           /\ current'[k].dirty <=> current[k].dirty /\ k # Rel
    BY <1>4, <1>7
  <2>2. StateType' /\ SeenType' /\ seen'.stray = seen.stray
    BY <1>1, <1>2, <1>4, <1>7, <2>1, HistoryFacts
       DEF TypeOK, StateType, SeenType
  <2>3. terminated' \in BOOLEAN
    BY <1>1, <1>2 DEF TypeOK, LifeType
  <2> QED
    BY <1>1, <1>5, <1>7, <2>1, <2>2, <2>3, DoneKeeps
<1> QED
  BY <1>6, <1>7 DEF SendRel

LEMMA RelSendKeeps ==
  ASSUME IInv, RelSend
  PROVE  IInv'
<1> DEFINE s == [sender EXCEPT !.at = "rel"]
<1>1. /\ sender.at = "relSend"
      /\ UNCHANGED <<life, packetQueue, batch, single, todo, caller, asserts>>
  BY DEF RelSend
<1>2. TypeOK /\ SeenType /\ SenderOK
  BY DEF IInv
<1>3. CASE /\ Done("done") /\ terminated' = TRUE /\ UNCHANGED seen
  BY <1>1, <1>3, SendFails
<1>4. CASE /\ seen' = Told(Hand) /\ UNCHANGED terminated
           /\ sender' = s /\ UNCHANGED <<packetHolderFreeList, packet>>
  <2>1. SeenType' /\ seen'.stray = seen.stray
    BY <1>2, <1>4, HistoryFacts DEF SeenType
  <2>2. /\ s \in SenderRecords /\ s.at = "rel" /\ s.holder = sender.holder
        /\ s.key = sender.key /\ sender.key = Rel
    BY <1>1, <1>2, SenderHolder DEF SenderRecords, SenderOK
  <2> HIDE DEF s
  <2>3. \A k \in Keys : /\ Carries(k)' <=> Carries(k)
                        /\ current'[k].dirty = current[k].dirty
    BY <1>1, <1>4, <2>2 DEF Carries
  <2>4. \A k \in Keys : current[k].dirty \in BOOLEAN
    BY <1>2 DEF TypeOK, StateType
  <2> QED
    BY <1>1, <1>2, <1>4, <2>1, <2>2, <2>3, <2>4, UntouchedFacts, GoesOnKeeps
<1> QED
  BY <1>3, <1>4 DEF RelSend, sendInputPacket

(* Filling the packet in with the state of key k                           *)
LEMMA FillKeeps ==
  ASSUME IInv, sender.at \in {"abs", "motion"}, NEW k \in Keys, sender.key = k,
         NEW r \in BOOLEAN, Fill(k, r)
  PROVE  IInv'
<1> DEFINE s == [sender EXCEPT !.at = "send"]
           v == current[k].val
<1>1. /\ packet' = [packet EXCEPT ![sender.holder].val = v,
                                  ![sender.holder].reliable = r]
      /\ current' = [current EXCEPT ![k].dirty = FALSE]
      /\ seen' = Flush(k) /\ sender' = s
      /\ UNCHANGED <<life, packetQueue, packetHolderFreeList,
                     currentQueuedControllerPacket, single, todo, caller,
                     terminated, asserts>>
  BY DEF Fill
<1>2. TypeOK /\ SeenType
  BY DEF IInv
<1>3. /\ sender \in SenderRecords /\ sender.holder \in Holders
  BY SenderHolder
<1>4. /\ current \in [Keys -> [val : Seq(Int), dirty : BOOLEAN]]
      /\ v \in Seq(Int) /\ Rel \in Keys
  BY <1>2 DEF TypeOK, StateType, Keys
<1> HIDE DEF v
<1>5. packet' \in [Holders -> Packets] /\ \A h \in Holders : SameKind(h)
  BY <1>1, <1>2, <1>3, <1>4, FilledFacts
<1>6. /\ current' \in [Keys -> [val : Seq(Int), dirty : BOOLEAN]]
      /\ \A j \in Keys : /\ current'[j].val = current[j].val
                         /\ current'[j].dirty <=> current[j].dirty /\ j # k
  BY <1>1, <1>4
<1>7. StateType' /\ SeenType' /\ seen'.stray = seen.stray
  BY <1>1, <1>2, <1>4, <1>6, HistoryFacts DEF TypeOK, StateType, SeenType
<1>8. s \in SenderRecords /\ s.at = "send" /\ s.holder = sender.holder
  BY <1>3 DEF SenderRecords
<1> HIDE DEF s
<1>9. \A j \in Keys : ~Carries(j)' /\ (Carries(j) <=> j = k)
  BY <1>1, <1>8 DEF Carries
<1>10. currentQueuedControllerPacket' \in [Gamepads -> Holders \cup {None}]
  BY <1>1, <1>2 DEF TypeOK, HolderType
<1>11. \A j \in Keys : /\ Carries(j)' => Carries(j)
                       /\ current'[j].dirty <=>
                            current[j].dirty /\ (Carries(j) => Carries(j)')
  BY <1>6, <1>9
<1> QED
  BY <1>1, <1>5, <1>7, <1>8, <1>10, <1>11, GoesOnKeeps

LEMMA FillsKeep ==
  ASSUME IInv, FillAbs \/ FillMotion
  PROVE  IInv'
<1>1. SenderOK
  BY DEF IInv
<1>2. CASE FillAbs
  <2>1. sender.at = "abs" /\ Fill(Abs, TRUE) /\ sender.key = Abs
    BY <1>1, <1>2 DEF FillAbs, SenderOK
  <2>2. Abs \in Keys
    BY DEF Keys
  <2> QED
    BY <2>1, <2>2, FillKeeps
<1>3. CASE FillMotion
  <2> DEFINE k == sender.key
             r == k[1] = "gyro" /\ current[k].val = <<0>>
  <2>1. sender.at = "motion" /\ Fill(k, r) /\ k \in Keys
    BY <1>1, <1>3 DEF FillMotion, SenderOK
  <2>2. r \in BOOLEAN
    OBVIOUS
  <2> HIDE DEF r
  <2> QED
    BY <2>1, <2>2, FillKeeps
<1> QED
  BY <1>2, <1>3

LEMMA PenPeekKeeps ==
  ASSUME IInv, PenPeek
  PROVE  IInv'
<1> DEFINE next == /\ packetQueue.items # <<>>
                   /\ SamePen(Hand, packet[Head(packetQueue.items)])
           s == [sender EXCEPT !.at = IF next THEN "penPoll" ELSE "send"]
<1>1. /\ sender.at = "pen" /\ sender' = s
      /\ UNCHANGED <<life, queues, batch, single, todo, caller, terminated,
                     asserts, seen>>
  BY DEF PenPeek
<1>2. TypeOK /\ SeenType
  BY DEF IInv
<1>3. next => /\ packetQueue.items # <<>>
              /\ packet[Head(packetQueue.items)].kind = "pen"
  BY DEF SamePen
<1> HIDE DEF next
<1>4. /\ s \in SenderRecords /\ s.holder = sender.holder
      /\ s.at \in {"penPoll", "send"} /\ (s.at = "penPoll" => next)
  BY <1>1, SenderHolder DEF SenderRecords
<1> HIDE DEF s
<1>5. SeenType' /\ seen'.stray = seen.stray
  BY <1>1, <1>2 DEF SeenType
<1>6. \A k \in Keys : /\ Carries(k)' => Carries(k)
                      /\ current'[k].dirty <=>
                           current[k].dirty /\ (Carries(k) => Carries(k)')
  BY <1>1, <1>2, <1>4 DEF Carries, TypeOK, StateType
<1>7. s.at = "penPoll" => /\ packetQueue.items # <<>>
                          /\ packet[Head(packetQueue.items)].kind = "pen"
  BY <1>3, <1>4
<1> QED
  BY <1>1, <1>2, <1>4, <1>5, <1>6, <1>7, UntouchedFacts, GoesOnKeeps

LEMMA WaitForAcksKeeps ==
  ASSUME IInv, WaitForAcks
  PROVE  IInv'
<1> DEFINE s == [sender EXCEPT !.at = "text"]
<1>1. /\ sender.at = "ack" /\ sender' = s
      /\ UNCHANGED <<life, queues, batch, single, todo, caller, terminated,
                     asserts, seen>>
  BY DEF WaitForAcks
<1>2. TypeOK /\ SeenType
  BY DEF IInv
<1>3. s \in SenderRecords /\ s.holder = sender.holder /\ s.at = "text"
  BY <1>1, SenderHolder DEF SenderRecords
<1> HIDE DEF s
<1>4. SeenType' /\ seen'.stray = seen.stray
  BY <1>1, <1>2 DEF SeenType
<1>5. \A k \in Keys : /\ Carries(k)' => Carries(k)
                      /\ current'[k].dirty <=>
                           current[k].dirty /\ (Carries(k) => Carries(k)')
  BY <1>1, <1>2, <1>3 DEF Carries, TypeOK, StateType
<1> QED
  BY <1>1, <1>2, <1>3, <1>4, <1>5, UntouchedFacts, GoesOnKeeps

LEMMA SendTextKeeps ==
  ASSUME IInv, SendText
  PROVE  IInv'
<1> DEFINE s == [sender EXCEPT !.text = Tail(@)]
           p == [Hand EXCEPT !.val = <<Head(sender.text)>>]
<1>1. /\ sender.at = "text"
      /\ UNCHANGED <<life, packetQueue, batch, single, todo, caller, asserts>>
  BY DEF SendText
<1>2. TypeOK /\ SeenType
  BY DEF IInv
<1>3. \A k \in Keys : ~Carries(k) /\ current'[k].dirty = current[k].dirty
                      /\ current[k].dirty \in BOOLEAN
  BY <1>1, <1>2 DEF Carries, TypeOK, StateType
<1>4. CASE Done("done") /\ terminated' = TRUE /\ UNCHANGED seen
  BY <1>1, <1>4, SendFails
<1>5. CASE Done("wait") /\ UNCHANGED <<terminated, seen>>
  <2>1. /\ StateType' /\ SeenType' /\ seen'.stray = seen.stray
        /\ terminated' \in BOOLEAN
    BY <1>1, <1>2, <1>5 DEF TypeOK, StateType, SeenType, LifeType
  <2> QED
    BY <1>1, <1>3, <1>5, <2>1, DoneKeeps
<1>6. CASE /\ AtCodePoint /\ seen' = Told(p) /\ UNCHANGED terminated
           /\ sender' = s /\ UNCHANGED <<packetHolderFreeList, packet>>
  <2>1. SeenType' /\ seen'.stray = seen.stray
    BY <1>2, <1>6, HistoryFacts DEF SeenType
  <2>2. sender \in SenderRecords /\ sender.text \in Seq(Int)
    BY <1>2 DEF TypeOK, ThreadType, SenderRecords
  <2>3. Tail(sender.text) \in Seq(Int)
    BY <1>6, <2>2, TailFacts DEF AtCodePoint
  <2>4. s \in SenderRecords /\ s.at = "text" /\ s.holder = sender.holder
    BY <1>1, <2>2, <2>3 DEF SenderRecords
  <2> HIDE DEF s
  <2>5. \A k \in Keys : ~Carries(k)'
    BY <1>6, <2>4 DEF Carries
  <2> QED
    BY <1>1, <1>2, <1>3, <1>6, <2>1, <2>4, <2>5, UntouchedFacts, GoesOnKeeps
<1> QED
  BY <1>4, <1>5, <1>6 DEF SendText, sendInputPacket

LEMMA DispatchFacts ==
  ASSUME NEW p
  PROVE  /\ Dispatch(p) \in {"latch", "rel", "abs", "motion", "ack", "pen",
                             "send"}
         /\ Dispatch(p) \in {"rel", "abs", "motion"} <=> HasKey(p)
         /\ Dispatch(p) \in {"rel", "abs", "motion"} => p.kind = Dispatch(p)
<1>1. CASE p.kind = "controller"
  BY <1>1 DEF Dispatch, HasKey
<1>2. CASE p.kind \in {"rel", "abs", "motion", "text"}
  BY <1>2 DEF Dispatch, HasKey
<1>3. CASE p.kind = "pen" /\ Batchable(p.type)
  BY <1>3 DEF Dispatch, HasKey
<1>4. CASE /\ p.kind # "controller"
           /\ p.kind \notin {"rel", "abs", "motion", "text"}
           /\ ~(p.kind = "pen" /\ Batchable(p.type))
  BY <1>4 DEF Dispatch, HasKey
<1> QED
  BY <1>1, <1>2, <1>3, <1>4

(* The sender takes the first holder from the queue.                       *)
LEMMA TakenFacts ==
  ASSUME IInv, packetQueue.items # <<>>,
         packetQueue' = [packetQueue EXCEPT !.items = Tail(@)]
  PROVE  LET g == Head(packetQueue.items)
         IN  /\ IsQueue(packetQueue')
             /\ packetQueue'.draining = packetQueue.draining
             /\ g \in Queued /\ g \in Holders /\ g # None
             /\ g \notin ToSet(packetHolderFreeList.items) /\ g # sender.holder
             /\ \A t \in Threads : caller[t].holder # g
             /\ IsInjective(packetQueue'.items) /\ Queued' = Queued \ {g}
<1> DEFINE s == packetQueue.items
<1>1. TypeOK /\ OneOwner
  BY DEF IInv
<1>2. IsQueue(packetQueue) /\ s \in Seq(Holders) /\ IsInjective(s)
  BY <1>1 DEF TypeOK, HolderType, IsQueue, OneOwner
<1>3. /\ Head(s) \in Holders /\ Head(s) \in ToSet(s)
      /\ Tail(s) \in Seq(Holders) /\ Len(Tail(s)) = Len(s) - 1
      /\ ToSet(s) = ToSet(Tail(s)) \cup {Head(s)}
      /\ IsInjective(Tail(s)) /\ Head(s) \notin ToSet(Tail(s))
  BY <1>2, TailFacts
<1>4. /\ packetQueue'.items = Tail(s)
      /\ packetQueue'.draining = packetQueue.draining
      /\ packetQueue' \in [items : Seq(Holders), draining : BOOLEAN,
                           shutdown : BOOLEAN, used : BOOLEAN]
  BY <1>2, <1>3 DEF IsQueue
<1>5. Len(Tail(s)) <= config.bound
  BY <1>1, <1>2, <1>3, LenProperties, InputAssumption
     DEF IsQueue, TypeOK, LifeType
<1>6. IsQueue(packetQueue')
  BY <1>4, <1>5 DEF IsQueue
<1>7. Head(s) # None
  BY <1>3 DEF Holders, None
<1>8. /\ Head(s) \notin ToSet(packetHolderFreeList.items)
      /\ Head(s) # sender.holder /\ \A t \in Threads : caller[t].holder # Head(s)
  BY <1>1, <1>3, <1>7 DEF OneOwner
<1>9. Queued' = Queued \ {Head(s)}
  BY <1>3, <1>4 DEF Queued
<1> QED
  BY <1>3, <1>4, <1>6, <1>7, <1>8, <1>9 DEF Queued

LEMMA SenderWaitKeeps ==
  ASSUME IInv, SenderWait
  PROVE  IInv'
<1>1. /\ sender.at = "wait"
      /\ UNCHANGED <<life, packetHolderFreeList, packet, batch, single, todo,
                     caller, terminated, asserts, seen>>
  BY DEF SenderWait
<1>2. /\ TypeOK /\ SeenType /\ SenderOK /\ OneOwner /\ Reserved /\ Contents
  BY DEF IInv
<1>3. sender \in SenderRecords /\ sender.holder = None
  BY <1>1, <1>2 DEF TypeOK, ThreadType, SenderOK
<1>4. /\ SeenType' /\ seen'.stray = seen.stray /\ terminated' \in BOOLEAN
      /\ StateType'
  BY <1>1, <1>2 DEF TypeOK, StateType, SeenType, LifeType
<1>5. \A h : SameKind(h)
  BY <1>1 DEF SameKind
<1>6. \A h \in Holders : HasKey(packet'[h]) => KeyOf(packet'[h]) \in Keys
  BY <1>1, <1>2 DEF Contents
<1>7. \A k : ~Carries(k)
  BY <1>1 DEF Carries
<1>8. CASE /\ packetQueue.items # <<>>
           /\ sender' = Holding(Head(packetQueue.items))
           /\ packetQueue' = [packetQueue EXCEPT !.items = Tail(@)]
  <2> DEFINE g == Head(packetQueue.items)
             p == packet[g]
  <2>1. /\ IsQueue(packetQueue')
        /\ packetQueue'.draining = packetQueue.draining
        /\ g \in Queued /\ g \in Holders /\ g # None
        /\ g \notin ToSet(packetHolderFreeList.items) /\ g # sender.holder
        /\ \A t \in Threads : caller[t].holder # g
        /\ IsInjective(packetQueue'.items) /\ Queued' = Queued \ {g}
    BY <1>8, TakenFacts
  <2> HIDE DEF g
  <2>2. p \in Packets /\ p.val \in Seq(Int) /\ (HasKey(p) => KeyOf(p) \in Keys)
    BY <1>2, <2>1 DEF TypeOK, HolderType, Contents, Packets
  <2>3. /\ sender' \in SenderRecords /\ sender'.holder = g
        /\ sender'.at = Dispatch(p) /\ (HasKey(p) => sender'.key = KeyOf(p))
    <3>1. sender' = Holding(g)
      BY <1>8 DEF g
    <3> QED
      BY <2>1, <2>2, <3>1, DispatchFacts DEF Holding, SenderRecords
  <2> HIDE DEF p
  <2>4. HolderType'
    <3>1. IsQueue(packetQueue)'
      BY <1>1, <2>1 DEF IsQueue
    <3> QED
      BY <1>1, <1>2, <3>1 DEF TypeOK, HolderType, IsQueue
  <2>5. SenderOK'
    <3>1. /\ sender'.at = "rel" => KeyOf(p) = Rel /\ HasKey(p)
          /\ sender'.at = "abs" => KeyOf(p) = Abs /\ HasKey(p)
          /\ sender'.at = "motion" => HasKey(p)
      BY <2>3, DispatchFacts, KeyCases
    <3>2. sender'.at \notin {"none", "wait", "done", "relSend", "penPoll"}
      BY <2>3, DispatchFacts
    <3> QED
      BY <2>1, <2>2, <2>3, <3>1, <3>2 DEF SenderOK
  <2>6. OneOwner'
    BY <1>1, <1>2, <2>1, <2>3 DEF OneOwner, Queued
  <2>7. Reserved'
    <3> SUFFICES ASSUME main' # "off" /\ ~terminated' /\ ~seen'.stray,
                        NEW k \in Keys
                 PROVE  OneCarrier(k)'
      BY DEF Reserved
    <3>1. OneCarrier(k)
      BY <1>1, <1>2 DEF Reserved
    <3>2. Carries(k)' <=> Carrier(g, k)
      BY <2>3, DispatchFacts DEF Carries, Carrier, p
    <3>3. /\ \A t \in Threads : Reserves(t, k)' <=> Reserves(t, k)
          /\ \A h : Carrier(h, k)' <=> Carrier(h, k)
          /\ current'[k].dirty = current[k].dirty
      BY <1>1 DEF Reserves, Carrier
    <3> QED
      BY <1>7, <2>1, <3>1, <3>2, <3>3 DEF OneCarrier
  <2>8. sender'.at # "penPoll"
    BY <2>3, DispatchFacts
  <2> QED
    BY <1>1, <1>4, <1>5, <1>6, <1>8, <2>1, <2>3, <2>4, <2>5, <2>6, <2>7, <2>8,
       SenderKeeps
<1>9. CASE /\ packetQueue.draining /\ sender' = [sender EXCEPT !.at = "done"]
           /\ UNCHANGED packetQueue
  <2>1. /\ sender' \in SenderRecords /\ sender'.at = "done"
        /\ sender'.holder = sender.holder
    BY <1>3, <1>9 DEF SenderRecords
  <2>2. HolderType'
    BY <1>1, <1>2, <1>9 DEF TypeOK, HolderType, IsQueue
  <2>3. SenderOK' /\ OneOwner'
    BY <1>1, <1>2, <1>3, <1>9, <2>1, SameOwners DEF SenderOK
  <2>4. Reserved'
    <3>1. /\ Queued' = Queued /\ \A k : ~Carries(k)'
          /\ \A h, k : Carrier(h, k)' <=> Carrier(h, k)
      BY <1>1, <1>9, <2>1 DEF Queued, Carries, Carrier
    <3>2. \A k \in Keys : current[k].dirty \in BOOLEAN
      BY <1>2 DEF TypeOK, StateType
    <3> QED
      BY <1>1, <1>2, <1>4, <1>7, <3>1, <3>2, SenderCarriers
  <2> QED
    BY <1>1, <1>4, <1>5, <1>6, <1>9, <2>1, <2>2, <2>3, <2>4, SenderKeeps
<1> QED
  BY <1>8, <1>9 DEF SenderWait

LEMMA PenPollKeeps ==
  ASSUME IInv, PenPoll
  PROVE  IInv'
<1> DEFINE h == sender.holder
           g == Head(packetQueue.items)
           f == freePacketHolder(h)
           F == ToSet(packetHolderFreeList.items)
<1>1. /\ sender.at = "penPoll"
      /\ packetHolderFreeList' = f /\ packet' = Emptied(h)
      /\ sender' = [sender EXCEPT !.at = "pen", !.holder = g]
      /\ packetQueue' = [packetQueue EXCEPT !.items = Tail(@)]
      /\ UNCHANGED <<life, batch, single, todo, caller, terminated, asserts,
                     seen>>
  BY DEF PenPoll
<1>2. /\ TypeOK /\ SeenType /\ SenderOK /\ OneOwner /\ Reserved /\ Contents
  BY DEF IInv
<1>3. packetQueue.items # <<>>
  BY <1>1, <1>2 DEF SenderOK
<1>4. /\ sender \in SenderRecords /\ h \in Holders /\ h # None
      /\ h \notin Queued /\ h \notin F
      /\ \A t \in Threads : caller[t].holder # None =>
           caller[t].holder \in Holders /\ caller[t].holder # h
  BY <1>1, SenderHolder
<1>5. /\ IsQueue(packetQueue')
      /\ packetQueue'.draining = packetQueue.draining
      /\ g \in Queued /\ g \in Holders /\ g # None
      /\ g \notin F /\ g # h
      /\ \A t \in Threads : caller[t].holder # g
      /\ IsInjective(packetQueue'.items) /\ Queued' = Queued \ {g}
  BY <1>1, <1>3, TakenFacts
<1>6. /\ IsQueue(f) /\ IsInjective(f.items)
      /\ ToSet(f.items) \subseteq F \cup {h}
      /\ f.shutdown = packetHolderFreeList.shutdown
  BY <1>2, <1>4, FreeFacts
<1>7. /\ packet' \in [Holders -> Packets]
      /\ \A i \in Holders : i # h => packet'[i] = packet[i]
      /\ packet'[h] = packet[h] \/ ~HasKey(packet'[h])
  BY <1>1, <1>2, <1>4, EmptiedFacts
<1>8. ~seen.stray => packet[g].kind = "pen"
  BY <1>1, <1>2 DEF Contents
<1> HIDE DEF f, g, h
<1>9. /\ sender' \in SenderRecords /\ sender'.at = "pen" /\ sender'.holder = g
  BY <1>1, <1>4, <1>5 DEF SenderRecords
<1>10. HolderType' /\ StateType'
  <2>1. IsQueue(packetQueue)' /\ IsQueue(packetHolderFreeList)'
    BY <1>1, <1>5, <1>6 DEF IsQueue
  <2> QED
    BY <1>1, <1>2, <1>7, <2>1 DEF TypeOK, HolderType, StateType
<1>11. SeenType' /\ seen'.stray = seen.stray /\ terminated' \in BOOLEAN
  BY <1>1, <1>2 DEF SeenType, TypeOK, LifeType
<1>12. SenderOK'
  BY <1>5, <1>9 DEF SenderOK
<1>13. OneOwner'
  <2>1. /\ packetHolderFreeList'.items = f.items /\ caller' = caller
        /\ ToSet(packetQueue'.items) = Queued \ {g}
    BY <1>1, <1>5 DEF Queued
  <2>2. (Queued \ {g}) \cap ToSet(f.items) = {} /\ g \notin ToSet(f.items)
    BY <1>2, <1>4, <1>5, <1>6 DEF OneOwner, Queued
  <2>3. \A t \in Threads : caller[t].holder # None =>
          /\ caller[t].holder \notin Queued \ {g}
          /\ caller[t].holder \notin ToSet(f.items)
          /\ caller[t].holder # g
          /\ \A u \in Threads \ {t} : caller[u].holder # caller[t].holder
    BY <1>2, <1>4, <1>5, <1>6 DEF OneOwner, Queued
  <2> QED
    BY <1>5, <1>6, <1>9, <2>1, <2>2, <2>3 DEF OneOwner
<1>14. Reserved'
  <2>1. Queued \subseteq Holders
    BY <1>2, ListedHolders
  <2>2. \A k : ~Carries(k) /\ ~Carries(k)'
    BY <1>1, <1>9 DEF Carries
  <2>3. \A k : \A i \in Queued' : Carrier(i, k)' <=> Carrier(i, k)
    BY <1>4, <1>5, <1>7, <2>1 DEF Carrier
  <2>4. ~seen.stray => \A k : \A i \in Queued \ Queued' : ~Carrier(i, k)
    BY <1>5, <1>8 DEF Carrier, HasKey
  <2>5. \A k \in Keys : current[k].dirty \in BOOLEAN
    BY <1>2 DEF TypeOK, StateType
  <2> QED
    BY <1>1, <1>2, <1>5, <1>11, <2>2, <2>3, <2>4, <2>5, SenderCarriers
<1>15. \A i \in Holders : HasKey(packet'[i]) => KeyOf(packet'[i]) \in Keys
  BY <1>2, <1>7 DEF Contents
<1>16. \A t \in Threads : caller[t].holder # None => SameKind(caller[t].holder)
  BY <1>4, <1>7 DEF SameKind
<1> QED
  BY <1>1, <1>3, <1>5, <1>6, <1>9, <1>10, <1>11, <1>12, <1>13, <1>14, <1>15,
     <1>16, SenderKeeps

(* Every step of the sender keeps the invariant.                           *)
LEMMA SenderStep ==
  ASSUME IInv, inputSendThreadProc
  PROVE  IInv'
  BY SenderWaitKeeps, SendKeeps, LatchKeeps, SendRelKeeps, RelSendKeeps,
     FillsKeep, PenPeekKeeps, PenPollKeeps, SendTextKeeps
     DEF inputSendThreadProc

(***************************************************************************)
(* Start and stop                                                          *)
(***************************************************************************)

LEMMA EmptyQueueFacts ==
  ASSUME config \in Configs
  PROVE  /\ IsQueue(EmptyQueue) /\ EmptyQueue.items = <<>>
         /\ MayDestroy(EmptyQueue) /\ ToSet(EmptyQueue.items) = {}
         /\ IsInjective(EmptyQueue.items)
<1>1. config.bound \in Nat
  BY InputAssumption
<1>2. <<>> \in Seq(Holders) /\ Len(<<>>) = 0
  BY EmptySeq
<1>3. ASSUME NEW e \in Seq(Holders), Len(e) = 0
      PROVE  IsQueue([items |-> e, draining |-> FALSE, shutdown |-> FALSE,
                      used |-> FALSE])
  BY <1>1, <1>3 DEF IsQueue
<1>4. IsQueue(EmptyQueue)
  BY <1>2, <1>3, Zenon DEF EmptyQueue
<1>5. EmptyQueue.items = <<>> /\ MayDestroy(EmptyQueue)
  BY DEF EmptyQueue, MayDestroy
<1> QED
  BY <1>4, <1>5, EmptyFacts

LEMMA NoSenderFacts ==
  /\ NoSender \in SenderRecords /\ NoSender.at = "none"
  /\ NoSender.holder = None /\ NoSender.key = NoKey
<1>1. <<>> \in Seq(Int)
  BY EmptySeq
<1>2. ASSUME NEW v \in Seq(Int)
      PROVE  [at |-> "none", holder |-> None, text |-> v, key |-> NoKey]
               \in SenderRecords
  BY DEF SenderRecords
<1>3. NoSender \in SenderRecords
  BY <1>1, <1>2, Zenon DEF NoSender
<1> QED
  BY <1>3 DEF NoSender

(* What is left to show when the stream goes on from one part of its life  *)
(* to the next, and no holder or carrier moves                             *)
LEMMA LifeKeeps ==
  ASSUME IInv,
         UNCHANGED <<config, packet, batch, single, todo, terminated, asserts,
                     seen>>,
         packetQueue'.items = packetQueue.items,
         packetHolderFreeList'.items = packetHolderFreeList.items,
         IsQueue(packetQueue'), IsQueue(packetHolderFreeList'),
         sender' \in SenderRecords, sender'.holder = sender.holder,
         sender'.at = sender.at \/ sender'.at = "wait",
         sender'.key = sender.key,
         sender'.at = "wait" => sender.at \in {"none", "wait"},
         caller' \in [Threads -> CallRecords],
         \A t \in Threads :
           \/ caller'[t] = caller[t]
           \/ /\ CallOK(caller'[t]) /\ caller'[t].at # "offer"
              /\ caller[t] = Idle /\ ~HasKey(caller'[t].packet)
              /\ caller'[t].holder = None,
         main' \in {"enable", "haptics", "run", "shutdown", "drain", "join",
                    "destroy"},
         main # "off", initialized' \in BOOLEAN, Lifecycle'
  PROVE  IInv'
<1>1. /\ TypeOK /\ SeenType /\ CallsOK /\ SenderOK /\ Contents /\ OneOwner
      /\ Reserved /\ AssertsHold
  BY DEF IInv
<1>2. TypeOK'
  BY <1>1 DEF TypeOK, LifeType, HolderType, StateType, ThreadType, IsQueue
<1>3. CallsOK'
  <2>1. \A t \in Threads : CallOK(caller'[t])
    BY <1>1 DEF CallsOK
  <2> QED
    BY <2>1 DEF CallsOK, CallOK
<1>4. SenderOK' /\ AssertsHold' /\ SeenType'
  BY <1>1 DEF SenderOK, AssertsHold, SeenType
<1>5. Contents'
  BY <1>1 DEF Contents
<1>6. \A t \in Threads : caller'[t].holder = caller[t].holder
  BY DEF Idle
<1>7. OneOwner'
  BY <1>1, <1>6, SameOwners
<1>8. Reserved'
  <2>1. \A t \in Threads : \A k : Reserves(t, k)' <=> Reserves(t, k)
    BY DEF Reserves, Idle
  <2>2. /\ Queued' = Queued /\ \A k : Carries(k)' <=> Carries(k)
        /\ \A h, k : Carrier(h, k)' <=> Carrier(h, k)
    BY DEF Queued, Carries, Carrier
  <2> QED
    BY <1>1, <2>1, <2>2, SameCarriers
<1> QED
  BY <1>2, <1>3, <1>4, <1>5, <1>7, <1>8 DEF IInv

LEMMA InitializeKeeps ==
  ASSUME IInv, initializeInputStream
  PROVE  IInv'
<1>1. /\ TypeOK /\ Lifecycle /\ CallsOK /\ SenderOK /\ Contents /\ AssertsHold
  BY DEF IInv
<1>2. /\ main = "off" /\ main' = "start"
      /\ packetQueue' = EmptyQueue /\ packetHolderFreeList' = EmptyQueue
      /\ batchedScrollDelta' = 0 /\ currentPenButtonState' = 0
      /\ absCurrentPos' = <<1, 2>> /\ moved' = <<0, 0>>
      /\ current' = [k \in Keys |-> [val |-> ZeroOf(k), dirty |-> FALSE]]
      /\ seen' = NothingSeen /\ terminated' = FALSE
      /\ UNCHANGED <<initialized, config, packet,
                     currentQueuedControllerPacket, todo, caller, sender,
                     asserts>>
  BY DEF initializeInputStream
<1>3. /\ config' = config /\ config \in Configs /\ ~initialized
      /\ sender = NoSender /\ NobodyCalls
  BY <1>1, <1>2 DEF TypeOK, LifeType, Lifecycle
<1>4. /\ IsQueue(EmptyQueue) /\ ToSet(EmptyQueue.items) = {}
      /\ IsInjective(EmptyQueue.items)
  BY <1>3, EmptyQueueFacts
<1>5. HolderType'
  BY <1>1, <1>2, <1>4 DEF TypeOK, HolderType, IsQueue
<1>6. StateType'
  <2>1. \A k \in Keys : ZeroOf(k) \in Seq(Int)
    BY DEF ZeroOf
  <2>2. Rel \in Keys /\ Len(ZeroOf(Rel)) = 2
    BY DEF Keys, ZeroOf
  <2>3. /\ current' \in [Keys -> [val : Seq(Int), dirty : BOOLEAN]]
        /\ Len(current'[Rel].val) = 2
    BY <1>2, <2>1, <2>2
  <2> QED
    BY <1>2, <2>3 DEF StateType
<1>7. TypeOK'
  BY <1>1, <1>2, <1>5, <1>6 DEF TypeOK, LifeType, ThreadType
<1>8. SeenType'
  BY <1>2 DEF SeenType, NothingSeen
<1>9. Lifecycle'
  BY <1>2, <1>3 DEF Lifecycle, Quiet, NobodyCalls
<1>10. CallsOK' /\ AssertsHold'
  BY <1>1, <1>2 DEF CallsOK, AssertsHold
<1>11. SenderOK'
  BY <1>2, <1>3, NoSenderFacts DEF SenderOK
<1>12. \A t \in Threads : caller'[t].at = "idle" /\ caller'[t].holder = None
  BY <1>2, <1>3 DEF NobodyCalls, Idle
<1>13. Contents'
  BY <1>1, <1>2, <1>3, <1>12, NoSenderFacts DEF Contents
<1>14. OneOwner'
  BY <1>2, <1>4, <1>12 DEF OneOwner
<1>15. Reserved'
  <2> SUFFICES ASSUME NEW k \in Keys PROVE OneCarrier(k)'
    BY DEF Reserved
  <2>1. Queued' = {} /\ current'[k].dirty = FALSE
    BY <1>2, <1>4 DEF Queued
  <2>2. ~Carries(k)' /\ \A t \in Threads : ~Reserves(t, k)'
    BY <1>2, <1>3, <1>12, NoSenderFacts DEF Carries, Reserves
  <2> QED
    BY <2>1, <2>2 DEF OneCarrier
<1> QED
  BY <1>7, <1>8, <1>9, <1>10, <1>11, <1>13, <1>14, <1>15 DEF IInv

LEMMA StartKeeps ==
  ASSUME IInv, startInputStream
  PROVE  IInv'
<1>1. TypeOK /\ Lifecycle
  BY DEF IInv
<1>2. /\ main = "start"
      /\ UNCHANGED <<initialized, session, config, queues, batch, single, todo,
                     caller, terminated, asserts, seen>>
      /\ \/ main' = "enable" /\ sender' = [sender EXCEPT !.at = "wait"]
         \/ main' = "destroy" /\ sender' = sender
  BY DEF startInputStream
<1>3. /\ sender = NoSender /\ Quiet /\ ~initialized
  BY <1>1, <1>2 DEF Lifecycle
<1>4. /\ sender' \in SenderRecords /\ sender'.holder = sender.holder
      /\ sender'.key = sender.key /\ sender.at = "none"
      /\ sender'.at = IF main' = "enable" THEN "wait" ELSE "none"
  BY <1>2, <1>3, NoSenderFacts DEF SenderRecords
<1>5. Lifecycle'
  BY <1>2, <1>3, <1>4 DEF Lifecycle, Quiet, NobodyCalls
<1>6. /\ IsQueue(packetQueue') /\ IsQueue(packetHolderFreeList')
      /\ caller' \in [Threads -> CallRecords] /\ initialized' \in BOOLEAN
  BY <1>1, <1>2 DEF TypeOK, HolderType, ThreadType, LifeType
<1> QED
  BY <1>2, <1>4, <1>5, <1>6, LifeKeeps

LEMMA EnableKeeps ==
  ASSUME IInv, Enable
  PROVE  IInv'
<1>1. TypeOK /\ Lifecycle
  BY DEF IInv
<1>2. /\ main = "enable" /\ initialized' = TRUE /\ main' = "haptics"
      /\ UNCHANGED <<session, config, queues, batch, single, todo, caller,
                     sender, terminated, asserts, seen>>
  BY DEF Enable
<1>3. "main" \in Threads
  BY DEF Threads
<1>4. Lifecycle'
  BY <1>1, <1>2, <1>3 DEF Lifecycle, Quiet, NobodyCalls
<1>5. /\ IsQueue(packetQueue') /\ IsQueue(packetHolderFreeList')
      /\ caller' \in [Threads -> CallRecords] /\ sender' \in SenderRecords
      /\ sender.at = "wait"
  BY <1>1, <1>2 DEF TypeOK, HolderType, ThreadType, Lifecycle
<1> QED
  BY <1>2, <1>4, <1>5, LifeKeeps

LEMMA HapticsKeeps ==
  ASSUME IInv, sendEnableHaptics
  PROVE  IInv'
<1> DEFINE p == [NoPacket EXCEPT !.kind = "haptics"]
           x == IF config.haptics
                THEN [at |-> "alloc", next |-> "offer", packet |-> p,
                      holder |-> None]
                ELSE Idle
<1>1. TypeOK /\ Lifecycle
  BY DEF IInv
<1>2. /\ main = "haptics" /\ main' = "run"
      /\ UNCHANGED <<initialized, session, config, queues, batch, single, todo,
                     sender, terminated, asserts, seen>>
  BY DEF sendEnableHaptics
<1>3. "main" \in Threads /\ caller["main"] = Idle
  BY <1>1, <1>2 DEF Threads, Lifecycle
<1>4. caller' = [caller EXCEPT !["main"] = x]
  BY <1>1, <1>3 DEF sendEnableHaptics, Go, TypeOK, ThreadType
<1>5. p \in Packets /\ p.kind = "haptics" /\ ~HasKey(p)
  BY NoPacketFacts DEF Packets, PacketKinds, HasKey
<1> HIDE DEF p
<1>6. /\ x \in CallRecords /\ CallOK(x) /\ x.holder = None
      /\ ~HasKey(x.packet) /\ x.at # "offer"
  BY <1>5, AllocRecord, IdleFacts DEF Idle
<1> HIDE DEF x
<1>7. /\ caller'["main"] = x
      /\ \A u \in Threads : u # "main" => caller'[u] = caller[u]
      /\ caller' \in [Threads -> CallRecords]
  BY <1>1, <1>3, <1>4, <1>6, OneCaller
<1>8. Lifecycle'
  BY <1>1, <1>2 DEF Lifecycle
<1>9. /\ IsQueue(packetQueue') /\ IsQueue(packetHolderFreeList')
      /\ sender' \in SenderRecords /\ initialized' \in BOOLEAN
  BY <1>1, <1>2 DEF TypeOK, HolderType, ThreadType, LifeType
<1>10. \A t \in Threads :
         \/ caller'[t] = caller[t]
         \/ /\ CallOK(caller'[t]) /\ caller'[t].at # "offer"
            /\ caller[t] = Idle /\ ~HasKey(caller'[t].packet)
            /\ caller'[t].holder = None
  BY <1>3, <1>6, <1>7
<1>11. sender'.at = "wait" => sender.at \in {"none", "wait"}
  BY <1>2
<1> QED
  BY <1>2, <1>7, <1>8, <1>9, <1>10, <1>11, LifeKeeps

LEMMA StopKeeps ==
  ASSUME IInv, stopInputStream \/ StopShutdown \/ StopDrain \/ StopJoin
  PROVE  IInv'
<1>1. TypeOK /\ Lifecycle
  BY DEF IInv
<1>2. /\ UNCHANGED <<config, packet, batch, single, todo, caller, sender,
                     terminated, asserts, seen>>
      /\ main \in {"run", "shutdown", "drain", "join"}
      /\ main' \in {"shutdown", "drain", "join", "destroy"}
  BY DEF stopInputStream, StopShutdown, StopDrain, StopJoin
<1>3. /\ IsQueue(packetQueue) /\ IsQueue(packetHolderFreeList)
      /\ caller' \in [Threads -> CallRecords] /\ sender' \in SenderRecords
  BY <1>1, <1>2 DEF TypeOK, HolderType, ThreadType
<1>4. /\ IsQueue(packetQueue') /\ packetQueue'.items = packetQueue.items
      /\ packetQueue.draining => packetQueue'.draining
  <2>1. CASE packetQueue' = packetQueue
    BY <1>3, <2>1
  <2>2. CASE packetQueue' = [packetQueue EXCEPT !.draining = TRUE]
    BY <1>3, <2>2 DEF IsQueue
  <2> QED
    BY <2>1, <2>2 DEF stopInputStream, StopShutdown, StopDrain, StopJoin
<1>5. /\ IsQueue(packetHolderFreeList')
      /\ packetHolderFreeList'.items = packetHolderFreeList.items
      /\ packetHolderFreeList.shutdown => packetHolderFreeList'.shutdown
  <2>1. CASE packetHolderFreeList' = packetHolderFreeList
    BY <1>3, <2>1
  <2>2. CASE packetHolderFreeList' =
               [packetHolderFreeList EXCEPT !.shutdown = TRUE]
    BY <1>3, <2>2 DEF IsQueue
  <2> QED
    BY <2>1, <2>2 DEF stopInputStream, StopShutdown, StopDrain, StopJoin
<1>6. Lifecycle' /\ initialized' \in BOOLEAN
  <2>1. CASE stopInputStream
    BY <1>1, <2>1 DEF Lifecycle, stopInputStream
  <2>2. CASE StopShutdown
    <3>1. packetHolderFreeList'.shutdown
      BY <1>3, <2>2 DEF StopShutdown, IsQueue
    <3> QED
      BY <1>1, <2>2, <3>1 DEF Lifecycle, StopShutdown, TypeOK, LifeType
  <2>3. CASE StopDrain
    <3>1. packetQueue'.draining
      BY <1>3, <2>3 DEF StopDrain, IsQueue
    <3> QED
      BY <1>1, <2>3, <3>1 DEF Lifecycle, StopDrain, TypeOK, LifeType
  <2>4. CASE StopJoin
    BY <1>1, <2>4 DEF Lifecycle, StopJoin, TypeOK, LifeType
  <2> QED
    BY <2>1, <2>2, <2>3, <2>4
<1>7. sender'.at = "wait" => sender.at \in {"none", "wait"}
  BY <1>2
<1> QED
  BY <1>2, <1>3, <1>4, <1>5, <1>6, <1>7, LifeKeeps

LEMMA DestroyKeeps ==
  ASSUME IInv, destroyInputStream
  PROVE  IInv'
<1>1. /\ TypeOK /\ Lifecycle /\ CallsOK /\ Contents /\ AssertsHold /\ SeenType
  BY DEF IInv
<1>2. /\ main = "destroy" /\ main' = "off"
      /\ \A t \in Threads : caller[t].at = "idle"
      /\ asserts' = (asserts /\ MayDestroy(packetQueue)
                             /\ MayDestroy(packetHolderFreeList))
      /\ packetQueue' = EmptyQueue /\ packetHolderFreeList' = EmptyQueue
      /\ sender' = NoSender
      /\ packet' = [h \in Holders |->
                      IF \E n \in Gamepads : currentQueuedControllerPacket[n] = h
                      THEN packet[h] ELSE NoPacket]
      /\ UNCHANGED <<initialized, config, batch, single, todo, caller,
                     terminated, seen>>
  BY DEF destroyInputStream
<1>3. config \in Configs
  BY <1>1 DEF TypeOK, LifeType
<1>4. /\ IsQueue(EmptyQueue) /\ ToSet(EmptyQueue.items) = {}
      /\ IsInjective(EmptyQueue.items) /\ MayDestroy(EmptyQueue)
  BY <1>3, EmptyQueueFacts
<1>5. asserts' = TRUE
  BY <1>1, <1>2, <1>4 DEF AssertsHold, Lifecycle, Quiet, MayDestroy
<1>6. /\ packet' \in [Holders -> Packets]
      /\ \A h \in Holders : packet'[h] = packet[h] \/ ~HasKey(packet'[h])
  BY <1>1, <1>2, NoPacketFacts DEF TypeOK, HolderType
<1>7. \A t \in Threads : caller'[t] = Idle
  BY <1>1, <1>2 DEF CallsOK, CallOK
<1>8. TypeOK'
  BY <1>1, <1>2, <1>4, <1>5, <1>6, NoSenderFacts
     DEF TypeOK, LifeType, HolderType, StateType, ThreadType, IsQueue
<1>9. Lifecycle'
  BY <1>1, <1>2, <1>7 DEF Lifecycle, NobodyCalls
<1>10. CallsOK' /\ AssertsHold' /\ SeenType'
  BY <1>1, <1>2, <1>5 DEF CallsOK, CallOK, AssertsHold, SeenType
<1>11. SenderOK'
  BY <1>2, NoSenderFacts DEF SenderOK
<1>12. \A t \in Threads : caller'[t].at = "idle" /\ caller'[t].holder = None
  BY <1>7 DEF Idle
<1>13. Contents'
  BY <1>1, <1>2, <1>6, <1>12, NoSenderFacts DEF Contents
<1>14. OneOwner'
  BY <1>2, <1>4, <1>12 DEF OneOwner
<1>15. Reserved'
  BY <1>2 DEF Reserved
<1> QED
  BY <1>8, <1>9, <1>10, <1>11, <1>13, <1>14, <1>15 DEF IInv

(***************************************************************************)
(* The theorems                                                            *)
(***************************************************************************)

LEMMA InitIInv == Init => IInv
<1> SUFFICES ASSUME Init PROVE IInv
  OBVIOUS
<1>1. config \in Configs
  BY DEF Init
<1>2. /\ IsQueue(EmptyQueue) /\ ToSet(EmptyQueue.items) = {}
      /\ IsInjective(EmptyQueue.items)
  BY <1>1, EmptyQueueFacts
<1>3. \A t \in Threads : caller[t] = Idle
  BY DEF Init
<1>4. \A k \in Keys : ZeroOf(k) \in Seq(Int)
  BY DEF ZeroOf
<1>5. StateType
  <2>1. Rel \in Keys /\ Len(ZeroOf(Rel)) = 2
    BY DEF Keys, ZeroOf
  <2>2. /\ current \in [Keys -> [val : Seq(Int), dirty : BOOLEAN]]
        /\ Len(current[Rel].val) = 2
    BY <1>4, <2>1 DEF Init
  <2> QED
    BY <2>2 DEF Init, StateType
<1>6. ThreadType
  <2>1. config.scripts \in [Callers -> Seq(Events)]
    BY <1>1, InputAssumption
  <2> QED
    BY <2>1, IdleFacts, NoSenderFacts DEF Init, ThreadType
<1>7. HolderType
  BY <1>2, NoPacketFacts DEF Init, HolderType
<1>8. LifeType /\ AssertsHold
  BY DEF Init, LifeType, AssertsHold
<1>9. SeenType
  BY DEF Init, SeenType, NothingSeen
<1>10. Lifecycle
  BY <1>3 DEF Init, Lifecycle, NobodyCalls
<1>11. CallsOK
  BY <1>3, IdleFacts DEF CallsOK
<1>12. SenderOK
  BY NoSenderFacts DEF Init, SenderOK
<1>13. \A t \in Threads : caller[t].at = "idle" /\ caller[t].holder = None
  BY <1>3 DEF Idle
<1>14. Contents
  <2>1. \A h \in Holders : ~HasKey(packet[h])
    BY NoPacketFacts DEF Init
  <2> QED
    BY <1>13, <2>1, NoSenderFacts DEF Init, Contents
<1>15. OneOwner
  BY <1>2, <1>13 DEF Init, OneOwner
<1>16. Reserved
  BY DEF Init, Reserved
<1> QED
  BY <1>5, <1>6, <1>7, <1>8, <1>9, <1>10, <1>11, <1>12, <1>14, <1>15, <1>16
     DEF IInv, TypeOK

LEMMA NextIInv == IInv /\ [Next]_vars => IInv'
<1> SUFFICES ASSUME IInv, [Next]_vars PROVE IInv'
  OBVIOUS
<1>1. ASSUME NEW c \in Callers, SomeCall(c)
      PROVE  IInv'
  <2>1. PICK x : CallStep(c, x)
    BY <1>1, EntersCall DEF IInv
  <2> QED
    BY <2>1, CallKeeps
<1>2. CASE UNCHANGED vars
  BY <1>2 DEF vars, IInv, TypeOK, LifeType, HolderType, StateType, ThreadType,
              IsQueue, SeenType, Lifecycle, Quiet, NobodyCalls, CallsOK, CallOK,
              SenderOK, Contents, OneOwner, Reserved, OneCarrier, Reserves,
              Carrier, Carries, Queued, AssertsHold
<1>3. CASE Begin
  BY <1>3, InitializeKeeps, StartKeeps, EnableKeeps, HapticsKeeps, StopKeeps
     DEF Begin
<1>4. CASE Rundown
  BY <1>4, StopKeeps, DestroyKeeps DEF Rundown
<1> QED
  BY <1>1, <1>2, <1>3, <1>4, InCallStep, SenderStep, WaitForAcksKeeps DEF Next

(* The invariant holds through any number of connections, whatever the     *)
(* callers do and in which order they, the sender and the stop take turns. *)
THEOREM InductiveInvariant == Spec => []IInv
  BY InitIInv, NextIInv, PTL DEF Spec

(* Each holder is in one place only, the queues keep their bound, and may  *)
(* be destroyed when they are (InputStream.c:195, 504 and 614,             *)
(* LinkedBlockingQueue.c:5).                                               *)
THEOREM QueuesStayIntact == Spec => []QueuesIntact
<1>1. IInv => QueuesIntact
  BY DEF IInv, QueuesIntact
<1> QED
  BY <1>1, InductiveInvariant, PTL

(* Pair by pair, or as a set: there is one carrier or none.                *)
LEMMA CarriersOf ==
  ASSUME NEW k, OneCarrier(k)
  PROVE  IF current[k].dirty THEN \E x \in Carriers(k) : Carriers(k) = {x}
                             ELSE Carriers(k) = {}
<1>1. CASE \E t \in Threads : Reserves(t, k)
  <2>1. PICK t \in Threads : Reserves(t, k)
    BY <1>1
  <2>2. Carriers(k) = {<<"caller", t>>}
    BY <2>1 DEF OneCarrier, Carriers, Queued
  <2> QED
    BY <2>1, <2>2 DEF OneCarrier
<1>2. CASE \E h \in Queued : Carrier(h, k)
  <2>1. PICK h \in Queued : Carrier(h, k)
    BY <1>2
  <2>2. Carriers(k) = {<<"queue", h>>}
    BY <2>1 DEF OneCarrier, Carriers, Queued
  <2> QED
    BY <2>1, <2>2 DEF OneCarrier
<1>3. CASE Carries(k)
  <2>1. Carriers(k) = {<<"sender", sender.holder>>}
    BY <1>3 DEF OneCarrier, Carriers, Queued
  <2> QED
    BY <1>3, <2>1 DEF OneCarrier
<1>4. CASE /\ ~\E t \in Threads : Reserves(t, k)
           /\ ~\E h \in Queued : Carrier(h, k)
           /\ ~Carries(k)
  BY <1>4 DEF OneCarrier, Carriers, Queued
<1> QED
  BY <1>1, <1>2, <1>3, <1>4

(* While the sender lives, `dirty' is set exactly as long as one packet is *)
(* queued, or about to be, for the state (InputStream.c:425, 729, 761 and  *)
(* 1586): no motion waits for ever, and none is sent twice.                *)
THEOREM DirtyAlwaysHasCarrier == Spec => []DirtyHasCarrier
<1>1. IInv => DirtyHasCarrier
  BY CarriersOf DEF IInv, Reserved, DirtyHasCarrier
<1> QED
  BY <1>1, InductiveInvariant, PTL
=============================================================================
