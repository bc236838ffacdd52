------------------------ MODULE InputDelivery_proofs ------------------------
(***************************************************************************)
(* The state of the devices reaches the host: StateReachesHost of          *)
(* InputStream, for any threads that call it with any events, any bounds   *)
(* and through any number of connections.  This rests on the inductive     *)
(* invariant of InputStream_proofs: that a state which is pending has one  *)
(* carrier, and that a holder has one owner.                               *)
(***************************************************************************)
EXTENDS InputStream_proofs

USE DEF life, queues, batch, single

(***************************************************************************)
(* What is invariant besides IInv                                          *)
(***************************************************************************)

(* While the sender works, and motion is where it belongs                  *)
Live == main # "off" /\ ~terminated /\ ~seen.stray

(* The part of the history that the proof speaks about                     *)
IsHistory(s) ==
  /\ {"count", "flushed", "refused", "last", "motion", "stray"}
       \subseteq DOMAIN s
  /\ s.count \in [Keys -> Nat] /\ s.flushed \in [Keys -> Nat]
  /\ s.refused \in [Keys -> BOOLEAN]
  /\ s.last \in [Keys -> [val : Seq(Int), reliable : BOOLEAN]]
  /\ s.motion \in Int \X Int
  /\ s.stray \in BOOLEAN

(* Motion that fits into a packet                                         *)
Fits(v) == \A i \in 1..2 : v[i] \in Int16Min..Int16Max

(* A gyro in its null state is sent so that it arrives.                    *)
NullIsReliable(p) ==
  HasKey(p) /\ KeyOf(p)[1] = "gyro" /\ p.val = <<0>> => p.reliable

(* The packet that the sender has in hand is still the one for its key,    *)
(* unless a stray controller event was put into it, and what it is about   *)
(* to send of motion is cut, and reliable where it must be.                *)
InHand ==
  /\ sender.at \in {"rel", "relSend", "abs", "motion"} =>
       /\ HasKey(Hand) => KeyOf(Hand) = sender.key
       /\ ~seen.stray => HasKey(Hand)
  /\ sender.at = "relSend" /\ HasKey(Hand) => Fits(Hand.val)
  /\ sender.at = "motion" => sender.key \in Sensors
  /\ sender.at \in {"latch", "pen", "penPoll", "ack", "text"} => ~HasKey(Hand)
  /\ sender.at = "penPoll" => ~HasKey(packet[Head(packetQueue.items)])
  /\ sender.at = "send" =>
       (HasKey(Hand) => KeyOf(Hand) # Rel) /\ NullIsReliable(Hand)

(* No update of key k waits to be sent, or was refused.                   *)
Settled(k) == ~current[k].dirty /\ ~seen.refused[k]

InSending(k) == sender.at = "send" /\ Carrier(sender.holder, k)

(* Thread t is about to give back the place it reserved for key k.         *)
Resets(t, k) == caller[t].at = "reset" /\ Reserves(t, k)

(* Then the last one was sent, or is about to be.  A place is given back   *)
(* only after a refusal.                                                   *)
UpToDate(k) ==
  /\ \A t \in Threads : Resets(t, k) => seen.refused[k]
  /\ Settled(k) =>
       /\ seen.flushed[k] = seen.count[k]
       /\ k = Rel => current[k].val = <<0, 0>>
       /\ InSending(k) => Hand.val = current[k].val
       /\ k # Rel /\ ~InSending(k) => seen.last[k].val = current[k].val

Delivery ==
  /\ IsHistory(seen) /\ InHand
  /\ MotionConserved /\ GyroNullIsReliable
  /\ Live => \A k \in Keys : UpToDate(k)

-----------------------------------------------------------------------------
(***************************************************************************)
(* History                                                                 *)
(***************************************************************************)

SameHistory(s) ==
  /\ IsHistory(s)
  /\ s.count = seen.count /\ s.flushed = seen.flushed
  /\ s.refused = seen.refused /\ s.last = seen.last
  /\ s.motion = seen.motion /\ s.stray = seen.stray

LEMMA AcceptFacts ==
  ASSUME IsHistory(seen), NEW p, HasKey(p) => KeyOf(p) \in Keys
  PROVE  LET s == Accept(p)
         IN  /\ IsHistory(s) /\ s.flushed = seen.flushed
             /\ s.refused = seen.refused /\ s.last = seen.last
             /\ s.motion = seen.motion /\ s.stray = seen.stray
             /\ \A k \in Keys : ~(HasKey(p) /\ KeyOf(p) = k) =>
                                  s.count[k] = seen.count[k]
             /\ ~HasKey(p) => SameHistory(s)
<1>1. CASE HasKey(p)
  <2> DEFINE k == KeyOf(p)
  <2>1. Accept(p) = [seen EXCEPT !.count[k] = @ + 1] /\ k \in Keys
    BY <1>1 DEF Accept
  <2> HIDE DEF k
  <2>2. Accept(p).count = [seen.count EXCEPT ![k] = @ + 1]
    BY <2>1 DEF IsHistory
  <2>3. Accept(p).count \in [Keys -> Nat]
    BY <2>1, <2>2 DEF IsHistory
  <2>4. \A j \in Keys : j # k => Accept(p).count[j] = seen.count[j]
    BY <2>1, <2>2 DEF IsHistory
  <2>5. /\ DOMAIN Accept(p) = DOMAIN seen
        /\ \A f \in DOMAIN seen : f # "count" => Accept(p)[f] = seen[f]
    BY <2>1
  <2> HIDE DEF Accept
  <2> QED
    BY <1>1, <2>3, <2>4, <2>5 DEF IsHistory, k
<1>2. CASE ~HasKey(p)
  <2>1. /\ DOMAIN Accept(p) = DOMAIN seen
        /\ \A f \in {"count", "flushed", "refused", "last", "motion", "stray"} :
             Accept(p)[f] = seen[f]
    BY <1>2 DEF Accept, IsHistory
  <2> HIDE DEF Accept
  <2>2. SameHistory(Accept(p))
    BY <2>1 DEF IsHistory, SameHistory
  <2> QED
    BY <1>2, <2>2 DEF SameHistory
<1> QED
  BY <1>1, <1>2

LEMMA RefuseFacts ==
  ASSUME IsHistory(seen), NEW p, HasKey(p) => KeyOf(p) \in Keys
  PROVE  LET s == Refuse(p)
         IN  /\ IsHistory(s) /\ s.flushed = seen.flushed
             /\ s.count = seen.count /\ s.last = seen.last
             /\ s.motion = seen.motion /\ s.stray = seen.stray
             /\ \A k \in Keys :
                  IF HasKey(p) /\ KeyOf(p) = k THEN s.refused[k]
                  ELSE s.refused[k] = seen.refused[k]
<1>1. CASE HasKey(p)
  <2> DEFINE k == KeyOf(p)
  <2>1. Refuse(p) = [seen EXCEPT !.refused[k] = TRUE] /\ k \in Keys
    BY <1>1 DEF Refuse
  <2> HIDE DEF k
  <2>2. Refuse(p).refused = [seen.refused EXCEPT ![k] = TRUE]
    BY <2>1 DEF IsHistory
  <2>3. /\ Refuse(p).refused \in [Keys -> BOOLEAN] /\ Refuse(p).refused[k]
        /\ \A j \in Keys : j # k => Refuse(p).refused[j] = seen.refused[j]
    BY <2>1, <2>2 DEF IsHistory
  <2>4. /\ DOMAIN Refuse(p) = DOMAIN seen
        /\ \A f \in DOMAIN seen : f # "refused" => Refuse(p)[f] = seen[f]
    BY <2>1
  <2> HIDE DEF Refuse
  <2> QED
    BY <1>1, <2>3, <2>4 DEF IsHistory, k
<1>2. CASE ~HasKey(p)
  <2>1. /\ DOMAIN Refuse(p) = DOMAIN seen
        /\ \A f \in {"count", "flushed", "refused", "last", "motion", "stray"} :
             Refuse(p)[f] = seen[f]
    BY <1>2 DEF Refuse, IsHistory
  <2> HIDE DEF Refuse
  <2> QED
    BY <1>2, <2>1 DEF IsHistory
<1> QED
  BY <1>1, <1>2

LEMMA FlushFacts ==
  ASSUME IsHistory(seen), NEW k \in Keys
  PROVE  LET s == Flush(k)
         IN  /\ IsHistory(s) /\ s.count = seen.count /\ s.last = seen.last
             /\ s.motion = seen.motion /\ s.stray = seen.stray
             /\ s.flushed[k] = s.count[k]
             /\ \A j \in Keys : j # k => /\ s.flushed[j] = seen.flushed[j]
                                         /\ s.refused[j] = seen.refused[j]
<1>1. /\ Flush(k).flushed = [seen.flushed EXCEPT ![k] = seen.count[k]]
      /\ Flush(k).refused = [seen.refused EXCEPT ![k] = FALSE]
  BY DEF Flush, IsHistory
<1>2. /\ Flush(k).flushed \in [Keys -> Nat]
      /\ Flush(k).refused \in [Keys -> BOOLEAN]
      /\ Flush(k).flushed[k] = seen.count[k]
      /\ \A j \in Keys : j # k => /\ Flush(k).flushed[j] = seen.flushed[j]
                                  /\ Flush(k).refused[j] = seen.refused[j]
  BY <1>1 DEF IsHistory
<1>3. /\ DOMAIN Flush(k) = DOMAIN seen
      /\ \A f \in DOMAIN seen : f \notin {"flushed", "refused"} =>
           Flush(k)[f] = seen[f]
  BY DEF Flush
<1> QED
  BY <1>2, <1>3, Zenon DEF IsHistory

LEMMA ToldFacts ==
  ASSUME IsHistory(seen), NEW p \in Packets, HasKey(p) => KeyOf(p) \in Keys
  PROVE  LET s == Told(p)
         IN  /\ IsHistory(s) /\ s.count = seen.count
             /\ s.flushed = seen.flushed /\ s.refused = seen.refused
             /\ s.motion = seen.motion /\ s.stray = seen.stray
             /\ \A k \in Keys :
                  IF HasKey(p) /\ KeyOf(p) = k
                  THEN /\ s.last[k].val = p.val
                       /\ s.last[k].reliable = p.reliable
                  ELSE s.last[k] = seen.last[k]
             /\ ~HasKey(p) => SameHistory(s)
<1>1. CASE HasKey(p)
  <2> DEFINE k == KeyOf(p)
             l == [val |-> p.val, reliable |-> p.reliable]
  <2>1. Told(p) = [seen EXCEPT !.last[k] = l] /\ k \in Keys
    BY <1>1 DEF Told
  <2>2. l \in [val : Seq(Int), reliable : BOOLEAN]
    BY DEF Packets
  <2>3. l.val = p.val /\ l.reliable = p.reliable
    OBVIOUS
  <2> HIDE DEF k, l
  <2>4. Told(p).last = [seen.last EXCEPT ![k] = l]
    BY <2>1 DEF IsHistory
  <2>5. /\ Told(p).last \in [Keys -> [val : Seq(Int), reliable : BOOLEAN]]
        /\ Told(p).last[k] = l
        /\ \A j \in Keys : j # k => Told(p).last[j] = seen.last[j]
    BY <2>1, <2>2, <2>4 DEF IsHistory
  <2>6. /\ DOMAIN Told(p) = DOMAIN seen
        /\ \A f \in DOMAIN seen : f # "last" => Told(p)[f] = seen[f]
    BY <2>1
  <2> HIDE DEF Told
  <2> QED
    BY <1>1, <2>3, <2>5, <2>6 DEF IsHistory, k
<1>2. CASE ~HasKey(p)
  <2>1. /\ DOMAIN Told(p) = DOMAIN seen
        /\ \A f \in {"count", "flushed", "refused", "last", "motion", "stray"} :
             Told(p)[f] = seen[f]
    BY <1>2 DEF Told, IsHistory
  <2> HIDE DEF Told
  <2>2. SameHistory(Told(p))
    BY <2>1 DEF IsHistory, SameHistory
  <2> QED
    BY <1>2, <2>2 DEF SameHistory
<1> QED
  BY <1>1, <1>2

(***************************************************************************)
(* What a step leaves as it is                                             *)
(***************************************************************************)

Working == sender.at \notin {"none", "wait", "done"}

(* Nobody but the sender changes what it has in hand, except that a stray  *)
(* event may be put into it, and an event for its own controller.          *)
LEMMA InHandKept ==
  ASSUME InHand, sender' = sender, seen.stray => seen'.stray,
         Working =>
           \/ packet'[sender.holder] = packet[sender.holder]
           \/ /\ ~HasKey(packet'[sender.holder])
              /\ seen'.stray \/ sender.at = "latch",
         sender.at = "penPoll" => ~HasKey(packet'[Head(packetQueue'.items)])
  PROVE  InHand'
<1>1. CASE Working => packet'[sender.holder] = packet[sender.holder]
  <2>1. CASE Working
    <3>1. Hand' = Hand
      BY <1>1, <2>1 DEF Hand
    <3>2. /\ HasKey(Hand)' <=> HasKey(Hand)
          /\ Fits(Hand.val)' <=> Fits(Hand.val)
          /\ NullIsReliable(Hand)' <=> NullIsReliable(Hand)
          /\ KeyOf(Hand)' = KeyOf(Hand)
      BY <3>1
    <3> QED
      BY <3>2 DEF InHand, Working
  <2>2. CASE ~Working
    BY <2>2 DEF InHand, Working
  <2> QED
    BY <2>1, <2>2
<1>2. CASE /\ ~HasKey(packet'[sender.holder])
           /\ seen'.stray \/ sender.at = "latch"
  <2>1. ~HasKey(Hand)'
    BY <1>2 DEF Hand
  <2>2. NullIsReliable(Hand)'
    BY <2>1 DEF NullIsReliable
  <2> QED
    BY <1>2, <2>1, <2>2 DEF InHand
<1> QED
  BY <1>1, <1>2

(* The resets that are under way in the next state are so already.         *)
NoNewReset ==
  \A t \in Threads :
    caller'[t].at = "reset" =>
      caller[t].at = "reset" /\ caller'[t].packet = caller[t].packet

LEMMA NoResetOf ==
  ASSUME TypeOK, NEW t \in Threads, NEW x, caller' = [caller EXCEPT ![t] = x],
         x.at # "reset"
  PROVE  NoNewReset
<1>1. /\ caller'[t] = x
      /\ \A u \in Threads : u # t => caller'[u] = caller[u]
  BY OneCaller
<1> QED
  BY <1>1 DEF NoNewReset

LEMMA ResetsKept ==
  ASSUME NoNewReset, NEW k
  PROVE  \A t \in Threads : Resets(t, k)' => Resets(t, k)
BY DEF NoNewReset, Resets, Reserves

LEMMA GoFacts ==
  ASSUME TypeOK, NEW t \in Threads
  PROVE  /\ Return(t) => NoNewReset
         /\ \A at, next, p : at # "reset" /\ Go(t, at, next, p) => NoNewReset
<1>1. Return(t) => NoNewReset
  <2>1. Idle.at # "reset"
    BY DEF Idle
  <2> QED
    BY <2>1, NoResetOf DEF Return
<1>2. ASSUME NEW at, NEW next, NEW p, at # "reset", Go(t, at, next, p)
      PROVE  NoNewReset
  <2> DEFINE x == [at |-> at, next |-> next, packet |-> p, holder |-> None]
  <2>1. caller' = [caller EXCEPT ![t] = x] /\ x.at # "reset"
    BY <1>2 DEF Go
  <2> HIDE DEF x
  <2> QED
    BY <2>1, NoResetOf
<1> QED
  BY <1>1, <1>2

(* A key about which the step does nothing                                 *)
LEMMA UpToDateKept ==
  ASSUME NEW k \in Keys, UpToDate(k), sender' = sender,
         \A t \in Threads : Resets(t, k)' => Resets(t, k),
         sender.at = "send" => packet'[sender.holder] = packet[sender.holder],
         current'[k] = current[k], seen'.count[k] = seen.count[k],
         seen'.flushed[k] = seen.flushed[k],
         seen'.refused[k] = seen.refused[k], seen'.last[k] = seen.last[k]
  PROVE  UpToDate(k)'
<1>2. sender.at = "send" => Hand' = Hand
  BY DEF Hand
<1>3. /\ InSending(k)' <=> InSending(k)
      /\ InSending(k) => Hand' = Hand
  BY <1>2 DEF InSending, Carrier, Hand, HasKey, KeyOf
<1>4. Settled(k)' <=> Settled(k)
  BY DEF Settled
<1> QED
  BY <1>3, <1>4 DEF UpToDate

(* A key that is pending after the step                                    *)
LEMMA UpToDateOpen ==
  ASSUME NEW k \in Keys,
         \A t \in Threads : Resets(t, k)' => seen'.refused[k],
         current'[k].dirty \/ seen'.refused[k]
  PROVE  UpToDate(k)'
<1>1. ~Settled(k)'
  BY DEF Settled
<1> QED
  BY <1>1, Zenon DEF UpToDate

LEMMA ResetsRefused ==
  ASSUME NEW k \in Keys, UpToDate(k), NoNewReset,
         seen'.refused[k] = seen.refused[k]
  PROVE  \A t \in Threads : Resets(t, k)' => seen'.refused[k]
BY ResetsKept DEF UpToDate

LEMMA SumKept ==
  ASSUME MotionConserved, GyroNullIsReliable,
         UNCHANGED <<moved, seen.motion, seen.last>>,
         current'[Rel].val = current[Rel].val
  PROVE  MotionConserved' /\ GyroNullIsReliable'
BY DEF MotionConserved, GyroNullIsReliable

(* The next packet in the queue, about which the sender has made up its    *)
(* mind                                                                    *)
LEMMA HeadKept ==
  ASSUME IInv, InHand,
         \A h \in Holders : h \in Queued => packet'[h] = packet[h],
         packetQueue.items # <<>> =>
           Head(packetQueue'.items) = Head(packetQueue.items)
  PROVE  sender.at = "penPoll" => ~HasKey(packet'[Head(packetQueue'.items)])
<1> SUFFICES ASSUME sender.at = "penPoll"
             PROVE  ~HasKey(packet'[Head(packetQueue'.items)])
  OBVIOUS
<1>1. packetQueue.items # <<>> /\ packetQueue.items \in Seq(Holders)
  BY DEF IInv, SenderOK, TypeOK, HolderType, IsQueue
<1>2. Head(packetQueue.items) \in Holders /\ Head(packetQueue.items) \in Queued
  BY <1>1, TailFacts DEF Queued
<1> QED
  BY <1>1, <1>2 DEF InHand

(* A step that concerns neither motion nor what the sender has in hand     *)
LEMMA QuietDelivery ==
  ASSUME IInv, Delivery, UNCHANGED <<sender, current, moved>>,
         SameHistory(seen'), Live' => Live, NoNewReset,
         \A h \in Holders :
           h \in Queued \/ h = sender.holder => packet'[h] = packet[h],
         packetQueue.items # <<>> =>
           Head(packetQueue'.items) = Head(packetQueue.items)
  PROVE  Delivery'
<1>1. /\ IsHistory(seen)' /\ (seen.stray => seen'.stray)
      /\ UNCHANGED <<seen.count, seen.flushed, seen.refused, seen.last,
                     seen.motion>>
  BY DEF SameHistory
<1>2. Working => packet'[sender.holder] = packet[sender.holder]
  BY SenderHolder DEF Working
<1>3. sender.at = "penPoll" => ~HasKey(packet'[Head(packetQueue'.items)])
  BY HeadKept DEF Delivery
<1>4. InHand'
  BY <1>1, <1>2, <1>3, InHandKept DEF Delivery
<1>5. MotionConserved' /\ GyroNullIsReliable'
  BY <1>1, SumKept DEF Delivery
<1>6. ASSUME Live', NEW k \in Keys
      PROVE  UpToDate(k)'
  BY <1>1, <1>2, <1>6, ResetsKept, UpToDateKept DEF Delivery, Working
<1> QED
  BY <1>1, <1>4, <1>5, <1>6 DEF Delivery

(***************************************************************************)
(* A call is entered                                                       *)
(***************************************************************************)

LEMMA UpdateDelivery ==
  ASSUME IInv, Delivery, NEW c \in Threads, NEW p, HasKey(p),
         KeyOf(p) \in Keys, NEW val, Update(c, p, val),
         UNCHANGED <<life, queues, sender, terminated>>,
         KeyOf(p) # Rel => UNCHANGED moved,
         KeyOf(p) = Rel =>
           \A i \in 1..2 : /\ val[i] \in Int /\ moved'[i] \in Int
                           /\ moved'[i] - moved[i]
                                = val[i] - current[Rel].val[i]
  PROVE  Delivery'
<1> DEFINE k == KeyOf(p)
<1>1. /\ TypeOK /\ IsHistory(seen) /\ InHand /\ MotionConserved
      /\ GyroNullIsReliable
  BY DEF IInv, Delivery
<1>2. current \in [Keys -> [val : Seq(Int), dirty : BOOLEAN]] /\ Rel \in Keys
  BY <1>1 DEF TypeOK, StateType, Keys
<1>3. /\ current'[k].val = val /\ current'[k].dirty
      /\ \A j \in Keys : j # k => current'[j] = current[j]
  BY <1>2 DEF Update
<1>4. /\ IsHistory(seen') /\ seen'.flushed = seen.flushed
      /\ seen'.refused = seen.refused /\ seen'.last = seen.last
      /\ seen'.motion = seen.motion /\ seen'.stray = seen.stray
      /\ \A j \in Keys : j # k => seen'.count[j] = seen.count[j]
  BY <1>1, AcceptFacts DEF Update
<1>5. NoNewReset
  BY <1>1, GoFacts DEF Update
<1> HIDE DEF k
<1>6. InHand'
  <2>1. sender.at = "penPoll" => ~HasKey(packet'[Head(packetQueue'.items)])
    BY <1>1 DEF InHand
  <2> QED
    BY <1>1, <1>4, <2>1, InHandKept
<1>7. GyroNullIsReliable'
  BY <1>1, <1>4 DEF GyroNullIsReliable
<1>8. MotionConserved'
  <2>1. CASE k = Rel
    <3>1. \A i \in 1..2 : /\ val[i] \in Int /\ moved'[i] \in Int
                          /\ moved'[i] - moved[i] = val[i] - current[Rel].val[i]
                          /\ current'[Rel].val[i] = val[i]
      BY <1>3, <2>1 DEF k
    <3>2. \A i \in 1..2 : /\ seen.motion[i] \in Int /\ moved[i] \in Int
                          /\ current[Rel].val[i] \in Int
      BY <1>1, <1>2, ElementOfSeq DEF IsHistory, TypeOK, StateType
    <3>3. ASSUME NEW i \in 1..2
          PROVE  seen'.motion[i] + current'[Rel].val[i] = moved'[i]
      <4>1. seen.motion[i] + current[Rel].val[i] = moved[i]
        BY <1>1 DEF MotionConserved
      <4> QED
        BY <1>4, <3>1, <3>2, <4>1
    <3> QED
      BY <1>1, <1>4, <3>3 DEF MotionConserved
  <2>2. CASE k # Rel
    BY <1>1, <1>2, <1>3, <1>4, <2>2, SumKept DEF k
  <2> QED
    BY <2>1, <2>2
<1>9. ASSUME Live', NEW j \in Keys
      PROVE  UpToDate(j)'
  <2>1. UpToDate(j)
    BY <1>4, <1>9 DEF Delivery, Live
  <2>2. CASE j = k
    BY <1>3, <1>4, <1>5, <2>1, <2>2, ResetsRefused, UpToDateOpen
  <2>3. CASE j # k
    BY <1>3, <1>4, <1>5, <2>1, <2>3, ResetsKept,
       UpToDateKept
  <2> QED
    BY <2>2, <2>3
<1> QED
  BY <1>4, <1>6, <1>7, <1>8, <1>9 DEF Delivery

(* A call that has no key                                                  *)
LEMMA PlainDelivery ==
  ASSUME IInv, Delivery, NoNewReset, SameHistory(seen'),
         UNCHANGED <<life, queues, current, moved, sender, terminated>>
  PROVE  Delivery'
<1>1. Live' => Live
  BY DEF Live, SameHistory
<1> QED
  BY <1>1, QuietDelivery

LEMMA SimpleDelivery ==
  ASSUME IInv, Delivery, NEW c \in Callers, NEW kind, NEW supported, NEW p,
         Simple(c, kind, supported, p)
  PROVE  Delivery'
<1>1. NoNewReset
  BY GoFacts DEF Simple, Threads, IInv
<1>2. SameHistory(seen')
  BY DEF Simple, SameHistory, Delivery, IsHistory
<1>3. UNCHANGED <<life, queues, current, moved, sender, terminated>>
  BY DEF Simple
<1> QED
  BY <1>1, <1>2, <1>3, PlainDelivery

LEMMA SameIsSame ==
  ASSUME Delivery, UNCHANGED seen
  PROVE  SameHistory(seen')
  BY DEF Delivery, IsHistory, SameHistory

LEMMA MoveDelivery ==
  ASSUME IInv, Delivery, NEW c \in Callers, LiSendMouseMoveEvent(c)
  PROVE  Delivery'
<1> DEFINE d   == Event(c).val
           v   == current[Rel].val
           val == <<v[1] + d[1], v[2] + d[2]>>
<1>1. /\ caller[c].at = "idle" /\ todo[c] # <<>> /\ Event(c).kind = "rel"
      /\ Update(c, Event(c), val)
      /\ moved' = <<moved[1] + d[1], moved[2] + d[2]>>
      /\ UNCHANGED <<life, queues, sender, terminated>>
  BY DEF LiSendMouseMoveEvent, Ready, Event
<1>2. TypeOK /\ CallsOK /\ c \in Threads
  BY DEF IInv, Threads
<1>3. HasKey(Event(c)) /\ KeyOf(Event(c)) = Rel /\ Rel \in Keys
  BY <1>1, KeyCases DEF HasKey, Keys
<1>4. d \in Seq(Int) /\ Len(d) = 2
  BY <1>1, <1>2, EventOf, EventFacts
<1>5. v \in Seq(Int) /\ Len(v) = 2 /\ moved \in Int \X Int
  BY <1>2, <1>3 DEF TypeOK, StateType
<1>6. /\ d[1] \in Int /\ d[2] \in Int /\ v[1] \in Int /\ v[2] \in Int
      /\ moved[1] \in Int /\ moved[2] \in Int
  BY <1>4, <1>5, ElementOfSeq
<1>7. /\ val[1] = v[1] + d[1] /\ val[2] = v[2] + d[2]
      /\ moved'[1] = moved[1] + d[1] /\ moved'[2] = moved[2] + d[2]
  BY <1>1
<1> HIDE DEF val, d, v
<1>8. \A i \in 1..2 : /\ val[i] \in Int /\ moved'[i] \in Int
                      /\ moved'[i] - moved[i] = val[i] - v[i]
  BY <1>6, <1>7
<1> QED
  BY <1>1, <1>2, <1>3, <1>8, UpdateDelivery DEF v

LEMMA PositionDelivery ==
  ASSUME IInv, Delivery, NEW c \in Callers, NEW x, NEW width,
         PositionEvent(c, x, width),
         caller[c].at = "idle", todo[c] # <<>>
  PROVE  Delivery'
<1> DEFINE p == [Event(c) EXCEPT !.kind = "abs"]
<1>1. Event(c) \in Packets /\ c \in Threads
  BY EventOf, EventFacts DEF IInv, Threads
<1>2. p.kind = "abs"
  BY <1>1 DEF Packets
<1>3. HasKey(p) /\ KeyOf(p) = Abs /\ Abs \in Keys /\ Abs # Rel
  BY <1>2, KeyCases DEF HasKey, Keys, Abs, Rel
<1>4. /\ Update(c, p, <<x, width>>)
      /\ UNCHANGED <<life, queues, moved, sender, terminated>>
  BY DEF PositionEvent
<1> HIDE DEF p
<1> QED
  BY <1>1, <1>3, <1>4, UpdateDelivery

LEMMA MotionDelivery ==
  ASSUME IInv, Delivery, NEW c \in Callers, LiSendControllerMotionEvent(c)
  PROVE  Delivery'
<1> DEFINE p == [Event(c) EXCEPT !.num = @ % MaxGamepads]
<1>1. /\ caller[c].at = "idle" /\ todo[c] # <<>> /\ Event(c).kind = "motion"
      /\ UNCHANGED <<life, queues, moved, sender, terminated>>
  BY DEF LiSendControllerMotionEvent, Ready, Event
<1>2. TypeOK /\ CallsOK /\ c \in Threads
  BY DEF IInv, Threads
<1>3. /\ Event(c) \in Packets /\ Event(c).num \in Nat
      /\ Event(c).type \in SensorTypes
  BY <1>1, <1>2, EventOf, EventFacts
<1>4. p.kind = "motion" /\ p.type \in SensorTypes /\ p.num \in Gamepads
  <2>1. Event(c).num % MaxGamepads \in Gamepads
    BY <1>3, InputAssumption DEF Gamepads
  <2> QED
    BY <1>1, <1>3, <2>1 DEF Packets
<1>5. HasKey(p) /\ KeyOf(p) \in Keys /\ KeyOf(p) # Rel
  <2>1. KeyOf(p) = <<p.type, p.num>>
    BY <1>4, KeyCases
  <2> HIDE DEF p
  <2> QED
    BY <1>4, <2>1 DEF HasKey, Keys, Sensors, SensorTypes, Rel
<1>6. CASE Update(c, p, Event(c).val)
  BY <1>1, <1>2, <1>5, <1>6, UpdateDelivery
<1>7. CASE Return(c) /\ UNCHANGED <<current, seen>>
  BY <1>1, <1>2, <1>7, GoFacts, SameIsSame, PlainDelivery
<1> QED
  BY <1>6, <1>7 DEF LiSendControllerMotionEvent

LEMMA ScrollDelivery ==
  ASSUME IInv, Delivery, NEW c \in Callers, LiSendHighResScrollEvent(c)
  PROVE  Delivery'
<1>1. UNCHANGED <<life, queues, current, moved, sender, terminated>>
  BY DEF LiSendHighResScrollEvent
<1>2. NoNewReset
  BY GoFacts DEF LiSendHighResScrollEvent, IInv, Threads
<1>3. SameHistory(seen')
  <2>1. CASE UNCHANGED seen
    BY <2>1, SameIsSame
  <2>2. CASE seen' = [seen EXCEPT !.lastScroll = Event(c).val[1]]
    BY <2>2 DEF Delivery, IsHistory, SameHistory
  <2> QED
    BY <2>1, <2>2 DEF LiSendHighResScrollEvent
<1> QED
  BY <1>1, <1>2, <1>3, PlainDelivery

LEMMA CallDelivery ==
  ASSUME IInv, Delivery, NEW c \in Callers, SomeCall(c)
  PROVE  Delivery'
<1>1. TypeOK /\ c \in Threads
  BY DEF IInv, Threads
<1>2. CASE LiSendMousePositionEvent(c)
  BY <1>2, PositionDelivery DEF LiSendMousePositionEvent, Ready
<1>3. CASE LiSendMouseMoveAsMousePositionEvent(c)
  BY <1>3, PositionDelivery DEF LiSendMouseMoveAsMousePositionEvent, Ready
<1>4. CASE LiSendMouseButtonEvent(c) \/ LiSendKeyboardEvent2(c)
           \/ LiSendUtf8TextEvent(c) \/ LiSendHighResHScrollEvent(c)
           \/ LiSendControllerBatteryEvent(c) \/ LiSendTouchEvent(c)
           \/ LiSendControllerTouchEvent2(c)
  BY <1>4, SimpleDelivery
  DEF LiSendMouseButtonEvent, LiSendKeyboardEvent2, LiSendUtf8TextEvent,
      LiSendHighResHScrollEvent, LiSendControllerBatteryEvent,
      LiSendTouchEvent, LiSendControllerTouchEvent2
<1>5. CASE LiSendPenEvent(c) \/ LiSendMultiControllerEvent(c)
           \/ LiSendControllerArrivalEvent(c)
  <2>1. UNCHANGED <<life, queues, current, moved, sender, terminated, seen>>
    BY <1>5 DEF LiSendPenEvent, LiSendMultiControllerEvent,
                LiSendControllerArrivalEvent
  <2>2. NoNewReset
    BY <1>1, <1>5, GoFacts DEF LiSendPenEvent, LiSendMultiControllerEvent,
                               LiSendControllerArrivalEvent
  <2> QED
    BY <2>1, <2>2, SameIsSame, PlainDelivery
<1>6. CASE NothingToSend(c) \/ NotInitialized(c)
  <2>1. UNCHANGED <<life, queues, current, moved, caller, sender, terminated,
                    seen>>
    BY <1>6 DEF NothingToSend, NotInitialized
  <2>2. NoNewReset
    BY <2>1 DEF NoNewReset
  <2> QED
    BY <2>1, <2>2, SameIsSame, PlainDelivery
<1> QED
  BY <1>2, <1>3, <1>4, <1>5, <1>6, MoveDelivery, MotionDelivery,
     ScrollDelivery DEF SomeCall

(***************************************************************************)
(* Steps within a call                                                     *)
(***************************************************************************)

(* Thread t writes into its own holder, or leaves it alone, and tells the  *)
(* history nothing.                                                        *)
LEMMA OwnDelivery ==
  ASSUME IInv, Delivery, NEW t \in Threads, NoNewReset,
         \A h \in Holders : h # caller[t].holder => packet'[h] = packet[h],
         caller[t].holder # None \/ UNCHANGED packet,
         UNCHANGED <<life, packetQueue, current, moved, sender, terminated,
                     seen>>
  PROVE  Delivery'
<1>1. \A h \in Holders :
        h \in Queued \/ h = sender.holder => packet'[h] = packet[h]
  BY OwnHolder
<1>2. Live' => Live
  BY DEF Live
<1> QED
  BY <1>1, <1>2, SameIsSame, QuietDelivery

LEMMA FillDelivery ==
  ASSUME IInv, Delivery, NEW t \in Threads, FillPen(t) \/ FillController(t)
  PROVE  Delivery'
<1>1. /\ packet \in [Holders -> Packets] /\ caller \in [Threads -> CallRecords]
      /\ caller[t].holder # None
  BY DEF IInv, TypeOK, HolderType, ThreadType, CallsOK, CallOK, FillPen,
         FillController
<1>2. UNCHANGED <<life, packetQueue, current, moved, sender, terminated, seen>>
  BY DEF FillPen, FillController
<1>3. PICK p : packet' = [packet EXCEPT ![caller[t].holder] = p]
  BY DEF FillPen, FillController
<1>4. \A h \in Holders : h # caller[t].holder => packet'[h] = packet[h]
  BY <1>1, <1>3
<1>5. PICK x : caller' = [caller EXCEPT ![t] = x] /\ x.at = "offer"
  <2>1. CASE FillController(t)
    <3> DEFINE x == [caller[t] EXCEPT !.at = "offer"]
    <3>1. caller' = [caller EXCEPT ![t] = x]
      BY <1>1, <2>1 DEF FillController
    <3>2. x.at = "offer"
      BY <1>1 DEF CallRecords
    <3> QED
      BY <3>1, <3>2
  <2>2. CASE FillPen(t)
    <3> DEFINE e == caller[t].packet
               q == [e EXCEPT !.reliable = \/ ~Batchable(e.type)
                                           \/ e.buttons # currentPenButtonState]
               x == [caller[t] EXCEPT !.at = "offer", !.packet = q]
    <3>1. caller' = [caller EXCEPT ![t] = x]
      BY <1>1, <2>2 DEF FillPen
    <3>2. x.at = "offer"
      BY <1>1 DEF CallRecords
    <3> QED
      BY <3>1, <3>2
  <2> QED
    BY <2>1, <2>2
<1>6. NoNewReset
  BY <1>5, NoResetOf DEF IInv
<1> QED
  BY <1>1, <1>2, <1>4, <1>6, OwnDelivery

LEMMA ScrollLoopDelivery ==
  ASSUME IInv, Delivery, NEW t \in Threads, ScrollLoop(t)
  PROVE  Delivery'
<1>1. NoNewReset
  BY GoFacts DEF IInv, ScrollLoop
<1> QED
  BY <1>1, OwnDelivery DEF ScrollLoop

(* A controller event is merged into holder h.                             *)
LEMMA MergeDelivery ==
  ASSUME IInv, Delivery, NEW t \in Threads, NEW p, p.kind = "controller",
         NEW h, packet' = [packet EXCEPT ![h] = p],
         seen' = [Accept(p) EXCEPT !.stray = @ \/ ~OnItsWay(h, p.num)],
         Return(t),
         UNCHANGED <<life, packetQueue, current, moved, sender, terminated>>
  PROVE  Delivery'
<1>1. /\ TypeOK /\ IsHistory(seen) /\ InHand /\ MotionConserved
      /\ GyroNullIsReliable /\ OneOwner /\ SenderOK
  BY DEF IInv, Delivery
<1>2. NoNewReset /\ ~HasKey(p)
  BY <1>1, GoFacts DEF HasKey
<1>3. /\ IsHistory(seen') /\ seen'.flushed = seen.flushed
      /\ seen'.refused = seen.refused /\ seen'.last = seen.last
      /\ seen'.motion = seen.motion /\ seen'.count = seen.count
      /\ seen'.stray = (seen.stray \/ ~OnItsWay(h, p.num))
  <2> DEFINE a == Accept(p)
  <2>1. SameHistory(a)
    BY <1>1, <1>2, AcceptFacts
  <2> HIDE DEF a
  <2>2. /\ DOMAIN seen' = DOMAIN a
        /\ \A f \in DOMAIN a : f # "stray" => seen'[f] = a[f]
        /\ "stray" \in DOMAIN a =>
             seen'.stray = (a.stray \/ ~OnItsWay(h, p.num))
    BY DEF a
  <2>3. (seen.stray \/ ~OnItsWay(h, p.num)) \in BOOLEAN
    OBVIOUS
  <2> QED
    BY <2>1, <2>2, <2>3 DEF SameHistory, IsHistory
<1>4. \A g \in Holders : packet'[g] = IF g = h THEN p ELSE packet[g]
  BY <1>1 DEF TypeOK, HolderType
<1>5. Working /\ h = sender.holder =>
        seen'.stray \/ (sender.at = "latch" /\ ~HasKey(packet'[sender.holder]))
  BY <1>1, <1>2, <1>3, <1>4, SenderHolder
  DEF OnItsWay, Queued, Working, CallsOK, CallOK, IInv
<1>6. Working => \/ packet'[sender.holder] = packet[sender.holder]
                 \/ /\ ~HasKey(packet'[sender.holder])
                    /\ seen'.stray \/ sender.at = "latch"
  BY <1>2, <1>4, <1>5, SenderHolder DEF Working
<1>7. sender.at = "penPoll" => ~HasKey(packet'[Head(packetQueue'.items)])
  <2> SUFFICES ASSUME sender.at = "penPoll"
               PROVE  ~HasKey(packet'[Head(packetQueue.items)])
    OBVIOUS
  <2>1. packetQueue.items # <<>> /\ packetQueue.items \in Seq(Holders)
    BY <1>1 DEF SenderOK, TypeOK, HolderType, IsQueue
  <2>2. Head(packetQueue.items) \in Holders
    BY <2>1, TailFacts
  <2> QED
    BY <1>1, <1>2, <1>4, <2>2 DEF InHand
<1>8. InHand'
  BY <1>1, <1>3, <1>6, <1>7, InHandKept
<1>9. MotionConserved' /\ GyroNullIsReliable'
  BY <1>1, <1>3, SumKept
<1>10. ASSUME Live', NEW k \in Keys
       PROVE  UpToDate(k)'
  <2>1. Live /\ ~seen'.stray
    BY <1>3, <1>10 DEF Live
  <2>2. sender.at = "send" => packet'[sender.holder] = packet[sender.holder]
    BY <1>4, <1>5, <2>1, SenderHolder DEF Working
  <2> QED
    BY <1>2, <1>3, <2>1, <2>2, ResetsKept, UpToDateKept DEF Delivery
<1> QED
  BY <1>3, <1>8, <1>9, <1>10 DEF Delivery

LEMMA MatchDelivery ==
  ASSUME IInv, Delivery, NEW t \in Threads, sendControllerEventInternal(t)
  PROVE  Delivery'
<1> DEFINE p == caller[t].packet
           h == currentQueuedControllerPacket[p.num]
<1>1. /\ caller[t].at = "match"
      /\ UNCHANGED <<life, packetQueue, current, moved, sender, terminated>>
  BY DEF sendControllerEventInternal
<1>2. TypeOK /\ CallsOK
  BY DEF IInv
<1>3. CASE Return(t) /\ UNCHANGED <<packet, seen>>
  BY <1>1, <1>2, <1>3, GoFacts, OwnDelivery
<1>4. CASE Go(t, "alloc", "fillController", p) /\ UNCHANGED <<packet, seen>>
  BY <1>1, <1>2, <1>4, GoFacts, OwnDelivery
<1>5. CASE /\ Compatible(h, p) /\ packet' = [packet EXCEPT ![h] = p]
           /\ seen' = [Accept(p) EXCEPT !.stray = @ \/ ~OnItsWay(h, p.num)]
           /\ Return(t)
  <2>1. p.kind = "controller"
    BY <1>1, <1>2 DEF CallsOK, CallOK
  <2> HIDE DEF p, h
  <2> QED
    BY <1>1, <1>5, <2>1, MergeDelivery
<1> QED
  BY <1>3, <1>4, <1>5 DEF sendControllerEventInternal

(***************************************************************************)
(* The end of a call                                                       *)
(***************************************************************************)

(* A holder that nobody had                                                *)
LEMMA GotDelivery ==
  ASSUME IInv, Delivery, NEW t \in Threads, caller[t].at = "alloc", NEW h,
         h \notin Queued, h # sender.holder,
         caller' = [caller EXCEPT ![t].at = caller[t].next, ![t].holder = h],
         packet' = IF caller[t].next = "offer"
                   THEN [packet EXCEPT ![h] = caller[t].packet] ELSE packet,
         UNCHANGED <<life, packetQueue, batch, moved, sender, terminated, seen>>
  PROVE  Delivery'
<1> DEFINE x == [caller[t] EXCEPT !.at = caller[t].next, !.holder = h]
<1>1. TypeOK /\ caller[t] \in CallRecords
  BY DEF IInv, TypeOK, ThreadType
<1>2. caller' = [caller EXCEPT ![t] = x] /\ x.at # "reset"
  BY <1>1 DEF CallRecords, TypeOK, ThreadType
<1> HIDE DEF x
<1>3. NoNewReset
  BY <1>1, <1>2, NoResetOf
<1>4. \A g \in Holders : g # h => packet'[g] = packet[g]
  BY <1>1 DEF TypeOK, HolderType
<1>5. Live' => Live
  BY DEF Live
<1> QED
  BY <1>3, <1>4, <1>5, SameIsSame, QuietDelivery

(* An update that is given up is refused, its place is still reserved.     *)
LEMMA GiveUpDelivery ==
  ASSUME IInv, Delivery, NEW t \in Threads,
         caller[t].at \in {"alloc", "offer"}, GiveUp(t),
         \A h \in Holders : h # caller[t].holder => packet'[h] = packet[h],
         caller[t].holder # None \/ UNCHANGED packet,
         UNCHANGED <<life, packetQueue, current, moved, sender, terminated>>
  PROVE  Delivery'
<1> DEFINE p == caller[t].packet
           x == IF HasKey(p) THEN [caller[t] EXCEPT !.at = "reset",
                                                    !.holder = None]
                ELSE Idle
<1>1. /\ TypeOK /\ CallsOK /\ IsHistory(seen) /\ InHand /\ MotionConserved
      /\ GyroNullIsReliable
  BY DEF IInv, Delivery
<1>2. /\ caller \in [Threads -> CallRecords] /\ caller[t] \in CallRecords
      /\ HasKey(p) => KeyOf(p) \in Keys
  BY <1>1 DEF TypeOK, ThreadType, CallsOK, CallOK
<1>3. caller' = [caller EXCEPT ![t] = x] /\ seen' = Refuse(p)
  BY <1>2 DEF GiveUp
<1>4. /\ HasKey(p) => x.packet = p
      /\ ~HasKey(p) => x.at # "reset"
  BY <1>2 DEF CallRecords, Idle
<1> HIDE DEF x
<1>5. /\ caller'[t] = x
      /\ \A u \in Threads : u # t => caller'[u] = caller[u]
  BY <1>1, <1>3, OneCaller
<1>6. /\ IsHistory(seen') /\ seen'.flushed = seen.flushed
      /\ seen'.count = seen.count /\ seen'.last = seen.last
      /\ seen'.motion = seen.motion /\ seen'.stray = seen.stray
      /\ \A k \in Keys : IF HasKey(p) /\ KeyOf(p) = k THEN seen'.refused[k]
                         ELSE seen'.refused[k] = seen.refused[k]
  BY <1>1, <1>2, <1>3, RefuseFacts
<1> HIDE DEF p
<1>7. \A h \in Holders :
        h \in Queued \/ h = sender.holder => packet'[h] = packet[h]
  BY OwnHolder
<1>8. Working => packet'[sender.holder] = packet[sender.holder]
  BY <1>7, SenderHolder DEF Working
<1>9. InHand'
  <2>1. sender.at = "penPoll" => ~HasKey(packet'[Head(packetQueue'.items)])
    BY <1>1, <1>7, HeadKept
  <2> QED
    BY <1>1, <1>6, <1>8, <2>1, InHandKept
<1>10. MotionConserved' /\ GyroNullIsReliable'
  BY <1>1, <1>6, SumKept
<1>11. ASSUME Live', NEW k \in Keys
       PROVE  UpToDate(k)'
  <2>1. UpToDate(k)
    BY <1>6, <1>11 DEF Delivery, Live
  <2>2. CASE HasKey(p) /\ KeyOf(p) = k
    BY <1>6, <2>2, UpToDateOpen
  <2>3. CASE ~(HasKey(p) /\ KeyOf(p) = k)
    <3>1. ~Resets(t, k)'
      BY <1>4, <1>5, <2>3 DEF Resets, Reserves
    <3>2. \A u \in Threads : Resets(u, k)' => Resets(u, k)
      BY <1>5, <3>1 DEF Resets, Reserves
    <3> QED
      BY <1>6, <1>8, <2>1, <2>3, <3>2, UpToDateKept DEF Working
  <2> QED
    BY <2>2, <2>3
<1> QED
  BY <1>6, <1>9, <1>10, <1>11 DEF Delivery

LEMMA AllocateDelivery ==
  ASSUME IInv, Delivery, NEW t \in Threads, allocatePacketHolder(t)
  PROVE  Delivery'
<1> DEFINE free  == packetHolderFreeList.items
           Got(h) == /\ caller' = [caller EXCEPT ![t].at = caller[t].next,
                                                 ![t].holder = h]
                     /\ packet' = IF caller[t].next = "offer"
                                  THEN [packet EXCEPT ![h] = caller[t].packet]
                                  ELSE packet
                     /\ UNCHANGED seen
<1>1. TypeOK /\ CallsOK /\ OneOwner
  BY DEF IInv
<1>2. /\ caller[t].at = "alloc"
      /\ UNCHANGED <<life, packetQueue, batch, moved, sender, terminated>>
  BY DEF allocatePacketHolder
<1>3. CASE (\E h \in Holders : h \notin InUse) /\ Got(malloc)
  <2>1. malloc \notin InUse
    BY <1>3 DEF malloc
  <2>2. malloc \notin Queued /\ malloc # sender.holder
    BY <2>1 DEF InUse, Queued
  <2> QED
    BY <1>2, <1>3, <2>2, GotDelivery
<1>4. CASE free # <<>> /\ Got(Head(free))
  <2>1. free \in Seq(Holders) /\ IsInjective(free)
    BY <1>1 DEF TypeOK, HolderType, IsQueue, OneOwner
  <2>2. Head(free) \in ToSet(free)
    BY <1>4, <2>1, TailFacts
  <2>3. Head(free) \notin Queued /\ Head(free) # sender.holder
    BY <1>1, <2>2 DEF OneOwner, Queued
  <2> QED
    BY <1>2, <1>4, <2>3, GotDelivery
<1>5. CASE GiveUp(t) /\ UNCHANGED packet
  BY <1>2, <1>5, GiveUpDelivery
<1> QED
  BY <1>3, <1>4, <1>5 DEF allocatePacketHolder

LEMMA RefusedDelivery ==
  ASSUME IInv, Delivery, NEW t \in Threads, OfferRefused(t)
  PROVE  Delivery'
<1>1. /\ caller[t].at = "offer" /\ GiveUp(t)
      /\ packet' = Emptied(caller[t].holder)
      /\ UNCHANGED <<life, packetQueue, current, moved, sender, terminated>>
  BY DEF OfferRefused
<1>2. TypeOK /\ caller[t].holder # None
  BY <1>1 DEF IInv, CallsOK, CallOK
<1>3. caller[t].holder \in Holders
  BY <1>2, OwnHolder
<1>4. \A h \in Holders : h # caller[t].holder => packet'[h] = packet[h]
  BY <1>1, <1>2, <1>3, EmptiedFacts
<1> QED
  BY <1>1, <1>2, <1>4, GiveUpDelivery

LEMMA OfferDelivery ==
  ASSUME IInv, Delivery, NEW t \in Threads, OfferOk(t)
  PROVE  Delivery'
<1> DEFINE p == caller[t].packet
<1>1. /\ TypeOK /\ CallsOK /\ Reserved /\ IsHistory(seen) /\ InHand
      /\ MotionConserved /\ GyroNullIsReliable
  BY DEF IInv, Delivery
<1>2. /\ caller[t].at = "offer" /\ seen' = Accept(p)
      /\ packetQueue' = [packetQueue EXCEPT
                           !.items = Append(@, caller[t].holder), !.used = TRUE]
      /\ UNCHANGED <<life, packet, batch, moved, sender, terminated>>
  BY DEF OfferOk
<1>3. HasKey(p) => KeyOf(p) \in Keys
  BY <1>1 DEF CallsOK, CallOK
<1>4. /\ IsHistory(seen') /\ seen'.flushed = seen.flushed
      /\ seen'.refused = seen.refused /\ seen'.last = seen.last
      /\ seen'.motion = seen.motion /\ seen'.stray = seen.stray
      /\ \A k \in Keys : ~(HasKey(p) /\ KeyOf(p) = k) =>
                           seen'.count[k] = seen.count[k]
  BY <1>1, <1>2, <1>3, AcceptFacts
<1>5. NoNewReset
  BY <1>1, GoFacts DEF OfferOk
<1>6. packetQueue.items # <<>> =>
        Head(packetQueue'.items) = Head(packetQueue.items)
  <2>1. /\ IsQueue(packetQueue) /\ packetQueue.items \in Seq(Holders)
        /\ caller[t].holder \in Holders
    BY <1>1, <1>2, OwnHolder DEF TypeOK, HolderType, IsQueue, CallsOK, CallOK
  <2>2. packetQueue'.items = Append(packetQueue.items, caller[t].holder)
    BY <1>2, <2>1 DEF IsQueue
  <2> QED
    BY <2>1, <2>2, AppendProperties
<1>7. InHand'
  <2>1. sender.at = "penPoll" => ~HasKey(packet'[Head(packetQueue'.items)])
    BY <1>1, <1>2, <1>6, HeadKept
  <2> QED
    BY <1>1, <1>2, <1>4, <2>1, InHandKept
<1>8. MotionConserved' /\ GyroNullIsReliable'
  BY <1>1, <1>2, <1>4, SumKept
<1>9. ASSUME Live', NEW k \in Keys
      PROVE  UpToDate(k)'
  <2>1. UpToDate(k) /\ OneCarrier(k)
    BY <1>1, <1>2, <1>4, <1>9 DEF Delivery, Live, Reserved
  <2>2. CASE HasKey(p) /\ KeyOf(p) = k
    <3>1. Reserves(t, k)
      BY <1>2, <2>2 DEF Reserves
    <3>2. current'[k].dirty
      BY <1>2, <2>1, <3>1 DEF OneCarrier
    <3>3. \A u \in Threads : Resets(u, k)' => seen'.refused[k]
      BY <1>4, <1>5, <2>1, ResetsRefused
    <3> QED
      BY <3>2, <3>3, UpToDateOpen
  <2>3. CASE ~(HasKey(p) /\ KeyOf(p) = k)
    BY <1>2, <1>4, <1>5, <2>1, <2>3, ResetsKept, UpToDateKept
  <2> QED
    BY <2>2, <2>3
<1> QED
  BY <1>4, <1>7, <1>8, <1>9 DEF Delivery

(* The place of an update that was refused is given back.                  *)
LEMMA ResetDelivery ==
  ASSUME IInv, Delivery, NEW t \in Threads, ResetDirty(t)
  PROVE  Delivery'
<1> DEFINE j == KeyOf(caller[t].packet)
<1>1. /\ TypeOK /\ CallsOK /\ IsHistory(seen) /\ InHand /\ MotionConserved
      /\ GyroNullIsReliable
  BY DEF IInv, Delivery
<1>2. /\ caller[t].at = "reset" /\ Return(t)
      /\ current' = [current EXCEPT ![j].dirty = FALSE]
      /\ UNCHANGED <<life, queues, moved, sender, terminated, seen>>
  BY DEF ResetDirty
<1>3. HasKey(caller[t].packet) /\ j \in Keys
  BY <1>1, <1>2 DEF CallsOK, CallOK
<1>4. Resets(t, j)
  BY <1>2, <1>3 DEF Resets, Reserves
<1> HIDE DEF j
<1>5. /\ \A k \in Keys : k # j => current'[k] = current[k]
      /\ current'[j].val = current[j].val /\ Rel \in Keys
  BY <1>1, <1>2, <1>3 DEF TypeOK, StateType, Keys
<1>6. NoNewReset
  BY <1>1, <1>2, GoFacts
<1>7. InHand'
  <2>1. sender.at = "penPoll" => ~HasKey(packet'[Head(packetQueue'.items)])
    BY <1>1, <1>2, HeadKept
  <2> QED
    BY <1>1, <1>2, <2>1, InHandKept
<1>8. MotionConserved' /\ GyroNullIsReliable'
  BY <1>1, <1>2, <1>5, SumKept
<1>9. ASSUME Live', NEW k \in Keys
      PROVE  UpToDate(k)'
  <2>1. UpToDate(k)
    BY <1>2, <1>9 DEF Delivery, Live
  <2>2. CASE k = j
    <3>1. seen'.refused[k]
      BY <1>2, <1>4, <2>1, <2>2 DEF UpToDate
    <3> QED
      BY <3>1, UpToDateOpen
  <2>3. CASE k # j
    BY <1>2, <1>5, <1>6, <2>1, <2>3, ResetsKept, UpToDateKept
  <2> QED
    BY <2>2, <2>3
<1> QED
  BY <1>1, <1>2, <1>7, <1>8, <1>9 DEF Delivery

LEMMA InCallDelivery ==
  ASSUME IInv, Delivery, NEW t \in Threads, InCall(t)
  PROVE  Delivery'
BY FillDelivery, ScrollLoopDelivery, MatchDelivery, AllocateDelivery,
   OfferDelivery, RefusedDelivery, ResetDelivery DEF InCall

(***************************************************************************)
(* The sender                                                              *)
(***************************************************************************)

(* A key that is neither on its way out nor touched                        *)
LEMMA UpToDateUnsent ==
  ASSUME NEW k \in Keys, UpToDate(k), caller' = caller,
         ~InSending(k), ~InSending(k)', current'[k] = current[k],
         seen'.count[k] = seen.count[k],
         seen'.flushed[k] = seen.flushed[k],
         seen'.refused[k] = seen.refused[k], seen'.last[k] = seen.last[k]
  PROVE  UpToDate(k)'
<1>1. Settled(k)' <=> Settled(k)
  BY DEF Settled
<1>2. \A t \in Threads : Resets(t, k)' <=> Resets(t, k)
  BY DEF Resets, Reserves
<1> QED
  BY <1>1, <1>2 DEF UpToDate

(* A step of the sender that is not about any key                          *)
LEMMA UnsentDelivery ==
  ASSUME Delivery, UNCHANGED <<caller, current, moved>>, SameHistory(seen'),
         Live' => Live, InHand',
         \A k \in Keys : ~InSending(k) /\ ~InSending(k)'
  PROVE  Delivery'
<1>1. /\ IsHistory(seen')
      /\ UNCHANGED <<seen.count, seen.flushed, seen.refused, seen.last,
                     seen.motion>>
  BY DEF SameHistory
<1>2. MotionConserved' /\ GyroNullIsReliable'
  BY <1>1, SumKept DEF Delivery
<1>3. ASSUME Live', NEW k \in Keys
      PROVE  UpToDate(k)'
  BY <1>1, <1>3, UpToDateUnsent DEF Delivery
<1> QED
  BY <1>1, <1>2, <1>3 DEF Delivery

LEMMA NothingInHand ==
  ASSUME sender'.at \in {"none", "wait", "done"}
  PROVE  InHand' /\ \A k : ~InSending(k)'
  BY DEF InHand, InSending

LEMMA DoneFacts ==
  ASSUME NEW at, Done(at)
  PROVE  sender'.at = at /\ packet' = Emptied(sender.holder)
  BY DEF Done, NoSender

(* Sending that fails: the connection ends.                                *)
LEMMA FailDelivery ==
  ASSUME Delivery, UNCHANGED <<current, moved, seen>>, Done("done"),
         terminated' = TRUE
  PROVE  Delivery'
<1>1. InHand'
  BY DoneFacts, NothingInHand
<1>2. MotionConserved' /\ GyroNullIsReliable'
  BY SumKept DEF Delivery
<1>3. ~Live'
  BY DEF Live
<1>4. IsHistory(seen')
  BY DEF Delivery
<1> QED
  BY <1>1, <1>2, <1>3, <1>4 DEF Delivery

LEMMA TakeDelivery ==
  ASSUME IInv, Delivery, SenderWait
  PROVE  Delivery'
<1>1. /\ sender.at = "wait"
      /\ UNCHANGED <<life, packet, current, moved, caller, terminated, seen>>
  BY DEF SenderWait
<1>2. SameHistory(seen') /\ (Live' => Live)
  BY <1>1, SameIsSame DEF Live
<1>3. \A k : ~InSending(k)
  BY <1>1 DEF InSending
<1>4. CASE sender' = [sender EXCEPT !.at = "done"]
  <2>1. sender'.at = "done"
    BY <1>4 DEF IInv, TypeOK, ThreadType, SenderRecords
  <2> QED
    BY <1>1, <1>2, <1>3, <2>1, NothingInHand, UnsentDelivery
<1>5. CASE /\ packetQueue.items # <<>>
           /\ sender' = Holding(Head(packetQueue.items))
           /\ packetQueue' = [packetQueue EXCEPT !.items = Tail(@)]
  <2> DEFINE g == Head(packetQueue.items)
             p == packet[g]
  <2>1. g \in Holders
    BY <1>5, TakenFacts
  <2>2. p \in Packets /\ (HasKey(p) => KeyOf(p) \in Keys)
    BY <2>1 DEF IInv, TypeOK, HolderType, Contents
  <2>3. /\ sender'.at = Dispatch(p) /\ sender'.holder = g
        /\ HasKey(p) => sender'.key = KeyOf(p)
    BY <1>5 DEF Holding
  <2>4. packet'[sender'.holder] = p
    BY <1>1, <2>3
  <2> HIDE DEF g, p
  <2>5. Hand' = p
    BY <2>4 DEF Hand
  <2>6. sender'.at = "motion" => sender'.key \in Sensors
    <3> SUFFICES ASSUME sender'.at = "motion" PROVE sender'.key \in Sensors
      OBVIOUS
    <3>1. p.kind = "motion" /\ HasKey(p)
      BY <2>3, DispatchFacts
    <3>2. KeyOf(p) = <<p.type, p.num>> /\ KeyOf(p) \in Keys
      BY <2>2, <3>1, KeyCases
    <3>3. p.type \notin {"rel", "abs"}
      BY <2>2 DEF Packets, SensorTypes, TouchTypes
    <3>4. KeyOf(p) # Rel /\ KeyOf(p) # Abs
      BY <3>2, <3>3 DEF Rel, Abs
    <3> QED
      BY <2>3, <3>1, <3>2, <3>4 DEF Keys
  <2>7. /\ sender'.at \in {"latch", "rel", "abs", "motion", "ack", "pen",
                           "send"}
        /\ sender'.at \in {"rel", "abs", "motion"} <=> HasKey(p)
    BY <2>3, DispatchFacts
  <2>8. /\ HasKey(Hand)' <=> HasKey(p)
        /\ KeyOf(Hand)' = KeyOf(p)
        /\ NullIsReliable(Hand)' <=> NullIsReliable(p)
    BY <2>5
  <2>9. InHand'
    BY <2>3, <2>6, <2>7, <2>8 DEF InHand, NullIsReliable
  <2>10. \A k : ~InSending(k)'
    BY <2>7, <2>8 DEF InSending, Carrier, Hand
  <2> QED
    BY <1>1, <1>2, <1>3, <2>9, <2>10, UnsentDelivery
<1> QED
  BY <1>4, <1>5 DEF SenderWait

LEMMA SendDelivery ==
  ASSUME IInv, Delivery, Send
  PROVE  Delivery'
<1> DEFINE p == Hand
           k == KeyOf(p)
<1>1. /\ sender.at = "send"
      /\ UNCHANGED <<life, batch, moved, caller>>
  BY DEF Send
<1>2. CASE Done("done") /\ terminated' = TRUE /\ UNCHANGED seen
  BY <1>1, <1>2, FailDelivery
<1>3. CASE seen' = Told(p) /\ Done("wait") /\ UNCHANGED terminated
  <2>1. /\ TypeOK /\ Contents /\ IsHistory(seen) /\ InHand /\ MotionConserved
        /\ GyroNullIsReliable
    BY DEF IInv, Delivery
  <2>2. sender.holder \in Holders
    BY <1>1, SenderHolder
  <2>3. p \in Packets /\ (HasKey(p) => k \in Keys)
    BY <2>1, <2>2 DEF TypeOK, HolderType, Contents, Hand
  <2>4. (HasKey(p) => k # Rel) /\ NullIsReliable(p)
    BY <1>1, <2>1 DEF InHand
  <2>5. /\ IsHistory(seen') /\ seen'.count = seen.count
        /\ seen'.flushed = seen.flushed /\ seen'.refused = seen.refused
        /\ seen'.motion = seen.motion /\ seen'.stray = seen.stray
        /\ \A j \in Keys : IF HasKey(p) /\ k = j
                           THEN /\ seen'.last[j].val = p.val
                                /\ seen'.last[j].reliable = p.reliable
                           ELSE seen'.last[j] = seen.last[j]
    BY <1>3, <2>1, <2>3, ToldFacts
  <2>6. \A j : InSending(j) <=> HasKey(p) /\ k = j
    BY <1>1 DEF InSending, Carrier, Hand
  <2> HIDE DEF p, k
  <2>7. InHand' /\ \A j : ~InSending(j)'
    BY <1>3, DoneFacts, NothingInHand
  <2>8. MotionConserved'
    <3>1. Rel \in Keys
      BY DEF Keys
    <3> QED
      BY <1>1, <2>1, <2>4, <2>5, <3>1 DEF MotionConserved
  <2>9. GyroNullIsReliable'
    BY <2>1, <2>4, <2>5 DEF GyroNullIsReliable, NullIsReliable, k
  <2>10. ASSUME Live', NEW j \in Keys
         PROVE  UpToDate(j)'
    <3>1. UpToDate(j)
      BY <1>1, <1>3, <2>5, <2>10 DEF Delivery, Live
    <3>2. CASE HasKey(p) /\ k = j
      <4>1. Settled(j)' <=> Settled(j)
        BY <1>1, <2>5 DEF Settled
      <4>2. Settled(j) => p.val = current[j].val
        BY <2>6, <3>1, <3>2 DEF UpToDate, p
      <4>3. \A t \in Threads : Resets(t, j)' <=> Resets(t, j)
        BY <1>1 DEF Resets, Reserves
      <4> QED
        BY <1>1, <2>4, <2>5, <2>7, <3>1, <3>2, <4>1, <4>2, <4>3 DEF UpToDate
    <3>3. CASE ~(HasKey(p) /\ k = j)
      BY <1>1, <2>5, <2>6, <2>7, <3>1, <3>3, UpToDateUnsent
    <3> QED
      BY <3>2, <3>3
  <2> QED
    BY <2>5, <2>7, <2>8, <2>9, <2>10 DEF Delivery
<1> QED
  BY <1>2, <1>3 DEF Send, sendInputPacket

LEMMA LatchDelivery ==
  ASSUME IInv, Delivery, Latch
  PROVE  Delivery'
<1>1. /\ sender.at = "latch" /\ sender' = [sender EXCEPT !.at = "send"]
      /\ UNCHANGED <<life, queues, current, moved, caller, terminated, seen>>
  BY DEF Latch
<1>2. sender'.at = "send" /\ sender'.holder = sender.holder
  BY <1>1, SenderHolder DEF SenderRecords
<1>3. SameHistory(seen') /\ (Live' => Live)
  BY <1>1, SameIsSame DEF Live
<1>4. ~HasKey(packet'[sender'.holder])
  BY <1>1, <1>2 DEF Delivery, InHand, Hand
<1>5. ~HasKey(Hand)' /\ NullIsReliable(Hand)'
  BY <1>4 DEF Hand, NullIsReliable
<1>6. InHand'
  BY <1>2, <1>5 DEF InHand
<1>7. \A k : ~InSending(k) /\ ~InSending(k)'
  BY <1>1, <1>4 DEF InSending, Carrier
<1> QED
  BY <1>1, <1>3, <1>6, <1>7, UnsentDelivery

LEMMA PenPeekDelivery ==
  ASSUME IInv, Delivery, PenPeek
  PROVE  Delivery'
<1> DEFINE next == /\ packetQueue.items # <<>>
                   /\ SamePen(Hand, packet[Head(packetQueue.items)])
<1>1. /\ sender.at = "pen"
      /\ sender' = [sender EXCEPT !.at = IF next THEN "penPoll" ELSE "send"]
      /\ UNCHANGED <<life, queues, current, moved, caller, terminated, seen>>
  BY DEF PenPeek
<1>2. next => ~HasKey(packet[Head(packetQueue.items)])
  BY DEF SamePen, HasKey
<1> HIDE DEF next
<1>3. /\ sender'.at = (IF next THEN "penPoll" ELSE "send")
      /\ sender'.holder = sender.holder
  BY <1>1, SenderHolder DEF SenderRecords
<1>4. SameHistory(seen') /\ (Live' => Live)
  BY <1>1, SameIsSame DEF Live
<1>5. ~HasKey(packet'[sender'.holder])
  BY <1>1, <1>3 DEF Delivery, InHand, Hand
<1>6. ~HasKey(Hand)' /\ NullIsReliable(Hand)'
  BY <1>5 DEF Hand, NullIsReliable
<1>7. sender'.at = "penPoll" => ~HasKey(packet'[Head(packetQueue'.items)])
  BY <1>1, <1>2, <1>3
<1>8. InHand'
  BY <1>3, <1>6, <1>7 DEF InHand
<1>9. \A k : ~InSending(k) /\ ~InSending(k)'
  BY <1>1, <1>5 DEF InSending, Carrier
<1> QED
  BY <1>1, <1>4, <1>8, <1>9, UnsentDelivery

LEMMA PenPollDelivery ==
  ASSUME IInv, Delivery, PenPoll
  PROVE  Delivery'
<1> DEFINE g == Head(packetQueue.items)
<1>1. /\ sender.at = "penPoll" /\ packet' = Emptied(sender.holder)
      /\ sender' = [sender EXCEPT !.at = "pen", !.holder = g]
      /\ packetQueue' = [packetQueue EXCEPT !.items = Tail(@)]
      /\ UNCHANGED <<life, batch, moved, caller, terminated, seen>>
  BY DEF PenPoll
<1>2. TypeOK /\ packetQueue.items # <<>>
  BY <1>1 DEF IInv, SenderOK
<1>3. g \in Holders /\ g # sender.holder
  BY <1>1, <1>2, TakenFacts
<1>4. ~HasKey(packet[g])
  BY <1>1 DEF Delivery, InHand
<1> HIDE DEF g
<1>5. sender'.at = "pen" /\ sender'.holder = g
  BY <1>1, SenderHolder DEF SenderRecords
<1>6. packet'[g] = packet[g]
  BY <1>1, <1>2, <1>3, SenderHolder, EmptiedFacts
<1>7. SameHistory(seen') /\ (Live' => Live)
  BY <1>1, SameIsSame DEF Live
<1>8. ~HasKey(packet'[sender'.holder])
  BY <1>4, <1>5, <1>6
<1>9. ~HasKey(Hand)'
  BY <1>8 DEF Hand
<1>10. InHand'
  BY <1>5, <1>9 DEF InHand
<1>11. \A k : ~InSending(k) /\ ~InSending(k)'
  BY <1>1, <1>5 DEF InSending
<1> QED
  BY <1>1, <1>7, <1>10, <1>11, UnsentDelivery

LEMMA AckDelivery ==
  ASSUME IInv, Delivery, WaitForAcks
  PROVE  Delivery'
<1>1. /\ sender.at = "ack" /\ sender' = [sender EXCEPT !.at = "text"]
      /\ UNCHANGED <<life, queues, current, moved, caller, terminated, seen>>
  BY DEF WaitForAcks
<1>2. sender'.at = "text" /\ sender'.holder = sender.holder
  BY <1>1, SenderHolder DEF SenderRecords
<1>3. SameHistory(seen') /\ (Live' => Live)
  BY <1>1, SameIsSame DEF Live
<1>4. ~HasKey(Hand)
  BY <1>1 DEF Delivery, InHand
<1>5. ~HasKey(Hand)'
  BY <1>1, <1>2, <1>4 DEF Hand
<1>6. InHand'
  BY <1>2, <1>5 DEF InHand
<1>7. \A k : ~InSending(k) /\ ~InSending(k)'
  BY <1>1, <1>2 DEF InSending
<1> QED
  BY <1>1, <1>3, <1>6, <1>7, UnsentDelivery

LEMMA TextDelivery ==
  ASSUME IInv, Delivery, SendText
  PROVE  Delivery'
<1> DEFINE p == [Hand EXCEPT !.val = <<Head(sender.text)>>]
<1>1. /\ sender.at = "text" /\ UNCHANGED <<life, batch, moved, caller>>
  BY DEF SendText
<1>2. \A k : ~InSending(k)
  BY <1>1 DEF InSending
<1>3. CASE Done("done") /\ terminated' = TRUE /\ UNCHANGED seen
  BY <1>1, <1>3, FailDelivery
<1>4. CASE Done("wait") /\ UNCHANGED <<terminated, seen>>
  <2>1. SameHistory(seen') /\ (Live' => Live)
    BY <1>1, <1>4, SameIsSame DEF Live
  <2>2. InHand' /\ \A k : ~InSending(k)'
    BY <1>4, DoneFacts, NothingInHand
  <2> QED
    BY <1>1, <1>2, <2>1, <2>2, UnsentDelivery
<1>5. CASE /\ AtCodePoint /\ seen' = Told(p) /\ UNCHANGED <<terminated, packet>>
           /\ sender' = [sender EXCEPT !.text = Tail(@)]
  <2>1. TypeOK /\ IsHistory(seen) /\ ~HasKey(Hand)
    BY <1>1 DEF IInv, Delivery, InHand
  <2>2. Hand \in Packets
    BY <1>1, <2>1, SenderHolder DEF TypeOK, HolderType, Hand
  <2>3. <<Head(sender.text)>> \in Seq(Int)
    BY <1>5 DEF AtCodePoint
  <2>4. p \in Packets /\ ~HasKey(p)
    BY <2>1, <2>2, <2>3 DEF Packets, HasKey
  <2> HIDE DEF p
  <2>5. SameHistory(seen')
    BY <1>5, <2>1, <2>4, ToldFacts
  <2>6. Live' => Live
    BY <1>1, <1>5, <2>5 DEF Live, SameHistory
  <2>7. sender'.at = "text" /\ sender'.holder = sender.holder
    BY <1>1, <1>5, SenderHolder DEF SenderRecords
  <2>8. ~HasKey(Hand)'
    BY <1>5, <2>1, <2>7 DEF Hand
  <2>9. InHand'
    BY <2>7, <2>8 DEF InHand
  <2>10. \A k : ~InSending(k)'
    BY <2>7 DEF InSending
  <2> QED
    BY <1>1, <1>2, <2>5, <2>6, <2>9, <2>10, UnsentDelivery
<1> QED
  BY <1>3, <1>4, <1>5 DEF SendText, sendInputPacket

(* No place is given back for what the sender carries.                     *)
LEMMA NoResetCarried ==
  ASSUME IInv, Live, NEW k \in Keys, Carries(k)
  PROVE  current[k].dirty /\ \A t \in Threads : ~Resets(t, k)
<1>1. OneCarrier(k)
  BY DEF IInv, Reserved, Live
<1> QED
  BY <1>1 DEF OneCarrier, Resets

LEMMA CutFacts ==
  ASSUME NEW x \in Int
  PROVE  Cut(x) \in Int16Min..Int16Max /\ Cut(x) \in Int
  BY InputAssumption DEF Cut, Clamp

(* A packet of motion is filled in with as much as fits.                   *)
LEMMA CutDelivery ==
  ASSUME IInv, Delivery, sender.at = "rel",
         NEW v, v = <<Cut(current[Rel].val[1]), Cut(current[Rel].val[2])>>,
         packet' = [packet EXCEPT ![sender.holder].val = v],
         current' = [current EXCEPT
                       ![Rel].val = <<current[Rel].val[1] - v[1],
                                      current[Rel].val[2] - v[2]>>],
         seen' = [seen EXCEPT !.motion = <<@[1] + v[1], @[2] + v[2]>>],
         sender' = [sender EXCEPT !.at = "relSend"],
         UNCHANGED <<life, moved, caller, terminated>>
  PROVE  Delivery'
<1> DEFINE d == current[Rel].val
           m == seen.motion
<1>1. /\ TypeOK /\ SenderOK /\ IsHistory(seen) /\ InHand /\ MotionConserved
      /\ GyroNullIsReliable
  BY DEF IInv, Delivery
<1>2. /\ current \in [Keys -> [val : Seq(Int), dirty : BOOLEAN]]
      /\ Rel \in Keys /\ d[1] \in Int /\ d[2] \in Int
      /\ m[1] \in Int /\ m[2] \in Int /\ moved[1] \in Int /\ moved[2] \in Int
  BY <1>1, ElementOfSeq DEF TypeOK, StateType, Keys, IsHistory
<1>3. /\ v[1] = Cut(d[1]) /\ v[2] = Cut(d[2])
      /\ v[1] \in Int16Min..Int16Max /\ v[2] \in Int16Min..Int16Max
      /\ v[1] \in Int /\ v[2] \in Int
  BY <1>2, CutFacts
<1>4. Fits(v)
  BY <1>3 DEF Fits
<1>5. /\ sender'.at = "relSend" /\ sender'.holder = sender.holder
      /\ sender'.key = sender.key /\ sender.key = Rel
  BY <1>1, SenderHolder DEF SenderRecords, SenderOK
<1>6. /\ Hand'.val = v /\ Hand'.kind = Hand.kind /\ Hand'.type = Hand.type
      /\ Hand'.num = Hand.num
  <2>1. sender.holder \in Holders /\ packet[sender.holder] \in Packets
    BY <1>1, SenderHolder DEF TypeOK, HolderType
  <2>2. packet'[sender.holder] = [packet[sender.holder] EXCEPT !.val = v]
    BY <1>1, <2>1 DEF TypeOK, HolderType
  <2>3. Hand' = [Hand EXCEPT !.val = v]
    BY <1>5, <2>2 DEF Hand
  <2> QED
    BY <2>1, <2>3 DEF Hand, Packets
<1>7. /\ HasKey(Hand)' <=> HasKey(Hand)
      /\ HasKey(Hand) => KeyOf(Hand)' = KeyOf(Hand)
  BY <1>6, KeyCases DEF HasKey
<1>8. /\ IsHistory(seen') /\ seen'.count = seen.count
      /\ seen'.flushed = seen.flushed /\ seen'.refused = seen.refused
      /\ seen'.last = seen.last /\ seen'.stray = seen.stray
      /\ seen'.motion = <<m[1] + v[1], m[2] + v[2]>>
  <2> DEFINE n == <<m[1] + v[1], m[2] + v[2]>>
  <2>1. n \in Int \X Int
    BY <1>2, <1>3
  <2>2. seen' = [seen EXCEPT !.motion = n]
    OBVIOUS
  <2> HIDE DEF n
  <2>3. DOMAIN seen' = DOMAIN seen /\ seen'.motion = n
        /\ \A f \in DOMAIN seen : f # "motion" => seen'[f] = seen[f]
    BY <1>1, <2>2 DEF IsHistory
  <2>4. seen'.motion = n /\ IsHistory(seen') /\ seen'.count = seen.count
        /\ seen'.flushed = seen.flushed /\ seen'.refused = seen.refused
        /\ seen'.last = seen.last /\ seen'.stray = seen.stray
    BY <1>1, <2>1, <2>3 DEF IsHistory
  <2> QED
    BY <2>4 DEF n
<1>9. /\ current'[Rel].val = <<d[1] - v[1], d[2] - v[2]>>
      /\ current'[Rel].dirty = current[Rel].dirty
      /\ \A k \in Keys : k # Rel => current'[k] = current[k]
  BY <1>2
<1>10. InHand'
  BY <1>1, <1>4, <1>5, <1>6, <1>7, <1>8 DEF InHand
<1>11. MotionConserved'
  <2>1. d[1] + m[1] = moved[1] /\ d[2] + m[2] = moved[2]
    BY <1>1, <1>2 DEF MotionConserved
  <2>2. /\ seen'.motion[1] = m[1] + v[1] /\ seen'.motion[2] = m[2] + v[2]
        /\ current'[Rel].val[1] = d[1] - v[1]
        /\ current'[Rel].val[2] = d[2] - v[2]
    BY <1>8, <1>9
  <2>3. /\ m[1] \in Int /\ m[2] \in Int /\ d[1] \in Int /\ d[2] \in Int
        /\ v[1] \in Int /\ v[2] \in Int
    BY <1>2, <1>3
  <2> HIDE DEF d, m
  <2>4. /\ seen'.motion[1] + current'[Rel].val[1] = moved[1]
        /\ seen'.motion[2] + current'[Rel].val[2] = moved[2]
    BY <2>1, <2>2, <2>3
  <2> QED
    BY <1>1, <1>8, <2>4 DEF MotionConserved
<1>12. GyroNullIsReliable'
  BY <1>1, <1>8 DEF GyroNullIsReliable
<1>13. ASSUME Live', NEW k \in Keys
       PROVE  UpToDate(k)'
  <2>1. Live /\ UpToDate(k)
    BY <1>8, <1>13 DEF Delivery, Live
  <2>2. ~InSending(k) /\ ~InSending(k)'
    BY <1>5 DEF InSending
  <2>3. CASE k = Rel
    <3>1. Carries(k)
      BY <1>5, <2>3 DEF Carries
    <3>2. current[k].dirty /\ \A t \in Threads : ~Resets(t, k)
      BY <2>1, <3>1, NoResetCarried
    <3>3. \A t \in Threads : ~Resets(t, k)'
      BY <3>2 DEF Resets, Reserves
    <3> QED
      BY <1>9, <2>3, <3>2, <3>3, UpToDateOpen
  <2>4. CASE k # Rel
    BY <1>8, <1>9, <2>1, <2>2, <2>4, UpToDateUnsent
  <2> QED
    BY <2>3, <2>4
<1> QED
  BY <1>8, <1>10, <1>11, <1>12, <1>13 DEF Delivery

(* The state of key k is taken into account, and is pending no longer.     *)
LEMMA FlushDelivery ==
  ASSUME IInv, Delivery, NEW k \in Keys, Carries(k),
         current' = [current EXCEPT ![k].dirty = FALSE], seen' = Flush(k),
         UNCHANGED <<life, moved, caller, terminated>>, InHand',
         \A j \in Keys : j # k => ~InSending(j)',
         Live => IF k = Rel THEN current[k].val = <<0, 0>>
                 ELSE InSending(k)' /\ Hand'.val = current[k].val
  PROVE  Delivery'
<1>1. /\ TypeOK /\ IsHistory(seen) /\ MotionConserved /\ GyroNullIsReliable
  BY DEF IInv, Delivery
<1>2. /\ \A j \in Keys : j # k => current'[j] = current[j]
      /\ \A j \in Keys : current'[j].val = current[j].val
      /\ Rel \in Keys
  BY <1>1 DEF TypeOK, StateType, Keys
<1>3. /\ IsHistory(seen') /\ seen'.count = seen.count
      /\ seen'.last = seen.last /\ seen'.motion = seen.motion
      /\ seen'.stray = seen.stray /\ seen'.flushed[k] = seen'.count[k]
      /\ \A j \in Keys : j # k => /\ seen'.flushed[j] = seen.flushed[j]
                                  /\ seen'.refused[j] = seen.refused[j]
  BY <1>1, FlushFacts
<1>4. MotionConserved' /\ GyroNullIsReliable'
  BY <1>1, <1>2, <1>3, SumKept
<1>5. ASSUME Live', NEW j \in Keys
      PROVE  UpToDate(j)'
  <2>1. Live /\ UpToDate(j)
    BY <1>3, <1>5 DEF Delivery, Live
  <2>2. CASE j = k
    <3>1. \A t \in Threads : ~Resets(t, k)
      BY <2>1, NoResetCarried
    <3>2. \A t \in Threads : ~Resets(t, k)'
      BY <3>1 DEF Resets, Reserves
    <3>3. CASE k = Rel
      <4>1. current'[k].val = <<0, 0>>
        BY <1>2, <2>1, <3>3
      <4>2. ~InSending(k)' \/ Hand'.val = current'[k].val
        <5>1. sender'.at = "send" => (HasKey(Hand)' => KeyOf(Hand)' # Rel)
          BY DEF InHand
        <5>2. InSending(k)' => sender'.at = "send" /\ HasKey(Hand)'
                               /\ KeyOf(Hand)' = k
          BY DEF InSending, Carrier, Hand
        <5> QED
          BY <3>3, <5>1, <5>2
      <4> QED
        BY <1>3, <2>2, <3>2, <3>3, <4>1, <4>2 DEF UpToDate
    <3>4. CASE k # Rel
      <4>1. InSending(k)' /\ Hand'.val = current'[k].val
        BY <1>2, <2>1, <3>4
      <4> QED
        BY <1>3, <2>2, <3>2, <3>4, <4>1 DEF UpToDate
    <3> QED
      BY <3>3, <3>4
  <2>3. CASE j # k
    <3>1. ~InSending(j)
      BY DEF Carries, InSending
    <3> QED
      BY <1>2, <1>3, <2>1, <2>3, <3>1, UpToDateUnsent
  <2> QED
    BY <2>2, <2>3
<1> QED
  BY <1>3, <1>4, <1>5 DEF Delivery

LEMMA SendRelDelivery ==
  ASSUME IInv, Delivery, SendRel
  PROVE  Delivery'
<1> DEFINE d == current[Rel].val
           v == <<Cut(d[1]), Cut(d[2])>>
<1>1. sender.at = "rel" /\ UNCHANGED <<life, moved, caller, terminated>>
  BY DEF SendRel
<1>2. CASE /\ packet' = [packet EXCEPT ![sender.holder].val = v]
           /\ current' = [current EXCEPT
                            ![Rel].val = <<d[1] - v[1], d[2] - v[2]>>]
           /\ seen' = [seen EXCEPT !.motion = <<@[1] + v[1], @[2] + v[2]>>]
           /\ sender' = [sender EXCEPT !.at = "relSend"]
  <2> HIDE DEF v
  <2>1. v = <<Cut(d[1]), Cut(d[2])>>
    BY DEF v
  <2> QED
    BY <1>1, <1>2, <2>1, CutDelivery
<1>3. CASE /\ d = <<0, 0>> /\ current' = [current EXCEPT ![Rel].dirty = FALSE]
           /\ seen' = Flush(Rel) /\ Done("wait")
  <2>1. Rel \in Keys /\ Carries(Rel)
    BY <1>1 DEF IInv, SenderOK, Carries, Keys
  <2>2. InHand' /\ \A k : ~InSending(k)'
    BY <1>3, DoneFacts, NothingInHand
  <2> QED
    BY <1>1, <1>3, <2>1, <2>2, FlushDelivery
<1> QED
  BY <1>2, <1>3 DEF SendRel

LEMMA RelSendDelivery ==
  ASSUME IInv, Delivery, RelSend
  PROVE  Delivery'
<1> DEFINE p == Hand
<1>1. sender.at = "relSend" /\ UNCHANGED <<life, batch, moved, caller>>
  BY DEF RelSend
<1>2. CASE Done("done") /\ terminated' = TRUE /\ UNCHANGED seen
  BY <1>1, <1>2, FailDelivery
<1>3. CASE /\ seen' = Told(p) /\ UNCHANGED <<terminated, packet>>
           /\ sender' = [sender EXCEPT !.at = "rel"]
  <2>1. /\ TypeOK /\ SenderOK /\ IsHistory(seen) /\ InHand /\ MotionConserved
        /\ GyroNullIsReliable /\ Rel \in Keys
    BY DEF IInv, Delivery, Keys
  <2>2. p \in Packets /\ sender.key = Rel
    BY <1>1, <2>1, SenderHolder DEF TypeOK, HolderType, Hand, SenderOK
  <2>3. HasKey(p) => KeyOf(p) = Rel /\ Fits(p.val)
    BY <1>1, <2>1, <2>2 DEF InHand
  <2>4. /\ IsHistory(seen') /\ seen'.count = seen.count
        /\ seen'.flushed = seen.flushed /\ seen'.refused = seen.refused
        /\ seen'.motion = seen.motion /\ seen'.stray = seen.stray
        /\ \A k \in Keys : IF HasKey(p) /\ KeyOf(p) = k
                           THEN /\ seen'.last[k].val = p.val
                                /\ seen'.last[k].reliable = p.reliable
                           ELSE seen'.last[k] = seen.last[k]
    BY <1>3, <2>1, <2>2, <2>3, ToldFacts
  <2>5. /\ sender'.at = "rel" /\ sender'.holder = sender.holder
        /\ sender'.key = sender.key
    BY <1>1, <1>3, SenderHolder DEF SenderRecords
  <2>6. Hand' = p
    BY <1>3, <2>5 DEF Hand
  <2>7. (HasKey(Hand)' <=> HasKey(p)) /\ KeyOf(Hand)' = KeyOf(p)
    BY <2>6
  <2>8. InHand'
    BY <1>1, <2>1, <2>4, <2>5, <2>7 DEF InHand
  <2> HIDE DEF p
  <2>9. MotionConserved'
    BY <1>1, <2>1, <2>3, <2>4 DEF MotionConserved, Fits
  <2>10. GyroNullIsReliable'
    BY <2>1, <2>3, <2>4 DEF GyroNullIsReliable, Rel
  <2>11. ASSUME Live', NEW k \in Keys
         PROVE  UpToDate(k)'
    <3>1. UpToDate(k)
      BY <1>1, <1>3, <2>4, <2>11 DEF Delivery, Live
    <3>2. ~InSending(k) /\ ~InSending(k)'
      BY <1>1, <2>5 DEF InSending
    <3>3. CASE k = Rel
      <4>1. \A t \in Threads : Resets(t, k)' <=> Resets(t, k)
        BY <1>1 DEF Resets, Reserves
      <4>2. Settled(k)' <=> Settled(k)
        BY <1>1, <2>4 DEF Settled
      <4> QED
        BY <1>1, <2>4, <3>1, <3>2, <3>3, <4>1, <4>2 DEF UpToDate
    <3>4. CASE k # Rel
      BY <1>1, <2>3, <2>4, <3>1, <3>2, <3>4, UpToDateUnsent
    <3> QED
      BY <3>3, <3>4
  <2> QED
    BY <2>4, <2>8, <2>9, <2>10, <2>11 DEF Delivery
<1> QED
  BY <1>2, <1>3 DEF RelSend, sendInputPacket

(* A packet is filled in with the latest state of key k.                   *)
LEMMA FilledDelivery ==
  ASSUME IInv, Delivery, NEW k \in Keys, Carries(k), k # Rel,
         sender.at \in {"abs", "motion"}, NEW r \in BOOLEAN, Fill(k, r),
         k[1] = "gyro" /\ current[k].val = << 0 >> => r
  PROVE  Delivery'
<1> DEFINE v == current[k].val
<1>1. /\ packet' = [packet EXCEPT ![sender.holder].val = v,
                                  ![sender.holder].reliable = r]
      /\ current' = [current EXCEPT ![k].dirty = FALSE]
      /\ seen' = Flush(k) /\ sender' = [sender EXCEPT !.at = "send"]
      /\ UNCHANGED <<life, moved, caller, terminated>>
  BY DEF Fill
<1>2. TypeOK /\ InHand /\ sender.key = k
  BY DEF IInv, Delivery, Carries
<1>3. /\ sender'.at = "send" /\ sender'.holder = sender.holder
  BY <1>1, SenderHolder DEF SenderRecords
<1>4. /\ Hand'.val = v /\ Hand'.reliable = r /\ Hand'.kind = Hand.kind
      /\ Hand'.type = Hand.type /\ Hand'.num = Hand.num
  <2>1. sender.holder \in Holders /\ packet[sender.holder] \in Packets
    BY <1>2, SenderHolder DEF TypeOK, HolderType
  <2> HIDE DEF v
  <2>2. packet'[sender.holder]
          = [packet[sender.holder] EXCEPT !.val = v, !.reliable = r]
    BY <1>1, <1>2, <2>1 DEF TypeOK, HolderType
  <2>3. Hand' = [Hand EXCEPT !.val = v, !.reliable = r]
    BY <1>3, <2>2 DEF Hand
  <2> QED
    BY <2>1, <2>3 DEF Hand, Packets
<1> HIDE DEF v
<1>5. HasKey(Hand)' <=> HasKey(Hand)
  BY <1>4 DEF HasKey
<1>6. HasKey(Hand) => KeyOf(Hand)' = k
  <2>1. HasKey(Hand) => KeyOf(Hand) = k
    BY <1>2 DEF InHand
  <2>2. HasKey(Hand) => KeyOf(Hand)' = KeyOf(Hand)
    BY <1>4, KeyCases DEF HasKey
  <2> QED
    BY <2>1, <2>2
<1>7. NullIsReliable(Hand)'
  BY <1>4, <1>5, <1>6 DEF NullIsReliable, v
<1>8. InHand'
  BY <1>3, <1>5, <1>6, <1>7 DEF InHand
<1>9. \A j : InSending(j)' <=> HasKey(Hand) /\ k = j
  BY <1>3, <1>5, <1>6 DEF InSending, Carrier, Hand
<1>10. Live => HasKey(Hand)
  BY <1>2 DEF InHand, Live
<1> QED
  BY <1>1, <1>4, <1>8, <1>9, <1>10, FlushDelivery DEF v

LEMMA FillsDelivery ==
  ASSUME IInv, Delivery, FillAbs \/ FillMotion
  PROVE  Delivery'
<1>1. SenderOK /\ InHand
  BY DEF IInv, Delivery
<1>2. CASE FillAbs
  <2>1. /\ sender.at = "abs" /\ Fill(Abs, TRUE) /\ Abs \in Keys /\ Carries(Abs)
        /\ Abs # Rel /\ Abs[1] # "gyro"
    BY <1>1, <1>2 DEF FillAbs, SenderOK, Carries, Keys, Abs, Rel
  <2> QED
    BY <2>1, FilledDelivery
<1>3. CASE FillMotion
  <2> DEFINE k == sender.key
             r == k[1] = "gyro" /\ current[k].val = <<0>>
  <2>1. /\ sender.at = "motion" /\ Fill(k, r) /\ k \in Keys /\ Carries(k)
    BY <1>1, <1>3 DEF FillMotion, SenderOK, Carries
  <2>2. k \in Sensors
    BY <1>1, <2>1 DEF InHand
  <2>3. k # Rel
    BY <2>2 DEF Sensors, SensorTypes, Rel
  <2>4. r \in BOOLEAN /\ (k[1] = "gyro" /\ current[k].val = <<0>> => r)
    OBVIOUS
  <2> HIDE DEF r
  <2> QED
    BY <2>1, <2>3, <2>4, FilledDelivery
<1> QED
  BY <1>2, <1>3

LEMMA SenderDelivery ==
  ASSUME IInv, Delivery, inputSendThreadProc
  PROVE  Delivery'
  BY TakeDelivery, SendDelivery, LatchDelivery, SendRelDelivery,
     RelSendDelivery, FillsDelivery, PenPeekDelivery, PenPollDelivery,
     TextDelivery DEF inputSendThreadProc

(***************************************************************************)
(* Start and stop                                                          *)
(***************************************************************************)

(* A connection has no history when it starts.                             *)
LEMMA NothingFacts ==
  /\ IsHistory(NothingSeen)
  /\ NothingSeen.motion = <<0, 0>>
  /\ \A k \in Keys :
       /\ NothingSeen.count[k] = 0 /\ NothingSeen.flushed[k] = 0
       /\ NothingSeen.last[k].val = ZeroOf(k) /\ NothingSeen.last[k].reliable
<1> DEFINE l == [k \in Keys |-> [val |-> ZeroOf(k), reliable |-> TRUE]]
<1>1. \A k : ZeroOf(k) \in Seq(Int)
  BY DEF ZeroOf
<1>2. l \in [Keys -> [val : Seq(Int), reliable : BOOLEAN]]
  BY <1>1
<1>3. \A k \in Keys : l[k].val = ZeroOf(k) /\ l[k].reliable
  OBVIOUS
<1>4. NothingSeen.last = l
  BY DEF NothingSeen
<1> HIDE DEF l
<1>5. /\ NothingSeen.count = [k \in Keys |-> 0]
      /\ NothingSeen.flushed = [k \in Keys |-> 0]
      /\ NothingSeen.refused = [k \in Keys |-> FALSE]
      /\ NothingSeen.motion = <<0, 0>> /\ NothingSeen.stray = FALSE
  BY DEF NothingSeen
<1>6. {"count", "flushed", "refused", "last", "motion", "stray"}
        \subseteq DOMAIN NothingSeen
  BY DEF NothingSeen
<1>7. IsHistory(NothingSeen)
  <2>1. /\ NothingSeen.count \in [Keys -> Nat]
        /\ NothingSeen.flushed \in [Keys -> Nat]
    BY <1>5
  <2>2. NothingSeen.refused \in [Keys -> BOOLEAN]
    BY <1>5
  <2>3. NothingSeen.motion \in Int \X Int /\ NothingSeen.stray \in BOOLEAN
    <3>1. <<0, 0>> \in Int \X Int /\ FALSE \in BOOLEAN
      OBVIOUS
    <3> QED
      BY <1>5, <3>1, Zenon
  <2>4. NothingSeen.last \in [Keys -> [val : Seq(Int), reliable : BOOLEAN]]
    BY <1>2, <1>4
  <2> QED
    BY <1>6, <2>1, <2>2, <2>3, <2>4 DEF IsHistory
<1> QED
  BY <1>3, <1>4, <1>5, <1>7

LEMMA ZeroFacts ==
  /\ Rel \in Keys /\ ZeroOf(Rel) = <<0, 0>>
  /\ \A i \in 1..2 : /\ <<0, 0>>[i] = 0
                     /\ <<0, 0>>[i] \in Int16Min..Int16Max
  BY InputAssumption DEF Keys, ZeroOf

LEMMA InitDelivery == Init => Delivery
<1> SUFFICES ASSUME Init PROVE Delivery
  OBVIOUS
<1>1. /\ seen = NothingSeen /\ moved = <<0, 0>> /\ main = "off"
      /\ sender.at = "none"
  BY NoSenderFacts DEF Init
<1>2. current[Rel].val = <<0, 0>>
  BY ZeroFacts DEF Init
<1>3. InHand
  BY <1>1 DEF InHand
<1>4. MotionConserved
  BY <1>1, <1>2, NothingFacts, ZeroFacts DEF MotionConserved
<1>5. GyroNullIsReliable
  BY <1>1, NothingFacts DEF GyroNullIsReliable
<1>6. ~Live
  BY <1>1 DEF Live
<1> QED
  BY <1>1, <1>3, <1>4, <1>5, <1>6, NothingFacts DEF Delivery

LEMMA InitializeDelivery ==
  ASSUME IInv, initializeInputStream
  PROVE  Delivery'
<1>1. /\ seen' = NothingSeen /\ moved' = <<0, 0>> /\ main = "off"
      /\ current' = [k \in Keys |-> [val |-> ZeroOf(k), dirty |-> FALSE]]
      /\ sender' = sender /\ caller' = caller
  BY DEF initializeInputStream
<1>2. sender'.at = "none" /\ \A t \in Threads : caller'[t].at = "idle"
  BY <1>1, NoSenderFacts DEF IInv, Lifecycle, NobodyCalls, Idle
<1>3. \A k \in Keys : current'[k].val = ZeroOf(k)
  BY <1>1
<1>4. InHand' /\ \A k : ~InSending(k)'
  BY <1>2, NothingInHand
<1>5. MotionConserved'
  BY <1>1, <1>3, NothingFacts, ZeroFacts DEF MotionConserved
<1>6. GyroNullIsReliable'
  BY <1>1, NothingFacts DEF GyroNullIsReliable
<1>7. ASSUME NEW k \in Keys
      PROVE  UpToDate(k)'
  <2>1. \A t \in Threads : ~Resets(t, k)'
    BY <1>2 DEF Resets
  <2>2. seen'.flushed[k] = seen'.count[k]
        /\ seen'.last[k].val = current'[k].val
    BY <1>1, <1>3, NothingFacts
  <2>3. k = Rel => current'[k].val = <<0, 0>>
    BY <1>3, ZeroFacts
  <2> QED
    BY <1>4, <2>1, <2>2, <2>3 DEF UpToDate
<1> QED
  BY <1>1, <1>4, <1>5, <1>6, <1>7, NothingFacts DEF Delivery

LEMMA StartDelivery ==
  ASSUME IInv, Delivery, startInputStream
  PROVE  Delivery'
<1>1. /\ main = "start"
      /\ UNCHANGED <<queues, current, moved, caller, terminated, seen>>
  BY DEF startInputStream
<1>2. sender.at = "none" /\ sender \in SenderRecords
  BY <1>1, NoSenderFacts DEF IInv, Lifecycle
<1>3. sender'.at \in {"none", "wait"}
  BY <1>2 DEF startInputStream, SenderRecords
<1>4. SameHistory(seen') /\ (Live' => Live)
  BY <1>1, SameIsSame DEF Live
<1>5. InHand' /\ \A k : ~InSending(k)'
  BY <1>3, NothingInHand
<1>6. \A k : ~InSending(k)
  BY <1>2 DEF InSending
<1> QED
  BY <1>1, <1>4, <1>5, <1>6, UnsentDelivery

(* The other steps of the thread that starts and stops the stream          *)
LEMMA LifeDelivery ==
  ASSUME IInv, Delivery,
         UNCHANGED <<packet, current, moved, sender, terminated, seen>>,
         packetQueue'.items = packetQueue.items, main # "off", NoNewReset
  PROVE  Delivery'
<1>1. SameHistory(seen') /\ (Live' => Live)
  BY SameIsSame DEF Live
<1> QED
  BY <1>1, QuietDelivery

LEMMA RunDelivery ==
  ASSUME IInv, Delivery, Enable \/ sendEnableHaptics \/ stopInputStream
                           \/ StopShutdown \/ StopDrain \/ StopJoin
  PROVE  Delivery'
<1>1. /\ UNCHANGED <<packet, current, moved, sender, terminated, seen>>
      /\ main # "off"
  BY DEF Enable, sendEnableHaptics, stopInputStream, StopShutdown, StopDrain,
         StopJoin
<1>2. packetQueue'.items = packetQueue.items
  <2>1. CASE packetQueue' = packetQueue
    BY <2>1
  <2>2. CASE packetQueue' = [packetQueue EXCEPT !.draining = TRUE]
    BY <2>2 DEF IInv, TypeOK, HolderType, IsQueue
  <2> QED
    BY <2>1, <2>2 DEF Enable, sendEnableHaptics, stopInputStream, StopShutdown,
                      StopDrain, StopJoin
<1>3. NoNewReset
  <2>1. CASE caller' = caller
    BY <2>1 DEF NoNewReset
  <2>2. CASE Go("main", "alloc", "offer", [NoPacket EXCEPT !.kind = "haptics"])
    BY <2>2, GoFacts DEF IInv, Threads
  <2> QED
    BY <2>1, <2>2 DEF Enable, sendEnableHaptics, stopInputStream, StopShutdown,
                      StopDrain, StopJoin
<1> QED
  BY <1>1, <1>2, <1>3, LifeDelivery

LEMMA DestroyDelivery ==
  ASSUME Delivery, destroyInputStream
  PROVE  Delivery'
<1>1. /\ main' = "off" /\ sender' = NoSender
      /\ UNCHANGED <<current, moved, seen>>
  BY DEF destroyInputStream
<1>2. InHand'
  BY <1>1, NoSenderFacts, NothingInHand
<1>3. MotionConserved' /\ GyroNullIsReliable'
  BY <1>1, SumKept DEF Delivery
<1>4. ~Live' /\ IsHistory(seen')
  BY <1>1 DEF Live, Delivery
<1> QED
  BY <1>2, <1>3, <1>4 DEF Delivery

(***************************************************************************)
(* The theorems                                                            *)
(***************************************************************************)

LEMMA NextDelivery == IInv /\ Delivery /\ [Next]_vars => Delivery'
<1> SUFFICES ASSUME IInv, Delivery, [Next]_vars PROVE Delivery'
  OBVIOUS
<1>1. CASE UNCHANGED vars
  <2>1. UNCHANGED <<packet, packetQueue, current, moved, caller, sender, main,
                    terminated, seen>>
    BY <1>1 DEF vars
  <2>2. NoNewReset /\ SameHistory(seen') /\ (Live' => Live)
    BY <2>1, SameIsSame DEF NoNewReset, Live
  <2> QED
    BY <2>1, <2>2, QuietDelivery
<1>2. CASE Begin
  BY <1>2, InitializeDelivery, StartDelivery, RunDelivery DEF Begin
<1>3. CASE Rundown
  BY <1>3, RunDelivery, DestroyDelivery DEF Rundown
<1> QED
  BY <1>1, <1>2, <1>3, CallDelivery, InCallDelivery, SenderDelivery,
     AckDelivery DEF Next

(* With the carriers of InputStream_proofs, what the sender has in hand is *)
(* right, and what is not pending has gone, in every state.                *)
THEOREM DeliveryInvariant == Spec => []Delivery
  BY InitDelivery, NextDelivery, InductiveInvariant, PTL DEF Spec

LEMMA SettledIsSent == Delivery => LatestIsSent
<1> SUFFICES ASSUME Delivery, NEW k \in Keys,
                    main # "off" /\ ~terminated /\ ~seen.stray,
                    ~current[k].dirty /\ ~seen.refused[k]
             PROVE  /\ seen.flushed[k] = seen.count[k]
                    /\ IF k = Rel THEN current[k].val = <<0, 0>>
                       ELSE \/ sender.at = "send" /\ Carrier(sender.holder, k)
                            \/ seen.last[k].val = current[k].val
  BY DEF LatestIsSent
<1>1. UpToDate(k) /\ Settled(k)
  BY DEF Delivery, Live, Settled
<1> QED
  BY <1>1 DEF UpToDate, InSending

(* The host follows the state of the devices: no motion of the mouse is    *)
(* lost or doubled by batching it, and each packet fits                    *)
(* (InputStream.c:384); when no update is pending or was refused, the last *)
(* one has been sent (InputStream.c:425, 462 and 542); and the null state  *)
(* of a gyro was sent reliably (InputStream.c:529).                        *)
THEOREM HostStateFollows == Spec => []StateReachesHost
<1>1. Delivery => StateReachesHost
  BY SettledIsSent DEF Delivery, StateReachesHost
<1> QED
  BY <1>1, DeliveryInvariant, PTL
=============================================================================
