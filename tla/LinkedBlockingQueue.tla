------------------------- MODULE LinkedBlockingQueue -------------------------
(***************************************************************************)
(* The mutex-and-condition-variable queue every pair of threads of the     *)
(* client communicates through (LinkedBlockingQueue.c).                    *)
(*                                                                         *)
(* An operator M_X is X with a plausible defect, which shows that the      *)
(* properties notice it.  The specification does not use it.               *)
(*                                                                         *)
(* A critical section is one step.  A function that signals does so after  *)
(* it released the mutex, so the signal is a step of its own (pc "signal"),*)
(* and so are each return of pthread_cond_wait and each free() of a list   *)
(* of entries that LbqFlushQueueItems or LbqDestroyLinkedBlockingQueue     *)
(* handed to its caller.  Every thread may call every function, except     *)
(* that a queue has only one thread that waits on it, as in the code.      *)
(*                                                                         *)
(* malloc() and free() of entries are modelled by the set `heap'.  The     *)
(* flink of an entry that is not in the heap keeps its last value, which   *)
(* stands for the arbitrary contents of fresh memory.                      *)
(***************************************************************************)
EXTENDS Naturals, Sequences, FiniteSets

CONSTANTS
  Entries,        \* the LINKED_BLOCKING_QUEUE_ENTRYs that can be allocated
  Threads,        \* the threads that use the queue
  Waiter,         \* the one that calls LbqWaitForQueueElement
  sizeBound,      \* as passed to LbqInitializeLinkedBlockingQueue
  MaxUserWakes,   \* bound on LbqSignalQueueUserWake calls in one life
  NULL

ASSUME LbqAssumption ==
  /\ Waiter \in Threads
  /\ NULL \notin Entries
  /\ sizeBound \in Nat \ {0}
  /\ MaxUserWakes \in Nat

VARIABLES
  head, tail, currentSize,              \* LINKED_BLOCKING_QUEUE
  shutdown, draining, pendingUserWake,
  everOffered,    \* lifetimeSize # 0
  flink,          \* flink[e]: entry e's forward link
  heap,           \* the allocated entries
  data,           \* data[t]: the entry Poll or Wait gave t, not yet freed
  chain,          \* chain[t]: the list t walks, freeing each entry
  pc,             \* where thread t is
  destroyed,      \* LbqDestroyLinkedBlockingQueue was called
  wakes,          \* LbqSignalQueueUserWake calls so far
  waitResult,     \* what Waiter's last LbqWaitForQueueElement returned
  items,          \* history: the queued entries in the order of their offers
  flushed         \* history: the entries t still has to free, in order

flags == <<shutdown, draining, pendingUserWake, wakes>>
list  == <<head, tail, currentSize, everOffered, flink, items>>
walk  == <<chain, flushed>>
vars  == <<list, flags, heap, data, walk, pc, destroyed, waitResult>>

SUCCESS     == "LBQ_SUCCESS"
INTERRUPTED == "LBQ_INTERRUPTED"
USER_WAKE   == "LBQ_USER_WAKE"

Ptr == Entries \cup {NULL}

Init ==
  /\ head = NULL /\ tail = NULL /\ currentSize = 0
  /\ shutdown = FALSE /\ draining = FALSE /\ pendingUserWake = FALSE
  /\ everOffered = FALSE
  /\ flink \in [Entries -> Ptr]
  /\ heap = {}
  /\ data = [t \in Threads |-> NULL]
  /\ chain = [t \in Threads |-> NULL]
  /\ pc = [t \in Threads |-> "idle"]
  /\ destroyed = FALSE
  /\ wakes = 0
  /\ waitResult = NULL
  /\ items = <<>>
  /\ flushed = [t \in Threads |-> <<>>]

-----------------------------------------------------------------------------
(* Thread t may call into the queue.  What it took before is disposed of.  *)
CanCall(t) == ~destroyed /\ pc[t] = "idle" /\ data[t] = NULL

Goto(t, l) == pc' = [pc EXCEPT ![t] = l]

(* The critical section ends with PltSignalConditionVariable iff `signals' *)
LeaveWith(t, signals) == Goto(t, IF signals THEN "signal" ELSE "idle")

-----------------------------------------------------------------------------
M_QueueFull == currentSize > sizeBound

QueueFull == currentSize = sizeBound

M_LinkAtTail(e) ==
  flink' = [x \in Entries |-> IF x = tail /\ head # NULL THEN e ELSE flink[x]]

(* entry->flink = NULL, and the last entry, if any, links to entry e.      *)
LinkAtTail(e) ==
  flink' = [x \in Entries |-> IF x = e THEN NULL
                              ELSE IF x = tail /\ head # NULL THEN e
                              ELSE flink[x]]

(* LbqOfferQueueItem.  An offer that is refused (LBQ_INTERRUPTED,          *)
(* LBQ_BOUND_EXCEEDED) leaves the queue as it is, and its caller frees the *)
(* entry or offers it again: it changes no state.                          *)
LbqOfferQueueItem(t, e) ==
  /\ CanCall(t)
  /\ e \notin heap
  /\ ~shutdown /\ ~draining
  /\ ~QueueFull
  /\ heap' = heap \cup {e}
  /\ head' = IF head = NULL THEN e ELSE head
  /\ LinkAtTail(e)
  /\ LeaveWith(t, head = NULL)
  /\ tail' = e
  /\ currentSize' = currentSize + 1
  /\ everOffered' = TRUE
  /\ items' = Append(items, e)
  /\ UNCHANGED <<flags, data, walk, destroyed, waitResult>>

M_PopTo(t) ==
  /\ head' = flink[head]
  /\ tail' = tail
  /\ currentSize' = currentSize - 1
  /\ data' = [data EXCEPT ![t] = head]
  /\ items' = Tail(items)
  /\ UNCHANGED <<everOffered, flink, heap>>

(* The unlinking that LbqPollQueueElement and LbqWaitForQueueElement share *)
PopTo(t) ==
  /\ head' = flink[head]
  /\ tail' = IF flink[head] = NULL THEN NULL ELSE tail
  /\ currentSize' = currentSize - 1
  /\ data' = [data EXCEPT ![t] = head]
  /\ items' = Tail(items)
  /\ UNCHANGED <<everOffered, flink, heap>>

M_LbqPollQueueElement(t) ==
  /\ CanCall(t)
  /\ head # NULL
  /\ PopTo(t)
  /\ UNCHANGED <<flags, walk, pc, destroyed, waitResult>>

(* LbqPollQueueElement.  Its other outcomes (LBQ_INTERRUPTED and           *)
(* LBQ_NO_ELEMENT) change no state; neither do LbqPeekQueueElement and     *)
(* LbqGetItemCount.                                                        *)
LbqPollQueueElement(t) ==
  /\ CanCall(t)
  /\ ~shutdown
  /\ head # NULL
  /\ PopTo(t)
  /\ UNCHANGED <<flags, walk, pc, destroyed, waitResult>>

WakeCondition == head # NULL \/ draining \/ shutdown \/ pendingUserWake

(* LbqWaitForQueueElement: entered, or back from pthread_cond_wait with    *)
(* the mutex held again.                                                   *)
InWait == pc[Waiter] = "awake" \/ CanCall(Waiter)

WaitSleeps ==
  /\ InWait
  /\ ~WakeCondition
  /\ Goto(Waiter, "asleep")
  /\ UNCHANGED <<list, flags, heap, data, walk, destroyed, waitResult>>

WaitInterrupted ==
  /\ InWait
  /\ shutdown \/ (~pendingUserWake /\ draining /\ head = NULL)
  /\ Goto(Waiter, "idle")
  /\ waitResult' = INTERRUPTED
  /\ UNCHANGED <<list, flags, heap, data, walk, destroyed>>

M_WaitUserWake ==
  /\ InWait
  /\ ~shutdown /\ pendingUserWake
  /\ Goto(Waiter, "idle")
  /\ waitResult' = USER_WAKE
  /\ UNCHANGED <<list, flags, heap, data, walk, destroyed>>

WaitUserWake ==
  /\ InWait
  /\ ~shutdown /\ pendingUserWake
  /\ pendingUserWake' = FALSE
  /\ Goto(Waiter, "idle")
  /\ waitResult' = USER_WAKE
  /\ UNCHANGED <<list, shutdown, draining, wakes, heap, data, walk, destroyed>>

WaitSucceeds ==
  /\ InWait
  /\ ~shutdown /\ ~pendingUserWake
  /\ head # NULL
  /\ PopTo(Waiter)
  /\ Goto(Waiter, "idle")
  /\ waitResult' = SUCCESS
  /\ UNCHANGED <<flags, walk, destroyed>>

LbqWaitForQueueElement ==
  WaitSleeps \/ WaitInterrupted \/ WaitUserWake \/ WaitSucceeds

-----------------------------------------------------------------------------
M_LbqSignalQueueShutdown(t) ==
  /\ CanCall(t)
  /\ ~shutdown
  /\ shutdown' = TRUE
  /\ LeaveWith(t, FALSE)
  /\ UNCHANGED <<list, draining, pendingUserWake, wakes, heap, data, walk,
                 destroyed, waitResult>>

(* A repeated call of the next two changes no flag and sends one more      *)
(* signal, which SpuriousWakeup stands for.                                *)
LbqSignalQueueShutdown(t) ==
  /\ CanCall(t)
  /\ ~shutdown
  /\ shutdown' = TRUE
  /\ LeaveWith(t, TRUE)
  /\ UNCHANGED <<list, draining, pendingUserWake, wakes, heap, data, walk,
                 destroyed, waitResult>>

M_LbqSignalQueueDrain(t) ==
  /\ CanCall(t)
  /\ ~draining
  /\ draining' = TRUE
  /\ LeaveWith(t, FALSE)
  /\ UNCHANGED <<list, shutdown, pendingUserWake, wakes, heap, data, walk,
                 destroyed, waitResult>>

LbqSignalQueueDrain(t) ==
  /\ CanCall(t)
  /\ ~draining
  /\ draining' = TRUE
  /\ LeaveWith(t, TRUE)
  /\ UNCHANGED <<list, shutdown, pendingUserWake, wakes, heap, data, walk,
                 destroyed, waitResult>>

LbqSignalQueueUserWake(t) ==
  /\ CanCall(t)
  /\ wakes < MaxUserWakes
  /\ wakes' = wakes + 1
  /\ pendingUserWake' = TRUE
  /\ LeaveWith(t, TRUE)
  /\ UNCHANGED <<list, shutdown, draining, heap, data, walk, destroyed,
                 waitResult>>

(* PltSignalConditionVariable, after the unlock: wakes a sleeping waiter.  *)
PltSignalConditionVariable(t) ==
  /\ pc[t] = "signal"
  /\ pc' = [u \in Threads |->
              IF u = t THEN "idle"
              ELSE IF pc[u] = "asleep" THEN "awake" ELSE pc[u]]
  /\ UNCHANGED <<list, flags, heap, data, walk, destroyed, waitResult>>

(* pthread_cond_wait may return without a signal.                          *)
SpuriousWakeup ==
  /\ pc[Waiter] = "asleep"
  /\ Goto(Waiter, "awake")
  /\ UNCHANGED <<list, flags, heap, data, walk, destroyed, waitResult>>

-----------------------------------------------------------------------------
(* t receives the list that starts at head and begins to walk it.          *)
TakeChain(t) ==
  /\ chain' = [chain EXCEPT ![t] = head]
  /\ flushed' = [flushed EXCEPT ![t] = items]
  /\ items' = <<>>
  /\ Goto(t, "freeing")

M_LbqFlushQueueItems(t) ==
  /\ CanCall(t)
  /\ head # NULL
  /\ chain' = [chain EXCEPT ![t] = head]
  /\ flushed' = [flushed EXCEPT ![t] = items]
  /\ Goto(t, "freeing")
  /\ UNCHANGED <<list, flags, heap, data, destroyed, waitResult>>

LbqFlushQueueItems(t) ==
  /\ CanCall(t)
  /\ head # NULL
  /\ TakeChain(t)
  /\ head' = NULL /\ tail' = NULL /\ currentSize' = 0
  /\ UNCHANGED <<everOffered, flink, flags, heap, data, destroyed, waitResult>>

(* The callers join the threads first, and LC_ASSERT what the second       *)
(* conjunct says.  The structure itself is left as it is.                  *)
LbqDestroyLinkedBlockingQueue(t) ==
  /\ ~destroyed
  /\ shutdown \/ draining \/ ~everOffered
  /\ \A u \in Threads : pc[u] = "idle" /\ data[u] = NULL
  /\ TakeChain(t)
  /\ destroyed' = TRUE
  /\ UNCHANGED <<head, tail, currentSize, everOffered, flink, flags, heap,
                 data, waitResult>>

(* One iteration of freeBasicLbqList, freeDecodeUnitList, freePacketList   *)
FreeChainEntry(t) ==
  /\ pc[t] = "freeing"
  /\ chain[t] # NULL
  /\ chain' = [chain EXCEPT ![t] = flink[chain[t]]]
  /\ heap' = heap \ {chain[t]}
  /\ flushed' = [flushed EXCEPT ![t] = Tail(flushed[t])]
  /\ UNCHANGED <<list, flags, data, pc, destroyed, waitResult>>

FreeChainDone(t) ==
  /\ pc[t] = "freeing"
  /\ chain[t] = NULL
  /\ Goto(t, "idle")
  /\ UNCHANGED <<list, flags, heap, data, walk, destroyed, waitResult>>

(* The consumer frees the entry it took.                                   *)
FreeData(t) ==
  /\ data[t] # NULL
  /\ pc[t] = "idle"
  /\ heap' = heap \ {data[t]}
  /\ data' = [data EXCEPT ![t] = NULL]
  /\ UNCHANGED <<list, flags, walk, pc, destroyed, waitResult>>

(* LbqInitializeLinkedBlockingQueue for the next connection: memset to 0.  *)
LbqInitializeLinkedBlockingQueue ==
  /\ destroyed
  /\ \A u \in Threads : pc[u] = "idle"
  /\ head' = NULL /\ tail' = NULL /\ currentSize' = 0
  /\ shutdown' = FALSE /\ draining' = FALSE /\ pendingUserWake' = FALSE
  /\ everOffered' = FALSE /\ wakes' = 0 /\ destroyed' = FALSE
  /\ waitResult' = NULL
  /\ UNCHANGED <<flink, items, heap, data, walk, pc>>

-----------------------------------------------------------------------------
ThreadStep(t) ==
  \/ \E e \in Entries : LbqOfferQueueItem(t, e)
  \/ LbqPollQueueElement(t)
  \/ LbqSignalQueueShutdown(t)
  \/ LbqSignalQueueDrain(t)
  \/ LbqSignalQueueUserWake(t)
  \/ PltSignalConditionVariable(t)
  \/ LbqFlushQueueItems(t)
  \/ LbqDestroyLinkedBlockingQueue(t)
  \/ FreeChainEntry(t)
  \/ FreeChainDone(t)
  \/ FreeData(t)

Next ==
  \/ \E t \in Threads : ThreadStep(t)
  \/ LbqWaitForQueueElement
  \/ SpuriousWakeup
  \/ LbqInitializeLinkedBlockingQueue

Spec == Init /\ [][Next]_vars

(* A thread inside a function goes on, and the thread that waits on the    *)
(* queue does so in a loop.  Nobody has to call anything else, and a       *)
(* spurious wakeup never has to happen.                                    *)
Fairness ==
  /\ WF_vars(LbqWaitForQueueElement)
  /\ \A t \in Threads :
       WF_vars(PltSignalConditionVariable(t) \/ FreeChainEntry(t)
               \/ FreeChainDone(t) \/ FreeData(t))

FairSpec == Spec /\ Fairness

-----------------------------------------------------------------------------
(* Properties                                                              *)

(* Every variable of the queue and of its users keeps its type; in         *)
(* particular currentSize never leaves 0..sizeBound.                       *)
TypeOK ==
  /\ head \in Ptr /\ tail \in Ptr
  /\ currentSize \in 0..sizeBound
  /\ shutdown \in BOOLEAN /\ draining \in BOOLEAN
  /\ pendingUserWake \in BOOLEAN /\ everOffered \in BOOLEAN
  /\ flink \in [Entries -> Ptr]
  /\ heap \in SUBSET Entries
  /\ data \in [Threads -> Ptr]
  /\ chain \in [Threads -> Ptr]
  /\ pc \in [Threads -> {"idle", "signal", "asleep", "awake", "freeing"}]
  /\ destroyed \in BOOLEAN
  /\ wakes \in 0..MaxUserWakes
  /\ waitResult \in {NULL, SUCCESS, INTERRUPTED, USER_WAKE}
  /\ items \in Seq(Entries)
  /\ flushed \in [Threads -> Seq(Entries)]

(* Starting at p, the flinks lead through exactly the entries of s, in     *)
(* order, to NULL.                                                         *)
IsList(p, s) ==
  /\ s = <<>> => p = NULL
  /\ s # <<>> => p = s[1] /\ flink[s[Len(s)]] = NULL
  /\ \A i \in 1..Len(s) - 1 : flink[s[i]] = s[i + 1]

InSeq(e, s) == \E i \in 1..Len(s) : s[i] = e

(* Whatever was offered, polled, waited for and flushed before, the links  *)
(* in memory hold exactly the entries that were offered and not removed,   *)
(* in the order of their offers, and tail and currentSize agree with them: *)
(* the LC_ASSERTs of LinkedBlockingQueue.c:29, 105, 112, 185 and 236.      *)
ListIntegrity ==
  ~destroyed =>
    /\ IsList(head, items)
    /\ tail = IF items = <<>> THEN NULL ELSE items[Len(items)]
    /\ currentSize = Len(items)

(* A list that was handed out by a flush is, while its new owner walks and *)
(* frees it, not disturbed by what other threads do to the queue: the walk *)
(* visits exactly the entries that were queued and ends.                   *)
ChainIntegrity ==
  \A t \in Threads : IsList(chain[t], flushed[t])

Distinct(s) == \A i, j \in 1..Len(s) : s[i] = s[j] => i = j

Holds(t, e) == data[t] = e \/ InSeq(e, flushed[t])

(* Every allocated entry has exactly one owner - the queue, the thread     *)
(* that took it, or the thread that flushed it - and every owned entry is  *)
(* allocated: none is leaked, freed twice or used after it was freed.      *)
EntryOwnership ==
  /\ heap = {e \in Entries : InSeq(e, items) \/ \E t \in Threads : Holds(t, e)}
  /\ Distinct(items)
  /\ \A t \in Threads :
       /\ Distinct(flushed[t])
       /\ data[t] # NULL => flushed[t] = <<>>
  /\ \A e \in Entries : \A t \in Threads : Holds(t, e) =>
       /\ ~InSeq(e, items)
       /\ \A u \in Threads : Holds(u, e) => u = t

(* The waiter never sleeps through a reason to wake: if it sleeps while    *)
(* there is one, some thread still has its signal to send.  This is what   *)
(* makes "only signal when the queue was empty" (LinkedBlockingQueue.c:124)*)
(* and signalling after the unlock sound.                                  *)
NoLostWakeup ==
  pc[Waiter] = "asleep" /\ WakeCondition
    => \E t \in Threads : pc[t] = "signal"

(* Seen from outside, the queue is the bounded FIFO queue of BoundedQueue. *)
Phase == IF shutdown THEN "closed" ELSE IF draining THEN "draining" ELSE "open"

BQ == INSTANCE BoundedQueue
        WITH Items <- Entries, Bound <- sizeBound, None <- NULL,
             q <- items, phase <- Phase, got <- data

ImplementsBoundedQueue == BQ!Spec

(* A queued entry eventually leaves the queue, unless the queue is shut    *)
(* down: the waiter is woken for it and user wakes only delay it.          *)
EveryEntryLeaves ==
  \A e \in Entries : InSeq(e, items) ~> (~InSeq(e, items) \/ shutdown)

(* Once a queue that is waited on is shut down or drained, the wait        *)
(* returns LBQ_INTERRUPTED, so that the waiting thread can be joined.      *)
RundownReachesWaiter ==
  (shutdown \/ draining) ~> (waitResult = INTERRUPTED \/ destroyed)
=============================================================================
