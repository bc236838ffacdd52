---------------------------- MODULE BoundedQueue ----------------------------
(***************************************************************************)
(* What a LINKED_BLOCKING_QUEUE promises its users: a first-in first-out   *)
(* queue of at most Bound items that can be drained (nothing more goes in, *)
(* what is inside still comes out), closed (nothing goes in or out) and    *)
(* emptied at once.  Each operation is one step, whatever the number of    *)
(* threads.                                                                *)
(***************************************************************************)
EXTENDS Naturals, Sequences

CONSTANTS
  Items,      \* what can be queued
  Threads,    \* the users of the queue
  Bound,      \* its capacity
  None        \* "no item"

VARIABLES
  q,          \* the queued items, oldest first
  phase,      \* "open", "draining" or "closed"
  got         \* got[t]: the item thread t took and has not disposed of yet

vars == <<q, phase, got>>

Init ==
  /\ q = <<>>
  /\ phase = "open"
  /\ got = [t \in Threads |-> None]

Put(e) ==
  /\ phase = "open"
  /\ Len(q) < Bound
  /\ \A i \in 1..Len(q) : q[i] # e
  /\ q' = Append(q, e)
  /\ UNCHANGED <<phase, got>>

Get(t) ==
  /\ phase # "closed"
  /\ q # <<>>
  /\ got[t] = None
  /\ q' = Tail(q)
  /\ got' = [got EXCEPT ![t] = Head(q)]
  /\ UNCHANGED phase

Dispose(t) ==
  /\ got[t] # None
  /\ got' = [got EXCEPT ![t] = None]
  /\ UNCHANGED <<q, phase>>

Clear ==
  /\ q' = <<>>
  /\ UNCHANGED <<phase, got>>

Drain ==
  /\ phase = "open"
  /\ phase' = "draining"
  /\ UNCHANGED <<q, got>>

Close ==
  /\ phase' = "closed"
  /\ UNCHANGED <<q, got>>

\* A new life of the queue begins empty, whatever ended the previous one.
Reopen ==
  /\ q = <<>>
  /\ got = [t \in Threads |-> None]
  /\ phase' = "open"
  /\ UNCHANGED <<q, got>>

Next ==
  \/ \E e \in Items : Put(e)
  \/ \E t \in Threads : Get(t) \/ Dispose(t)
  \/ Clear \/ Drain \/ Close \/ Reopen

Spec == Init /\ [][Next]_vars
=============================================================================
