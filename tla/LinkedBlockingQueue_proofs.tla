---------------------- MODULE LinkedBlockingQueue_proofs ----------------------
(***************************************************************************)
(* Proofs about LinkedBlockingQueue, for any set of entries, any number of *)
(* threads and any sizeBound.                                              *)
(***************************************************************************)
EXTENDS LinkedBlockingQueue, SequenceTheorems, TLAPS

(***************************************************************************)
(* Sequences of distinct entries                                           *)
(***************************************************************************)

(* What an offer does to the entries of the queue                          *)
LEMMA AppendFacts ==
  ASSUME NEW S, NEW s \in Seq(S), NEW e \in S
  PROVE  /\ Append(s, e) \in Seq(S)
         /\ Append(s, e) # <<>>
         /\ Len(Append(s, e)) = Len(s) + 1
         /\ \A i \in 1..Len(s) : Append(s, e)[i] = s[i]
         /\ Append(s, e)[Len(s) + 1] = e
         /\ \A x : InSeq(x, Append(s, e)) <=> InSeq(x, s) \/ x = e
         /\ Distinct(s) /\ ~InSeq(e, s) => Distinct(Append(s, e))
<1>1. /\ Append(s, e) \in Seq(S)
      /\ Append(s, e) # <<>>
      /\ Len(Append(s, e)) = Len(s) + 1
      /\ Len(s) \in Nat
      /\ \A i \in 1..Len(s) : Append(s, e)[i] = s[i]
      /\ Append(s, e)[Len(s) + 1] = e
  BY AppendProperties, LenProperties
<1>. DEFINE a == Append(s, e)
<1>2. \A i \in 1..Len(a) : i \in 1..Len(s) \/ i = Len(s) + 1
  BY <1>1
<1>. HIDE DEF a
<1>3. \A x : InSeq(x, a) <=> InSeq(x, s) \/ x = e
  BY <1>1, <1>2 DEF InSeq, a
<1>4. Distinct(s) /\ ~InSeq(e, s) => Distinct(a)
  BY <1>1, <1>2 DEF InSeq, Distinct, a
<1>. QED
  BY <1>1, <1>3, <1>4 DEF a

(* What taking the first entry does to the entries of the queue            *)
LEMMA TailFacts ==
  ASSUME NEW S, NEW s \in Seq(S), s # <<>>
  PROVE  /\ Tail(s) \in Seq(S)
         /\ Len(s) \in Nat \ {0}
         /\ Head(s) = s[1]
         /\ s[1] \in S
         /\ Len(Tail(s)) = Len(s) - 1
         /\ \A i \in 1..Len(s) - 1 : Tail(s)[i] = s[i + 1]
         /\ Tail(s) = <<>> <=> Len(s) = 1
         /\ \A x : InSeq(x, s) <=> InSeq(x, Tail(s)) \/ x = s[1]
         /\ Distinct(s) => Distinct(Tail(s)) /\ ~InSeq(s[1], Tail(s))
<1>1. /\ Tail(s) \in Seq(S)
      /\ Len(s) \in Nat \ {0}
      /\ s[1] \in S
      /\ Len(Tail(s)) = Len(s) - 1
      /\ \A i \in 1..Len(s) - 1 : Tail(s)[i] = s[i + 1]
  BY HeadTailProperties, EmptySeq, ElementOfSeq
<1>2. Head(s) = s[1]
  OBVIOUS
<1>. DEFINE r == Tail(s)
<1>. HIDE DEF r
<1>3. r = <<>> <=> Len(s) = 1
  <2>1. r \in Seq(S) /\ Len(r) = Len(s) - 1
    BY <1>1 DEF r
  <2>2. r # <<>> => Len(r) \in Nat \ {0}
    BY <2>1, EmptySeq
  <2>3. r = <<>> => Len(r) = 0
    BY EmptySeq
  <2>. QED
    BY <1>1, <2>1, <2>2, <2>3
<1>4. ASSUME NEW x
      PROVE  InSeq(x, s) <=> InSeq(x, r) \/ x = s[1]
  <2>1. ASSUME InSeq(x, s), x # s[1]
        PROVE  InSeq(x, r)
    <3>1. PICK i \in 1..Len(s) : s[i] = x
      BY <2>1 DEF InSeq
    <3>2. i - 1 \in 1..Len(s) - 1 /\ r[i - 1] = x
      BY <1>1, <2>1, <3>1 DEF r
    <3>. QED
      BY <1>1, <3>2 DEF InSeq, r
  <2>2. ASSUME InSeq(x, r)
        PROVE  InSeq(x, s)
    <3>1. PICK i \in 1..Len(s) - 1 : s[i + 1] = x
      BY <1>1, <2>2 DEF InSeq, r
    <3>. QED
      BY <1>1, <3>1 DEF InSeq
  <2>3. InSeq(s[1], s)
    BY <1>1 DEF InSeq
  <2>. QED
    BY <2>1, <2>2, <2>3
<1>5. ASSUME Distinct(s)
      PROVE  Distinct(r) /\ ~InSeq(s[1], r)
  <2>1. \A i \in 1..Len(r) : i + 1 \in 1..Len(s) /\ r[i] = s[i + 1]
    BY <1>1 DEF r
  <2>2. Distinct(r)
    <3>1. SUFFICES ASSUME NEW i \in 1..Len(r), NEW j \in 1..Len(r), r[i] = r[j]
                   PROVE  i = j
      BY DEF Distinct
    <3>. QED
      BY <1>1, <1>5, <2>1, <3>1 DEF Distinct
  <2>3. ~InSeq(s[1], r)
    BY <1>1, <1>5, <2>1 DEF Distinct, InSeq
  <2>. QED
    BY <2>2, <2>3
<1>. QED
  BY <1>1, <1>2, <1>3, <1>4, <1>5 DEF r

-----------------------------------------------------------------------------
(***************************************************************************)
(* The inductive invariant.  The links of the queue say what the queue     *)
(* holds only together with who owns which entry, and that only together   *)
(* with where the threads are.                                             *)
(***************************************************************************)
ThreadStates ==
  /\ \A t \in Threads :
       /\ pc[t] \in {"asleep", "awake"} => t = Waiter
       /\ pc[t] # "idle" => data[t] = NULL
       /\ pc[t] # "freeing" => flushed[t] = <<>>
  /\ destroyed => /\ items = <<>>
                  /\ \A t \in Threads :
                       data[t] = NULL /\ pc[t] \in {"idle", "freeing"}

IInv ==
  TypeOK /\ ListIntegrity /\ ChainIntegrity /\ EntryOwnership /\ ThreadStates

(* The initial queue is empty and nobody owns anything.                    *)
LEMMA InitIInv == Init => IInv
<1>. SUFFICES ASSUME Init
              PROVE  IInv
  OBVIOUS
<1>1. TypeOK
  <2>1. currentSize \in 0..sizeBound /\ wakes \in 0..MaxUserWakes
    BY LbqAssumption DEF Init
  <2>2. items \in Seq(Entries) /\ flushed \in [Threads -> Seq(Entries)]
    BY EmptySeq, Zenon DEF Init
  <2>. QED
    BY <2>1, <2>2 DEF Init, TypeOK, Ptr
<1>2. ListIntegrity
  BY EmptySeq DEF Init, ListIntegrity, IsList
<1>3. ChainIntegrity
  BY EmptySeq DEF Init, ChainIntegrity, IsList
<1>4. EntryOwnership
  BY LbqAssumption, EmptySeq DEF Init, EntryOwnership, Holds, InSeq, Distinct
<1>5. ThreadStates
  BY DEF Init, ThreadStates
<1>. QED
  BY <1>1, <1>2, <1>3, <1>4, <1>5 DEF IInv

(* A step that leaves the entries alone                                    *)
LEMMA EntriesUntouched ==
  ASSUME ListIntegrity, ChainIntegrity, EntryOwnership,
         UNCHANGED <<list, heap, data, walk, destroyed>>
  PROVE  ListIntegrity' /\ ChainIntegrity' /\ EntryOwnership'
<1>1. ListIntegrity'
  BY DEF list, ListIntegrity, IsList
<1>2. ChainIntegrity'
  BY DEF list, walk, ChainIntegrity, IsList
<1>3. EntryOwnership'
  BY DEF list, walk, EntryOwnership, Holds, InSeq, Distinct
<1>. QED
  BY <1>1, <1>2, <1>3

(* While the queue lives, head is NULL exactly when it holds no entry.     *)
LEMMA HeadFacts ==
  ASSUME IInv, ~destroyed
  PROVE  /\ head = NULL <=> items = <<>>
         /\ head # NULL => head = items[1] /\ currentSize \in 1..sizeBound
         /\ Len(items) \in Nat /\ currentSize = Len(items)
<1>1. /\ items \in Seq(Entries) /\ currentSize \in 0..sizeBound
      /\ IsList(head, items) /\ currentSize = Len(items)
  BY DEF IInv, TypeOK, ListIntegrity
<1>2. items = <<>> => head = NULL
  BY <1>1 DEF IsList
<1>3. items # <<>> => /\ head = items[1] /\ items[1] \in Entries
                      /\ Len(items) \in Nat \ {0}
  BY <1>1, TailFacts DEF IsList
<1>. QED
  BY <1>1, <1>2, <1>3, LbqAssumption, EmptySeq

(* LbqOfferQueueItem links the new entry behind the last one, in memory    *)
(* that nobody else uses.                                                  *)
LEMMA OfferIInv ==
  ASSUME IInv, NEW t \in Threads, NEW e \in Entries, LbqOfferQueueItem(t, e)
  PROVE  IInv'
<1>. DEFINE a == Append(items, e)
<1>1. TypeOK /\ ListIntegrity /\ ChainIntegrity /\ EntryOwnership /\ ThreadStates
  BY DEF IInv
<1>2. /\ ~destroyed /\ pc[t] = "idle" /\ data[t] = NULL
      /\ e \notin heap /\ ~QueueFull
      /\ heap' = heap \cup {e}
      /\ head' = IF head = NULL THEN e ELSE head
      /\ flink' = [x \in Entries |-> IF x = e THEN NULL
                                     ELSE IF x = tail /\ head # NULL THEN e
                                     ELSE flink[x]]
      /\ LeaveWith(t, head = NULL)
      /\ tail' = e
      /\ currentSize' = currentSize + 1
      /\ everOffered' = TRUE
      /\ items' = a
      /\ UNCHANGED <<flags, data, walk, destroyed, waitResult>>
  BY DEF LbqOfferQueueItem, CanCall, LinkAtTail
<1>3. /\ a \in Seq(Entries) /\ a # <<>>
      /\ Len(a) = Len(items) + 1 /\ Len(items) \in Nat
      /\ \A i \in 1..Len(items) : a[i] = items[i]
      /\ a[Len(items) + 1] = e
      /\ \A x : InSeq(x, a) <=> InSeq(x, items) \/ x = e
      /\ Distinct(items) /\ ~InSeq(e, items) => Distinct(a)
  <2>1. items \in Seq(Entries)
    BY <1>1 DEF TypeOK
  <2>. QED
    BY <2>1, AppendFacts, LenProperties
<1>. HIDE DEF a
<1>4. ~InSeq(e, items) /\ \A u \in Threads : ~Holds(u, e)
  BY <1>1, <1>2 DEF EntryOwnership
<1>5. /\ head = NULL <=> items = <<>>
      /\ head # NULL => head = items[1] /\ Len(items) # 0
      /\ currentSize = Len(items)
  BY HeadFacts, <1>2, EmptySeq
<1>6. TypeOK'
  <2>1. currentSize' \in 0..sizeBound
    BY <1>1, <1>2, LbqAssumption DEF TypeOK, QueueFull
  <2>2. pc' \in [Threads -> {"idle", "signal", "asleep", "awake", "freeing"}]
    BY <1>1, <1>2 DEF TypeOK, LeaveWith, Goto
  <2>3. /\ flink' \in [Entries -> Ptr] /\ head' \in Ptr /\ tail' \in Ptr
        /\ heap' \in SUBSET Entries
    BY <1>1, <1>2 DEF TypeOK, Ptr
  <2>. QED
    BY <1>1, <1>2, <1>3, <2>1, <2>2, <2>3 DEF TypeOK, flags, walk
<1>7. ListIntegrity'
  <2>1. head' = a[1]
    BY <1>2, <1>3, <1>5
  <2>2. flink'[a[Len(a)]] = NULL /\ tail' = a[Len(a)]
    BY <1>2, <1>3
  <2>3. ASSUME NEW i \in 1..Len(a) - 1
        PROVE  flink'[a[i]] = a[i + 1]
    <3>1. i \in 1..Len(items) /\ a[i] = items[i] /\ items[i] \in Entries
      BY <1>1, <1>3, ElementOfSeq DEF TypeOK
    <3>2. a[i] # e
      BY <1>4, <3>1 DEF InSeq
    <3>3. head # NULL /\ tail = items[Len(items)]
      BY <1>1, <1>2, <1>5, <3>1, EmptySeq DEF ListIntegrity
    <3>4. CASE i = Len(items)
      BY <1>2, <1>3, <3>1, <3>2, <3>3, <3>4
    <3>5. CASE i # Len(items)
      <4>1. items[i] # tail
        BY <1>1, <1>3, <3>1, <3>3, <3>5 DEF EntryOwnership, Distinct
      <4>2. flink[items[i]] = items[i + 1] /\ a[i + 1] = items[i + 1]
        BY <1>1, <1>2, <1>3, <3>1, <3>5 DEF ListIntegrity, IsList
      <4>. QED
        BY <1>2, <3>1, <3>2, <4>1, <4>2
    <3>. QED
      BY <3>4, <3>5
  <2>. QED
    BY <1>2, <1>3, <1>5, <2>1, <2>2, <2>3 DEF ListIntegrity, IsList
<1>8. ChainIntegrity'
  <2>. SUFFICES ASSUME NEW u \in Threads
                PROVE  IsList(chain[u], flushed[u])'
    BY DEF ChainIntegrity
  <2>1. IsList(chain[u], flushed[u])
    BY <1>1 DEF ChainIntegrity
  <2>2. flushed[u] \in Seq(Entries) /\ Len(flushed[u]) \in Nat
    BY <1>1, LenProperties DEF TypeOK
  <2>3. ASSUME NEW i \in 1..Len(flushed[u])
        PROVE  flink'[flushed[u][i]] = flink[flushed[u][i]]
    <3>1. flushed[u][i] \in Entries /\ Holds(u, flushed[u][i])
      BY <2>2, ElementOfSeq DEF Holds, InSeq
    <3>2. flushed[u][i] # e /\ ~InSeq(flushed[u][i], items)
      BY <1>1, <1>4, <3>1 DEF EntryOwnership
    <3>3. head # NULL => InSeq(tail, items)
      BY <1>1, <1>2, <1>3, <1>5 DEF ListIntegrity, InSeq
    <3>. QED
      BY <1>2, <3>1, <3>2, <3>3
  <2>4. flushed[u] # <<>> => Len(flushed[u]) \in 1..Len(flushed[u])
    BY <2>2, EmptySeq
  <2>5. chain' = chain /\ flushed' = flushed
    BY <1>2 DEF walk
  <2>6. \A i \in 1..Len(flushed[u]) - 1 : flink'[flushed[u][i]] = flushed[u][i + 1]
    BY <2>1, <2>2, <2>3 DEF IsList
  <2>7. flushed[u] # <<>> => flink'[flushed[u][Len(flushed[u])]] = NULL
    BY <2>1, <2>3, <2>4 DEF IsList
  <2>. QED
    BY <2>1, <2>5, <2>6, <2>7 DEF IsList
<1>9. EntryOwnership'
  <2>1. \A x : InSeq(x, items)' <=> InSeq(x, items) \/ x = e
    BY <1>2, <1>3 DEF InSeq
  <2>2. \A u \in Threads : \A x : Holds(u, x)' <=> Holds(u, x)
    BY <1>2 DEF Holds, InSeq, walk
  <2>3. Distinct(items)'
    BY <1>1, <1>2, <1>3, <1>4 DEF EntryOwnership, Distinct
  <2>4. heap' = {x \in Entries : InSeq(x, items)' \/ \E u \in Threads : Holds(u, x)'}
    BY <1>1, <1>2, <2>1, <2>2 DEF EntryOwnership
  <2>5. \A u \in Threads : /\ Distinct(flushed[u])'
                           /\ data'[u] # NULL => flushed'[u] = <<>>
    BY <1>1, <1>2 DEF EntryOwnership, walk, Distinct
  <2>6. \A x \in Entries : \A u \in Threads : Holds(u, x)' =>
          /\ ~InSeq(x, items)'
          /\ \A v \in Threads : Holds(v, x)' => v = u
    BY <1>1, <1>4, <2>1, <2>2 DEF EntryOwnership
  <2>. QED
    BY <2>3, <2>4, <2>5, <2>6 DEF EntryOwnership
<1>10. ThreadStates'
  BY <1>1, <1>2 DEF ThreadStates, TypeOK, LeaveWith, Goto, walk
<1>. QED
  BY <1>6, <1>7, <1>8, <1>9, <1>10 DEF IInv

(* LbqPollQueueElement and a successful LbqWaitForQueueElement unlink the  *)
(* first entry and make it the caller's.                                   *)
LEMMA PopIInv ==
  ASSUME IInv, NEW t \in Threads,
         ~destroyed, head # NULL, data[t] = NULL, pc[t] \in {"idle", "awake"},
         PopTo(t), pc' = [pc EXCEPT ![t] = "idle"],
         waitResult' \in {waitResult, SUCCESS},
         UNCHANGED <<flags, walk, destroyed>>
  PROVE  IInv'
<1>. DEFINE r == Tail(items)
<1>1. TypeOK /\ ListIntegrity /\ ChainIntegrity /\ EntryOwnership /\ ThreadStates
  BY DEF IInv
<1>2. /\ head' = flink[head]
      /\ tail' = IF flink[head] = NULL THEN NULL ELSE tail
      /\ currentSize' = currentSize - 1
      /\ data' = [data EXCEPT ![t] = head]
      /\ items' = r
      /\ UNCHANGED <<everOffered, flink, heap>>
  BY DEF PopTo
<1>3. /\ items # <<>> /\ head = items[1] /\ currentSize \in 1..sizeBound
      /\ currentSize = Len(items) /\ items \in Seq(Entries)
  BY <1>1, HeadFacts DEF TypeOK
<1>4. /\ r \in Seq(Entries)
      /\ Len(items) \in Nat \ {0} /\ items[1] \in Entries
      /\ Len(r) = Len(items) - 1
      /\ \A i \in 1..Len(items) - 1 : r[i] = items[i + 1]
      /\ r = <<>> <=> Len(items) = 1
      /\ \A x : InSeq(x, items) <=> InSeq(x, r) \/ x = items[1]
      /\ Distinct(items) => Distinct(r) /\ ~InSeq(items[1], r)
  BY <1>3, TailFacts
<1>. HIDE DEF r
<1>5. Distinct(r) /\ ~InSeq(head, r) /\ head \in Entries
  BY <1>1, <1>3, <1>4 DEF EntryOwnership
<1>6. TypeOK'
  <2>1. currentSize' \in 0..sizeBound
    BY <1>2, <1>3, LbqAssumption
  <2>2. head' \in Ptr /\ tail' \in Ptr /\ data' \in [Threads -> Ptr]
    BY <1>1, <1>2, <1>5 DEF TypeOK, Ptr
  <2>3. pc' \in [Threads -> {"idle", "signal", "asleep", "awake", "freeing"}]
    BY <1>1 DEF TypeOK
  <2>. QED
    BY <1>1, <1>2, <1>4, <2>1, <2>2, <2>3 DEF TypeOK, flags, walk
<1>7. ListIntegrity'
  <2>1. /\ flink[items[Len(items)]] = NULL
        /\ \A i \in 1..Len(items) - 1 : flink[items[i]] = items[i + 1]
        /\ tail = items[Len(items)]
    BY <1>1, <1>3 DEF ListIntegrity, IsList
  <2>2. CASE Len(items) = 1
    <3>1. r = <<>> /\ head' = NULL /\ tail' = NULL
      BY <1>2, <1>3, <1>4, <2>1, <2>2
    <3>. QED
      BY <1>2, <1>3, <1>4, <2>2, <3>1 DEF ListIntegrity, IsList
  <2>3. CASE Len(items) # 1
    <3>1. /\ r # <<>> /\ head' = r[1] /\ r[1] \in Entries
          /\ r[Len(r)] = items[Len(items)]
      <4>1. /\ 1 \in 1..Len(items) - 1 /\ Len(r) \in 1..Len(items) - 1
            /\ 1 \in 1..Len(r) /\ Len(r) + 1 = Len(items)
        BY <1>4, <2>3
      <4>2. r[1] \in Entries
        BY <1>4, <4>1, ElementOfSeq
      <4>. QED
        BY <1>2, <1>3, <1>4, <2>1, <2>3, <4>1, <4>2
    <3>2. tail' = r[Len(r)]
      BY <1>2, <2>1, <3>1, LbqAssumption
    <3>3. \A i \in 1..Len(r) - 1 : flink[r[i]] = r[i + 1]
      BY <1>4, <2>1
    <3>. QED
      BY <1>2, <1>3, <1>4, <2>1, <3>1, <3>2, <3>3 DEF ListIntegrity, IsList
  <2>. QED
    BY <2>2, <2>3
<1>8. ChainIntegrity'
  BY <1>1, <1>2 DEF ChainIntegrity, IsList, walk
<1>9. EntryOwnership'
  <2>1. flushed[t] = <<>> /\ flushed' = flushed
    BY <1>1 DEF ThreadStates, walk
  <2>2. \A x : InSeq(x, items)' <=> InSeq(x, r)
    BY <1>2 DEF InSeq
  <2>3. \A x \in Entries : Holds(t, x)' <=> x = head
    BY <1>1, <1>2, <2>1, EmptySeq DEF Holds, InSeq, TypeOK
  <2>4. \A u \in Threads : \A x \in Entries :
          u # t => (Holds(u, x)' <=> Holds(u, x))
    BY <1>1, <1>2, <2>1 DEF Holds, InSeq, TypeOK
  <2>5. \A x \in Entries : ~Holds(t, x)
    BY <2>1, EmptySeq, LbqAssumption DEF Holds, InSeq
  <2>6. \A u \in Threads : ~Holds(u, head)
    BY <1>1, <1>3, <1>4, <1>5 DEF EntryOwnership
  <2>7. heap' = {x \in Entries : InSeq(x, items)' \/ \E u \in Threads : Holds(u, x)'}
    <3>1. ASSUME NEW x \in Entries
          PROVE  (InSeq(x, items)' \/ \E u \in Threads : Holds(u, x)')
                 <=> (InSeq(x, items) \/ \E u \in Threads : Holds(u, x))
      BY <1>3, <1>4, <2>2, <2>3, <2>4, <2>5
    <3>. QED
      BY <1>1, <1>2, <3>1 DEF EntryOwnership
  <2>8. Distinct(items)' /\ \A u \in Threads : Distinct(flushed[u])'
    BY <1>1, <1>2, <1>5, <2>1 DEF EntryOwnership, Distinct
  <2>9. \A u \in Threads : data'[u] # NULL => flushed'[u] = <<>>
    BY <1>1, <1>2, <2>1 DEF EntryOwnership, TypeOK
  <2>10. ASSUME NEW x \in Entries, NEW u \in Threads, Holds(u, x)'
         PROVE  /\ ~InSeq(x, items)'
                /\ \A v \in Threads : Holds(v, x)' => v = u
    <3>1. CASE u = t
      BY <1>5, <2>2, <2>3, <2>4, <2>6, <2>10, <3>1
    <3>2. CASE u # t
      BY <1>1, <1>4, <2>2, <2>3, <2>4, <2>6, <2>10, <3>2 DEF EntryOwnership
    <3>. QED
      BY <3>1, <3>2
  <2>. QED
    BY <2>7, <2>8, <2>9, <2>10 DEF EntryOwnership
<1>10. ThreadStates'
  BY <1>1, <1>2 DEF ThreadStates, TypeOK, walk
<1>. QED
  BY <1>6, <1>7, <1>8, <1>9, <1>10 DEF IInv

(* The list that a flush or the destruction of the queue hands out keeps   *)
(* its links, and its entries change hands together.                       *)
LEMMA TakeChainFacts ==
  ASSUME IInv, NEW t \in Threads, ~destroyed, pc[t] = "idle", data[t] = NULL,
         TakeChain(t), UNCHANGED <<flink, heap, data>>
  PROVE  /\ ChainIntegrity' /\ EntryOwnership'
         /\ items' = <<>>
         /\ chain' \in [Threads -> Ptr]
         /\ flushed' \in [Threads -> Seq(Entries)]
         /\ pc' = [pc EXCEPT ![t] = "freeing"]
         /\ \A u \in Threads : u # t => flushed'[u] = flushed[u]
<1>1. TypeOK /\ ListIntegrity /\ ChainIntegrity /\ EntryOwnership /\ ThreadStates
  BY DEF IInv
<1>2. /\ chain' = [chain EXCEPT ![t] = head]
      /\ flushed' = [flushed EXCEPT ![t] = items]
      /\ items' = <<>>
      /\ pc' = [pc EXCEPT ![t] = "freeing"]
  BY DEF TakeChain, Goto
<1>3. /\ chain' \in [Threads -> Ptr]
      /\ flushed' \in [Threads -> Seq(Entries)]
      /\ chain'[t] = head /\ flushed'[t] = items
      /\ \A u \in Threads : u # t => chain'[u] = chain[u] /\ flushed'[u] = flushed[u]
  BY <1>1, <1>2 DEF TypeOK
<1>4. ChainIntegrity'
  <2>1. IsList(head, items)
    BY <1>1 DEF ListIntegrity
  <2>. SUFFICES ASSUME NEW u \in Threads
                PROVE  IsList(chain[u], flushed[u])'
    BY DEF ChainIntegrity
  <2>2. CASE u = t
    BY <1>3, <2>1, <2>2 DEF IsList
  <2>3. CASE u # t
    BY <1>1, <1>3, <2>3 DEF ChainIntegrity, IsList
  <2>. QED
    BY <2>2, <2>3
<1>5. EntryOwnership'
  <2>1. \A x \in Entries : ~Holds(t, x)
    BY <1>1, EmptySeq, LbqAssumption DEF ThreadStates, Holds, InSeq
  <2>2. \A x \in Entries : Holds(t, x)' <=> InSeq(x, items)
    BY <1>3, LbqAssumption DEF Holds, InSeq
  <2>3. \A u \in Threads : \A x : u # t => (Holds(u, x)' <=> Holds(u, x))
    BY <1>3 DEF Holds, InSeq
  <2>4. \A x : ~InSeq(x, items)'
    BY <1>2, EmptySeq DEF InSeq
  <2>5. heap' = {x \in Entries : InSeq(x, items)' \/ \E u \in Threads : Holds(u, x)'}
    <3>1. ASSUME NEW x \in Entries
          PROVE  (InSeq(x, items)' \/ \E u \in Threads : Holds(u, x)')
                 <=> (InSeq(x, items) \/ \E u \in Threads : Holds(u, x))
      BY <2>1, <2>2, <2>3, <2>4
    <3>. QED
      BY <1>1, <3>1 DEF EntryOwnership
  <2>6. Distinct(items)'
    BY <1>2, EmptySeq DEF Distinct
  <2>7. \A u \in Threads : /\ Distinct(flushed[u])'
                           /\ data'[u] # NULL => flushed'[u] = <<>>
    BY <1>1, <1>3 DEF EntryOwnership, Distinct
  <2>8. ASSUME NEW x \in Entries, NEW u \in Threads, Holds(u, x)'
        PROVE  \A v \in Threads : Holds(v, x)' => v = u
    BY <1>1, <2>2, <2>3, <2>8 DEF EntryOwnership
  <2>. QED
    BY <2>4, <2>5, <2>6, <2>7, <2>8 DEF EntryOwnership
<1>. QED
  BY <1>2, <1>3, <1>4, <1>5

(* LbqFlushQueueItems                                                      *)
LEMMA FlushIInv ==
  ASSUME IInv, NEW t \in Threads, LbqFlushQueueItems(t)
  PROVE  IInv'
<1>1. TypeOK /\ ListIntegrity /\ ChainIntegrity /\ EntryOwnership /\ ThreadStates
  BY DEF IInv
<1>2. /\ ~destroyed /\ pc[t] = "idle" /\ data[t] = NULL
      /\ TakeChain(t)
      /\ head' = NULL /\ tail' = NULL /\ currentSize' = 0
      /\ UNCHANGED <<everOffered, flink, flags, heap, data, destroyed, waitResult>>
  BY DEF LbqFlushQueueItems, CanCall
<1>3. /\ ChainIntegrity' /\ EntryOwnership'
      /\ items' = <<>>
      /\ chain' \in [Threads -> Ptr]
      /\ flushed' \in [Threads -> Seq(Entries)]
      /\ pc' = [pc EXCEPT ![t] = "freeing"]
      /\ \A u \in Threads : u # t => flushed'[u] = flushed[u]
  BY <1>2, TakeChainFacts
<1>4. TypeOK'
  <2>1. currentSize' \in 0..sizeBound /\ items' \in Seq(Entries)
    BY <1>2, <1>3, LbqAssumption, EmptySeq
  <2>2. pc' \in [Threads -> {"idle", "signal", "asleep", "awake", "freeing"}]
    BY <1>1, <1>3 DEF TypeOK
  <2>. QED
    BY <1>1, <1>2, <1>3, <2>1, <2>2 DEF TypeOK, Ptr, flags
<1>5. ListIntegrity'
  BY <1>2, <1>3, EmptySeq DEF ListIntegrity, IsList
<1>6. ThreadStates'
  BY <1>1, <1>2, <1>3 DEF ThreadStates, TypeOK
<1>. QED
  BY <1>3, <1>4, <1>5, <1>6 DEF IInv

(* LbqDestroyLinkedBlockingQueue                                           *)
LEMMA DestroyIInv ==
  ASSUME IInv, NEW t \in Threads, LbqDestroyLinkedBlockingQueue(t)
  PROVE  IInv'
<1>1. TypeOK /\ ListIntegrity /\ ChainIntegrity /\ EntryOwnership /\ ThreadStates
  BY DEF IInv
<1>2. /\ ~destroyed
      /\ \A u \in Threads : pc[u] = "idle" /\ data[u] = NULL
      /\ TakeChain(t)
      /\ destroyed' = TRUE
      /\ UNCHANGED <<head, tail, currentSize, everOffered, flink, flags, heap,
                     data, waitResult>>
  BY DEF LbqDestroyLinkedBlockingQueue
<1>3. /\ ChainIntegrity' /\ EntryOwnership'
      /\ items' = <<>>
      /\ chain' \in [Threads -> Ptr]
      /\ flushed' \in [Threads -> Seq(Entries)]
      /\ pc' = [pc EXCEPT ![t] = "freeing"]
      /\ \A u \in Threads : u # t => flushed'[u] = flushed[u]
  BY <1>2, TakeChainFacts
<1>4. TypeOK'
  <2>1. items' \in Seq(Entries)
    BY <1>3, EmptySeq
  <2>2. pc' \in [Threads -> {"idle", "signal", "asleep", "awake", "freeing"}]
    BY <1>1, <1>3 DEF TypeOK
  <2>. QED
    BY <1>1, <1>2, <1>3, <2>1, <2>2 DEF TypeOK, flags
<1>5. ListIntegrity'
  BY <1>2 DEF ListIntegrity
<1>6. ThreadStates'
  BY <1>1, <1>2, <1>3 DEF ThreadStates, TypeOK
<1>. QED
  BY <1>3, <1>4, <1>5, <1>6 DEF IInv

(* One iteration of the walk over a list that was handed out frees the     *)
(* entry it is at, which nobody else owns, after reading its link.         *)
LEMMA FreeChainEntryIInv ==
  ASSUME IInv, NEW t \in Threads, FreeChainEntry(t)
  PROVE  IInv'
<1>. DEFINE r == Tail(flushed[t])
<1>1. TypeOK /\ ListIntegrity /\ ChainIntegrity /\ EntryOwnership /\ ThreadStates
  BY DEF IInv
<1>2. /\ pc[t] = "freeing" /\ chain[t] # NULL
      /\ chain' = [chain EXCEPT ![t] = flink[chain[t]]]
      /\ heap' = heap \ {chain[t]}
      /\ flushed' = [flushed EXCEPT ![t] = r]
      /\ UNCHANGED <<list, flags, data, pc, destroyed, waitResult>>
  BY DEF FreeChainEntry
<1>3. /\ flushed[t] \in Seq(Entries) /\ flushed[t] # <<>>
      /\ chain[t] = flushed[t][1]
      /\ flink[flushed[t][Len(flushed[t])]] = NULL
      /\ \A i \in 1..Len(flushed[t]) - 1 : flink[flushed[t][i]] = flushed[t][i + 1]
  BY <1>1, <1>2 DEF TypeOK, ChainIntegrity, IsList
<1>4. /\ r \in Seq(Entries)
      /\ Len(flushed[t]) \in Nat \ {0} /\ flushed[t][1] \in Entries
      /\ Len(r) = Len(flushed[t]) - 1
      /\ \A i \in 1..Len(flushed[t]) - 1 : r[i] = flushed[t][i + 1]
      /\ r = <<>> <=> Len(flushed[t]) = 1
      /\ \A x : InSeq(x, flushed[t]) <=> InSeq(x, r) \/ x = flushed[t][1]
      /\ Distinct(flushed[t]) => Distinct(r) /\ ~InSeq(flushed[t][1], r)
  BY <1>3, TailFacts
<1>. HIDE DEF r
<1>5. /\ chain'[t] = flink[chain[t]] /\ flushed'[t] = r
      /\ \A u \in Threads : u # t => chain'[u] = chain[u] /\ flushed'[u] = flushed[u]
      /\ chain' \in [Threads -> Ptr]
      /\ flushed' \in [Threads -> Seq(Entries)]
  BY <1>1, <1>2, <1>3, <1>4 DEF TypeOK
<1>6. TypeOK'
  BY <1>1, <1>2, <1>5 DEF TypeOK, list, flags
<1>7. ListIntegrity'
  BY <1>1, <1>2 DEF ListIntegrity, IsList, list
<1>8. ChainIntegrity'
  <2>1. CASE Len(flushed[t]) = 1
    <3>1. IsList(chain[t], flushed[t])'
      <4>1. r = <<>> /\ chain'[t] = NULL /\ flushed'[t] = <<>>
        BY <1>3, <1>4, <1>5, <2>1
      <4>. QED
        BY <4>1, EmptySeq DEF IsList
    <3>. QED
      BY <1>1, <1>2, <1>5, <3>1 DEF ChainIntegrity, IsList, list
  <2>2. CASE Len(flushed[t]) # 1
    <3>1. /\ r # <<>> /\ chain'[t] = r[1]
          /\ r[Len(r)] = flushed[t][Len(flushed[t])]
      <4>1. /\ 1 \in 1..Len(flushed[t]) - 1
            /\ Len(r) \in 1..Len(flushed[t]) - 1
            /\ Len(r) + 1 = Len(flushed[t])
        BY <1>4, <2>2
      <4>. QED
        BY <1>3, <1>4, <1>5, <2>2, <4>1
    <3>2. \A i \in 1..Len(r) - 1 : flink[r[i]] = r[i + 1]
      BY <1>3, <1>4
    <3>3. IsList(chain[t], flushed[t])'
      BY <1>2, <1>3, <1>5, <3>1, <3>2 DEF IsList, list
    <3>. QED
      BY <1>1, <1>2, <1>5, <3>3 DEF ChainIntegrity, IsList, list
  <2>. QED
    BY <2>1, <2>2
<1>9. EntryOwnership'
  <2>. DEFINE c == chain[t]
  <2>1. c \in Entries /\ Distinct(r) /\ ~InSeq(c, r) /\ data[t] = NULL
    BY <1>1, <1>2, <1>3, <1>4 DEF EntryOwnership, ThreadStates
  <2>2. \A x \in Entries : Holds(t, x) <=> InSeq(x, r) \/ x = c
    BY <1>3, <1>4, <2>1, LbqAssumption DEF Holds
  <2>3. \A x \in Entries : Holds(t, x)' <=> InSeq(x, r)
    BY <1>2, <1>5, <2>1, LbqAssumption DEF Holds, InSeq
  <2>4. \A u \in Threads : \A x : u # t => (Holds(u, x)' <=> Holds(u, x))
    BY <1>2, <1>5 DEF Holds, InSeq
  <2>5. \A x : InSeq(x, items)' <=> InSeq(x, items)
    BY <1>2 DEF InSeq, list
  <2>6. Holds(t, c)
    BY <2>1, <2>2
  <2>. HIDE DEF c
  <2>7. heap' = {x \in Entries : InSeq(x, items)' \/ \E u \in Threads : Holds(u, x)'}
    <3>1. ASSUME NEW x \in Entries
          PROVE  (InSeq(x, items)' \/ \E u \in Threads : Holds(u, x)')
                 <=> /\ InSeq(x, items) \/ \E u \in Threads : Holds(u, x)
                     /\ x # c
      <4>1. CASE x = c
        BY <1>1, <2>1, <2>3, <2>4, <2>5, <2>6, <4>1 DEF EntryOwnership
      <4>2. CASE x # c
        BY <2>2, <2>3, <2>4, <2>5, <4>2
      <4>. QED
        BY <4>1, <4>2
    <3>. QED
      BY <1>1, <1>2, <3>1 DEF EntryOwnership, c
  <2>8. Distinct(items)'
    BY <1>1, <1>2 DEF EntryOwnership, Distinct, list
  <2>9. \A u \in Threads : /\ Distinct(flushed[u])'
                           /\ data'[u] # NULL => flushed'[u] = <<>>
    BY <1>1, <1>2, <1>5, <2>1 DEF EntryOwnership, Distinct
  <2>10. ASSUME NEW x \in Entries, NEW u \in Threads, Holds(u, x)'
         PROVE  /\ ~InSeq(x, items)'
                /\ \A v \in Threads : Holds(v, x)' => v = u
    <3>1. \A v \in Threads : Holds(v, x)' => Holds(v, x)
      BY <2>2, <2>3, <2>4
    <3>. QED
      BY <1>1, <2>5, <2>10, <3>1 DEF EntryOwnership
  <2>. QED
    BY <2>7, <2>8, <2>9, <2>10 DEF EntryOwnership
<1>10. ThreadStates'
  BY <1>1, <1>2, <1>5 DEF ThreadStates, list
<1>. QED
  BY <1>6, <1>7, <1>8, <1>9, <1>10 DEF IInv

(* The consumer frees the entry it took, which only it owns.               *)
LEMMA FreeDataIInv ==
  ASSUME IInv, NEW t \in Threads, FreeData(t)
  PROVE  IInv'
<1>. DEFINE c == data[t]
<1>1. TypeOK /\ ListIntegrity /\ ChainIntegrity /\ EntryOwnership /\ ThreadStates
  BY DEF IInv
<1>2. /\ data[t] # NULL /\ pc[t] = "idle"
      /\ heap' = heap \ {c}
      /\ data' = [data EXCEPT ![t] = NULL]
      /\ UNCHANGED <<list, flags, walk, pc, destroyed, waitResult>>
  BY DEF FreeData
<1>3. /\ data' \in [Threads -> Ptr] /\ data'[t] = NULL
      /\ \A u \in Threads : u # t => data'[u] = data[u]
      /\ c \in Entries /\ flushed[t] = <<>>
  BY <1>1, <1>2 DEF TypeOK, Ptr, ThreadStates
<1>4. TypeOK'
  BY <1>1, <1>2, <1>3 DEF TypeOK, list, flags, walk
<1>5. ListIntegrity' /\ ChainIntegrity'
  BY <1>1, <1>2 DEF ListIntegrity, ChainIntegrity, IsList, list, walk
<1>6. EntryOwnership'
  <2>1. \A x \in Entries : ~Holds(t, x)'
    BY <1>2, <1>3, EmptySeq, LbqAssumption DEF Holds, InSeq, walk
  <2>2. \A x \in Entries : Holds(t, x) <=> x = c
    BY <1>3, EmptySeq DEF Holds, InSeq
  <2>3. \A u \in Threads : \A x : u # t => (Holds(u, x)' <=> Holds(u, x))
    BY <1>2, <1>3 DEF Holds, InSeq, walk
  <2>4. \A x : InSeq(x, items)' <=> InSeq(x, items)
    BY <1>2 DEF InSeq, list
  <2>. HIDE DEF c
  <2>5. heap' = {x \in Entries : InSeq(x, items)' \/ \E u \in Threads : Holds(u, x)'}
    <3>1. ASSUME NEW x \in Entries
          PROVE  (InSeq(x, items)' \/ \E u \in Threads : Holds(u, x)')
                 <=> /\ InSeq(x, items) \/ \E u \in Threads : Holds(u, x)
                     /\ x # c
      <4>1. CASE x = c
        BY <1>1, <2>1, <2>2, <2>3, <2>4, <4>1 DEF EntryOwnership
      <4>2. CASE x # c
        BY <2>1, <2>2, <2>3, <2>4, <4>2
      <4>. QED
        BY <4>1, <4>2
    <3>. QED
      BY <1>1, <1>2, <3>1 DEF EntryOwnership
  <2>6. Distinct(items)' /\ \A u \in Threads : Distinct(flushed[u])'
    BY <1>1, <1>2 DEF EntryOwnership, Distinct, list, walk
  <2>7. \A u \in Threads : data'[u] # NULL => flushed'[u] = <<>>
    BY <1>1, <1>2, <1>3 DEF EntryOwnership, walk
  <2>8. ASSUME NEW x \in Entries, NEW u \in Threads, Holds(u, x)'
        PROVE  /\ ~InSeq(x, items)'
               /\ \A v \in Threads : Holds(v, x)' => v = u
    <3>1. \A v \in Threads : Holds(v, x)' => Holds(v, x)
      BY <2>1, <2>3
    <3>. QED
      BY <1>1, <2>4, <2>8, <3>1 DEF EntryOwnership
  <2>. QED
    BY <2>5, <2>6, <2>7, <2>8 DEF EntryOwnership
<1>7. ThreadStates'
  BY <1>1, <1>2, <1>3 DEF ThreadStates, list, walk
<1>. QED
  BY <1>4, <1>5, <1>6, <1>7 DEF IInv

(* The steps that change flags, results and places of threads only         *)
LEMMA QuietIInv ==
  ASSUME IInv, UNCHANGED <<list, heap, data, walk, destroyed>>,
         {shutdown', draining', pendingUserWake'} \subseteq BOOLEAN,
         wakes' \in 0..MaxUserWakes,
         waitResult' \in {NULL, SUCCESS, INTERRUPTED, USER_WAKE},
         pc' \in [Threads -> {"idle", "signal", "asleep", "awake", "freeing"}],
         \A t \in Threads :
           /\ pc'[t] \in {"asleep", "awake"} => t = Waiter
           /\ pc'[t] # "idle" => data[t] = NULL
           /\ pc'[t] # "freeing" => flushed[t] = <<>>
           /\ destroyed => pc'[t] \in {"idle", "freeing"}
  PROVE  IInv'
<1>1. TypeOK /\ ListIntegrity /\ ChainIntegrity /\ EntryOwnership /\ ThreadStates
  BY DEF IInv
<1>2. TypeOK'
  BY <1>1 DEF TypeOK, list, walk
<1>3. ListIntegrity' /\ ChainIntegrity' /\ EntryOwnership'
  BY <1>1, EntriesUntouched
<1>4. ThreadStates'
  BY <1>1 DEF ThreadStates, list, walk
<1>. QED
  BY <1>2, <1>3, <1>4 DEF IInv

(* The three functions that raise a flag and signal                        *)
LEMMA SignalIInv ==
  ASSUME IInv, NEW t \in Threads,
         \/ LbqSignalQueueShutdown(t) \/ LbqSignalQueueDrain(t)
         \/ LbqSignalQueueUserWake(t)
  PROVE  IInv'
<1>1. TypeOK /\ ThreadStates
  BY DEF IInv
<1>2. /\ ~destroyed
      /\ pc[t] = "idle" /\ data[t] = NULL /\ flushed[t] = <<>>
      /\ pc' = [pc EXCEPT ![t] = "signal"]
      /\ UNCHANGED <<list, heap, data, walk, destroyed, waitResult>>
  BY <1>1 DEF LbqSignalQueueShutdown, LbqSignalQueueDrain,
              LbqSignalQueueUserWake, CanCall, LeaveWith, Goto, ThreadStates
<1>3. /\ {shutdown', draining', pendingUserWake'} \subseteq BOOLEAN
      /\ wakes' \in {wakes, wakes + 1}
      /\ wakes' # wakes => wakes < MaxUserWakes
  BY <1>1 DEF LbqSignalQueueShutdown, LbqSignalQueueDrain,
              LbqSignalQueueUserWake, TypeOK
<1>4. wakes' \in 0..MaxUserWakes
  BY <1>1, <1>3, LbqAssumption DEF TypeOK
<1>5. /\ pc' \in [Threads -> {"idle", "signal", "asleep", "awake", "freeing"}]
      /\ waitResult' \in {NULL, SUCCESS, INTERRUPTED, USER_WAKE}
  BY <1>1, <1>2 DEF TypeOK
<1>6. \A u \in Threads :
        /\ pc'[u] \in {"asleep", "awake"} => u = Waiter
        /\ pc'[u] # "idle" => data[u] = NULL
        /\ pc'[u] # "freeing" => flushed[u] = <<>>
        /\ destroyed => pc'[u] \in {"idle", "freeing"}
  BY <1>1, <1>2 DEF TypeOK, ThreadStates
<1>. QED
  BY <1>2, <1>3, <1>4, <1>5, <1>6, QuietIInv

(* The steps that move a thread on: the signal itself, a spurious wakeup,  *)
(* the end of a walk, falling asleep, and a wait that returns no entry     *)
LEMMA MoveIInv ==
  ASSUME IInv,
         \/ \E t \in Threads : PltSignalConditionVariable(t) \/ FreeChainDone(t)
         \/ SpuriousWakeup
         \/ WaitSleeps \/ WaitInterrupted \/ WaitUserWake
  PROVE  IInv'
<1>1. TypeOK /\ ChainIntegrity /\ ThreadStates /\ Waiter \in Threads
  BY LbqAssumption DEF IInv
<1>2. /\ UNCHANGED <<list, heap, data, walk, destroyed, shutdown, draining, wakes>>
      /\ pendingUserWake' \in {pendingUserWake, FALSE}
      /\ waitResult' \in {waitResult, INTERRUPTED, USER_WAKE}
  BY DEF PltSignalConditionVariable, FreeChainDone, SpuriousWakeup, WaitSleeps,
         WaitInterrupted, WaitUserWake, flags
<1>3. /\ {shutdown', draining', pendingUserWake'} \subseteq BOOLEAN
      /\ wakes' \in 0..MaxUserWakes
      /\ waitResult' \in {NULL, SUCCESS, INTERRUPTED, USER_WAKE}
  BY <1>1, <1>2 DEF TypeOK
<1>4. /\ pc' \in [Threads -> {"idle", "signal", "asleep", "awake", "freeing"}]
      /\ \A u \in Threads :
           /\ pc'[u] \in {"asleep", "awake"} => u = Waiter
           /\ pc'[u] # "idle" => data[u] = NULL
           /\ pc'[u] # "freeing" => flushed[u] = <<>>
           /\ destroyed => pc'[u] \in {"idle", "freeing"}
  <2>1. CASE \E t \in Threads : PltSignalConditionVariable(t)
    BY <1>1, <2>1 DEF PltSignalConditionVariable, TypeOK, ThreadStates
  <2>2. ASSUME NEW t \in Threads, FreeChainDone(t)
        PROVE  /\ pc' = [pc EXCEPT ![t] = "idle"]
               /\ flushed[t] = <<>>
    <3>1. pc' = [pc EXCEPT ![t] = "idle"] /\ chain[t] = NULL
      BY <2>2 DEF FreeChainDone, Goto
    <3>2. flushed[t] # <<>> => chain[t] \in Entries
      BY <1>1, TailFacts DEF TypeOK, ChainIntegrity, IsList
    <3>. QED
      BY <3>1, <3>2, LbqAssumption
  <2>3. CASE \E t \in Threads : FreeChainDone(t)
    BY <1>1, <2>2, <2>3 DEF TypeOK, ThreadStates
  <2>4. CASE SpuriousWakeup
    BY <1>1, <2>4 DEF SpuriousWakeup, Goto, TypeOK, ThreadStates
  <2>5. CASE WaitSleeps
    BY <1>1, <2>5 DEF WaitSleeps, InWait, CanCall, Goto, TypeOK, ThreadStates
  <2>6. CASE WaitInterrupted \/ WaitUserWake
    BY <1>1, <2>6 DEF WaitInterrupted, WaitUserWake, InWait, CanCall, Goto,
                      TypeOK, ThreadStates
  <2>. QED
    BY <2>1, <2>3, <2>4, <2>5, <2>6
<1>. QED
  BY <1>2, <1>3, <1>4, QuietIInv

(* LbqInitializeLinkedBlockingQueue for the next connection                *)
LEMMA InitializeIInv ==
  ASSUME IInv, LbqInitializeLinkedBlockingQueue
  PROVE  IInv'
<1>1. TypeOK /\ ListIntegrity /\ ChainIntegrity /\ EntryOwnership /\ ThreadStates
  BY DEF IInv
<1>2. /\ destroyed /\ destroyed' = FALSE
      /\ head' = NULL /\ tail' = NULL /\ currentSize' = 0
      /\ shutdown' = FALSE /\ draining' = FALSE /\ pendingUserWake' = FALSE
      /\ everOffered' = FALSE /\ wakes' = 0
      /\ waitResult' = NULL
      /\ UNCHANGED <<flink, items, heap, data, walk, pc>>
  BY DEF LbqInitializeLinkedBlockingQueue
<1>3. items = <<>>
  BY <1>1, <1>2 DEF ThreadStates
<1>4. TypeOK'
  <2>1. currentSize' \in 0..sizeBound /\ wakes' \in 0..MaxUserWakes
    BY <1>2, LbqAssumption
  <2>. QED
    BY <1>1, <1>2, <2>1 DEF TypeOK, Ptr, walk
<1>5. ListIntegrity'
  BY <1>2, <1>3, EmptySeq DEF ListIntegrity, IsList
<1>6. ChainIntegrity' /\ EntryOwnership'
  BY <1>1, <1>2 DEF ChainIntegrity, EntryOwnership, IsList, Holds, InSeq,
                    Distinct, walk
<1>7. ThreadStates'
  BY <1>1, <1>2 DEF ThreadStates, walk
<1>. QED
  BY <1>4, <1>5, <1>6, <1>7 DEF IInv

(* Both ways to take an entry, in the form PopIInv and the refinement use  *)
LEMMA TakeFacts ==
  ASSUME IInv, NEW t \in Threads,
         LbqPollQueueElement(t) \/ (t = Waiter /\ WaitSucceeds)
  PROVE  /\ ~destroyed /\ ~shutdown /\ head # NULL /\ data[t] = NULL
         /\ pc[t] \in {"idle", "awake"}
         /\ PopTo(t) /\ pc' = [pc EXCEPT ![t] = "idle"]
         /\ waitResult' \in {waitResult, SUCCESS}
         /\ UNCHANGED <<flags, walk, destroyed>>
<1>1. TypeOK /\ ListIntegrity /\ ThreadStates
  BY DEF IInv
<1>2. CASE LbqPollQueueElement(t)
  BY <1>1, <1>2 DEF LbqPollQueueElement, CanCall, TypeOK
<1>3. CASE t = Waiter /\ WaitSucceeds
  <2>1. pc[t] \in {"idle", "awake"} /\ data[t] = NULL
    BY <1>1, <1>3 DEF WaitSucceeds, InWait, CanCall, ThreadStates
  <2>2. /\ ~shutdown /\ head # NULL /\ PopTo(t)
        /\ pc' = [pc EXCEPT ![t] = "idle"] /\ waitResult' = SUCCESS
        /\ UNCHANGED <<flags, walk, destroyed>>
    BY <1>3 DEF WaitSucceeds, Goto
  <2>3. ~destroyed
    BY <1>1, <1>3 DEF WaitSucceeds, InWait, CanCall, ThreadStates
  <2>. QED
    BY <2>1, <2>2, <2>3
<1>. QED
  BY <1>2, <1>3

(* Every step keeps the inductive invariant.                               *)
LEMMA NextIInv == IInv /\ [Next]_vars => IInv'
<1>. SUFFICES ASSUME IInv, [Next]_vars
              PROVE  IInv'
  OBVIOUS
<1>1. ASSUME NEW t \in Threads, NEW e \in Entries, LbqOfferQueueItem(t, e)
      PROVE  IInv'
  BY <1>1, OfferIInv
<1>2. ASSUME NEW t \in Threads,
             LbqPollQueueElement(t) \/ (t = Waiter /\ WaitSucceeds)
      PROVE  IInv'
  BY <1>2, TakeFacts, PopIInv
<1>3. ASSUME NEW t \in Threads,
             \/ LbqSignalQueueShutdown(t) \/ LbqSignalQueueDrain(t)
             \/ LbqSignalQueueUserWake(t)
      PROVE  IInv'
  BY <1>3, SignalIInv
<1>4. ASSUME NEW t \in Threads, LbqFlushQueueItems(t)
      PROVE  IInv'
  BY <1>4, FlushIInv
<1>5. ASSUME NEW t \in Threads, LbqDestroyLinkedBlockingQueue(t)
      PROVE  IInv'
  BY <1>5, DestroyIInv
<1>6. ASSUME NEW t \in Threads, FreeChainEntry(t)
      PROVE  IInv'
  BY <1>6, FreeChainEntryIInv
<1>7. ASSUME NEW t \in Threads, FreeData(t)
      PROVE  IInv'
  BY <1>7, FreeDataIInv
<1>8. ASSUME \/ \E t \in Threads : PltSignalConditionVariable(t) \/ FreeChainDone(t)
             \/ SpuriousWakeup
             \/ WaitSleeps \/ WaitInterrupted \/ WaitUserWake
      PROVE  IInv'
  BY <1>8, MoveIInv
<1>9. CASE LbqInitializeLinkedBlockingQueue
  BY <1>9, InitializeIInv
<1>10. CASE UNCHANGED vars
  <2>1. UNCHANGED <<list, flags, heap, data, walk, pc, destroyed, waitResult>>
    BY <1>10 DEF vars
  <2>2. TypeOK' /\ ThreadStates'
    BY <2>1 DEF IInv, TypeOK, ThreadStates, list, flags, walk
  <2>. QED
    BY <2>1, <2>2, EntriesUntouched DEF IInv
<1>. QED
  BY <1>1, <1>2, <1>3, <1>4, <1>5, <1>6, <1>7, <1>8, <1>9, <1>10, LbqAssumption
     DEF Next, ThreadStep, LbqWaitForQueueElement

(* The inductive invariant holds in every reachable state.                 *)
THEOREM Inductive == Spec => []IInv
  BY InitIInv, NextIInv, PTL DEF Spec

(* Types: currentSize stays within 0..sizeBound, whatever the threads do   *)
(* to the queue and however many they are (LinkedBlockingQueue.c:98, 186). *)
THEOREM TypeCorrect == Spec => []TypeOK
<1>1. IInv => TypeOK
  BY DEF IInv
<1>. QED
  BY <1>1, Inductive, PTL

(* The links in memory always hold what was offered and not yet taken, in  *)
(* order: no LC_ASSERT of LinkedBlockingQueue.c on them fails.             *)
THEOREM ListIntegrityHolds == Spec => []ListIntegrity
<1>1. IInv => ListIntegrity
  BY DEF IInv
<1>. QED
  BY <1>1, Inductive, PTL

(* A flushed list is walked undisturbed while the queue is used again.     *)
THEOREM ChainIntegrityHolds == Spec => []ChainIntegrity
<1>1. IInv => ChainIntegrity
  BY DEF IInv
<1>. QED
  BY <1>1, Inductive, PTL

(* No entry is ever leaked, freed twice or owned twice.                    *)
THEOREM EntryOwnershipHolds == Spec => []EntryOwnership
<1>1. IInv => EntryOwnership
  BY DEF IInv
<1>. QED
  BY <1>1, Inductive, PTL

-----------------------------------------------------------------------------
(* NoLostWakeup is inductive once the threads' places are known: an offer  *)
(* to a queue that is not empty need not signal, because a waiter that     *)
(* sleeps on such a queue is already about to be signalled.                *)
LEMMA NoLostWakeupInit == Init => NoLostWakeup
  BY LbqAssumption DEF Init, NoLostWakeup

(* Every step keeps a signal or a wakeup due to each sleeper with a reason *)
(* to wake.                                                                *)
LEMMA NoLostWakeupNext ==
  IInv /\ NoLostWakeup /\ [Next]_vars => NoLostWakeup'
<1>. SUFFICES ASSUME IInv, NoLostWakeup, [Next]_vars,
                     pc'[Waiter] = "asleep", WakeCondition'
              PROVE  \E t \in Threads : pc'[t] = "signal"
  BY DEF NoLostWakeup
<1>1. TypeOK /\ ThreadStates /\ Waiter \in Threads
  BY LbqAssumption DEF IInv
<1>2. ASSUME NEW t \in Threads, NEW e \in Entries, LbqOfferQueueItem(t, e)
      PROVE  \E u \in Threads : pc'[u] = "signal"
  <2>1. CASE head = NULL
    BY <1>1, <1>2, <2>1 DEF LbqOfferQueueItem, LeaveWith, Goto, TypeOK
  <2>2. CASE head # NULL
    <3>1. pc' = [pc EXCEPT ![t] = "idle"] /\ pc[t] = "idle"
      BY <1>2, <2>2 DEF LbqOfferQueueItem, LeaveWith, Goto, CanCall
    <3>2. \E u \in Threads : pc[u] = "signal"
      BY <1>1, <2>2, <3>1 DEF NoLostWakeup, WakeCondition, TypeOK
    <3>. QED
      BY <1>1, <3>1, <3>2 DEF TypeOK
  <2>. QED
    BY <2>1, <2>2
<1>3. ASSUME NEW t \in Threads,
             \/ LbqSignalQueueShutdown(t) \/ LbqSignalQueueDrain(t)
             \/ LbqSignalQueueUserWake(t)
      PROVE  \E u \in Threads : pc'[u] = "signal"
  BY <1>1, <1>3 DEF LbqSignalQueueShutdown, LbqSignalQueueDrain,
                    LbqSignalQueueUserWake, LeaveWith, Goto, TypeOK
<1>4. ASSUME NEW t \in Threads, PltSignalConditionVariable(t)
      PROVE  FALSE
  BY <1>1, <1>4 DEF PltSignalConditionVariable
<1>5. CASE LbqWaitForQueueElement \/ SpuriousWakeup
  <2>1. ~WaitInterrupted /\ ~WaitUserWake /\ ~WaitSucceeds /\ ~SpuriousWakeup
    BY <1>1 DEF WaitInterrupted, WaitUserWake, WaitSucceeds, SpuriousWakeup,
                Goto, TypeOK
  <2>2. ~WaitSleeps
    BY DEF WaitSleeps, WakeCondition, list, flags
  <2>. QED
    BY <1>5, <2>1, <2>2 DEF LbqWaitForQueueElement
<1>6. ASSUME NEW t \in Threads,
             \/ LbqPollQueueElement(t) \/ LbqFlushQueueItems(t)
             \/ LbqDestroyLinkedBlockingQueue(t)
             \/ FreeChainEntry(t) \/ FreeChainDone(t) \/ FreeData(t)
      PROVE  \E u \in Threads : pc'[u] = "signal"
  <2>1. /\ pc[t] # "signal" /\ pc'[t] # "asleep"
        /\ \A u \in Threads : u # t => pc'[u] = pc[u]
    BY <1>1, <1>6 DEF LbqPollQueueElement, LbqFlushQueueItems, TakeChain, CanCall,
         LbqDestroyLinkedBlockingQueue, FreeChainEntry, FreeChainDone, FreeData,
         Goto, TypeOK
  <2>2. pc[Waiter] = "asleep"
    BY <1>1, <2>1
  <2>3. WakeCondition
    <3>1. UNCHANGED <<shutdown, draining, pendingUserWake>>
      BY <1>6 DEF LbqPollQueueElement, LbqFlushQueueItems, TakeChain,
           LbqDestroyLinkedBlockingQueue, FreeChainEntry, FreeChainDone, FreeData,
           flags
    <3>2. head' # NULL => head # NULL
      BY <1>6 DEF LbqPollQueueElement, LbqFlushQueueItems, TakeChain,
           LbqDestroyLinkedBlockingQueue, FreeChainEntry, FreeChainDone, FreeData,
           list
    <3>. QED
      BY <3>1, <3>2 DEF WakeCondition
  <2>. QED
    BY <2>1, <2>2, <2>3 DEF NoLostWakeup
<1>7. CASE LbqInitializeLinkedBlockingQueue
  BY <1>1, <1>7 DEF LbqInitializeLinkedBlockingQueue
<1>8. CASE UNCHANGED vars
  BY <1>8 DEF vars, list, flags, NoLostWakeup, WakeCondition
<1>. QED
  BY <1>2, <1>3, <1>4, <1>5, <1>6, <1>7, <1>8 DEF Next, ThreadStep

(* The waiter never sleeps through an entry, a user wake, a drain or a     *)
(* shutdown, although a signal is only sent when the queue was empty and   *)
(* after the mutex was released (LinkedBlockingQueue.c:107-128).           *)
THEOREM NoLostWakeupHolds == Spec => []NoLostWakeup
  BY Inductive, NoLostWakeupInit, NoLostWakeupNext, PTL DEF Spec

-----------------------------------------------------------------------------
(* Refinement: the queue begins as an empty BoundedQueue.                  *)
LEMMA RefinesInit == Init => BQ!Init
  BY DEF Init, BQ!Init, Phase

(* Offers, takes, flushes and the rundown are steps of BoundedQueue; all   *)
(* else a thread does is a stutter there.                                  *)
LEMMA RefinesNext == IInv /\ [Next]_vars => [BQ!Next]_(BQ!vars)
<1>. SUFFICES ASSUME IInv, [Next]_vars
              PROVE  BQ!Next \/ UNCHANGED BQ!vars
  OBVIOUS
<1>1. TypeOK /\ ThreadStates /\ Waiter \in Threads
  BY LbqAssumption DEF IInv
<1>2. ASSUME NEW t \in Threads, NEW e \in Entries, LbqOfferQueueItem(t, e)
      PROVE  BQ!Put(e)
  <2>1. /\ ~destroyed /\ e \notin heap /\ ~shutdown /\ ~draining /\ ~QueueFull
        /\ items' = Append(items, e)
        /\ UNCHANGED <<shutdown, draining, data>>
    BY <1>2 DEF LbqOfferQueueItem, CanCall, flags
  <2>2. Len(items) < sizeBound
    BY <1>1, <2>1, HeadFacts, LbqAssumption DEF TypeOK, QueueFull
  <2>3. \A i \in 1..Len(items) : items[i] # e
    BY <2>1 DEF IInv, EntryOwnership, InSeq
  <2>. QED
    BY <2>1, <2>2, <2>3 DEF BQ!Put, Phase
<1>3. ASSUME NEW t \in Threads,
             LbqPollQueueElement(t) \/ (t = Waiter /\ WaitSucceeds)
      PROVE  BQ!Get(t)
  <2>1. /\ ~destroyed /\ ~shutdown /\ head # NULL /\ data[t] = NULL
        /\ PopTo(t) /\ UNCHANGED flags
    BY <1>3, TakeFacts
  <2>2. items # <<>> /\ head = Head(items)
    BY <1>1, <2>1, HeadFacts, TailFacts DEF TypeOK
  <2>. QED
    BY <2>1, <2>2 DEF PopTo, BQ!Get, Phase, flags
<1>4. ASSUME NEW t \in Threads, LbqSignalQueueShutdown(t)
      PROVE  BQ!Close
  BY <1>4 DEF LbqSignalQueueShutdown, BQ!Close, Phase, list
<1>5. ASSUME NEW t \in Threads, LbqSignalQueueDrain(t)
      PROVE  BQ!Drain \/ UNCHANGED BQ!vars
  BY <1>5 DEF LbqSignalQueueDrain, BQ!Drain, BQ!vars, Phase, list
<1>6. ASSUME NEW t \in Threads,
             LbqFlushQueueItems(t) \/ LbqDestroyLinkedBlockingQueue(t)
      PROVE  BQ!Clear
  BY <1>6 DEF LbqFlushQueueItems, LbqDestroyLinkedBlockingQueue, TakeChain,
              BQ!Clear, Phase, flags
<1>7. ASSUME NEW t \in Threads, FreeData(t)
      PROVE  BQ!Dispose(t)
  BY <1>7 DEF FreeData, BQ!Dispose, Phase, flags, list
<1>8. CASE LbqInitializeLinkedBlockingQueue
  <2>1. items = <<>> /\ data = [t \in Threads |-> NULL]
    BY <1>1, <1>8 DEF LbqInitializeLinkedBlockingQueue, ThreadStates, TypeOK
  <2>2. BQ!Reopen
    BY <1>8, <2>1 DEF LbqInitializeLinkedBlockingQueue, BQ!Reopen, Phase
  <2>. QED
    BY <2>2 DEF BQ!Next
<1>9. ASSUME \/ \E t \in Threads : \/ LbqSignalQueueUserWake(t)
                                   \/ PltSignalConditionVariable(t)
                                   \/ FreeChainEntry(t) \/ FreeChainDone(t)
             \/ SpuriousWakeup
             \/ WaitSleeps \/ WaitInterrupted \/ WaitUserWake
             \/ UNCHANGED vars
      PROVE  UNCHANGED BQ!vars
  <2>1. UNCHANGED <<items, data, shutdown, draining>>
    BY <1>9 DEF LbqSignalQueueUserWake, PltSignalConditionVariable,
         FreeChainEntry, FreeChainDone, SpuriousWakeup, WaitSleeps,
         WaitInterrupted, WaitUserWake, vars, list, flags
  <2>. QED
    BY <2>1 DEF BQ!vars, Phase
<1>. QED
  BY <1>1, <1>2, <1>3, <1>4, <1>5, <1>6, <1>7, <1>8, <1>9
     DEF Next, ThreadStep, LbqWaitForQueueElement, BQ!Next

(* Every behaviour of the queue, with its mutex, condition variable, links *)
(* and any number of threads, is one of the bounded FIFO queue.            *)
THEOREM Refinement == Spec => ImplementsBoundedQueue
  BY Inductive, RefinesInit, RefinesNext, PTL
     DEF Spec, ImplementsBoundedQueue, BQ!Spec
=============================================================================
