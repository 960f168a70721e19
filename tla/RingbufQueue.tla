---------------------------- MODULE RingbufQueue ----------------------------
(***************************************************************************)
(* RingbufQueue<T, D> of src/src/lockfree/ringbuf_queue.cc: a ring of      *)
(* __nodes and one 64-bit word __counter that holds the push and the pop   *)
(* index.  A thread first moves an index with a compare-and-swap loop and  *)
(* only then touches the node the index named, in a second atomic step;    *)
(* everything hard about this queue happens between those two steps.       *)
(*                                                                         *)
(* An item stands for one unique_ptr<T, D>.  It is `outside' while client  *)
(* code owns it, in `hand' while a push owns it, in a slot, or `destroyed' *)
(* by the node destructor.                                                 *)
(*                                                                         *)
(* A definition named Bug... is the one after it with a mistake in it; no  *)
(* other definition uses it.                                               *)
(***************************************************************************)
EXTENDS Integers, FiniteSets

CONSTANTS
  Producers,  \* threads that call push and try_push
  Consumers,  \* threads that call pop (a thread may be in both sets)
  Items,      \* the unique_ptrs that travel through the queue
  Capacity,   \* max_size of the constructor
  NULL        \* the null TaggedPtr

Threads == Producers \cup Consumers
Index   == 0 .. Capacity - 1

\* A ring of size 0 would divide by zero in (e + 1) % capacity().
ASSUME CapacityAssumption == Capacity \in Nat \ {0}
ASSUME NullAssumption     == NULL \notin Items

VARIABLES
  counter,    \* __counter, a PointerType
  slots,      \* __nodes
  pc,         \* where each thread stands in the operation it runs
  e_point,    \* the counter value that operation expects to replace
  d_point,    \* the counter value it would put there
  hand,       \* the ptr argument of a push in progress
  outside,    \* items owned by client code
  destroyed   \* items deleted by ~RingbufQueueNode

vars == <<counter, slots, pc, e_point, d_point, hand, outside, destroyed>>

-----------------------------------------------------------------------------
\* PointerType{push, pop}
Point(push, pop) == [push |-> push, pop |-> pop]

Full(p)  == (p.push + 1) % Capacity = p.pop
Empty(p) == p.push = p.pop

BugAdvancePushNoWrap(p) == Point(p.push + 1, p.pop)
AdvancePush(p) == Point((p.push + 1) % Capacity, p.pop)
AdvancePop(p)  == Point(p.push, (p.pop + 1) % Capacity)

Init ==
  /\ counter = Point(0, 0)
  /\ slots = [i \in Index |-> NULL]
  /\ pc = [t \in Threads |-> "idle"]
  /\ e_point = [t \in Threads |-> Point(0, 0)]
  /\ d_point = [t \in Threads |-> Point(0, 0)]
  /\ hand = [t \in Threads |-> NULL]
  /\ outside = Items
  /\ destroyed = {}

\* The operation returns and its locals go out of scope.
Return(t) ==
  /\ pc' = [pc EXCEPT ![t] = "idle"]
  /\ e_point' = [e_point EXCEPT ![t] = Point(0, 0)]
  /\ d_point' = [d_point EXCEPT ![t] = Point(0, 0)]
  /\ hand' = [hand EXCEPT ![t] = NULL]

-----------------------------------------------------------------------------
(* Calls: the argument moves into the operation and the loop's first guess *)
(* at the counter is loaded.                                               *)

BeginPush(t, op) ==
  /\ pc[t] = "idle"
  /\ \E x \in outside :
       /\ hand' = [hand EXCEPT ![t] = x]
       /\ outside' = outside \ {x}
  /\ e_point' = [e_point EXCEPT ![t] = Point(0, 0)]
  /\ d_point' = [d_point EXCEPT ![t] = Point(1, 0)]
  /\ pc' = [pc EXCEPT ![t] = op]
  /\ UNCHANGED <<counter, slots, destroyed>>

PushCall(t)    == BeginPush(t, "push")
TryPushCall(t) == BeginPush(t, "try_push")

PopCall(t) ==
  /\ pc[t] = "idle"
  /\ e_point' = [e_point EXCEPT ![t] = Point(1, 0)]
  /\ d_point' = [d_point EXCEPT ![t] = Point(1, 1)]
  /\ pc' = [pc EXCEPT ![t] = "pop"]
  /\ UNCHANGED <<counter, slots, hand, outside, destroyed>>

-----------------------------------------------------------------------------
(* The compare_exchange_weak loops on __counter.                           *)

CounterSwap(t, op, next) ==
  /\ pc[t] = op
  /\ counter = e_point[t]
  /\ counter' = d_point[t]
  /\ pc' = [pc EXCEPT ![t] = next]
  /\ UNCHANGED <<slots, e_point, d_point, hand, outside, destroyed>>

PushReserve(t)    == CounterSwap(t, "push", "store")
TryPushReserve(t) == CounterSwap(t, "try_push", "store")
PopClaim(t)       == CounterSwap(t, "pop", "load")

\* A failed exchange loads the counter into e_point (and a weak one may fail
\* although the counter equals e_point); the loop body then computes d_point.
Retry(t, expected, desired) ==
  /\ e_point' = [e_point EXCEPT ![t] = expected]
  /\ d_point' = [d_point EXCEPT ![t] = desired]
  /\ UNCHANGED <<counter, slots, pc, hand, outside, destroyed>>

\* push() on a full ring forgets what it read and spins.
PushRetry(t) ==
  /\ pc[t] = "push"
  /\ \/ ~Full(counter) /\ Retry(t, counter, AdvancePush(counter))
     \/ Full(counter)  /\ Retry(t, Point(0, 0), Point(1, 0))

BugTryPushRetryWhenFull(t) ==
  pc[t] = "try_push" /\ Retry(t, counter, AdvancePush(counter))

TryPushRetry(t) ==
  /\ pc[t] = "try_push"
  /\ ~Full(counter)
  /\ Retry(t, counter, AdvancePush(counter))

BugTryPushRefusedDropsItem(t) ==
  pc[t] = "try_push" /\ Full(counter) /\ Return(t)
    /\ UNCHANGED <<counter, slots, outside, destroyed>>

\* try_push() on a full ring hands the item back.
TryPushRefused(t) ==
  /\ pc[t] = "try_push"
  /\ Full(counter)
  /\ outside' = outside \cup {hand[t]}
  /\ Return(t)
  /\ UNCHANGED <<counter, slots, destroyed>>

BugPopRetryWhenEmpty(t) == pc[t] = "pop" /\ Retry(t, counter, AdvancePop(counter))

PopRetry(t) ==
  /\ pc[t] = "pop"
  /\ ~Empty(counter)
  /\ Retry(t, counter, AdvancePop(counter))

\* pop() on an empty ring returns nullopt.
PopEmpty(t) ==
  /\ pc[t] = "pop"
  /\ Empty(counter)
  /\ Return(t)
  /\ UNCHANGED <<counter, slots, outside, destroyed>>

-----------------------------------------------------------------------------
(* The access to the node the counter named.                               *)

\* As RingbufQueueNode::store, which nobody calls, would do it.
BugStoreOverwrites(t) ==
  /\ pc[t] = "store"
  /\ slots' = [slots EXCEPT ![e_point[t].push] = hand[t]]
  /\ Return(t)
  /\ UNCHANGED <<counter, outside, destroyed>>

BugStoreAtNewIndex(t) ==
  /\ pc[t] = "store"
  /\ slots[d_point[t].push] = NULL
  /\ slots' = [slots EXCEPT ![d_point[t].push] = hand[t]]
  /\ Return(t)
  /\ UNCHANGED <<counter, outside, destroyed>>

\* blocking_store: spins until the node is null, then fills it.
BlockingStore(t) ==
  /\ pc[t] = "store"
  /\ slots[e_point[t].push] = NULL
  /\ slots' = [slots EXCEPT ![e_point[t].push] = hand[t]]
  /\ Return(t)
  /\ UNCHANGED <<counter, outside, destroyed>>

BugLoadReturnsNull(t) ==
  /\ pc[t] = "load"
  /\ slots' = [slots EXCEPT ![e_point[t].pop] = NULL]
  /\ outside' = outside \cup {slots[e_point[t].pop]}
  /\ Return(t)
  /\ UNCHANGED <<counter, destroyed>>

BugLoadKeepsPointer(t) ==
  /\ pc[t] = "load"
  /\ outside' = outside \cup ({slots[e_point[t].pop]} \ {NULL})
  /\ Return(t)
  /\ UNCHANGED <<counter, slots, destroyed>>

\* load: exchanges the node with null; a null node makes pop() return nullopt.
Load(t) ==
  /\ pc[t] = "load"
  /\ slots' = [slots EXCEPT ![e_point[t].pop] = NULL]
  /\ outside' = outside \cup ({slots[e_point[t].pop]} \ {NULL})
  /\ Return(t)
  /\ UNCHANGED <<counter, destroyed>>

\* ~RingbufQueue, once no operation is in progress: each ~RingbufQueueNode
\* loads its node and drops what it finds.
Destroy ==
  /\ \A t \in Threads : pc[t] = "idle"
  /\ destroyed' = destroyed \cup ({slots[i] : i \in Index} \ {NULL})
  /\ slots' = [i \in Index |-> NULL]
  /\ pc' = [t \in Threads |-> "destroyed"]
  /\ UNCHANGED <<counter, e_point, d_point, hand, outside>>

-----------------------------------------------------------------------------
ProducerStep(t) ==
  \/ PushCall(t) \/ PushReserve(t) \/ PushRetry(t)
  \/ TryPushCall(t) \/ TryPushReserve(t) \/ TryPushRetry(t) \/ TryPushRefused(t)
  \/ BlockingStore(t)

ConsumerStep(t) ==
  PopCall(t) \/ PopClaim(t) \/ PopRetry(t) \/ PopEmpty(t) \/ Load(t)

Next ==
  \/ \E t \in Producers : ProducerStep(t)
  \/ \E t \in Consumers : ConsumerStep(t)
  \/ Destroy

Spec == Init /\ [][Next]_vars

\* A thread inside an operation keeps running and a weak exchange does not fail
\* spuriously for ever; consumers keep calling pop(), as a worker thread does
\* (PoolWorker::thread_work) and as EventLoop::run_forever does.  Nobody has to
\* call push.
Fairness ==
  /\ \A t \in Producers :
       /\ WF_vars(PushReserve(t)) /\ WF_vars(PushRetry(t))
       /\ WF_vars(TryPushReserve(t)) /\ WF_vars(TryPushRetry(t))
       /\ WF_vars(TryPushRefused(t)) /\ WF_vars(BlockingStore(t))
  /\ \A t \in Consumers :
       /\ WF_vars(PopCall(t)) /\ WF_vars(PopClaim(t)) /\ WF_vars(PopRetry(t))
       /\ WF_vars(PopEmpty(t)) /\ WF_vars(Load(t))

FairSpec == Spec /\ Fairness

-----------------------------------------------------------------------------
(***************************************************************************)
(* Properties.                                                             *)
(***************************************************************************)
Points == [push : Nat, pop : Nat]
Steps  == {"idle", "push", "try_push", "pop", "store", "load", "destroyed"}

\* Every variable keeps its shape; in particular the two indexes of the
\* counter, and of every e_point a thread acts on, stay natural numbers.
TypeOK ==
  /\ counter \in Points
  /\ slots \in [Index -> Items \cup {NULL}]
  /\ pc \in [Threads -> Steps]
  /\ e_point \in [Threads -> Points]
  /\ d_point \in [Threads -> Points]
  /\ hand \in [Threads -> Items \cup {NULL}]
  /\ outside \in SUBSET Items
  /\ destroyed \in SUBSET Items

\* __nodes[e_point...] is a node of the ring whenever push() is about to store
\* into it or pop() to load from it: the swap of the counter that let the
\* thread through had an index below capacity() on both sides.
IndexInRange ==
  \A t \in Threads :
    /\ pc[t] = "store" => e_point[t].push \in Index
    /\ pc[t] = "load"  => e_point[t].pop \in Index

\* No item vanishes: whatever the interleaving of pushes, pops and the
\* destructor, client code, a push in progress, a node or the deleter has it.
NoItemLost ==
  \A x \in Items :
    \/ x \in outside
    \/ x \in destroyed
    \/ \E t \in Threads : hand[t] = x
    \/ \E i \in Index : slots[i] = x

\* No item is owned twice: two pops never return the same pointer, no pointer
\* is both in the ring and back with its client, none is deleted twice.
NoItemDuplicated ==
  /\ \A i, j \in Index : slots[i] = slots[j] /\ slots[i] # NULL => i = j
  /\ \A s, t \in Threads : hand[s] = hand[t] /\ hand[s] # NULL => s = t
  /\ \A i \in Index, t \in Threads : slots[i] = hand[t] => slots[i] = NULL
  /\ \A i \in Index : slots[i] \notin outside \cup destroyed
  /\ \A t \in Threads : hand[t] \notin outside \cup destroyed
  /\ outside \cap destroyed = {}

ExactlyOneOwner == NoItemLost /\ NoItemDuplicated

\* Index i lies between the pop index and the push index, so a push has
\* reserved it and no pop has claimed that reservation yet.
Reserved(i) ==
  IF counter.pop <= counter.push
  THEN i \in counter.pop .. counter.push - 1
  ELSE i \in Index /\ (i >= counter.pop \/ i < counter.push)

Storing(i) == {t \in Threads : pc[t] = "store" /\ e_point[t].push = i}
Loading(i) == {t \in Threads : pc[t] = "load" /\ e_point[t].pop = i}

\* While the queue lives, the counter never promises an item that does not
\* exist: for each node, the items stored in it or on their way to it are at
\* least as many as the pops that may still come for them (the reservation not
\* yet claimed and the pops between their claim and their load).
ReservationsBacked ==
  (\A t \in Threads : pc[t] # "destroyed") => \A i \in Index :
    Cardinality(Loading(i)) + (IF Reserved(i) THEN 1 ELSE 0)
      <= Cardinality(Storing(i)) + (IF slots[i] = NULL THEN 0 ELSE 1)

\* The comment in push(): moving the push index never makes it overlap the pop
\* index, however stale the value was that the thread computed d_point from.
PushNeverMeetsPop ==
  [][counter'.push # counter.push => counter'.push # counter'.pop]_vars

\* The items client code still holds when the counter moves, and those in the
\* ring from then on.
InClientHands == outside \cup {hand[t] : t \in {u \in Threads :
                                          pc[u] \in {"push", "try_push"}}}
InRing == ({slots[i] : i \in Index} \ {NULL})
            \cup {hand[t] : t \in {u \in Threads : pc[u] = "store"}}

Pool == INSTANCE ItemPool WITH outside <- InClientHands, inside <- InRing

\* The ring is an unordered pool to its clients: a push puts its item in when
\* the counter moves, each pop takes out at most one item, and only an item
\* that is in; the destructor deletes exactly what is left.
PoolSpec == Pool!Spec

\* A single producer is never left waiting for a pop that nobody has a reason to
\* make: while its node still holds an item, the node lies between the indexes,
\* where the next pops claim it, or a pop has claimed it and is about to load.
PushServed ==
  \A t \in Threads : pc[t] = "store" =>
    LET i == e_point[t].push IN slots[i] = NULL \/ Reserved(i) \/ Loading(i) # {}

\* With one producer and one consumer that keeps popping, every push() returns,
\* also when an early pop has left an old item in the node it was given.
PushReturns ==
  \A t \in Producers : pc[t] \in {"push", "store"} ~> pc[t] = "idle"
=============================================================================
