-------------------------- MODULE RingbufQueueProofs --------------------------
(***************************************************************************)
(* Proofs about RingbufQueue for every number of threads, items and nodes. *)
(*                                                                         *)
(* One inductive invariant, Inv, carries all of them.  It adds to TypeOK   *)
(* that the two indexes of the counter, and of everything a thread may     *)
(* write into it, lie in the ring (Bounded); that what a thread is about   *)
(* to write into the counter fits the value it expects there (Guarded);    *)
(* and that an operation owns an item exactly while it pushes (HandHeld).  *)
(*                                                                         *)
(* Everything here assumes a ring of at least two nodes: in a ring of one, *)
(* the guess {1, 0} of push() names a node that does not exist.            *)
(***************************************************************************)
EXTENDS RingbufQueue, FiniteSetTheorems, TLAPS

Pushing == {"push", "try_push"}

Bounded ==
  /\ counter.push \in Index /\ counter.pop \in Index
  /\ \A t \in Threads :
       /\ pc[t] \in Pushing \cup {"pop"} =>
            d_point[t].push \in Index /\ d_point[t].pop \in Index
       /\ pc[t] = "store" => e_point[t].push \in Index
       /\ pc[t] = "load"  => e_point[t].pop \in Index

Guarded ==
  \A t \in Threads :
    /\ pc[t] \in Pushing => d_point[t].push # d_point[t].pop
    /\ pc[t] = "pop" => d_point[t].push = e_point[t].push

HandHeld == \A t \in Threads : pc[t] \in Pushing \cup {"store"} <=> hand[t] # NULL

Inv == TypeOK /\ Bounded /\ Guarded /\ HandHeld

-----------------------------------------------------------------------------
(* The retries of the three loops, told apart by what they leave behind.   *)

RetryFull(t)  == pc[t] = "push" /\ Retry(t, Point(0, 0), Point(1, 0))
RetryPush(t)  == /\ pc[t] \in Pushing
                 /\ ~Full(counter)
                 /\ Retry(t, counter, AdvancePush(counter))
RetryPop(t)   == /\ pc[t] = "pop"
                 /\ ~Empty(counter)
                 /\ Retry(t, counter, AdvancePop(counter))

\* Every step of the specification, with the actions that change the state in
\* the same way put together.
LEMMA StepCases ==
  ASSUME [Next]_vars
  PROVE  \/ \E t \in Threads :
              \/ \E op \in Pushing : BeginPush(t, op)
              \/ PopCall(t)
              \/ \E op \in Pushing : CounterSwap(t, op, "store")
              \/ CounterSwap(t, "pop", "load")
              \/ RetryFull(t) \/ RetryPush(t) \/ RetryPop(t)
              \/ TryPushRefused(t) \/ PopEmpty(t)
              \/ BlockingStore(t) \/ Load(t)
         \/ Destroy
         \/ UNCHANGED vars
<1>1. CASE \E t \in Producers : ProducerStep(t)
  <2>1. PICK t \in Producers : ProducerStep(t)
    BY <1>1
  <2>2. t \in Threads /\ "push" \in Pushing /\ "try_push" \in Pushing
    BY DEF Threads, Pushing
  <2>3. PushCall(t) \/ TryPushCall(t) => \E op \in Pushing : BeginPush(t, op)
    BY <2>2 DEF PushCall, TryPushCall
  <2>4. PushReserve(t) \/ TryPushReserve(t) => \E op \in Pushing : CounterSwap(t, op, "store")
    BY <2>2 DEF PushReserve, TryPushReserve
  <2>5. PushRetry(t) \/ TryPushRetry(t) => RetryFull(t) \/ RetryPush(t)
    BY <2>2 DEF PushRetry, TryPushRetry, RetryFull, RetryPush
  <2> QED BY <2>1, <2>2, <2>3, <2>4, <2>5 DEF ProducerStep
<1>2. CASE \E t \in Consumers : ConsumerStep(t)
  <2>1. PICK t \in Consumers : ConsumerStep(t)
    BY <1>2
  <2>2. t \in Threads
    BY DEF Threads
  <2> QED BY <2>1, <2>2 DEF ConsumerStep, PopClaim, PopRetry, RetryPop
<1> QED BY <1>1, <1>2 DEF Next

-----------------------------------------------------------------------------
LEMMA PointType ==
  ASSUME NEW a \in Nat, NEW b \in Nat
  PROVE  /\ Point(a, b) \in Points
         /\ Point(a, b).push = a
         /\ Point(a, b).pop = b
BY DEF Point, Points

LEMMA ConstantPoints ==
  Point(0, 0) \in Points /\ Point(1, 0) \in Points /\ Point(1, 1) \in Points
BY DEF Point, Points

\* Where the two ways to advance a counter land.
LEMMA Advance ==
  ASSUME NEW p \in Points
  PROVE  /\ AdvancePush(p) \in Points
         /\ AdvancePush(p).push \in Index
         /\ AdvancePush(p).pop = p.pop
         /\ ~Full(p) => AdvancePush(p).push # AdvancePush(p).pop
         /\ AdvancePop(p) \in Points
         /\ AdvancePop(p).push = p.push
         /\ AdvancePop(p).pop \in Index
<1>1. p.push \in Nat /\ p.pop \in Nat
  BY DEF Points
<1>2. (p.push + 1) % Capacity \in Index /\ (p.pop + 1) % Capacity \in Index
  BY <1>1, CapacityAssumption DEF Index
<1>3. Index \subseteq Nat
  BY CapacityAssumption DEF Index
<1> QED BY <1>1, <1>2, <1>3, PointType DEF AdvancePush, AdvancePop, Full

LEMMA InvInit == ASSUME Capacity >= 2 PROVE Init => Inv
<1> SUFFICES ASSUME Init PROVE Inv
  OBVIOUS
<1>1. TypeOK
  BY ConstantPoints DEF Init, TypeOK, Steps
<1>2. Bounded
  BY CapacityAssumption, PointType DEF Init, Bounded, Index, Pushing
<1>3. Guarded /\ HandHeld
  BY DEF Init, Guarded, HandHeld, Pushing
<1> QED BY <1>1, <1>2, <1>3 DEF Inv

-----------------------------------------------------------------------------
LEMMA InvStep ==
  ASSUME Capacity >= 2, Inv, [Next]_vars
  PROVE  Inv'
<1> USE DEF Inv
<1>0. /\ counter \in Points
      /\ 0 \in Index /\ 1 \in Index
      /\ Point(0, 0).push = 0 /\ Point(0, 0).pop = 0
      /\ Point(1, 0).push = 1 /\ Point(1, 0).pop = 0
      /\ Point(1, 1).push = 1 /\ Point(1, 1).pop = 1
  BY CapacityAssumption, PointType DEF TypeOK, Index
<1>1. ASSUME NEW t \in Threads, NEW op \in Pushing, BeginPush(t, op)
      PROVE  Inv'
  <2>1. TypeOK'
    BY <1>1, ConstantPoints DEF BeginPush, TypeOK, Steps, Pushing
  <2>2. Bounded'
    BY <1>1, <1>0 DEF BeginPush, TypeOK, Bounded, Pushing
  <2>3. Guarded'
    BY <1>1, <1>0 DEF BeginPush, TypeOK, Guarded, Pushing
  <2>4. HandHeld'
    BY <1>1, NullAssumption DEF BeginPush, TypeOK, HandHeld, Pushing
  <2> QED BY <2>1, <2>2, <2>3, <2>4
<1>2. ASSUME NEW t \in Threads, PopCall(t)
      PROVE  Inv'
  <2>1. TypeOK'
    BY <1>2, ConstantPoints DEF PopCall, TypeOK, Steps
  <2>2. Bounded'
    BY <1>2, <1>0 DEF PopCall, TypeOK, Bounded, Pushing
  <2>3. Guarded'
    BY <1>2, <1>0 DEF PopCall, TypeOK, Guarded, Pushing
  <2>4. HandHeld'
    BY <1>2 DEF PopCall, TypeOK, HandHeld, Pushing
  <2> QED BY <2>1, <2>2, <2>3, <2>4
<1>3. ASSUME NEW t \in Threads, NEW op \in Pushing, CounterSwap(t, op, "store")
      PROVE  Inv'
  <2>1. TypeOK'
    BY <1>3 DEF CounterSwap, TypeOK, Steps
  <2>2. Bounded'
    BY <1>3 DEF CounterSwap, TypeOK, Bounded, Pushing
  <2>3. Guarded'
    BY <1>3 DEF CounterSwap, TypeOK, Guarded, Pushing
  <2>4. HandHeld'
    BY <1>3 DEF CounterSwap, TypeOK, HandHeld, Pushing
  <2> QED BY <2>1, <2>2, <2>3, <2>4
<1>4. ASSUME NEW t \in Threads, CounterSwap(t, "pop", "load")
      PROVE  Inv'
  <2>1. TypeOK'
    BY <1>4 DEF CounterSwap, TypeOK, Steps
  <2>2. Bounded'
    BY <1>4 DEF CounterSwap, TypeOK, Bounded, Pushing
  <2>3. Guarded'
    BY <1>4 DEF CounterSwap, TypeOK, Guarded, Pushing
  <2>4. HandHeld'
    BY <1>4 DEF CounterSwap, TypeOK, HandHeld, Pushing
  <2> QED BY <2>1, <2>2, <2>3, <2>4
<1>5. ASSUME NEW t \in Threads, RetryFull(t)
      PROVE  Inv'
  <2>1. TypeOK'
    BY <1>5, ConstantPoints DEF RetryFull, Retry, TypeOK
  <2>2. Bounded'
    BY <1>5, <1>0 DEF RetryFull, Retry, TypeOK, Bounded, Pushing
  <2>3. Guarded'
    BY <1>5, <1>0 DEF RetryFull, Retry, TypeOK, Guarded, Pushing
  <2>4. HandHeld'
    BY <1>5 DEF RetryFull, Retry, HandHeld
  <2> QED BY <2>1, <2>2, <2>3, <2>4
<1>6. ASSUME NEW t \in Threads, RetryPush(t)
      PROVE  Inv'
  <2>1. TypeOK'
    BY <1>6, <1>0, Advance DEF RetryPush, Retry, TypeOK
  <2>2. Bounded'
    BY <1>6, <1>0, Advance DEF RetryPush, Retry, TypeOK, Bounded, Pushing
  <2>3. Guarded'
    BY <1>6, <1>0, Advance DEF RetryPush, Retry, TypeOK, Guarded, Pushing
  <2>4. HandHeld'
    BY <1>6 DEF RetryPush, Retry, HandHeld
  <2> QED BY <2>1, <2>2, <2>3, <2>4
<1>7. ASSUME NEW t \in Threads, RetryPop(t)
      PROVE  Inv'
  <2>1. TypeOK'
    BY <1>7, <1>0, Advance DEF RetryPop, Retry, TypeOK
  <2>2. Bounded'
    BY <1>7, <1>0, Advance DEF RetryPop, Retry, TypeOK, Bounded, Pushing
  <2>3. Guarded'
    BY <1>7, <1>0, Advance DEF RetryPop, Retry, TypeOK, Guarded, Pushing
  <2>4. HandHeld'
    BY <1>7 DEF RetryPop, Retry, HandHeld
  <2> QED BY <2>1, <2>2, <2>3, <2>4
<1>8. ASSUME NEW t \in Threads, Return(t), UNCHANGED counter,
             slots' \in [Index -> Items \cup {NULL}],
             outside' \in SUBSET Items, UNCHANGED destroyed
      PROVE  Inv'
  <2>1. TypeOK'
    BY <1>8, ConstantPoints DEF Return, TypeOK, Steps
  <2>2. Bounded'
    BY <1>8 DEF Return, TypeOK, Bounded, Pushing
  <2>3. Guarded'
    BY <1>8 DEF Return, TypeOK, Guarded, Pushing
  <2>4. HandHeld'
    BY <1>8 DEF Return, TypeOK, HandHeld, Pushing
  <2> QED BY <2>1, <2>2, <2>3, <2>4
<1>9. ASSUME NEW t \in Threads, TryPushRefused(t)
      PROVE  Inv'
  <2>1. hand[t] \in Items
    BY <1>9 DEF TryPushRefused, TypeOK, HandHeld, Pushing
  <2> QED BY <1>8, <1>9, <2>1 DEF TryPushRefused, TypeOK
<1>10. ASSUME NEW t \in Threads, PopEmpty(t)
       PROVE  Inv'
  BY <1>8, <1>10 DEF PopEmpty, TypeOK
<1>11. ASSUME NEW t \in Threads, BlockingStore(t)
       PROVE  Inv'
  BY <1>8, <1>11 DEF BlockingStore, TypeOK
<1>12. ASSUME NEW t \in Threads, Load(t)
       PROVE  Inv'
  <2>1. e_point[t].pop \in Index
    BY <1>12 DEF Load, Bounded
  <2>2. slots[e_point[t].pop] \in Items \cup {NULL}
    BY <2>1 DEF TypeOK
  <2> QED BY <1>8, <1>12, <2>2 DEF Load, TypeOK
<1>13. CASE Destroy
  <2>1. TypeOK'
    BY <1>13 DEF Destroy, TypeOK, Steps
  <2>2. Bounded'
    BY <1>13 DEF Destroy, TypeOK, Bounded, Pushing
  <2>3. Guarded'
    BY <1>13 DEF Destroy, TypeOK, Guarded, Pushing
  <2>4. HandHeld'
    BY <1>13 DEF Destroy, TypeOK, HandHeld, Pushing
  <2> QED BY <2>1, <2>2, <2>3, <2>4
<1>14. CASE UNCHANGED vars
  BY <1>14 DEF vars, TypeOK, Bounded, Guarded, HandHeld
<1> QED
  BY StepCases, <1>1, <1>2, <1>3, <1>4, <1>5, <1>6, <1>7, <1>9, <1>10, <1>11, <1>12, <1>13, <1>14

\* The inductive invariant holds in every reachable state.
THEOREM InvCorrect == ASSUME Capacity >= 2 PROVE Spec => []Inv
BY InvInit, InvStep, PTL DEF Spec

\* Every variable of the queue keeps its shape, for every number of threads and
\* items and every ring of at least two nodes.
THEOREM TypeCorrect == ASSUME Capacity >= 2 PROVE Spec => []TypeOK
<1>1. Inv => TypeOK
  BY DEF Inv
<1> QED BY <1>1, InvCorrect, PTL

\* push() and pop() never touch a node outside of __nodes.
THEOREM IndexSafe == ASSUME Capacity >= 2 PROVE Spec => []IndexInRange
<1>1. Inv => IndexInRange
  BY DEF Inv, Bounded, IndexInRange
<1> QED BY <1>1, InvCorrect, PTL

\* The push index never moves onto the pop index.
THEOREM PushNeverMeetsPopCorrect ==
  ASSUME Capacity >= 2 PROVE Spec => PushNeverMeetsPop
<1>1. ASSUME Inv, [Next]_vars
      PROVE  counter'.push # counter.push => counter'.push # counter'.pop
  <2> SUFFICES ASSUME counter'.push # counter.push
               PROVE  counter'.push # counter'.pop
    OBVIOUS
  <2>1. PICK t \in Threads : \/ \E op \in Pushing : CounterSwap(t, op, "store")
                             \/ CounterSwap(t, "pop", "load")
    BY <1>1, StepCases
       DEF BeginPush, PopCall, RetryFull, RetryPush, RetryPop, Retry, TryPushRefused,
           PopEmpty, BlockingStore, Load, Destroy, vars
  <2>2. CASE \E op \in Pushing : CounterSwap(t, op, "store")
    BY <1>1, <2>2 DEF CounterSwap, Inv, Guarded
  <2>3. CASE CounterSwap(t, "pop", "load")
    BY <1>1, <2>3 DEF CounterSwap, Inv, Guarded
  <2> QED BY <2>1, <2>2, <2>3
<1> QED BY <1>1, InvCorrect, PTL DEF Spec, PushNeverMeetsPop

-----------------------------------------------------------------------------
(* Ownership.  Inv is what a step needs to keep it: a node written is a    *)
(* node of the ring, and a push still holds what it stores or returns.     *)

LEMMA OwnerInit == Init => ExactlyOneOwner
BY NullAssumption DEF Init, ExactlyOneOwner, NoItemLost, NoItemDuplicated

LEMMA OwnerStep ==
  ASSUME Inv, ExactlyOneOwner, [Next]_vars
  PROVE  ExactlyOneOwner'
<1> USE DEF Inv, ExactlyOneOwner
<1>1. ASSUME UNCHANGED <<slots, hand, outside, destroyed>>
      PROVE  ExactlyOneOwner'
  BY <1>1 DEF NoItemLost, NoItemDuplicated
<1>2. ASSUME NEW t \in Threads, NEW op \in Pushing, BeginPush(t, op)
      PROVE  ExactlyOneOwner'
  <2>1. PICK x \in outside : /\ hand' = [hand EXCEPT ![t] = x]
                             /\ outside' = outside \ {x}
    BY <1>2 DEF BeginPush
  <2>2. x \in Items /\ hand[t] = NULL /\ UNCHANGED <<slots, destroyed>>
    BY <1>2 DEF BeginPush, HandHeld, TypeOK, Pushing
  <2>3. NoItemLost'
    BY <2>1, <2>2, NullAssumption DEF NoItemLost, TypeOK
  <2>4. NoItemDuplicated'
    BY <2>1, <2>2, NullAssumption DEF NoItemDuplicated, TypeOK
  <2> QED BY <2>3, <2>4
<1>3. ASSUME NEW t \in Threads, TryPushRefused(t)
      PROVE  ExactlyOneOwner'
  <2>1. /\ hand[t] \in Items
        /\ hand' = [hand EXCEPT ![t] = NULL]
        /\ outside' = outside \cup {hand[t]}
        /\ UNCHANGED <<slots, destroyed>>
    BY <1>3 DEF TryPushRefused, Return, HandHeld, TypeOK, Pushing
  <2>2. NoItemLost'
    BY <2>1, NullAssumption DEF NoItemLost, TypeOK
  <2>3. NoItemDuplicated'
    BY <2>1, NullAssumption DEF NoItemDuplicated, TypeOK
  <2> QED BY <2>2, <2>3
<1>4. ASSUME NEW t \in Threads, PopEmpty(t)
      PROVE  ExactlyOneOwner'
  <2>1. hand[t] = NULL
    BY <1>4 DEF PopEmpty, HandHeld, Pushing
  <2> QED BY <1>1, <1>4, <2>1 DEF PopEmpty, Return, TypeOK
<1>5. ASSUME NEW t \in Threads, BlockingStore(t)
      PROVE  ExactlyOneOwner'
  <2> DEFINE i == e_point[t].push
  <2>1. /\ hand[t] \in Items /\ i \in Index /\ slots[i] = NULL
        /\ hand' = [hand EXCEPT ![t] = NULL]
        /\ slots' = [slots EXCEPT ![i] = hand[t]]
        /\ UNCHANGED <<outside, destroyed>>
    BY <1>5 DEF BlockingStore, Return, HandHeld, Bounded, TypeOK, Pushing
  <2> HIDE DEF i
  <2>2. NoItemLost'
    BY <2>1, NullAssumption DEF NoItemLost, TypeOK
  <2>3. NoItemDuplicated'
    BY <2>1, NullAssumption DEF NoItemDuplicated, TypeOK
  <2> QED BY <2>2, <2>3
<1>6. ASSUME NEW t \in Threads, Load(t)
      PROVE  ExactlyOneOwner'
  <2> DEFINE i == e_point[t].pop
  <2>1. /\ hand[t] = NULL /\ i \in Index
        /\ hand' = [hand EXCEPT ![t] = NULL]
        /\ slots' = [slots EXCEPT ![i] = NULL]
        /\ outside' = outside \cup ({slots[i]} \ {NULL})
        /\ UNCHANGED destroyed
    BY <1>6 DEF Load, Return, HandHeld, Bounded, Pushing
  <2> HIDE DEF i
  <2>2. NoItemLost'
    BY <2>1, NullAssumption DEF NoItemLost, TypeOK
  <2>3. NoItemDuplicated'
    BY <2>1, NullAssumption DEF NoItemDuplicated, TypeOK
  <2> QED BY <2>2, <2>3
<1>7. CASE Destroy
  <2>1. \A t \in Threads : hand[t] = NULL
    BY <1>7 DEF Destroy, HandHeld, Pushing
  <2>2. NoItemLost'
    BY <1>7, <2>1, NullAssumption DEF Destroy, NoItemLost, TypeOK
  <2>3. NoItemDuplicated'
    BY <1>7, <2>1, NullAssumption DEF Destroy, NoItemDuplicated, TypeOK
  <2> QED BY <2>2, <2>3
<1>8. ASSUME NEW t \in Threads,
             \/ PopCall(t)
             \/ \E op \in Pushing : CounterSwap(t, op, "store")
             \/ CounterSwap(t, "pop", "load")
             \/ RetryFull(t) \/ RetryPush(t) \/ RetryPop(t)
      PROVE  ExactlyOneOwner'
  BY <1>1, <1>8 DEF PopCall, CounterSwap, RetryFull, RetryPush, RetryPop, Retry
<1>9. CASE UNCHANGED vars
  BY <1>1, <1>9 DEF vars
<1> QED BY StepCases, <1>2, <1>3, <1>4, <1>5, <1>6, <1>7, <1>8, <1>9

\* No item is lost and none is owned twice, whatever the number of threads.
THEOREM OwnerCorrect ==
  ASSUME Capacity >= 2 PROVE Spec => []ExactlyOneOwner
<1>1. Init => ExactlyOneOwner
  BY OwnerInit
<1>2. Inv /\ ExactlyOneOwner /\ [Next]_vars => ExactlyOneOwner'
  BY OwnerStep
<1> QED BY <1>1, <1>2, InvCorrect, PTL DEF Spec

-----------------------------------------------------------------------------
(* The ring implements the pool of ItemPool.                               *)

LEMMA PoolInit == ASSUME Init PROVE Pool!Init
<1>1. \A t \in Threads : pc[t] = "idle"
  BY DEF Init
<1>2. InClientHands = Items
  BY <1>1 DEF Init, InClientHands
<1>3. InRing = {}
  BY <1>1 DEF Init, InRing
<1> QED BY <1>2, <1>3 DEF Init, Pool!Init

LEMMA PoolStep ==
  ASSUME Inv, ExactlyOneOwner, [Next]_vars
  PROVE  [Pool!Next]_(Pool!vars)
<1> USE DEF Inv, ExactlyOneOwner
<1>1. ASSUME InClientHands' = InClientHands, InRing' = InRing, destroyed' = destroyed
      PROVE  UNCHANGED Pool!vars
  BY <1>1 DEF Pool!vars
<1>2. ASSUME NEW t \in Threads, NEW op \in Pushing, BeginPush(t, op)
      PROVE  UNCHANGED Pool!vars
  <2>1. PICK x \in outside : /\ hand' = [hand EXCEPT ![t] = x]
                             /\ outside' = outside \ {x}
    BY <1>2 DEF BeginPush
  <2>2. /\ pc[t] = "idle" /\ pc' = [pc EXCEPT ![t] = op]
        /\ UNCHANGED <<slots, destroyed>>
    BY <1>2 DEF BeginPush
  <2>3. InClientHands' = InClientHands
    BY <2>1, <2>2 DEF InClientHands, TypeOK, Pushing
  <2>4. InRing' = InRing
    BY <2>1, <2>2 DEF InRing, TypeOK, Pushing
  <2> QED BY <1>1, <2>2, <2>3, <2>4
<1>3. ASSUME NEW t \in Threads, NEW op \in Pushing, CounterSwap(t, op, "store")
      PROVE  Pool!Next
  <2> DEFINE x == hand[t]
  <2>1. /\ pc[t] \in Pushing /\ pc' = [pc EXCEPT ![t] = "store"]
        /\ UNCHANGED <<slots, hand, outside, destroyed>>
    BY <1>3 DEF CounterSwap
  <2>2. x \in Items
    BY <2>1 DEF HandHeld, TypeOK, Pushing
  <2>3. x \in InClientHands
    BY <2>1 DEF InClientHands, Pushing
  <2>4. InClientHands' = InClientHands \ {x}
    BY <2>1, <2>2, NullAssumption DEF InClientHands, NoItemDuplicated, TypeOK, Pushing
  <2>5. InRing' = InRing \cup {x}
    BY <2>1, <2>2 DEF InRing, TypeOK, Pushing
  <2>6. Pool!Put(x)
    BY <2>1, <2>3, <2>4, <2>5 DEF Pool!Put
  <2> QED BY <2>2, <2>6 DEF Pool!Next
<1>4. ASSUME NEW t \in Threads, TryPushRefused(t)
      PROVE  UNCHANGED Pool!vars
  <2>1. /\ pc[t] = "try_push" /\ pc' = [pc EXCEPT ![t] = "idle"]
        /\ hand' = [hand EXCEPT ![t] = NULL]
        /\ outside' = outside \cup {hand[t]}
        /\ UNCHANGED <<slots, destroyed>>
    BY <1>4 DEF TryPushRefused, Return
  <2>2. InClientHands' = InClientHands
    BY <2>1 DEF InClientHands, TypeOK
  <2>3. InRing' = InRing
    BY <2>1 DEF InRing, TypeOK
  <2> QED BY <1>1, <2>1, <2>2, <2>3
<1>5. ASSUME NEW t \in Threads, BlockingStore(t)
      PROVE  UNCHANGED Pool!vars
  <2> DEFINE i == e_point[t].push
  <2>1. /\ hand[t] \in Items /\ i \in Index /\ slots[i] = NULL
        /\ pc[t] = "store" /\ pc' = [pc EXCEPT ![t] = "idle"]
        /\ hand' = [hand EXCEPT ![t] = NULL]
        /\ slots' = [slots EXCEPT ![i] = hand[t]]
        /\ UNCHANGED <<outside, destroyed>>
    BY <1>5 DEF BlockingStore, Return, HandHeld, Bounded, TypeOK, Pushing
  <2> HIDE DEF i
  <2>2. InClientHands' = InClientHands
    BY <2>1 DEF InClientHands, TypeOK
  <2>3. InRing' = InRing
    BY <2>1, NullAssumption DEF InRing, TypeOK
  <2> QED BY <1>1, <2>1, <2>2, <2>3
<1>6. ASSUME NEW t \in Threads, Load(t)
      PROVE  [Pool!Next]_(Pool!vars)
  <2> DEFINE i == e_point[t].pop
             x == slots[i]
  <2>1. /\ i \in Index /\ x \in Items \cup {NULL}
        /\ pc[t] = "load" /\ pc' = [pc EXCEPT ![t] = "idle"]
        /\ hand[t] = NULL /\ hand' = [hand EXCEPT ![t] = NULL]
        /\ slots' = [slots EXCEPT ![i] = NULL]
        /\ outside' = outside \cup ({x} \ {NULL})
        /\ UNCHANGED destroyed
    BY <1>6 DEF Load, Return, HandHeld, Bounded, TypeOK, Pushing
  <2> HIDE DEF i
  <2>2. InClientHands' = InClientHands \cup ({x} \ {NULL})
    BY <2>1 DEF InClientHands, TypeOK
  <2>3. InRing' = InRing \ {x}
    <3>1. {slots'[j] : j \in Index} \ {NULL} = ({slots[j] : j \in Index} \ {NULL}) \ {x}
      BY <2>1, NullAssumption DEF NoItemDuplicated, TypeOK
    <3>2. \A u \in Threads : pc[u] = "store" => hand[u] # x
      BY <2>1, NullAssumption DEF NoItemDuplicated, HandHeld, TypeOK
    <3>3. {hand'[u] : u \in {v \in Threads : pc'[v] = "store"}}
            = {hand[u] : u \in {v \in Threads : pc[v] = "store"}}
      BY <2>1 DEF TypeOK
    <3> QED BY <3>1, <3>2, <3>3 DEF InRing
  <2>4. CASE x = NULL
    <3>1. NULL \notin InRing
      BY DEF InRing, HandHeld
    <3> QED BY <1>1, <2>1, <2>2, <2>3, <2>4, <3>1
  <2>5. CASE x # NULL
    <3>1. x \in Items /\ x \in InRing
      BY <2>1, <2>5 DEF InRing
    <3>2. Pool!Take(x)
      BY <2>1, <2>2, <2>3, <2>5, <3>1 DEF Pool!Take
    <3> QED BY <3>1, <3>2 DEF Pool!Next
  <2> QED BY <2>4, <2>5
<1>7. CASE Destroy
  <2>1. \A t \in Threads : pc[t] = "idle" /\ pc'[t] = "destroyed"
    BY <1>7 DEF Destroy
  <2>2. InClientHands' = InClientHands
    BY <1>7, <2>1 DEF Destroy, InClientHands
  <2>3. InRing = {slots[j] : j \in Index} \ {NULL}
    BY <2>1 DEF InRing
  <2>4. InRing' = {}
    BY <1>7, <2>1 DEF Destroy, InRing, TypeOK
  <2>5. Pool!Drop
    BY <1>7, <2>2, <2>3, <2>4 DEF Destroy, Pool!Drop
  <2> QED BY <2>5 DEF Pool!Next
<1>8. ASSUME NEW t \in Threads,
             PopCall(t) \/ CounterSwap(t, "pop", "load") \/ PopEmpty(t)
      PROVE  UNCHANGED Pool!vars
  <2>1. /\ pc[t] \in {"idle", "pop"} /\ pc'[t] \in {"idle", "pop", "load"}
        /\ \A u \in Threads \ {t} : pc'[u] = pc[u]
        /\ hand' = hand
        /\ UNCHANGED <<slots, outside, destroyed>>
    BY <1>8 DEF PopCall, CounterSwap, PopEmpty, Return, HandHeld, TypeOK, Pushing
  <2>2. InClientHands' = InClientHands
    BY <2>1 DEF InClientHands
  <2>3. InRing' = InRing
    BY <2>1 DEF InRing
  <2> QED BY <1>1, <2>1, <2>2, <2>3
<1>9. ASSUME UNCHANGED <<slots, pc, hand, outside, destroyed>>
      PROVE  UNCHANGED Pool!vars
  BY <1>9 DEF Pool!vars, InClientHands, InRing
<1>10. ASSUME NEW t \in Threads, RetryFull(t) \/ RetryPush(t) \/ RetryPop(t)
       PROVE  UNCHANGED Pool!vars
  BY <1>9, <1>10 DEF RetryFull, RetryPush, RetryPop, Retry
<1>11. CASE UNCHANGED vars
  BY <1>9, <1>11 DEF vars
<1> QED
  BY StepCases, <1>2, <1>3, <1>4, <1>5, <1>6, <1>7, <1>8, <1>10, <1>11

\* The ring of any size, with any number of threads, is an unordered pool.
THEOREM PoolRefinement ==
  ASSUME Capacity >= 2 PROVE Spec => PoolSpec
<1>1. Init => Pool!Init
  BY PoolInit
<1>2. Inv /\ ExactlyOneOwner /\ [Next]_vars => [Pool!Next]_(Pool!vars)
  BY PoolStep
<1> QED BY <1>1, <1>2, InvCorrect, OwnerCorrect, PTL DEF Spec, PoolSpec, Pool!Spec

-----------------------------------------------------------------------------
(***************************************************************************)
(* What the counter promises.  Beyond Inv, the counter an operation would  *)
(* write is the one it expects, advanced by one, and not from a full or an *)
(* empty ring (Stepped); and only finitely many threads are between their  *)
(* swap of the counter and their access to a node (FewAtNode).             *)
(***************************************************************************)
Stepped ==
  \A t \in Threads :
    /\ pc[t] \in Pushing => d_point[t] = AdvancePush(e_point[t]) /\ ~Full(e_point[t])
    /\ pc[t] = "pop" => d_point[t] = AdvancePop(e_point[t]) /\ ~Empty(e_point[t])

FewAtNode == \A i \in Index : IsFiniteSet(Storing(i)) /\ IsFiniteSet(Loading(i))

LEMMA SteppedInit == ASSUME Capacity >= 2 PROVE Init => Stepped
BY DEF Init, Stepped, Pushing

LEMMA SteppedStep ==
  ASSUME Capacity >= 2, Inv, Stepped, [Next]_vars
  PROVE  Stepped'
<1> USE DEF Inv, Stepped, Pushing
<1>1. ASSUME NEW t \in Threads, NEW op \in Pushing, BeginPush(t, op)
      PROVE  Stepped'
  <2>1. 1 % Capacity = 1
    BY CapacityAssumption
  <2>2. AdvancePush(Point(0, 0)) = Point(1, 0) /\ ~Full(Point(0, 0))
    BY <2>1 DEF AdvancePush, Full, Point
  <2> QED BY <1>1, <2>2 DEF BeginPush, TypeOK
<1>2. ASSUME NEW t \in Threads, PopCall(t)
      PROVE  Stepped'
  <2>1. 1 % Capacity = 1
    BY CapacityAssumption
  <2>2. AdvancePop(Point(1, 0)) = Point(1, 1) /\ ~Empty(Point(1, 0))
    BY <2>1 DEF AdvancePop, Empty, Point
  <2> QED BY <1>2, <2>2 DEF PopCall, TypeOK
<1>3. ASSUME NEW t \in Threads, NEW op, NEW next \in {"store", "load"}, CounterSwap(t, op, next)
      PROVE  Stepped'
  BY <1>3 DEF CounterSwap, TypeOK
<1>4. ASSUME NEW t \in Threads, RetryFull(t)
      PROVE  Stepped'
  <2>1. 1 % Capacity = 1
    BY CapacityAssumption
  <2>2. AdvancePush(Point(0, 0)) = Point(1, 0) /\ ~Full(Point(0, 0))
    BY <2>1 DEF AdvancePush, Full, Point
  <2> QED BY <1>4, <2>2 DEF RetryFull, Retry, TypeOK
<1>5. ASSUME NEW t \in Threads, RetryPush(t)
      PROVE  Stepped'
  BY <1>5 DEF RetryPush, Retry, TypeOK
<1>6. ASSUME NEW t \in Threads, RetryPop(t)
      PROVE  Stepped'
  BY <1>6 DEF RetryPop, Retry, TypeOK
<1>7. ASSUME NEW t \in Threads, Return(t)
      PROVE  Stepped'
  BY <1>7 DEF Return, TypeOK
<1>8. CASE Destroy
  BY <1>8 DEF Destroy, TypeOK
<1>9. CASE UNCHANGED vars
  BY <1>9 DEF vars
<1> QED
  BY StepCases, <1>1, <1>2, <1>3, <1>4, <1>5, <1>6, <1>7, <1>8, <1>9
  DEF TryPushRefused, PopEmpty, BlockingStore, Load

\* How the reserved nodes change as an index of the counter advances.
LEMMA ReserveNext ==
  ASSUME NEW p \in Points, p.push \in Index, p.pop \in Index,
         counter = p, counter' = AdvancePush(p), ~Full(p), NEW i \in Index
  PROVE  /\ Reserved(i)' <=> Reserved(i) \/ i = p.push
         /\ ~Reserved(p.push)
<1>1. Capacity \in Nat /\ Capacity > 0 /\ Index = 0 .. Capacity - 1
  BY CapacityAssumption DEF Index
<1> DEFINE n == IF p.push + 1 = Capacity THEN 0 ELSE p.push + 1
<1>2. (p.push + 1) % Capacity = n
  BY <1>1
<1>3. counter'.push = n /\ counter'.pop = p.pop /\ n # p.pop
  BY <1>2, PointType DEF AdvancePush, Full, Point
<1>4. counter.push = p.push /\ counter.pop = p.pop
  OBVIOUS
<1> QED BY <1>1, <1>3, <1>4 DEF Reserved

LEMMA ClaimNext ==
  ASSUME NEW p \in Points, p.push \in Index, p.pop \in Index,
         counter = p, counter' = AdvancePop(p), ~Empty(p), NEW i \in Index
  PROVE  /\ Reserved(i)' <=> Reserved(i) /\ i # p.pop
         /\ Reserved(p.pop)
<1>1. Capacity \in Nat /\ Capacity > 0 /\ Index = 0 .. Capacity - 1
  BY CapacityAssumption DEF Index
<1> DEFINE n == IF p.pop + 1 = Capacity THEN 0 ELSE p.pop + 1
<1>2. (p.pop + 1) % Capacity = n
  BY <1>1
<1>3. counter'.pop = n /\ counter'.push = p.push /\ p.push # p.pop
  BY <1>2, PointType DEF AdvancePop, Empty, Point
<1>4. counter.push = p.push /\ counter.pop = p.pop
  OBVIOUS
<1> QED BY <1>1, <1>3, <1>4 DEF Reserved

LEMMA BackedInit ==
  ASSUME Capacity >= 2, Init PROVE FewAtNode /\ ReservationsBacked
<1>1. \A i \in Index : Storing(i) = {} /\ Loading(i) = {} /\ ~Reserved(i)
  BY CapacityAssumption, PointType DEF Init, Storing, Loading, Reserved, Index
<1> QED BY <1>1, FS_EmptySet DEF FewAtNode, ReservationsBacked

\* A thread that joins or leaves those at a node changes their number by one.
LEMMA AtNode ==
  ASSUME NEW S, IsFiniteSet(S), NEW t
  PROVE  /\ IsFiniteSet(S \cup {t}) /\ IsFiniteSet(S \ {t})
         /\ Cardinality(S) \in Nat
         /\ t \notin S => Cardinality(S \cup {t}) = Cardinality(S) + 1
         /\ t \in S => Cardinality(S \ {t}) = Cardinality(S) - 1
BY FS_CardinalityType, FS_AddElement, FS_RemoveElement

LEMMA BackedStep ==
  ASSUME Capacity >= 2, Threads # {}, Inv, Stepped, FewAtNode, ReservationsBacked, [Next]_vars
  PROVE  FewAtNode' /\ ReservationsBacked'
<1> USE DEF Inv
<1>1. ASSUME NEW t \in Threads, pc[t] \notin {"store", "load"}, pc'[t] \notin {"store", "load"},
             \A u \in Threads \ {t} : pc'[u] = pc[u] /\ e_point'[u] = e_point[u],
             UNCHANGED <<counter, slots>>, pc[t] # "destroyed"
      PROVE  FewAtNode' /\ ReservationsBacked'
  <2>1. \A i \in Index : /\ Storing(i)' = Storing(i) /\ Loading(i)' = Loading(i)
                         /\ Reserved(i)' = Reserved(i)
    BY <1>1 DEF Storing, Loading, Reserved
  <2>2. (\A u \in Threads : pc'[u] # "destroyed") => (\A u \in Threads : pc[u] # "destroyed")
    BY <1>1
  <2> QED BY <1>1, <2>1, <2>2 DEF FewAtNode, ReservationsBacked
<1>2. ASSUME NEW t \in Threads, NEW op \in Pushing, BeginPush(t, op)
      PROVE  FewAtNode' /\ ReservationsBacked'
  BY <1>1, <1>2 DEF BeginPush, TypeOK, Pushing
<1>3. ASSUME NEW t \in Threads, PopCall(t)
      PROVE  FewAtNode' /\ ReservationsBacked'
  BY <1>1, <1>3 DEF PopCall, TypeOK
<1>4. ASSUME NEW t \in Threads, NEW op \in Pushing, CounterSwap(t, op, "store")
      PROVE  FewAtNode' /\ ReservationsBacked'
  <2> DEFINE p == counter
  <2>1. p \in Points /\ p.push \in Index /\ p.pop \in Index /\ e_point[t] = p
    BY <1>4 DEF CounterSwap, TypeOK, Bounded
  <2>2. counter' = AdvancePush(p) /\ ~Full(p)
    BY <1>4, <2>1 DEF CounterSwap, Stepped
  <2>3. \A i \in Index : (Reserved(i)' <=> Reserved(i) \/ i = p.push) /\ ~Reserved(p.push)
    BY <2>1, <2>2, ReserveNext
  <2>4. /\ \A i \in Index : Loading(i)' = Loading(i)
        /\ \A i \in Index : Storing(i)' = IF i = p.push THEN Storing(i) \cup {t} ELSE Storing(i)
        /\ \A i \in Index : t \notin Storing(i)
    BY <1>4, <2>1 DEF CounterSwap, Storing, Loading, TypeOK, Pushing
  <2>5. FewAtNode'
    BY <2>4, AtNode DEF FewAtNode
  <2>6. ASSUME \A u \in Threads : pc'[u] # "destroyed", NEW i \in Index
        PROVE  Cardinality(Loading(i)') + (IF Reserved(i)' THEN 1 ELSE 0)
                 <= Cardinality(Storing(i)') + (IF slots[i] = NULL THEN 0 ELSE 1)
    <3>1. \A u \in Threads : pc[u] # "destroyed"
      BY <1>4, <2>6 DEF CounterSwap, TypeOK, Pushing
    <3>2. Cardinality(Loading(i)) + (IF Reserved(i) THEN 1 ELSE 0)
            <= Cardinality(Storing(i)) + (IF slots[i] = NULL THEN 0 ELSE 1)
      BY <3>1 DEF ReservationsBacked
    <3>3. Cardinality(Loading(i)) \in Nat /\ Cardinality(Storing(i)) \in Nat
      BY AtNode DEF FewAtNode
    <3>4. CASE i = p.push
      <4>1. Cardinality(Storing(i)') = Cardinality(Storing(i)) + 1
        BY <2>4, <3>4, AtNode DEF FewAtNode
      <4> QED BY <2>3, <2>4, <3>2, <3>3, <3>4, <4>1
    <3>5. CASE i # p.push
      BY <2>3, <2>4, <3>2, <3>5
    <3> QED BY <3>4, <3>5
  <2>7. slots' = slots
    BY <1>4 DEF CounterSwap
  <2> QED BY <2>5, <2>6, <2>7 DEF ReservationsBacked
<1>5. ASSUME NEW t \in Threads, CounterSwap(t, "pop", "load")
      PROVE  FewAtNode' /\ ReservationsBacked'
  <2> DEFINE p == counter
  <2>1. p \in Points /\ p.push \in Index /\ p.pop \in Index /\ e_point[t] = p
    BY <1>5 DEF CounterSwap, TypeOK, Bounded
  <2>2. counter' = AdvancePop(p) /\ ~Empty(p)
    BY <1>5, <2>1 DEF CounterSwap, Stepped
  <2>3. \A i \in Index : (Reserved(i)' <=> Reserved(i) /\ i # p.pop) /\ Reserved(p.pop)
    BY <2>1, <2>2, ClaimNext
  <2>4. /\ \A i \in Index : Storing(i)' = Storing(i)
        /\ \A i \in Index : Loading(i)' = IF i = p.pop THEN Loading(i) \cup {t} ELSE Loading(i)
        /\ \A i \in Index : t \notin Loading(i)
    BY <1>5, <2>1 DEF CounterSwap, Storing, Loading, TypeOK
  <2>5. FewAtNode'
    BY <2>4, AtNode DEF FewAtNode
  <2>6. ASSUME \A u \in Threads : pc'[u] # "destroyed", NEW i \in Index
        PROVE  Cardinality(Loading(i)') + (IF Reserved(i)' THEN 1 ELSE 0)
                 <= Cardinality(Storing(i)') + (IF slots[i] = NULL THEN 0 ELSE 1)
    <3>1. \A u \in Threads : pc[u] # "destroyed"
      BY <1>5, <2>6 DEF CounterSwap, TypeOK
    <3>2. Cardinality(Loading(i)) + (IF Reserved(i) THEN 1 ELSE 0)
            <= Cardinality(Storing(i)) + (IF slots[i] = NULL THEN 0 ELSE 1)
      BY <3>1 DEF ReservationsBacked
    <3>3. Cardinality(Loading(i)) \in Nat /\ Cardinality(Storing(i)) \in Nat
      BY AtNode DEF FewAtNode
    <3>4. CASE i = p.pop
      <4>1. Cardinality(Loading(i)') = Cardinality(Loading(i)) + 1
        BY <2>4, <3>4, AtNode DEF FewAtNode
      <4> QED BY <2>3, <2>4, <3>2, <3>3, <3>4, <4>1
    <3>5. CASE i # p.pop
      BY <2>3, <2>4, <3>2, <3>5
    <3> QED BY <3>4, <3>5
  <2>7. slots' = slots
    BY <1>5 DEF CounterSwap
  <2> QED BY <2>5, <2>6, <2>7 DEF ReservationsBacked
<1>6. ASSUME NEW t \in Threads, RetryFull(t) \/ RetryPush(t) \/ RetryPop(t)
      PROVE  FewAtNode' /\ ReservationsBacked'
  BY <1>1, <1>6 DEF RetryFull, RetryPush, RetryPop, Retry, TypeOK, Pushing
<1>7. ASSUME NEW t \in Threads, TryPushRefused(t) \/ PopEmpty(t)
      PROVE  FewAtNode' /\ ReservationsBacked'
  BY <1>1, <1>7 DEF TryPushRefused, PopEmpty, Return, TypeOK
<1>8. ASSUME NEW t \in Threads, BlockingStore(t)
      PROVE  FewAtNode' /\ ReservationsBacked'
  <2> DEFINE j == e_point[t].push
  <2>1. j \in Index /\ hand[t] # NULL /\ slots[j] = NULL
    BY <1>8 DEF BlockingStore, Bounded, HandHeld
  <2>2. /\ slots'[j] # NULL
        /\ \A i \in Index \ {j} : slots'[i] = slots[i]
        /\ \A i \in Index : Reserved(i)' = Reserved(i)
    BY <1>8, <2>1 DEF BlockingStore, TypeOK, Reserved
  <2>3. /\ \A i \in Index : Loading(i)' = Loading(i)
        /\ \A i \in Index : Storing(i)' = IF i = j THEN Storing(i) \ {t} ELSE Storing(i)
        /\ t \in Storing(j)
    BY <1>8 DEF BlockingStore, Return, Storing, Loading, TypeOK
  <2>4. FewAtNode'
    BY <2>3, AtNode DEF FewAtNode
  <2>5. ASSUME \A u \in Threads : pc'[u] # "destroyed", NEW i \in Index
        PROVE  Cardinality(Loading(i)') + (IF Reserved(i)' THEN 1 ELSE 0)
                 <= Cardinality(Storing(i)') + (IF slots'[i] = NULL THEN 0 ELSE 1)
    <3>1. \A u \in Threads : pc[u] # "destroyed"
      BY <1>8, <2>5 DEF BlockingStore, Return, TypeOK
    <3>2. Cardinality(Loading(i)) + (IF Reserved(i) THEN 1 ELSE 0)
            <= Cardinality(Storing(i)) + (IF slots[i] = NULL THEN 0 ELSE 1)
      BY <3>1 DEF ReservationsBacked
    <3>3. Cardinality(Loading(i)) \in Nat /\ Cardinality(Storing(i)) \in Nat
      BY AtNode DEF FewAtNode
    <3>4. CASE i = j
      <4>1. Cardinality(Storing(i)') = Cardinality(Storing(i)) - 1
        BY <2>3, <3>4, AtNode DEF FewAtNode
      <4> QED BY <2>1, <2>2, <2>3, <3>2, <3>3, <3>4, <4>1
    <3>5. CASE i # j
      BY <2>2, <2>3, <3>2, <3>5
    <3> QED BY <3>4, <3>5
  <2> QED BY <2>4, <2>5 DEF ReservationsBacked
<1>9. ASSUME NEW t \in Threads, Load(t)
      PROVE  FewAtNode' /\ ReservationsBacked'
  <2> DEFINE j == e_point[t].pop
  <2>1. j \in Index
    BY <1>9 DEF Load, Bounded
  <2>2. /\ slots'[j] = NULL
        /\ \A i \in Index \ {j} : slots'[i] = slots[i]
        /\ \A i \in Index : Reserved(i)' = Reserved(i)
    BY <1>9, <2>1 DEF Load, TypeOK, Reserved
  <2>3. /\ \A i \in Index : Storing(i)' = Storing(i)
        /\ \A i \in Index : Loading(i)' = IF i = j THEN Loading(i) \ {t} ELSE Loading(i)
        /\ t \in Loading(j)
    BY <1>9 DEF Load, Return, Storing, Loading, TypeOK
  <2>4. FewAtNode'
    BY <2>3, AtNode DEF FewAtNode
  <2>5. ASSUME \A u \in Threads : pc'[u] # "destroyed", NEW i \in Index
        PROVE  Cardinality(Loading(i)') + (IF Reserved(i)' THEN 1 ELSE 0)
                 <= Cardinality(Storing(i)') + (IF slots'[i] = NULL THEN 0 ELSE 1)
    <3>1. \A u \in Threads : pc[u] # "destroyed"
      BY <1>9, <2>5 DEF Load, Return, TypeOK
    <3>2. Cardinality(Loading(i)) + (IF Reserved(i) THEN 1 ELSE 0)
            <= Cardinality(Storing(i)) + (IF slots[i] = NULL THEN 0 ELSE 1)
      BY <3>1 DEF ReservationsBacked
    <3>3. Cardinality(Loading(i)) \in Nat /\ Cardinality(Storing(i)) \in Nat
      BY AtNode DEF FewAtNode
    <3>4. CASE i = j
      <4>1. Cardinality(Loading(i)') = Cardinality(Loading(i)) - 1
        BY <2>3, <3>4, AtNode DEF FewAtNode
      <4> QED BY <2>2, <2>3, <3>2, <3>3, <3>4, <4>1
    <3>5. CASE i # j
      BY <2>2, <2>3, <3>2, <3>5
    <3> QED BY <3>4, <3>5
  <2> QED BY <2>4, <2>5 DEF ReservationsBacked
<1>10. CASE Destroy
  <2>1. \A i \in Index : Storing(i)' = {} /\ Loading(i)' = {}
    BY <1>10 DEF Destroy, Storing, Loading
  <2>2. FewAtNode'
    BY <2>1, FS_EmptySet DEF FewAtNode
  <2>3. \E t \in Threads : pc'[t] = "destroyed"
    BY <1>10 DEF Destroy
  <2> QED BY <2>2, <2>3 DEF ReservationsBacked
<1>11. CASE UNCHANGED vars
  BY <1>11 DEF vars, FewAtNode, ReservationsBacked, Storing, Loading, Reserved
<1> QED
  BY StepCases, <1>2, <1>3, <1>4, <1>5, <1>6, <1>7, <1>8, <1>9, <1>10, <1>11

\* For every ring of at least two nodes and every number of threads: behind
\* each item that the two indexes of the counter promise there is one, in its
\* node or on its way there, for every pop that may still come for it.
THEOREM ReservationsBackedCorrect ==
  ASSUME Capacity >= 2, Threads # {} PROVE Spec => []ReservationsBacked
<1>1. Init => Stepped /\ FewAtNode /\ ReservationsBacked
  BY SteppedInit, BackedInit
<1>2. Inv /\ (Stepped /\ FewAtNode /\ ReservationsBacked) /\ [Next]_vars
        => (Stepped /\ FewAtNode /\ ReservationsBacked)'
  BY SteppedStep, BackedStep
<1> QED BY <1>1, <1>2, InvCorrect, PTL DEF Spec
-----------------------------------------------------------------------------
(***************************************************************************)
(* A single producer is served.  Only producers ever are in the middle of  *)
(* a push (PushersProduce); so while the only one waits at its node, no    *)
(* other push fills that node, and a claim of it leaves a pop at it.       *)
(***************************************************************************)
PushersProduce == \A t \in Threads : pc[t] \in Pushing \cup {"store"} => t \in Producers

Served(i) == slots[i] = NULL \/ Reserved(i) \/ Loading(i) # {}

LEMMA PushersStep ==
  ASSUME TypeOK, PushersProduce, [Next]_vars PROVE PushersProduce'
<1> USE DEF PushersProduce, Pushing
<1>1. ASSUME NEW t \in Producers, ProducerStep(t)
      PROVE  PushersProduce'
  BY <1>1 DEF ProducerStep, PushCall, TryPushCall, BeginPush, PushReserve, TryPushReserve,
       CounterSwap, PushRetry, TryPushRetry, Retry, TryPushRefused, BlockingStore, Return, TypeOK
<1>2. ASSUME NEW t \in Consumers, ConsumerStep(t)
      PROVE  PushersProduce'
  BY <1>2 DEF ConsumerStep, PopCall, PopClaim, CounterSwap, PopRetry, Retry, PopEmpty, Load,
       Return, TypeOK
<1>3. CASE Destroy
  BY <1>3 DEF Destroy
<1>4. CASE UNCHANGED vars
  BY <1>4 DEF vars
<1> QED BY <1>1, <1>2, <1>3, <1>4 DEF Next

\* A step that neither moves the counter nor touches a node leaves a waiting
\* push as it was served.
LEMMA ServedAside ==
  ASSUME PushServed, UNCHANGED <<counter, slots>>,
         \A u \in Threads :
           pc[u] \in {"store", "load"} \/ pc'[u] \in {"store", "load"} =>
             pc'[u] = pc[u] /\ e_point'[u] = e_point[u]
  PROVE  PushServed'
<1>1. \A i : Reserved(i)' = Reserved(i) /\ Loading(i)' = Loading(i)
  BY DEF Reserved, Loading
<1> QED BY <1>1 DEF PushServed

LEMMA ServedStep ==
  ASSUME Capacity >= 2, \A s, t \in Producers : s = t,
         Inv, Stepped, PushersProduce, PushServed, [Next]_vars
  PROVE  PushServed'
<1> USE DEF Inv
<1>1. ASSUME NEW t \in Threads, NEW op \in Pushing, CounterSwap(t, op, "store")
      PROVE  PushServed'
  <2>1. /\ e_point[t] = counter /\ counter \in Points /\ ~Full(counter)
        /\ counter' = AdvancePush(counter) /\ counter.push \in Index /\ counter.pop \in Index
        /\ pc[t] \in Pushing /\ pc' = [pc EXCEPT ![t] = "store"] /\ e_point' = e_point
    BY <1>1 DEF CounterSwap, Stepped, TypeOK, Bounded
  <2>2. \A u \in Threads : pc'[u] = "store" => u = t
    BY <2>1 DEF PushersProduce, TypeOK
  <2>3. Reserved(e_point[t].push)'
    BY <2>1, ReserveNext
  <2> QED BY <2>1, <2>2, <2>3 DEF PushServed
<1>2. ASSUME NEW t \in Threads, CounterSwap(t, "pop", "load")
      PROVE  PushServed'
  <2>1. /\ e_point[t] = counter /\ counter \in Points /\ ~Empty(counter)
        /\ counter' = AdvancePop(counter) /\ counter.push \in Index /\ counter.pop \in Index
        /\ pc[t] = "pop" /\ pc' = [pc EXCEPT ![t] = "load"]
        /\ e_point' = e_point /\ slots' = slots
    BY <1>2 DEF CounterSwap, Stepped, TypeOK, Bounded
  <2>2. \A i \in Index : /\ Loading(i) \subseteq Loading(i)'
                         /\ i = counter.pop => t \in Loading(i)'
    BY <2>1 DEF Loading, TypeOK
  <2>3. \A i \in Index : Reserved(i) => Reserved(i)' \/ i = counter.pop
    BY <2>1, ClaimNext
  <2>4. ASSUME NEW i \in Index, Served(i) PROVE Served(i)'
    BY <2>1, <2>2, <2>3, <2>4 DEF Served
  <2>5. \A u \in Threads : pc'[u] = "store" => pc[u] = "store" /\ e_point[u].push \in Index
    BY <2>1 DEF TypeOK, Bounded
  <2> QED BY <2>1, <2>4, <2>5 DEF PushServed, Served
<1>3. ASSUME NEW t \in Threads, BlockingStore(t)
      PROVE  PushServed'
  <2>1. \A u \in Threads : pc'[u] # "store"
    BY <1>3 DEF BlockingStore, Return, PushersProduce, TypeOK
  <2> QED BY <2>1 DEF PushServed
<1>4. ASSUME NEW t \in Threads, Load(t)
      PROVE  PushServed'
  <2> DEFINE j == e_point[t].pop
  <2>1. /\ pc[t] = "load" /\ pc' = [pc EXCEPT ![t] = "idle"] /\ counter' = counter
        /\ slots' = [slots EXCEPT ![j] = NULL] /\ j \in Index
        /\ \A u \in Threads \ {t} : e_point'[u] = e_point[u]
    BY <1>4 DEF Load, Return, TypeOK, Bounded
  <2>2. slots'[j] = NULL
    BY <2>1 DEF TypeOK
  <2>3. ASSUME NEW i \in Index, i # j, Served(i) PROVE Served(i)'
    <3>1. slots'[i] = slots[i] /\ Reserved(i)' = Reserved(i)
      BY <2>1, <2>3 DEF TypeOK, Reserved
    <3>2. Loading(i) \subseteq Loading(i)'
      BY <2>1, <2>3 DEF Loading, TypeOK
    <3> QED BY <2>3, <3>1, <3>2 DEF Served
  <2>4. \A u \in Threads : pc'[u] = "store" =>
          pc[u] = "store" /\ e_point'[u] = e_point[u] /\ e_point[u].push \in Index
    BY <2>1 DEF TypeOK, Bounded
  <2> QED BY <2>2, <2>3, <2>4 DEF PushServed, Served
<1>5. CASE Destroy
  BY <1>5 DEF Destroy, PushServed
<1>6. ASSUME NEW t \in Threads, \E op \in Pushing : BeginPush(t, op)
      PROVE  PushServed'
  BY <1>6, ServedAside DEF BeginPush, Pushing, TypeOK
<1>7. ASSUME NEW t \in Threads,
             PopCall(t) \/ RetryFull(t) \/ RetryPush(t) \/ RetryPop(t)
      PROVE  PushServed'
  BY <1>7, ServedAside DEF PopCall, RetryFull, RetryPush, RetryPop, Retry, Pushing, TypeOK
<1>8. ASSUME NEW t \in Threads, TryPushRefused(t) \/ PopEmpty(t)
      PROVE  PushServed'
  BY <1>8, ServedAside DEF TryPushRefused, PopEmpty, Return, TypeOK
<1>9. CASE UNCHANGED vars
  BY <1>9, ServedAside DEF vars
<1> QED BY StepCases, <1>1, <1>2, <1>3, <1>4, <1>5, <1>6, <1>7, <1>8, <1>9

\* In a ring with one producer and any number of consumers a push never waits
\* for a node that no pop is bound to empty, also after pops that came too
\* early; with two producers that can happen, and the push waits for ever.
THEOREM PushServedCorrect ==
  ASSUME Capacity >= 2, \A s, t \in Producers : s = t PROVE Spec => []PushServed
<1>1. Init => Stepped /\ PushersProduce /\ PushServed
  BY SteppedInit DEF Init, PushersProduce, Pushing, PushServed
<1>2. Inv /\ (Stepped /\ PushersProduce /\ PushServed) /\ [Next]_vars
        => (Stepped /\ PushersProduce /\ PushServed)'
  BY SteppedStep, PushersStep, ServedStep DEF Inv
<1> QED BY <1>1, <1>2, InvCorrect, PTL DEF Spec

-----------------------------------------------------------------------------
\* The counter only ever moves by one step, from a ring that is not full or not
\* empty, however stale the value was from which the thread computed that step,
\* and also where the value was a guess made without reading the counter.
CounterMovesByOne ==
  [][\/ counter' = counter
     \/ ~Full(counter) /\ counter' = AdvancePush(counter)
     \/ ~Empty(counter) /\ counter' = AdvancePop(counter)]_vars

THEOREM CounterMovesByOneCorrect ==
  ASSUME Capacity >= 2 PROVE Spec => CounterMovesByOne
<1>1. Init => Stepped
  BY SteppedInit
<1>2. Inv /\ Stepped /\ [Next]_vars => Stepped'
  BY SteppedStep
<1>3. ASSUME Stepped, [Next]_vars
      PROVE  \/ counter' = counter
             \/ ~Full(counter) /\ counter' = AdvancePush(counter)
             \/ ~Empty(counter) /\ counter' = AdvancePop(counter)
  <2>1. ASSUME NEW t \in Threads, NEW op \in Pushing \cup {"pop"}, NEW next,
               CounterSwap(t, op, next)
        PROVE  \/ ~Full(counter) /\ counter' = AdvancePush(counter)
               \/ ~Empty(counter) /\ counter' = AdvancePop(counter)
    BY <1>3, <2>1 DEF CounterSwap, Stepped
  <2> QED
    BY <1>3, <2>1, StepCases
    DEF BeginPush, PopCall, RetryFull, RetryPush, RetryPop, Retry, TryPushRefused, PopEmpty,
        BlockingStore, Load, Destroy, vars
<1> QED BY <1>1, <1>2, <1>3, InvCorrect, PTL DEF Spec, CounterMovesByOne
=============================================================================
