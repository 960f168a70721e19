-------------------------- MODULE RingbufOrderProofs --------------------------
(***************************************************************************)
(* When the ring keeps its order, for every number of threads, items and   *)
(* nodes.  OrderInv relates the history variables of RingbufOrder to the   *)
(* ring.  A node is reserved exactly while it lies between the two indexes *)
(* (Promised).  The rest holds until the first early claim: a push about   *)
(* to store has its node reserved for its item (Bound), a reservation has  *)
(* its item in the node or in such a hand (Kept), a pop finds what it has  *)
(* claimed (Delivered), no new reservation has reached a node before the   *)
(* pop that has claimed the old one (Fresh), and no two pops meet at one   *)
(* node (Apart).                                                           *)
(***************************************************************************)
EXTENDS RingbufOrder, RingbufQueueProofs, SequenceTheorems

Maybe == Items \cup {NULL}

Promised ==
  /\ reserved \in [Index -> Maybe]
  /\ claim \in [Threads -> Maybe]
  /\ early \in BOOLEAN
  /\ \A i \in Index : Reserved(i) <=> reserved[i] # NULL
  /\ \A t \in Threads : pc[t] # "load" => claim[t] = NULL

Bound == \A t \in Threads : pc[t] = "store" => reserved[e_point[t].push] = hand[t]

Kept ==
  (\A t \in Threads : pc[t] # "destroyed") =>
    \A i \in Index : reserved[i] # NULL =>
      \/ slots[i] = reserved[i]
      \/ \E t \in Storing(i) : hand[t] = reserved[i]

Delivered ==
  \A t \in Threads :
    pc[t] = "load" => claim[t] # NULL /\ slots[e_point[t].pop] = claim[t]

Fresh ==
  \A t \in Threads : pc[t] = "load" =>
    LET i == e_point[t].pop IN reserved[i] # NULL => reserved[i] # slots[i]

Apart ==
  \A s, t \in Threads :
    pc[s] = "load" /\ pc[t] = "load" /\ e_point[s].pop = e_point[t].pop => s = t

Orderly == Bound /\ Kept /\ Delivered /\ Fresh /\ Apart

OrderInv ==
  /\ Inv /\ Stepped /\ ExactlyOneOwner
  /\ Promised
  /\ ~early => Orderly

-----------------------------------------------------------------------------
(* The steps of the specification with what they do to the history.        *)

SwapAndReserve(t) ==
  /\ \E op \in Pushing : CounterSwap(t, op, "store")
  /\ reserved' = [reserved EXCEPT ![e_point[t].push] = hand[t]]
  /\ UNCHANGED <<claim, early>>

\* A step that leaves the history, the nodes, the counter and the items outside
\* alone, by a thread that is not between its swap of the counter and its node.
Aside(t) ==
  /\ pc[t] \notin {"store", "load", "destroyed"}
  /\ pc'[t] \notin {"store", "load", "destroyed"}
  /\ \A u \in Threads \ {t} :
       pc'[u] = pc[u] /\ e_point'[u] = e_point[u] /\ hand'[u] = hand[u]
  /\ UNCHANGED <<counter, slots, InClientHands, orderVars>>

LEMMA OrderCases ==
  ASSUME Inv, [OrderNext]_<<vars, orderVars>>
  PROVE  /\ [Next]_vars
         /\ \/ \E t \in Threads :
                 \/ SwapAndReserve(t) \/ ObserveClaim(t) \/ ObserveLoad(t)
                 \/ BlockingStore(t) /\ UNCHANGED orderVars
                 \/ Aside(t)
            \/ Destroy /\ UNCHANGED orderVars
            \/ UNCHANGED <<vars, orderVars>>
<1>1. ASSUME NEW t \in Producers, ObserveReserve(t)
      PROVE  Next /\ t \in Threads /\ SwapAndReserve(t)
  <2>1. Next
    BY <1>1 DEF ObserveReserve, Next, ProducerStep
  <2> QED BY <1>1, <2>1
       DEF ObserveReserve, PushReserve, TryPushReserve, SwapAndReserve, Pushing, Threads
<1>2. ASSUME NEW t \in Consumers, ObserveClaim(t) \/ ObserveLoad(t)
      PROVE  Next /\ t \in Threads
  BY <1>2 DEF ObserveClaim, ObserveLoad, Next, ConsumerStep, Threads
<1>3. ASSUME NEW t \in Threads, ObserveOther(t)
      PROVE  Next /\ (BlockingStore(t) \/ Aside(t)) /\ UNCHANGED orderVars
  <2>1. Next /\ UNCHANGED orderVars
    BY <1>3 DEF ObserveOther, Next, ProducerStep, ConsumerStep
  <2>2. CASE BlockingStore(t)
    BY <2>1, <2>2
  <2>3. CASE PushCall(t) \/ TryPushCall(t)
    <3>1. PICK op \in Pushing, x \in outside :
            /\ pc[t] = "idle" /\ pc' = [pc EXCEPT ![t] = op]
            /\ hand' = [hand EXCEPT ![t] = x] /\ outside' = outside \ {x}
      BY <2>3 DEF PushCall, TryPushCall, BeginPush, Pushing
    <3>2. InClientHands' = InClientHands
      BY <3>1 DEF InClientHands, Inv, TypeOK, Pushing
    <3> QED BY <2>1, <2>3, <3>2 DEF PushCall, TryPushCall, BeginPush, Aside, Inv, TypeOK
  <2>4. CASE PushRetry(t) \/ TryPushRetry(t) \/ PopRetry(t)
    <3>1. InClientHands' = InClientHands
      BY <2>4 DEF PushRetry, TryPushRetry, PopRetry, Retry, InClientHands
    <3> QED BY <2>1, <2>4, <3>1 DEF PushRetry, TryPushRetry, PopRetry, Retry, Aside, Inv, TypeOK
  <2>5. CASE TryPushRefused(t)
    <3>1. InClientHands' = InClientHands
      BY <2>5 DEF TryPushRefused, Return, InClientHands, Inv, TypeOK
    <3> QED BY <2>1, <2>5, <3>1 DEF TryPushRefused, Return, Aside, Inv, TypeOK
  <2>6. CASE PopCall(t) \/ PopEmpty(t)
    <3>1. /\ pc[t] \in {"idle", "pop"} /\ pc'[t] \in {"idle", "pop"}
          /\ \A u \in Threads \ {t} : pc'[u] = pc[u]
          /\ UNCHANGED <<hand, outside>>
      BY <2>6 DEF PopCall, PopEmpty, Return, Inv, HandHeld, TypeOK, Pushing
    <3>2. InClientHands' = InClientHands
      BY <3>1 DEF InClientHands
    <3> QED BY <2>1, <2>6, <3>2 DEF PopCall, PopEmpty, Return, Aside, Inv, TypeOK
  <2> QED BY <1>3, <2>2, <2>3, <2>4, <2>5, <2>6 DEF ObserveOther
<1>4. CASE Destroy /\ UNCHANGED orderVars
  BY <1>4 DEF Next
<1>5. CASE UNCHANGED <<vars, orderVars>>
  BY <1>5 DEF vars
<1> QED BY <1>1, <1>2, <1>3, <1>4, <1>5 DEF OrderNext

-----------------------------------------------------------------------------
LEMMA OrderInvInit == ASSUME Capacity >= 2 PROVE OrderInit => OrderInv
<1> SUFFICES ASSUME OrderInit PROVE OrderInv
  OBVIOUS
<1>1. Inv /\ Stepped /\ ExactlyOneOwner
  BY InvInit, SteppedInit, OwnerInit DEF OrderInit
<1>2. \A i \in Index : ~Reserved(i)
  BY CapacityAssumption, PointType DEF OrderInit, Init, Reserved, Index
<1>3. Promised
  BY <1>2 DEF OrderInit, Promised, Maybe
<1>4. Orderly
  BY DEF OrderInit, Init, Orderly, Bound, Kept, Delivered, Fresh, Apart
<1> QED BY <1>1, <1>3, <1>4 DEF OrderInv

LEMMA PromisedStep ==
  ASSUME Capacity >= 2, OrderInv, [OrderNext]_<<vars, orderVars>>
  PROVE  Promised'
<1> USE DEF OrderInv, Inv
<1>1. ASSUME NEW t \in Threads, SwapAndReserve(t)
      PROVE  Promised'
  <2> DEFINE p == counter
  <2>1. PICK op \in Pushing : CounterSwap(t, op, "store")
    BY <1>1 DEF SwapAndReserve
  <2>2. p \in Points /\ p.push \in Index /\ p.pop \in Index /\ e_point[t] = p
    BY <2>1 DEF CounterSwap, TypeOK, Bounded
  <2>3. counter' = AdvancePush(p) /\ ~Full(p)
    BY <2>1, <2>2 DEF CounterSwap, Stepped
  <2>4. \A i \in Index : Reserved(i)' <=> Reserved(i) \/ i = p.push
    BY <2>2, <2>3, ReserveNext
  <2>5. hand[t] \in Items /\ hand[t] # NULL
    BY <2>1 DEF CounterSwap, HandHeld, TypeOK, Pushing
  <2>6. /\ reserved' = [reserved EXCEPT ![p.push] = hand[t]]
        /\ UNCHANGED <<claim, early>>
    BY <1>1, <2>2 DEF SwapAndReserve
  <2>7. \A u \in Threads : pc'[u] = IF u = t THEN "store" ELSE pc[u]
    BY <2>1 DEF CounterSwap, TypeOK
  <2>8. claim[t] = NULL
    BY <2>1 DEF CounterSwap, Promised, Pushing
  <2> QED BY <2>2, <2>4, <2>5, <2>6, <2>7, <2>8 DEF Promised, Maybe
<1>2. ASSUME NEW t \in Threads, ObserveClaim(t)
      PROVE  Promised'
  <2> DEFINE p == counter
  <2>1. CounterSwap(t, "pop", "load")
    BY <1>2 DEF ObserveClaim, PopClaim
  <2>2. p \in Points /\ p.push \in Index /\ p.pop \in Index /\ e_point[t] = p
    BY <2>1 DEF CounterSwap, TypeOK, Bounded
  <2>3. counter' = AdvancePop(p) /\ ~Empty(p)
    BY <2>1, <2>2 DEF CounterSwap, Stepped
  <2>4. \A i \in Index : Reserved(i)' <=> Reserved(i) /\ i # p.pop
    BY <2>2, <2>3, ClaimNext
  <2>5. /\ reserved' = [reserved EXCEPT ![p.pop] = NULL]
        /\ claim' = [claim EXCEPT ![t] = reserved[p.pop]]
        /\ early' \in BOOLEAN
    BY <1>2, <2>2 DEF ObserveClaim
  <2>6. \A u \in Threads : pc'[u] = IF u = t THEN "load" ELSE pc[u]
    BY <2>1 DEF CounterSwap, TypeOK
  <2> QED BY <2>2, <2>4, <2>5, <2>6 DEF Promised, Maybe
<1>3. ASSUME NEW t \in Threads, ObserveLoad(t)
      PROVE  Promised'
  <2>1. /\ UNCHANGED <<counter, reserved, early>>
        /\ claim' = [claim EXCEPT ![t] = NULL]
    BY <1>3 DEF ObserveLoad, Load
  <2>2. \A u \in Threads : pc'[u] = IF u = t THEN "idle" ELSE pc[u]
    BY <1>3 DEF ObserveLoad, Load, Return, TypeOK
  <2> QED BY <2>1, <2>2 DEF Promised, Maybe, Reserved
<1>4. ASSUME UNCHANGED <<counter, orderVars>>,
             \A t \in Threads : pc'[t] # "load" => pc[t] # "load" \/ claim[t] = NULL
      PROVE  Promised'
  BY <1>4 DEF Promised, orderVars, Reserved
<1>5. ASSUME NEW t \in Threads, BlockingStore(t) /\ UNCHANGED orderVars
      PROVE  Promised'
  BY <1>4, <1>5 DEF BlockingStore, Return, TypeOK
<1>6. ASSUME NEW t \in Threads, Aside(t)
      PROVE  Promised'
  BY <1>4, <1>6 DEF Aside, TypeOK
<1>7. CASE Destroy /\ UNCHANGED orderVars
  BY <1>4, <1>7 DEF Destroy, TypeOK
<1>8. CASE UNCHANGED <<vars, orderVars>>
  BY <1>4, <1>8 DEF vars
<1> QED BY OrderCases, <1>1, <1>2, <1>3, <1>5, <1>6, <1>7, <1>8

-----------------------------------------------------------------------------
(* The order, step by step.  A step that makes a claim early has nothing   *)
(* to keep.                                                                *)

LEMMA ReserveOrderly ==
  ASSUME Capacity >= 2, OrderInv, Orderly, NEW t \in Threads, SwapAndReserve(t)
  PROVE  Orderly'
<1> USE DEF OrderInv, Inv, Orderly
<1> DEFINE i == e_point[t].push
           x == hand[t]
<1>1. PICK op \in Pushing : CounterSwap(t, op, "store")
  BY DEF SwapAndReserve
<1>2. /\ pc[t] \in Pushing /\ pc' = [pc EXCEPT ![t] = "store"]
      /\ UNCHANGED <<slots, e_point, hand>>
      /\ reserved' = [reserved EXCEPT ![i] = x] /\ claim' = claim
  BY <1>1 DEF CounterSwap, SwapAndReserve
<1>3. i \in Index /\ x \in Items /\ x # NULL
  BY <1>1 DEF CounterSwap, TypeOK, Bounded, HandHeld, Pushing
<1>4. reserved[i] = NULL
  <2>1. e_point[t] = counter /\ counter \in Points /\ ~Full(counter)
    BY <1>1 DEF CounterSwap, Stepped, TypeOK
  <2>2. counter' = AdvancePush(counter) /\ counter.push \in Index /\ counter.pop \in Index
    BY <1>1, <2>1 DEF CounterSwap, Stepped, Bounded
  <2>3. ~Reserved(i)
    BY <1>3, <2>1, <2>2, ReserveNext
  <2> QED BY <1>3, <2>3 DEF Promised
<1>5. Bound'
  <2> SUFFICES ASSUME NEW u \in Threads, pc'[u] = "store"
               PROVE  reserved'[e_point[u].push] = hand[u]
    BY <1>2 DEF Bound
  <2>1. CASE u = t
    BY <1>2, <1>3, <2>1 DEF Promised
  <2>2. CASE u # t
    <3>1. pc[u] = "store" /\ e_point[u].push \in Index /\ hand[u] # NULL
      BY <1>2, <2>2 DEF Bounded, HandHeld, TypeOK
    <3>2. e_point[u].push # i
      BY <1>4, <3>1 DEF Bound
    <3> QED BY <1>2, <1>3, <3>1, <3>2 DEF Bound, Promised
  <2> QED BY <2>1, <2>2
<1>6. Kept'
  <2> SUFFICES ASSUME \A u \in Threads : pc'[u] # "destroyed",
                      NEW j \in Index, reserved'[j] # NULL
               PROVE  slots[j] = reserved'[j] \/ \E u \in Storing(j)' : hand[u] = reserved'[j]
    BY <1>2 DEF Kept
  <2>1. \A u \in Threads : pc[u] # "destroyed"
    BY <1>2 DEF Pushing
  <2>2. CASE j = i
    <3>1. t \in Storing(j)'
      BY <1>2, <2>2 DEF Storing, TypeOK
    <3> QED BY <1>2, <1>3, <2>2, <3>1 DEF Promised
  <2>3. CASE j # i
    <3>1. reserved'[j] = reserved[j]
      BY <1>2, <1>3, <2>3 DEF Promised
    <3>2. Storing(j) \subseteq Storing(j)'
      BY <1>2 DEF Storing, TypeOK
    <3> QED BY <2>1, <3>1, <3>2 DEF Kept
  <2> QED BY <2>2, <2>3
<1>7. \A u \in Threads : pc'[u] = "load" => pc[u] = "load"
  BY <1>2 DEF TypeOK
<1>8. Delivered'
  BY <1>2, <1>7 DEF Delivered
<1>9. Fresh'
  <2> SUFFICES ASSUME NEW u \in Threads, pc[u] = "load",
                      reserved'[e_point[u].pop] # NULL
               PROVE  reserved'[e_point[u].pop] # slots[e_point[u].pop]
    BY <1>2, <1>7 DEF Fresh
  <2>1. e_point[u].pop \in Index
    BY DEF Bounded
  <2>2. CASE e_point[u].pop = i
    BY <1>2, <1>3, <2>1, <2>2 DEF Promised, ExactlyOneOwner, NoItemDuplicated
  <2>3. CASE e_point[u].pop # i
    BY <1>2, <2>1, <2>3 DEF Promised, Fresh
  <2> QED BY <2>2, <2>3
<1>10. Apart'
  BY <1>2, <1>7 DEF Apart
<1> QED BY <1>5, <1>6, <1>8, <1>9, <1>10

LEMMA ClaimOrderly ==
  ASSUME Capacity >= 2, OrderInv, Orderly, NEW t \in Threads, ObserveClaim(t), ~early'
  PROVE  Orderly'
<1> USE DEF OrderInv, Inv, Orderly
<1> DEFINE i == e_point[t].pop
<1>1. CounterSwap(t, "pop", "load")
  BY DEF ObserveClaim, PopClaim
<1>2. /\ pc[t] = "pop" /\ pc' = [pc EXCEPT ![t] = "load"]
      /\ UNCHANGED <<slots, e_point, hand>>
      /\ reserved' = [reserved EXCEPT ![i] = NULL]
      /\ claim' = [claim EXCEPT ![t] = reserved[i]]
      /\ slots[i] = reserved[i]
  BY <1>1 DEF CounterSwap, ObserveClaim, Promised
<1>3. i \in Index /\ reserved[i] # NULL
  <2>1. e_point[t] = counter /\ counter \in Points /\ ~Empty(counter)
    BY <1>1 DEF CounterSwap, Stepped, TypeOK
  <2>2. counter' = AdvancePop(counter) /\ counter.push \in Index /\ counter.pop \in Index
    BY <1>1, <2>1 DEF CounterSwap, Stepped, Bounded
  <2>3. Reserved(i)
    BY <2>1, <2>2, ClaimNext
  <2> QED BY <2>1, <2>2, <2>3 DEF Promised
<1>4. Bound'
  <2> SUFFICES ASSUME NEW u \in Threads, pc[u] = "store"
               PROVE  reserved'[e_point[u].push] = hand[u]
    BY <1>2 DEF Bound, TypeOK
  <2>1. e_point[u].push \in Index /\ hand[u] = reserved[e_point[u].push] /\ hand[u] # NULL
    BY DEF Bounded, Bound, HandHeld
  <2>2. e_point[u].push # i
    BY <1>2, <1>3, <2>1 DEF ExactlyOneOwner, NoItemDuplicated
  <2> QED BY <1>2, <2>1, <2>2 DEF Promised
<1>5. Kept'
  <2> SUFFICES ASSUME \A u \in Threads : pc'[u] # "destroyed",
                      NEW j \in Index, reserved'[j] # NULL
               PROVE  slots[j] = reserved'[j] \/ \E u \in Storing(j)' : hand[u] = reserved'[j]
    BY <1>2 DEF Kept
  <2>1. j # i /\ reserved'[j] = reserved[j]
    BY <1>2, <1>3 DEF Promised
  <2>2. \A u \in Threads : pc[u] # "destroyed"
    BY <1>2
  <2>3. Storing(j) \subseteq Storing(j)'
    BY <1>2 DEF Storing, TypeOK
  <2> QED BY <2>1, <2>2, <2>3 DEF Kept
<1>6. \A u \in Threads : pc'[u] = "load" => u = t \/ pc[u] = "load"
  BY <1>2 DEF TypeOK
<1>7. \A u \in Threads : pc[u] = "load" => e_point[u].pop # i
  BY <1>2, <1>3 DEF Fresh
<1>8. Delivered'
  BY <1>2, <1>3, <1>6 DEF Delivered, Promised
<1>9. Fresh'
  <2> SUFFICES ASSUME NEW u \in Threads, u = t \/ pc[u] = "load",
                      reserved'[e_point[u].pop] # NULL
               PROVE  reserved'[e_point[u].pop] # slots[e_point[u].pop]
    BY <1>2, <1>6 DEF Fresh
  <2>1. u # t
    BY <1>2, <1>3 DEF Promised
  <2>2. e_point[u].pop \in Index
    BY <2>1 DEF Bounded
  <2> QED BY <1>2, <1>7, <2>1, <2>2 DEF Promised, Fresh
<1>10. Apart'
  BY <1>2, <1>6, <1>7 DEF Apart
<1> QED BY <1>4, <1>5, <1>8, <1>9, <1>10

LEMMA LoadOrderly ==
  ASSUME Capacity >= 2, OrderInv, Orderly, NEW t \in Threads, ObserveLoad(t)
  PROVE  Orderly'
<1> USE DEF OrderInv, Inv, Orderly
<1> DEFINE i == e_point[t].pop
<1>1. /\ pc[t] = "load" /\ pc' = [pc EXCEPT ![t] = "idle"]
      /\ \A u \in Threads \ {t} : e_point'[u] = e_point[u]
      /\ slots' = [slots EXCEPT ![i] = NULL]
      /\ reserved' = reserved /\ claim' = [claim EXCEPT ![t] = NULL]
  BY DEF ObserveLoad, Load, Return, TypeOK
<1>2. i \in Index /\ hand' = hand
  BY <1>1 DEF Bounded, HandHeld, ObserveLoad, Load, Return, TypeOK, Pushing
<1>3. \A u \in Threads : /\ pc'[u] \in {"store", "load"} => u # t /\ pc'[u] = pc[u]
                         /\ pc'[u] # "destroyed" => pc[u] # "destroyed"
  BY <1>1 DEF TypeOK
<1>4. \A u \in Threads : pc'[u] = "load" =>
        e_point[u].pop # i /\ e_point[u].pop \in Index
  BY <1>1, <1>3 DEF Apart, Bounded
<1>5. Bound'
  BY <1>1, <1>2, <1>3 DEF Bound
<1>6. Kept'
  <2> SUFFICES ASSUME \A u \in Threads : pc'[u] # "destroyed",
                      NEW j \in Index, reserved[j] # NULL
               PROVE  slots'[j] = reserved[j] \/ \E u \in Storing(j)' : hand[u] = reserved[j]
    BY <1>1, <1>2 DEF Kept
  <2>1. Storing(j)' = Storing(j)
    BY <1>1 DEF Storing, TypeOK
  <2>2. slots[j] = reserved[j] \/ \E u \in Storing(j) : hand[u] = reserved[j]
    BY <1>3 DEF Kept
  <2>3. j = i => slots[j] # reserved[j]
    BY <1>1 DEF Fresh
  <2> QED BY <1>1, <1>2, <2>1, <2>2, <2>3 DEF TypeOK
<1>7. Delivered'
  BY <1>1, <1>3, <1>4 DEF Delivered, Promised, TypeOK
<1>8. Fresh'
  BY <1>1, <1>3, <1>4 DEF Fresh, TypeOK
<1>9. Apart'
  BY <1>1, <1>3 DEF Apart
<1> QED BY <1>5, <1>6, <1>7, <1>8, <1>9

LEMMA StoreOrderly ==
  ASSUME Capacity >= 2, OrderInv, Orderly, NEW t \in Threads,
         BlockingStore(t), UNCHANGED orderVars
  PROVE  Orderly'
<1> USE DEF OrderInv, Inv, Orderly
<1> DEFINE i == e_point[t].push
           x == hand[t]
<1>1. /\ pc[t] = "store" /\ pc' = [pc EXCEPT ![t] = "idle"]
      /\ \A u \in Threads \ {t} : e_point'[u] = e_point[u] /\ hand'[u] = hand[u]
      /\ slots[i] = NULL /\ slots' = [slots EXCEPT ![i] = x]
      /\ reserved' = reserved /\ claim' = claim
  BY DEF BlockingStore, Return, TypeOK, orderVars
<1>2. i \in Index /\ x # NULL /\ reserved[i] = x
  BY <1>1 DEF Bounded, HandHeld, Bound
<1>3. \A u \in Threads : /\ pc'[u] \in {"store", "load"} => u # t /\ pc'[u] = pc[u]
                         /\ pc'[u] # "destroyed" => pc[u] # "destroyed"
  BY <1>1 DEF TypeOK
<1>4. \A u \in Threads : pc'[u] = "load" =>
        e_point[u].pop # i /\ e_point[u].pop \in Index
  BY <1>1, <1>3 DEF Delivered, Bounded
<1>5. Bound'
  BY <1>1, <1>3 DEF Bound
<1>6. Kept'
  <2> SUFFICES ASSUME \A u \in Threads : pc'[u] # "destroyed",
                      NEW j \in Index, reserved[j] # NULL
               PROVE  slots'[j] = reserved[j] \/ \E u \in Storing(j)' : hand'[u] = reserved[j]
    BY <1>1 DEF Kept
  <2>1. CASE j = i
    BY <1>1, <1>2, <2>1 DEF TypeOK
  <2>2. CASE j # i
    <3>1. slots'[j] = slots[j]
      BY <1>1, <2>2 DEF TypeOK
    <3>2. \A u \in Storing(j) : u \in Storing(j)' /\ hand'[u] = hand[u]
      BY <1>1, <2>2 DEF Storing, TypeOK
    <3>3. slots[j] = reserved[j] \/ \E u \in Storing(j) : hand[u] = reserved[j]
      BY <1>3 DEF Kept
    <3> QED BY <3>1, <3>2, <3>3
  <2> QED BY <2>1, <2>2
<1>7. Delivered'
  BY <1>1, <1>3, <1>4 DEF Delivered, TypeOK
<1>8. Fresh'
  BY <1>1, <1>3, <1>4 DEF Fresh, TypeOK
<1>9. Apart'
  BY <1>1, <1>3 DEF Apart
<1> QED BY <1>5, <1>6, <1>7, <1>8, <1>9

LEMMA AsideOrderly ==
  ASSUME OrderInv, Orderly, NEW t \in Threads, Aside(t)
  PROVE  Orderly'
<1> USE DEF OrderInv, Inv, Orderly
<1>1. /\ UNCHANGED <<slots, reserved, claim>>
      /\ \A u \in Threads : pc'[u] \in {"store", "load"} \/ pc[u] \in {"store", "load"} =>
           pc'[u] = pc[u] /\ e_point'[u] = e_point[u] /\ hand'[u] = hand[u]
      /\ \A u \in Threads : pc'[u] # "destroyed" => pc[u] # "destroyed"
  BY DEF Aside, orderVars
<1>2. Bound' /\ Delivered' /\ Fresh' /\ Apart'
  BY <1>1 DEF Bound, Delivered, Fresh, Apart
<1>3. \A j \in Index : Storing(j)' = Storing(j) /\ \A u \in Storing(j) : hand'[u] = hand[u]
  BY <1>1 DEF Storing
<1>4. Kept'
  BY <1>1, <1>3 DEF Kept
<1> QED BY <1>2, <1>4

LEMMA OrderInvStep ==
  ASSUME Capacity >= 2, Threads # {}, OrderInv, [OrderNext]_<<vars, orderVars>>
  PROVE  OrderInv'
<1>1. [Next]_vars
  BY OrderCases DEF OrderInv
<1>2. Inv' /\ Stepped' /\ ExactlyOneOwner'
  BY <1>1, InvStep, SteppedStep, OwnerStep DEF OrderInv
<1>3. Promised'
  BY PromisedStep
<1>4. early => early'
  BY OrderCases DEF OrderInv, SwapAndReserve, ObserveClaim, ObserveLoad, Aside, orderVars
<1>5. ASSUME ~early'
      PROVE  Orderly'
  <2>1. Orderly
    BY <1>4, <1>5 DEF OrderInv
  <2>2. CASE Destroy /\ UNCHANGED orderVars
    <3>1. \A t \in Threads : pc'[t] = "destroyed"
      BY <2>2 DEF Destroy
    <3> QED BY <3>1 DEF Orderly, Bound, Kept, Delivered, Fresh, Apart
  <2>3. CASE UNCHANGED <<vars, orderVars>>
    BY <2>1, <2>3 DEF vars, orderVars, Orderly, Bound, Kept, Delivered, Fresh, Apart, Storing
  <2> QED
    BY <1>5, <2>1, <2>2, <2>3, OrderCases, ReserveOrderly, ClaimOrderly, LoadOrderly,
       StoreOrderly, AsideOrderly DEF OrderInv
<1> QED BY <1>2, <1>3, <1>5 DEF OrderInv

THEOREM OrderInvCorrect ==
  ASSUME Capacity >= 2, Threads # {} PROVE OrderSpec => []OrderInv
BY OrderInvInit, OrderInvStep, PTL DEF OrderSpec

\* For every ring of at least two nodes and any number of threads, as long as
\* no pop has claimed a node before its item was stored: a pop finds in its
\* node exactly the item whose reservation it has claimed, however many laps
\* the others make around the ring between its two steps.
THEOREM ClaimDeliveredCorrect ==
  ASSUME Capacity >= 2, Threads # {} PROVE OrderSpec => []ClaimDelivered
<1>1. OrderInv => ClaimDelivered
  BY DEF OrderInv, Orderly, Delivered, ClaimDelivered
<1> QED BY <1>1, OrderInvCorrect, PTL

\* Under the same condition the item of every reservation is in its node or
\* in the hand of the push that is about to store it there.
THEOREM ReservationKeptCorrect ==
  ASSUME Capacity >= 2, Threads # {} PROVE OrderSpec => []ReservationKept
<1>1. OrderInv => ReservationKept
  BY DEF OrderInv, Orderly, Kept, ReservationKept
<1> QED BY <1>1, OrderInvCorrect, PTL

-----------------------------------------------------------------------------
(***************************************************************************)
(* The ring as a first-in first-out queue.  The items of BoundedFifo are   *)
(* those of the reserved nodes, read from the pop index on, around the     *)
(* ring.                                                                   *)
(***************************************************************************)
Size(p)     == (p.push - p.pop) % Capacity
Place(p, k) == (p.pop + k - 1) % Capacity

LEMMA Wrap ==
  ASSUME NEW a \in Int, - Capacity <= a, a < 2 * Capacity
  PROVE  a % Capacity =
           IF a < 0 THEN a + Capacity ELSE IF a < Capacity THEN a ELSE a - Capacity
<1> DEFINE q == a \div Capacity
           r == a % Capacity
<1>1. Capacity \in Nat /\ Capacity > 0
  BY CapacityAssumption
<1>2. q \in Int /\ r \in Int /\ 0 <= r /\ r < Capacity /\ a = Capacity * q + r
  BY <1>1
<1> HIDE DEF q, r
<1>3. q \in {-1, 0, 1}
  BY <1>1, <1>2
<1> QED BY <1>1, <1>2, <1>3 DEF r

\* Size and Place without the remainder.
LEMMA SizeIs ==
  ASSUME NEW p \in Points, p.push \in Index, p.pop \in Index
  PROVE  /\ Size(p) = IF p.pop <= p.push THEN p.push - p.pop ELSE p.push - p.pop + Capacity
         /\ Size(p) \in 0 .. Capacity - 1
<1>1. Capacity \in Nat /\ Capacity > 0 /\ p.push \in 0 .. Capacity - 1 /\ p.pop \in 0 .. Capacity - 1
  BY CapacityAssumption DEF Index
<1> DEFINE d == p.push - p.pop
<1>2. d \in Int /\ - Capacity <= d /\ d < Capacity
  BY <1>1
<1>3. Size(p) = IF d < 0 THEN d + Capacity ELSE IF d < Capacity THEN d ELSE d - Capacity
  BY <1>1, <1>2, Wrap DEF Size
<1> QED BY <1>1, <1>2, <1>3

LEMMA PlaceIs ==
  ASSUME NEW p \in Points, p.pop \in Index, NEW k \in 1 .. Capacity
  PROVE  /\ Place(p, k) = IF p.pop + k - 1 < Capacity THEN p.pop + k - 1
                                                      ELSE p.pop + k - 1 - Capacity
         /\ Place(p, k) \in Index
<1>1. Capacity \in Nat /\ Capacity > 0 /\ Index = 0 .. Capacity - 1
  BY CapacityAssumption DEF Index
<1> DEFINE d == p.pop + k - 1
<1>2. d \in Int /\ 0 <= d /\ d < 2 * Capacity
  BY <1>1
<1>3. Place(p, k) = d % Capacity
  BY DEF Place
<1> HIDE DEF d
<1>4. d % Capacity = IF d < 0 THEN d + Capacity ELSE IF d < Capacity THEN d ELSE d - Capacity
  <2>1. - Capacity <= d
    BY <1>1, <1>2
  <2> QED BY <1>2, <2>1, Wrap
<1>5. Place(p, k) = IF d < Capacity THEN d ELSE d - Capacity
  BY <1>1, <1>2, <1>3, <1>4
<1>6. Place(p, k) \in Index
  BY <1>1, <1>2, <1>5
<1> QED BY <1>1, <1>2, <1>5, <1>6 DEF d

\* How far apart two indexes are, and the place k steps on from one of them.
Gap(push, pop) == IF pop <= push THEN push - pop ELSE push - pop + Capacity
On(pop, k)     == IF pop + k - 1 < Capacity THEN pop + k - 1 ELSE pop + k - 1 - Capacity
Wrapped(i)     == IF i + 1 < Capacity THEN i + 1 ELSE 0

LEMMA GapShrinks ==
  ASSUME NEW a \in 0 .. Capacity - 1, NEW b \in 0 .. Capacity - 1, a # b
  PROVE  /\ Gap(a, Wrapped(b)) \in Nat /\ Gap(a, b) = Gap(a, Wrapped(b)) + 1
         /\ Gap(a, b) < Capacity
         /\ \A k \in 1 .. Capacity - 1 :
              On(Wrapped(b), k) = On(b, k + 1) /\ On(Wrapped(b), k) # b
<1>1. Capacity \in Nat /\ Capacity > 0
  BY CapacityAssumption
<1>2. CASE b + 1 < Capacity
  <2>1. Wrapped(b) = b + 1
    BY <1>2 DEF Wrapped
  <2>2. CASE b < a
    BY <1>1, <1>2, <2>1, <2>2 DEF Gap, On
  <2>3. CASE a < b
    BY <1>1, <1>2, <2>1, <2>3 DEF Gap, On
  <2> QED BY <1>1, <2>2, <2>3
<1>3. CASE b + 1 = Capacity
  <2>1. Wrapped(b) = 0 /\ a < b
    BY <1>1, <1>3 DEF Wrapped
  <2> QED BY <1>1, <1>3, <2>1 DEF Gap, On
<1> QED BY <1>1, <1>2, <1>3

LEMMA PushAround ==
  ASSUME NEW p \in Points, p.push \in Index, p.pop \in Index, ~Full(p),
         NEW q, q = AdvancePush(p)
  PROVE  /\ Size(p) \in Nat /\ Size(q) = Size(p) + 1 /\ Size(q) < Capacity
         /\ Place(p, Size(q)) = p.push
         /\ \A k \in 1 .. Size(p) : Place(p, k) # p.push
         /\ \A k \in 1 .. Size(q) : Place(q, k) = Place(p, k)
<1>1. /\ Capacity \in Nat /\ Capacity > 0 /\ Index = 0 .. Capacity - 1
      /\ p.push \in 0 .. Capacity - 1 /\ p.pop \in 0 .. Capacity - 1
  BY CapacityAssumption DEF Index
<1>2. q \in Points /\ q.push \in Index /\ q.pop = p.pop /\ q.push # q.pop
  BY Advance
<1>3. q.push = IF p.push + 1 < Capacity THEN p.push + 1 ELSE 0
  <2>1. (p.push + 1) % Capacity = IF p.push + 1 < Capacity THEN p.push + 1 ELSE 0
    BY <1>1, Wrap
  <2> QED BY <2>1 DEF AdvancePush, Point
<1>4. Size(p) = IF p.pop <= p.push THEN p.push - p.pop ELSE p.push - p.pop + Capacity
  BY SizeIs
<1>5. Size(q) = IF q.pop <= q.push THEN q.push - q.pop ELSE q.push - q.pop + Capacity
  BY <1>2, SizeIs
<1>6. Size(p) \in Nat /\ Size(q) = Size(p) + 1 /\ Size(q) < Capacity
  BY <1>1, <1>2, <1>3, <1>4, <1>5
<1>7. ASSUME NEW k \in 1 .. Size(q)
      PROVE  Place(p, k) = IF p.pop + k - 1 < Capacity THEN p.pop + k - 1
                                                       ELSE p.pop + k - 1 - Capacity
  <2>1. k \in 1 .. Capacity
    BY <1>1, <1>6
  <2> QED BY <2>1, PlaceIs
<1>8. Size(q) \in 1 .. Size(q)
  BY <1>6
<1>9. Place(p, Size(q)) = p.push
  <2> DEFINE k == Size(q)
  <2>1. Place(p, k) = IF p.pop + k - 1 < Capacity THEN p.pop + k - 1
                                                  ELSE p.pop + k - 1 - Capacity
    BY <1>7, <1>8
  <2> QED BY <1>1, <1>4, <1>6, <2>1
<1>10. ASSUME NEW k \in 1 .. Size(p)
       PROVE  Place(p, k) # p.push
  <2>1. k \in 1 .. Size(q)
    BY <1>6
  <2> QED BY <1>1, <1>4, <1>7, <2>1
<1> QED BY <1>2, <1>6, <1>9, <1>10 DEF Place

LEMMA PopAround ==
  ASSUME NEW p \in Points, p.push \in Index, p.pop \in Index, ~Empty(p),
         NEW q, q = AdvancePop(p)
  PROVE  /\ Size(q) \in Nat /\ Size(p) = Size(q) + 1 /\ Size(p) < Capacity
         /\ Place(p, 1) = p.pop
         /\ \A k \in 1 .. Size(q) : Place(q, k) = Place(p, k + 1) /\ Place(q, k) # p.pop
<1>1. /\ Capacity \in Nat /\ Capacity > 0 /\ Index = 0 .. Capacity - 1
      /\ p.push \in 0 .. Capacity - 1 /\ p.pop \in 0 .. Capacity - 1
  BY CapacityAssumption DEF Index
<1>2. q \in Points /\ q.pop \in Index /\ q.push = p.push /\ p.push # p.pop
  BY Advance DEF Empty
<1>3. q.pop = Wrapped(p.pop)
  <2>1. (p.pop + 1) % Capacity = IF p.pop + 1 < Capacity THEN p.pop + 1 ELSE 0
    BY <1>1, Wrap
  <2> QED BY <2>1 DEF AdvancePop, Point, Wrapped
<1>4. Size(p) = Gap(p.push, p.pop) /\ Size(q) = Gap(p.push, q.pop)
  BY <1>2, SizeIs DEF Gap
<1>5. Size(q) \in Nat /\ Size(p) = Size(q) + 1 /\ Size(p) < Capacity
  BY <1>1, <1>2, <1>3, <1>4, GapShrinks
<1>6. Place(p, 1) = p.pop
  <2>1. 1 \in 1 .. Capacity
    BY <1>1
  <2>2. Place(p, 1) = IF p.pop + 1 - 1 < Capacity THEN p.pop + 1 - 1
                                                  ELSE p.pop + 1 - 1 - Capacity
    BY <2>1, PlaceIs
  <2> QED BY <1>1, <2>2
<1>7. ASSUME NEW k \in 1 .. Size(q)
      PROVE  Place(q, k) = Place(p, k + 1) /\ Place(q, k) # p.pop
  <2>1. k \in 1 .. Capacity - 1 /\ k \in 1 .. Capacity /\ k + 1 \in 1 .. Capacity
    BY <1>1, <1>5
  <2>2. Place(p, k + 1) = On(p.pop, k + 1)
    BY <2>1, PlaceIs DEF On
  <2>3. Place(q, k) = On(q.pop, k)
    BY <1>2, <2>1, PlaceIs DEF On
  <2>4. On(Wrapped(p.pop), k) = On(p.pop, k + 1) /\ On(Wrapped(p.pop), k) # p.pop
    BY <1>1, <1>2, <2>1, GapShrinks
  <2> QED BY <1>3, <2>2, <2>3, <2>4
<1> QED BY <1>5, <1>6, <1>7

\* A sequence with one element more at its end, or one less at its head.
LEMMA Longer ==
  ASSUME NEW S, NEW n \in Nat, NEW f \in [1 .. n + 1 -> S]
  PROVE  f = Append([k \in 1 .. n |-> f[k]], f[n + 1])
OBVIOUS

LEMMA Shorter ==
  ASSUME NEW S, NEW n \in Nat, NEW f \in [1 .. n + 1 -> S]
  PROVE  /\ f # << >> /\ Head(f) = f[1]
         /\ Tail(f) = [k \in 1 .. n |-> f[k + 1]]
<1>1. f \in Seq(S) /\ Len(f) = n + 1 /\ f # << >> /\ Head(f) = f[1]
  OBVIOUS
<1>2. Tail(f) \in Seq(S) /\ Len(Tail(f)) = n /\ \A k \in 1 .. n : Tail(f)[k] = f[k + 1]
  BY <1>1, HeadTailProperties
<1>3. Tail(f) = [k \in 1 .. n |-> Tail(f)[k]]
  BY <1>2, LenProperties
<1> QED BY <1>1, <1>2, <1>3

LEMMA FifoInit == OrderInit => Fifo!Init
<1> SUFFICES ASSUME OrderInit PROVE Fifo!Init
  OBVIOUS
<1>1. counter = Point(0, 0) /\ Point(0, 0).push = 0 /\ Point(0, 0).pop = 0
  BY PointType DEF OrderInit, Init
<1>2. 0 % Capacity = 0
  BY CapacityAssumption
<1>3. Reservations = << >>
  BY <1>1, <1>2 DEF Reservations
<1>4. InClientHands = Items
  BY PoolInit DEF OrderInit, Init, Pool!Init
<1> QED BY <1>3, <1>4 DEF OrderInit, Fifo!Init, InClientHands

\* A step that swaps the counter of the ring forward is the Enqueue of the item
\* that the push holds.
LEMMA FifoReserve ==
  ASSUME Capacity >= 2, OrderInv, NEW t \in Threads, SwapAndReserve(t)
  PROVE  Fifo!Next
<1> USE DEF OrderInv, Inv
<1> DEFINE p == counter
           x == hand[t]
           n == Size(p)
<1>1. PICK op \in Pushing : CounterSwap(t, op, "store")
  BY DEF SwapAndReserve
<1>2. p \in Points /\ p.push \in Index /\ p.pop \in Index /\ e_point[t] = p
  BY <1>1 DEF CounterSwap, TypeOK, Bounded
<1>3. counter' = AdvancePush(p) /\ ~Full(p)
  BY <1>1, <1>2 DEF CounterSwap, Stepped
<1>4. /\ pc[t] \in Pushing /\ pc' = [pc EXCEPT ![t] = "store"]
      /\ UNCHANGED <<hand, outside, claim>>
      /\ reserved' = [reserved EXCEPT ![p.push] = x]
  BY <1>1, <1>2 DEF CounterSwap, SwapAndReserve
<1>5. x \in Items /\ x # NULL
  BY <1>4 DEF HandHeld, TypeOK
<1>6. /\ n \in Nat /\ Size(counter') = n + 1 /\ n + 1 < Capacity
      /\ Place(p, n + 1) = p.push
      /\ \A k \in 1 .. n : Place(p, k) # p.push
      /\ \A k \in 1 .. n + 1 : Place(counter', k) = Place(p, k)
  BY <1>2, <1>3, PushAround
<1>7. \A k \in 1 .. n : Place(p, k) \in Index
  <2>1. ASSUME NEW k \in 1 .. n PROVE k \in 1 .. Capacity
    BY <1>6, CapacityAssumption
  <2> QED BY <1>2, <2>1, PlaceIs
<1> HIDE DEF n
<1>8. Reservations' = Append(Reservations, x)
  <2> DEFINE f == [k \in 1 .. n + 1 |-> reserved'[Place(p, k)]]
  <2>1. Reservations' = f
    BY <1>6 DEF Reservations, Size, Place
  <2>2. Reservations = [k \in 1 .. n |-> reserved[Place(p, k)]]
    BY DEF Reservations, Size, Place, n
  <2>3. \A k \in 1 .. n : f[k] = reserved[Place(p, k)]
    <3> SUFFICES ASSUME NEW k \in 1 .. n PROVE f[k] = reserved[Place(p, k)]
      OBVIOUS
    <3>1. k \in 1 .. n + 1
      BY <1>6
    <3> QED BY <1>4, <1>6, <1>7, <3>1 DEF Promised
  <2>4. f[n + 1] = x
    BY <1>2, <1>4, <1>6 DEF Promised
  <2>5. \A k \in 1 .. n + 1 : reserved'[Place(p, k)] \in Maybe
    <3> SUFFICES ASSUME NEW k \in 1 .. n + 1 PROVE reserved'[Place(p, k)] \in Maybe
      OBVIOUS
    <3>1. k \in 1 .. n \/ k = n + 1
      BY <1>6
    <3> QED BY <1>2, <1>4, <1>5, <1>6, <1>7, <3>1 DEF Promised, Maybe
  <2>6. f \in [1 .. n + 1 -> Maybe]
    BY <2>5
  <2> HIDE DEF f
  <2>7. f = Append([k \in 1 .. n |-> f[k]], f[n + 1])
    BY <1>6, <2>6, Longer
  <2>8. [k \in 1 .. n |-> f[k]] = Reservations
    BY <2>2, <2>3
  <2> QED BY <2>1, <2>4, <2>7, <2>8
<1>9. Len(Reservations) < Capacity - 1
  <2>1. Len(Reservations) = n
    BY <1>6 DEF Reservations, Size, n
  <2> QED BY <1>6, <2>1, CapacityAssumption
<1>10. x \in InClientHands /\ InClientHands' = InClientHands \ {x}
  BY <1>4, <1>5 DEF InClientHands, ExactlyOneOwner, NoItemDuplicated, TypeOK, Pushing
<1> QED BY <1>4, <1>5, <1>8, <1>9, <1>10 DEF Fifo!Next, Fifo!Enqueue, InClientHands

\* A claim is the Dequeue of the oldest reservation.
LEMMA FifoClaim ==
  ASSUME Capacity >= 2, OrderInv, NEW t \in Threads, ObserveClaim(t)
  PROVE  Fifo!Next
<1> USE DEF OrderInv, Inv
<1> DEFINE p == counter
           n == Size(counter')
<1>1. CounterSwap(t, "pop", "load")
  BY DEF ObserveClaim, PopClaim
<1>2. p \in Points /\ p.push \in Index /\ p.pop \in Index /\ e_point[t] = p
  BY <1>1 DEF CounterSwap, TypeOK, Bounded
<1>3. counter' = AdvancePop(p) /\ ~Empty(p)
  BY <1>1, <1>2 DEF CounterSwap, Stepped
<1>4. /\ pc[t] = "pop" /\ pc' = [pc EXCEPT ![t] = "load"]
      /\ UNCHANGED <<hand, outside>>
      /\ reserved' = [reserved EXCEPT ![p.pop] = NULL]
      /\ claim' = [claim EXCEPT ![t] = reserved[p.pop]]
  BY <1>1, <1>2 DEF CounterSwap, ObserveClaim
<1>5. /\ n \in Nat /\ Size(p) = n + 1 /\ n + 1 < Capacity
      /\ Place(p, 1) = p.pop
      /\ \A k \in 1 .. n : Place(counter', k) = Place(p, k + 1) /\ Place(counter', k) # p.pop
  BY <1>2, <1>3, PopAround
<1> HIDE DEF n
<1>6. \A k \in 1 .. n + 1 : Place(p, k) \in Index
  <2>1. ASSUME NEW k \in 1 .. n + 1 PROVE k \in 1 .. Capacity
    BY <1>5, CapacityAssumption
  <2> QED BY <1>2, <2>1, PlaceIs
<1>7. /\ Reservations # << >> /\ Head(Reservations) = reserved[p.pop]
      /\ Reservations' = Tail(Reservations)
  <2> DEFINE f == [k \in 1 .. n + 1 |-> reserved[Place(p, k)]]
  <2>1. Reservations = f
    BY <1>5 DEF Reservations, Size, Place
  <2>2. Reservations' = [k \in 1 .. n |-> reserved'[Place(counter', k)]]
    BY DEF Reservations, Size, Place, n
  <2>3. \A k \in 1 .. n + 1 : reserved[Place(p, k)] \in Maybe
    BY <1>6 DEF Promised
  <2>4. f \in [1 .. n + 1 -> Maybe] /\ f[1] = reserved[p.pop]
    BY <1>5, <2>3
  <2>5. \A k \in 1 .. n : f[k + 1] = reserved'[Place(counter', k)]
    <3> SUFFICES ASSUME NEW k \in 1 .. n PROVE f[k + 1] = reserved'[Place(counter', k)]
      OBVIOUS
    <3>1. k + 1 \in 1 .. n + 1
      BY <1>5
    <3>2. f[k + 1] = reserved[Place(p, k + 1)] /\ Place(p, k + 1) \in Index
      BY <1>6, <3>1
    <3>3. Place(counter', k) = Place(p, k + 1) /\ Place(counter', k) # p.pop
      BY <1>5
    <3> QED BY <1>2, <1>4, <3>2, <3>3 DEF Promised
  <2> HIDE DEF f
  <2>6. f # << >> /\ Head(f) = f[1] /\ Tail(f) = [k \in 1 .. n |-> f[k + 1]]
    <3>1. n \in Nat
      BY <1>5
    <3>2. f \in [1 .. n + 1 -> Maybe]
      BY <2>4
    <3> HIDE DEF p, OrderInv, Inv
    <3> QED BY <3>1, <3>2, Shorter, ZenonT(60)
  <2>7. Tail(f) = Reservations'
    BY <2>2, <2>5, <2>6
  <2> QED BY <2>1, <2>4, <2>6, <2>7
<1>8. claim[t] = NULL
  BY <1>4 DEF Promised
<1>9. InClientHands' = InClientHands
  BY <1>4 DEF InClientHands, TypeOK
<1> QED BY <1>4, <1>7, <1>8, <1>9 DEF Fifo!Next, Fifo!Dequeue, InClientHands

\* A load delivers what the pop has claimed.
LEMMA FifoLoad ==
  ASSUME OrderInv, ~early, NEW t \in Threads, ObserveLoad(t)
  PROVE  Fifo!Next
<1> USE DEF OrderInv, Inv
<1>1. /\ pc[t] = "load" /\ pc' = [pc EXCEPT ![t] = "idle"]
      /\ UNCHANGED <<counter, reserved>> /\ claim' = [claim EXCEPT ![t] = NULL]
      /\ outside' = outside \cup ({slots[e_point[t].pop]} \ {NULL})
  BY DEF ObserveLoad, Load, Return
<1>2. hand' = hand
  BY <1>1 DEF HandHeld, ObserveLoad, Load, Return, TypeOK, Pushing
<1>3. claim[t] # NULL /\ slots[e_point[t].pop] = claim[t]
  BY <1>1 DEF Orderly, Delivered
<1>4. InClientHands' = InClientHands \cup {claim[t]}
  BY <1>1, <1>2, <1>3 DEF InClientHands, TypeOK
<1>5. Reservations' = Reservations
  BY <1>1 DEF Reservations
<1> QED BY <1>1, <1>3, <1>4, <1>5 DEF Fifo!Next, Fifo!Deliver, InClientHands

\* No other step is seen by the queue.
LEMMA FifoStutter ==
  ASSUME UNCHANGED <<counter, orderVars>>, InClientHands' = InClientHands
  PROVE  UNCHANGED Fifo!vars
BY DEF Fifo!vars, Reservations, InClientHands, orderVars

LEMMA FifoStep ==
  ASSUME Capacity >= 2, OrderInv, [OrderNext]_<<vars, orderVars>>
  PROVE  early' \/ Fifo!Next \/ UNCHANGED Fifo!vars
<1> USE DEF OrderInv, Inv
<1>1. ASSUME NEW t \in Threads, SwapAndReserve(t) \/ ObserveClaim(t)
      PROVE  Fifo!Next
  BY <1>1, FifoReserve, FifoClaim
<1>2. ASSUME NEW t \in Threads, ObserveLoad(t)
      PROVE  early' \/ Fifo!Next
  BY <1>2, FifoLoad DEF ObserveLoad, Promised
<1>3. ASSUME NEW t \in Threads, BlockingStore(t), UNCHANGED orderVars
      PROVE  UNCHANGED Fifo!vars
  <2>1. /\ pc[t] = "store" /\ pc' = [pc EXCEPT ![t] = "idle"]
        /\ hand' = [hand EXCEPT ![t] = NULL] /\ UNCHANGED <<counter, outside>>
    BY <1>3 DEF BlockingStore, Return
  <2>2. InClientHands' = InClientHands
    BY <2>1 DEF InClientHands, TypeOK
  <2> QED BY <1>3, <2>1, <2>2, FifoStutter
<1>4. ASSUME NEW t \in Threads, Aside(t)
      PROVE  UNCHANGED Fifo!vars
  BY <1>4, FifoStutter DEF Aside
<1>5. ASSUME Destroy, UNCHANGED orderVars
      PROVE  UNCHANGED Fifo!vars
  <2>1. \A t \in Threads : pc[t] = "idle" /\ pc'[t] = "destroyed"
    BY <1>5 DEF Destroy
  <2>2. InClientHands' = InClientHands
    BY <1>5, <2>1 DEF Destroy, InClientHands
  <2> QED BY <1>5, <2>2, FifoStutter DEF Destroy
<1>6. ASSUME UNCHANGED <<vars, orderVars>>
      PROVE  UNCHANGED Fifo!vars
  BY <1>6, FifoStutter DEF vars, InClientHands
<1> QED BY OrderCases, <1>1, <1>2, <1>3, <1>4, <1>5, <1>6

\* The ring of any size with any number of threads is a first-in first-out
\* queue of Capacity - 1 places until a pop overtakes a push at its node.
THEOREM FifoRefinement ==
  ASSUME Capacity >= 2, Threads # {} PROVE OrderSpec => PatientFifo
<1>1. OrderInit => Fifo!Init
  BY FifoInit
<1>2. OrderInv /\ [OrderNext]_<<vars, orderVars>>
        => [early' \/ Fifo!Next \/ UNCHANGED Fifo!vars]_<<vars, orderVars>>
  BY FifoStep
<1> QED BY <1>1, <1>2, OrderInvCorrect, PTL DEF OrderSpec, PatientFifo
-----------------------------------------------------------------------------
(***************************************************************************)
(* Whom a push waits for.  Until the first early claim a node is full only *)
(* with the item it is reserved for, or else some pop has claimed it and   *)
(* is about to load (Cleared).                                             *)
(***************************************************************************)
Cleared ==
  \A i \in Index : slots[i] \in {NULL, reserved[i]} \/ Loading(i) # {}

LEMMA ClearedStep ==
  ASSUME Capacity >= 2, OrderInv, ~early => Cleared, [OrderNext]_<<vars, orderVars>>, ~early'
  PROVE  Cleared'
<1> USE DEF OrderInv, Inv
<1>1. ~early /\ Cleared /\ Orderly
  <2>1. early => early'
    BY OrderCases DEF SwapAndReserve, ObserveClaim, ObserveLoad, Aside, orderVars
  <2> QED BY <2>1
<1>2. ASSUME NEW t \in Threads, SwapAndReserve(t)
      PROVE  Cleared'
  <2>1. /\ pc[t] \in Pushing /\ pc' = [pc EXCEPT ![t] = "store"]
        /\ slots' = slots /\ e_point' = e_point
        /\ e_point[t].push \in Index /\ e_point[t] = counter
        /\ reserved' = [reserved EXCEPT ![e_point[t].push] = hand[t]]
    BY <1>2 DEF SwapAndReserve, CounterSwap, Bounded
  <2>2. counter \in Points /\ ~Full(counter) /\ counter' = AdvancePush(counter)
    BY <1>2, <2>1 DEF SwapAndReserve, CounterSwap, Stepped, TypeOK
  <2>3. reserved[e_point[t].push] = NULL
    BY <2>1, <2>2, ReserveNext DEF Bounded, Promised
  <2>4. \A i \in Index : Loading(i)' = Loading(i)
    BY <2>1 DEF Loading, TypeOK, Pushing
  <2>5. \A i \in Index : reserved'[i] = reserved[i] \/ reserved[i] = NULL
    BY <2>1, <2>3 DEF Promised
  <2> QED BY <1>1, <2>1, <2>4, <2>5 DEF Cleared
<1>3. ASSUME NEW t \in Threads, ObserveClaim(t)
      PROVE  Cleared'
  <2> DEFINE j == e_point[t].pop
  <2>1. /\ pc[t] = "pop" /\ pc' = [pc EXCEPT ![t] = "load"]
        /\ slots' = slots /\ e_point' = e_point
        /\ reserved' = [reserved EXCEPT ![j] = NULL]
    BY <1>3 DEF ObserveClaim, PopClaim, CounterSwap
  <2>2. \A i \in Index : /\ Loading(i) \subseteq Loading(i)'
                         /\ i = j => t \in Loading(i)'
    BY <2>1 DEF Loading, TypeOK
  <2>3. \A i \in Index \ {j} : reserved'[i] = reserved[i]
    BY <2>1 DEF Promised
  <2> QED BY <1>1, <2>1, <2>2, <2>3 DEF Cleared
<1>4. ASSUME NEW t \in Threads, ObserveLoad(t)
      PROVE  Cleared'
  <2> DEFINE j == e_point[t].pop
  <2>1. /\ pc[t] = "load" /\ pc' = [pc EXCEPT ![t] = "idle"] /\ reserved' = reserved
        /\ slots' = [slots EXCEPT ![j] = NULL] /\ j \in Index
        /\ \A u \in Threads \ {t} : e_point'[u] = e_point[u]
    BY <1>4 DEF ObserveLoad, Load, Return, TypeOK, Bounded
  <2>2. \A i \in Index \ {j} : slots'[i] = slots[i] /\ Loading(i) \subseteq Loading(i)'
    BY <2>1 DEF Loading, TypeOK
  <2>3. slots'[j] = NULL
    BY <2>1 DEF TypeOK
  <2> QED BY <1>1, <2>1, <2>2, <2>3 DEF Cleared
<1>5. ASSUME NEW t \in Threads, BlockingStore(t), UNCHANGED orderVars
      PROVE  Cleared'
  <2> DEFINE j == e_point[t].push
  <2>1. /\ pc[t] = "store" /\ pc' = [pc EXCEPT ![t] = "idle"] /\ reserved' = reserved
        /\ slots' = [slots EXCEPT ![j] = hand[t]] /\ j \in Index
        /\ \A u \in Threads \ {t} : e_point'[u] = e_point[u]
    BY <1>5 DEF BlockingStore, Return, TypeOK, Bounded, orderVars
  <2>2. \A i \in Index \ {j} : slots'[i] = slots[i]
    BY <2>1 DEF TypeOK
  <2>3. \A i \in Index : Loading(i) \subseteq Loading(i)'
    BY <2>1 DEF Loading, TypeOK
  <2>4. slots'[j] = reserved'[j]
    BY <1>1, <2>1 DEF Orderly, Bound, TypeOK
  <2> QED BY <1>1, <2>1, <2>2, <2>3, <2>4 DEF Cleared
<1>6. ASSUME NEW t \in Threads, Aside(t)
      PROVE  Cleared'
  <2>1. \A i \in Index : Loading(i) \subseteq Loading(i)'
    BY <1>6 DEF Aside, Loading
  <2> QED BY <1>1, <1>6, <2>1 DEF Aside, Cleared, orderVars
<1>7. CASE Destroy
  BY <1>7 DEF Destroy, Cleared
<1>8. CASE UNCHANGED <<vars, orderVars>>
  BY <1>1, <1>8 DEF Cleared, Loading, vars, orderVars
<1> QED BY OrderCases, <1>2, <1>3, <1>4, <1>5, <1>6, <1>7, <1>8

\* As long as no pop has claimed a node before its item was stored, a push has
\* to wait at a full node only for a pop that has claimed that node and needs
\* one more step to empty it, whatever the number of producers and consumers.
THEOREM PushWaitsForLoadCorrect ==
  ASSUME Capacity >= 2, Threads # {} PROVE OrderSpec => []PushWaitsForLoad
<1>1. OrderInit => (~early => Cleared)
  BY DEF OrderInit, Init, Cleared
<1>2. OrderInv /\ (~early => Cleared) /\ [OrderNext]_<<vars, orderVars>>
        => (~early => Cleared)'
  BY ClearedStep
<1>3. OrderInv /\ (~early => Cleared) => PushWaitsForLoad
  <2> SUFFICES ASSUME OrderInv, ~early, Cleared, NEW t \in Threads,
                      pc[t] = "store", slots[e_point[t].push] # NULL
               PROVE  Loading(e_point[t].push) # {}
    BY DEF PushWaitsForLoad
  <2>1. e_point[t].push \in Index /\ hand[t] # NULL
    BY DEF OrderInv, Inv, Bounded, HandHeld
  <2>2. reserved[e_point[t].push] = hand[t]
    BY DEF OrderInv, Orderly, Bound
  <2>3. slots[e_point[t].push] # hand[t]
    BY <2>1 DEF OrderInv, ExactlyOneOwner, NoItemDuplicated
  <2> QED BY <2>1, <2>2, <2>3 DEF Cleared
<1> QED BY <1>1, <1>2, <1>3, OrderInvCorrect, PTL DEF OrderSpec

-----------------------------------------------------------------------------
(* What it takes to make a claim early, and what follows for one thread.   *)

\* The destructor ends all threads at once.
Gone == \A s, t \in Threads : pc[s] = "destroyed" => pc[t] = "destroyed"

LEMMA GoneStep == ASSUME TypeOK, Gone, [Next]_vars PROVE Gone'
<1>1. ASSUME NEW t \in Threads, pc[t] # "destroyed", pc'[t] # "destroyed",
             \A u \in Threads \ {t} : pc'[u] = pc[u]
      PROVE  Gone'
  BY <1>1 DEF Gone
<1>2. CASE Destroy
  BY <1>2 DEF Destroy, Gone
<1>3. CASE UNCHANGED vars
  BY <1>3 DEF Gone, vars
<1>4. ASSUME NEW t \in Threads,
             \/ \E op \in Pushing : BeginPush(t, op) \/ CounterSwap(t, op, "store")
             \/ PopCall(t) \/ CounterSwap(t, "pop", "load")
             \/ RetryFull(t) \/ RetryPush(t) \/ RetryPop(t)
             \/ TryPushRefused(t) \/ PopEmpty(t) \/ BlockingStore(t) \/ Load(t)
      PROVE  /\ pc[t] # "destroyed" /\ pc'[t] # "destroyed"
             /\ \A u \in Threads \ {t} : pc'[u] = pc[u]
  BY <1>4 DEF BeginPush, PopCall, CounterSwap, RetryFull, RetryPush, RetryPop, Retry,
       TryPushRefused, PopEmpty, BlockingStore, Load, Return, Pushing, TypeOK
<1> QED BY StepCases, <1>1, <1>2, <1>3, <1>4

LEMMA EarlyClaim ==
  ASSUME OrderInv, Gone, [OrderNext]_<<vars, orderVars>>, ~early, early'
  PROVE  \E s, t \in Threads :
           pc[s] = "store" /\ pc[t] = "pop" /\ e_point[s].push = e_point[t].pop
<1> USE DEF OrderInv, Inv
<1>1. PICK t \in Threads : ObserveClaim(t)
  BY OrderCases DEF SwapAndReserve, ObserveLoad, Aside, orderVars
<1>2. CounterSwap(t, "pop", "load") /\ slots[e_point[t].pop] # reserved[e_point[t].pop]
  BY <1>1 DEF ObserveClaim, PopClaim
<1>3. reserved[e_point[t].pop] # NULL /\ e_point[t].pop \in Index
  <2>1. e_point[t] = counter /\ counter \in Points /\ ~Empty(counter)
    BY <1>2 DEF CounterSwap, Stepped, TypeOK
  <2>2. counter' = AdvancePop(counter) /\ counter.push \in Index /\ counter.pop \in Index
    BY <1>2, <2>1 DEF CounterSwap, Stepped, Bounded
  <2> QED BY <2>1, <2>2, ClaimNext DEF Promised
<1>4. pc[t] = "pop" /\ \A u \in Threads : pc[u] # "destroyed"
  BY <1>2 DEF CounterSwap, Gone
<1>5. PICK s \in Storing(e_point[t].pop) : TRUE
  BY <1>2, <1>3, <1>4 DEF Orderly, Kept
<1> QED BY <1>4, <1>5 DEF Storing

\* A claim is early only where it overlaps a push: some thread is between its
\* reservation of the very node that is claimed and its store there.
EarlyOnlyByOverlap ==
  [][early' # early =>
       \E s, t \in Threads :
         pc[s] = "store" /\ pc[t] = "pop" /\ e_point[s].push = e_point[t].pop]_<<vars, orderVars>>

THEOREM EarlyOnlyByOverlapCorrect ==
  ASSUME Capacity >= 2, Threads # {} PROVE OrderSpec => EarlyOnlyByOverlap
<1>1. OrderInit => Gone
  BY DEF OrderInit, Init, Gone
<1>2. OrderInv /\ Gone /\ [OrderNext]_<<vars, orderVars>> => Gone'
  BY OrderCases, GoneStep DEF OrderInv, Inv
<1>3. ASSUME OrderInv, Gone, [OrderNext]_<<vars, orderVars>>, early' # early
      PROVE  \E s, t \in Threads :
               pc[s] = "store" /\ pc[t] = "pop" /\ e_point[s].push = e_point[t].pop
  <2>1. early => early'
    BY <1>3, OrderCases
    DEF OrderInv, SwapAndReserve, ObserveClaim, ObserveLoad, Aside, orderVars
  <2>2. early \in BOOLEAN /\ early' \in BOOLEAN
    BY <1>3, OrderInvStep DEF OrderInv, Promised
  <2> QED BY <1>3, <2>1, <2>2, EarlyClaim
<1> QED BY <1>1, <1>2, <1>3, OrderInvCorrect, PTL DEF OrderSpec, EarlyOnlyByOverlap

\* The ring of one thread, as an event loop has it, is a first-in first-out
\* queue of Capacity - 1 places without any condition.
THEOREM SequentialFifo ==
  ASSUME Capacity >= 2, NEW t, Threads = {t} PROVE OrderSpec => Fifo!Spec
<1>1. OrderInit => ~early /\ Gone
  BY DEF OrderInit, Init, Gone
<1>2. OrderInv /\ ~early /\ Gone /\ [OrderNext]_<<vars, orderVars>> => (~early /\ Gone)'
  BY OrderCases, GoneStep, EarlyClaim DEF OrderInv, Inv
<1>3. OrderInv /\ ~early' /\ [OrderNext]_<<vars, orderVars>> => [Fifo!Next]_(Fifo!vars)
  BY FifoStep
<1>4. OrderInit => Fifo!Init
  BY FifoInit
<1>5. OrderSpec => []OrderInv
  BY OrderInvCorrect
<1> QED BY <1>1, <1>2, <1>3, <1>4, <1>5, PTL DEF OrderSpec, Fifo!Spec
=============================================================================
