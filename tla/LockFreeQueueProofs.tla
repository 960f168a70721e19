------------------------- MODULE LockFreeQueueProofs -------------------------
(***************************************************************************)
(* What is proved about LockFreeQueue for any number of threads and items: *)
(* its type invariant, that nodes form no circle, that the count accounts  *)
(* for every item, and that the queue implements LossyFifo.                *)
(*                                                                         *)
(* The inductive invariant says where a node can be.  Client code, clear(),*)
(* a pop under way and a push under way own disjoint sets of nodes, none of*)
(* which is in the list (Apart, Linked); a new node is seen by its push    *)
(* only (Unseen), because the memory of a node is used again only when no  *)
(* pointer is left that leads to it; and so the compare_exchange of __pop()*)
(* cannot succeed with a node that has left the list since it was loaded   *)
(* (Snapshot).  From these follows that the list stays finite and without  *)
(* repetition (IsQueue), which is what the refinement needs.               *)
(***************************************************************************)
EXTENDS LockFreeQueue, FiniteSetTheorems, SequenceTheorems,
        WellFoundedInduction, TLAPS

LEMMA SizeFacts == SizeMod \in Nat /\ SizeMod > 0
BY SizeAssumption, FS_CardinalityType

LEMMA TypeInit == Init => TypeOK
BY SizeFacts DEF Init, TypeOK, Nodes, Labels

\* A local that the code dereferences is not null: where it is set and where
\* the code is afterwards, in the order of the source.
LEMMA PushStep ==
  ASSUME TypeOK, NEW t \in Threads,
         \/ PushCall(t) \/ PushLoadTail(t) \/ PushLink(t) \/ PushWalk(t)
         \/ PushStoreTail(t) \/ PushCount(t)
  PROVE  TypeOK'
<1> USE NodeAssumption DEF TypeOK, Nodes, Labels, locals, Goto
<1>1. CASE PushCall(t)
  BY <1>1 DEF PushCall
<1>2. CASE PushLoadTail(t)
  BY <1>2 DEF PushLoadTail
<1>3. CASE PushLink(t)
  BY <1>3 DEF PushLink
<1>4. CASE PushWalk(t)
  <2>1. next[tail_node[t]] \in Items
    BY <1>4 DEF PushWalk
  <2> QED BY <1>4, <2>1 DEF PushWalk
<1>5. CASE PushStoreTail(t)
  BY <1>5 DEF PushStoreTail
<1>6. CASE PushCount(t)
  <2>1. size' \in 0 .. SizeMod - 1
    BY <1>6, SizeFacts DEF PushCount
  <2> QED BY <1>6, <2>1 DEF PushCount, EndPush
<1> QED BY <1>1, <1>2, <1>3, <1>4, <1>5, <1>6

LEMMA PopStep ==
  ASSUME TypeOK, NEW t \in Threads,
         \/ PopCall(t) \/ ClearCall(t) \/ PopLoadHead(t) \/ PopLoadNext(t) \/ PopSwap(t)
         \/ PopRetry(t) \/ PopCount(t) \/ PopUnlink(t) \/ PopResetTail(t)
  PROVE  TypeOK'
<1> USE NodeAssumption DEF TypeOK, Nodes, Labels, locals, Goto
<1>1. CASE PopCall(t) \/ ClearCall(t)
  BY <1>1 DEF PopCall, ClearCall, PopStart
<1>2. CASE PopLoadHead(t) \/ PopRetry(t)
  <2>1. TakeHead(t) /\ pc[t] \in {"load_head", "swap_head"}
    BY <1>2 DEF PopLoadHead, PopRetry
  <2>2. next[head] \in Items \cup {NULL}
    OBVIOUS
  <2> QED BY <2>1, <2>2 DEF TakeHead
<1>3. CASE PopLoadNext(t)
  BY <1>3 DEF PopLoadNext
<1>4. CASE PopSwap(t)
  BY <1>4 DEF PopSwap
<1>5. CASE PopCount(t)
  <2>1. size' \in 0 .. SizeMod - 1
    BY <1>5, SizeFacts DEF PopCount
  <2> QED BY <1>5, <2>1 DEF PopCount
<1>6. CASE PopUnlink(t)
  <2>1. head_next[t] \in Items
    BY <1>6 DEF PopUnlink
  <2> QED BY <1>6, <2>1 DEF PopUnlink, EndPop
<1>7. CASE PopResetTail(t)
  BY <1>7 DEF PopResetTail, EndPop
<1> QED BY <1>1, <1>2, <1>3, <1>4, <1>5, <1>6, <1>7

LEMMA TypeStep == TypeOK /\ [Next]_vars => TypeOK'
<1> SUFFICES ASSUME TypeOK, [Next]_vars PROVE TypeOK'
  OBVIOUS
<1>1. ASSUME NEW t \in Threads, Call(t) \/ Step(t) PROVE TypeOK'
  BY <1>1, PushStep, PopStep DEF Call, Step
<1>2. CASE UNCHANGED vars
  BY <1>2 DEF vars, locals, TypeOK
<1> QED BY <1>1, <1>2 DEF Next

\* Neither push() nor __pop() follows a null SharedPtr, whatever other threads
\* do to the list between their steps, and __size stays within its width.
THEOREM TypeCorrect == Spec => []TypeOK
BY TypeInit, TypeStep, PTL DEF Spec
-----------------------------------------------------------------------------
(* The inductive invariant.                                                *)

\* The nodes that a pop has taken and not unlinked yet, those that have been
\* popped, and those that a push has made and not linked yet.
TakenNodes == {head_next[t] : t \in At({"count_pop", "unlink"})}
Popped     == outside \cup destroyed \cup TakenNodes
FreshNodes == {new_node[t] : t \in At({"load_tail", "link"})}

\* A node is in one place only.
Apart ==
  /\ outside \cap destroyed = {}
  /\ TakenNodes \cap (outside \cup destroyed) = {}
  /\ FreshNodes \cap Popped = {}
  /\ \A t, u \in At({"count_pop", "unlink"}) : head_next[t] = head_next[u] => t = u

\* Only a node that a pop is taking may point to one that is not linked, and
\* the others do not point to the same node.
Linked ==
  /\ \A n \in Nodes \ TakenNodes : next[n] \notin Popped \cup FreshNodes
  /\ \A m, n \in Nodes \ TakenNodes : next[m] = next[n] /\ next[m] # NULL => m = n

\* Nobody but its push has a pointer to a new node, and it leads nowhere yet.
Unseen ==
  \A t \in At({"load_tail", "link"}) :
    /\ next[new_node[t]] = NULL
    /\ \A n \in Nodes : next[n] # new_node[t]
    /\ tail # new_node[t]
    /\ \A u \in Threads :
         /\ new_node[t] \notin {tail_node[u], head_next[u], head_next_next[u]}
         /\ u # t => new_node[u] # new_node[t]

\* What __pop() knows of the first node is still true, or the node has been
\* popped: the pointer keeps it from becoming the first node again.  A push may
\* have linked another node behind it.
Snapshot ==
  /\ \A t \in At({"load_next", "swap_head"}) :
       head_next[t] = next[head] \/ head_next[t] \in Popped
  /\ \A t \in At({"swap_head"}) :
       head_next[t] = next[head] => head_next_next[t] \in {NULL, next[head_next[t]]}

\* The list is finite and what is in it is in no other place.
IsQueue(s) ==
  /\ s \in Seq(Items)
  /\ IsList(s)
  /\ \A i, j \in DOMAIN s : s[i] = s[j] => i = j
  /\ \A i \in DOMAIN s : s[i] \notin Popped \cup FreshNodes

HasQueue == \E s \in Seq(Items) : IsQueue(s)

Inv == Apart /\ Linked /\ Unseen /\ Snapshot

\* Nothing leads to a node whose memory is free.
LEMMA FreeIsUnseen ==
  ASSUME TypeOK, Linked, NEW x \in outside \ Alive
  PROVE  x \notin Roots /\ \A n \in Nodes : next[n] # x
<1>1. x \in Nodes /\ x # NULL
  BY NodeAssumption DEF TypeOK, Nodes
<1>2. PICK S \in SUBSET Nodes : Closed(S) /\ x \notin S
  BY <1>1 DEF Alive
<1>3. ASSUME NEW n \in Nodes, next[n] = x PROVE FALSE
  <2>1. n \in TakenNodes
    BY <1>3 DEF Linked, Popped
  <2>2. n \in Roots \ {NULL}
    BY <2>1, NodeAssumption DEF TakenNodes, At, Roots, Nodes
  <2> QED BY <2>2, <1>1, <1>2, <1>3 DEF Closed
<1> QED BY <1>1, <1>2, <1>3 DEF Closed

LEMMA InvInit == Init => Inv
BY NodeAssumption DEF Init, Inv, Apart, Linked, Unseen, Snapshot, TakenNodes, Popped, FreshNodes,
   At, Nodes

LEMMA PushCallInv ==
  ASSUME TypeOK, Inv, NEW t \in Threads, PushCall(t)
  PROVE  Inv'
<1> USE NodeAssumption DEF TypeOK, Nodes, Labels, PushCall, Goto, At
<1>1. PICK x \in outside \ Alive :
        /\ outside' = outside \ {x}
        /\ new_node' = [new_node EXCEPT ![t] = x]
        /\ next' = [next EXCEPT ![x] = NULL]
  OBVIOUS
<1>2. x \notin Roots /\ \A n \in Nodes : next[n] # x
  BY FreeIsUnseen DEF Inv
<1>3. x \in Items
  OBVIOUS
<1>4. /\ tail # x
      /\ \A u \in Threads : x \notin {new_node[u], tail_node[u], head_next[u], head_next_next[u]}
  BY <1>2 DEF Roots
<1>5. TakenNodes' = TakenNodes /\ Popped' = Popped \ {x} /\ FreshNodes' = FreshNodes \cup {x}
  <2>1. TakenNodes' = TakenNodes
    BY DEF TakenNodes
  <2>2. x \notin TakenNodes
    BY <1>4 DEF TakenNodes
  <2>3. x \notin destroyed
    BY DEF Inv, Apart
  <2>4. FreshNodes' = FreshNodes \cup {x}
    BY <1>1 DEF FreshNodes
  <2> QED BY <1>1, <2>1, <2>2, <2>3, <2>4 DEF Popped
<1>6. Apart'
  BY <1>1, <1>5 DEF Inv, Apart, Popped
<1>7. Linked'
  <2>1. NULL \notin Popped \cup FreshNodes
    BY DEF Popped, TakenNodes, FreshNodes
  <2>2. Popped' \cup FreshNodes' = Popped \cup FreshNodes
    BY <1>5 DEF Popped
  <2> QED BY <1>1, <1>3, <1>5, <2>1, <2>2 DEF Inv, Linked
<1>8. Unseen'
  BY <1>1, <1>2, <1>3, <1>4 DEF Inv, Unseen
<1>9. Snapshot'
  BY <1>1, <1>3, <1>4, <1>5 DEF Inv, Snapshot
<1> QED BY <1>6, <1>7, <1>8, <1>9 DEF Inv

LEMMA PushLinkInv ==
  ASSUME TypeOK, Inv, NEW t \in Threads, PushLink(t)
  PROVE  Inv'
<1> USE NodeAssumption DEF TypeOK, Nodes, Labels, PushLink, Goto, At, locals
<1> DEFINE x == new_node[t]  n == tail_node[t]
<1>1. x \in Items /\ n \in Nodes /\ next' = [next EXCEPT ![n] = x] /\ next[n] = NULL
  OBVIOUS
<1>2. /\ \A m \in Nodes : next[m] # x
      /\ tail # x
      /\ \A u \in Threads : /\ x \notin {tail_node[u], head_next[u], head_next_next[u]}
                            /\ u # t => new_node[u] # x
  BY DEF Inv, Unseen
<1>3. TakenNodes' = TakenNodes /\ Popped' = Popped
  BY DEF TakenNodes, Popped
<1>4. FreshNodes' = FreshNodes \ {x} /\ x \in FreshNodes
  BY <1>2 DEF FreshNodes
<1>5. Apart'
  BY <1>3, <1>4 DEF Inv, Apart
<1>6. Linked'
  BY <1>1, <1>2, <1>3, <1>4 DEF Inv, Linked, Apart
<1>7. Unseen'
  BY <1>1, <1>2 DEF Inv, Unseen
<1>8. Snapshot'
  BY <1>1, <1>2, <1>3 DEF Inv, Snapshot
<1> QED BY <1>5, <1>6, <1>7, <1>8 DEF Inv

\* The steps of push() that change neither the list nor who owns a node.
LEMMA PushLocalInv ==
  ASSUME TypeOK, Inv, NEW t \in Threads,
         PushLoadTail(t) \/ PushWalk(t) \/ PushStoreTail(t) \/ PushCount(t)
  PROVE  Inv'
<1> USE NodeAssumption DEF TypeOK, Nodes, Labels, Goto, At, locals, PushLoadTail, PushWalk,
        PushStoreTail, PushCount, EndPush
<1>1. /\ TakenNodes' = TakenNodes /\ Popped' = Popped /\ FreshNodes' = FreshNodes
      /\ UNCHANGED <<next, outside, destroyed>>
  BY DEF TakenNodes, Popped, FreshNodes
<1>2. Apart'
  BY <1>1 DEF Inv, Apart
<1>3. Linked'
  BY <1>1 DEF Inv, Linked
<1>4. Unseen'
  BY DEF Inv, Unseen
<1>5. Snapshot'
  BY <1>1 DEF Inv, Snapshot
<1> QED BY <1>2, <1>3, <1>4, <1>5 DEF Inv

\* The steps of __pop() that change neither the list nor who owns a node.
LEMMA PopLocalInv ==
  ASSUME TypeOK, Inv, NEW t \in Threads,
         \/ PopCall(t) \/ ClearCall(t) \/ PopLoadHead(t) \/ PopLoadNext(t) \/ PopRetry(t)
         \/ PopCount(t) \/ PopResetTail(t)
  PROVE  Inv'
<1> USE NodeAssumption DEF TypeOK, Nodes, Labels, Goto, At, locals, PopCall, ClearCall, PopStart,
        PopLoadHead, PopLoadNext, PopRetry, TakeHead, PopCount, PopResetTail, EndPop
<1>1. /\ TakenNodes' = TakenNodes /\ Popped' = Popped /\ FreshNodes' = FreshNodes
      /\ UNCHANGED <<next, outside, destroyed, new_node, tail_node>>
  BY DEF TakenNodes, Popped, FreshNodes
<1>2. Apart'
  BY <1>1 DEF Inv, Apart
<1>3. Linked'
  BY <1>1 DEF Inv, Linked
<1>4. Unseen'
  BY DEF Inv, Unseen
<1>5. Snapshot'
  BY <1>1 DEF Inv, Snapshot
<1> QED BY <1>2, <1>3, <1>4, <1>5 DEF Inv

LEMMA PopSwapInv ==
  ASSUME TypeOK, Inv, NEW t \in Threads, PopSwap(t)
  PROVE  Inv'
<1> USE NodeAssumption DEF TypeOK, Nodes, Labels, PopSwap, Goto, At, locals
<1> DEFINE a == head_next[t]  b == head_next_next[t]
<1>1. a \in Items /\ next[head] = a /\ next' = [next EXCEPT ![head] = b]
  OBVIOUS
<1>2. head \notin TakenNodes
  BY DEF TakenNodes
<1>3. a \notin Popped /\ a \notin FreshNodes /\ b \in {NULL, next[a]}
  BY <1>1, <1>2 DEF Inv, Linked, Snapshot
<1>4. a \notin TakenNodes
  BY <1>3 DEF Popped
<1>5. TakenNodes' = TakenNodes \cup {a} /\ Popped' = Popped \cup {a} /\ FreshNodes' = FreshNodes
  BY DEF TakenNodes, Popped, FreshNodes
<1>6. Apart'
  <2>1. /\ outside' \cap destroyed' = {}
        /\ TakenNodes' \cap (outside' \cup destroyed') = {}
        /\ FreshNodes' \cap Popped' = {}
    BY <1>3, <1>5 DEF Inv, Apart, Popped
  <2>2. \A u, v \in At({"count_pop", "unlink"})' : head_next'[u] = head_next'[v] => u = v
    BY <1>4 DEF Inv, Apart, TakenNodes
  <2> QED BY <2>1, <2>2 DEF Apart
<1>7. Linked'
  <2>1. b # a
    BY <1>1, <1>2, <1>3, <1>4 DEF Inv, Linked
  <2>2. b \notin Popped' \cup FreshNodes'
    <3>1. NULL \notin Popped' \cup FreshNodes'
      BY <1>1, <1>5 DEF Popped, TakenNodes, FreshNodes
    <3>2. next[a] \notin Popped \cup FreshNodes
      BY <1>1, <1>4 DEF Inv, Linked
    <3> QED BY <1>3, <1>5, <2>1, <3>1, <3>2
  <2>3. \A n \in Nodes \ TakenNodes' : n # head => next[n] # a
    BY <1>1, <1>2, <1>5 DEF Inv, Linked
  <2>4. \A n \in Nodes \ TakenNodes' : n # head /\ next[n] = b => b = NULL
    BY <1>1, <1>2, <1>3, <1>4, <1>5 DEF Inv, Linked
  <2> QED BY <1>1, <1>5, <2>2, <2>3, <2>4 DEF Inv, Linked
<1>8. Unseen'
  BY DEF Inv, Unseen
<1>9. Snapshot'
  <2>1. b # a /\ b \notin Popped
    BY <1>1, <1>2, <1>5, <1>7 DEF Linked
  <2>2. \A u \in At({"load_next", "swap_head"})' : u # t /\ head_next'[u] \in Popped'
    BY <1>1, <1>5 DEF Inv, Snapshot
  <2>3. \A u \in At({"swap_head"})' : head_next'[u] # next'[head]
    BY <1>1, <1>5, <1>7, <2>2, <1>2 DEF Linked
  <2> QED BY <2>2, <2>3 DEF Snapshot
<1> QED BY <1>6, <1>7, <1>8, <1>9 DEF Inv

LEMMA PopUnlinkInv ==
  ASSUME TypeOK, Inv, NEW t \in Threads, PopUnlink(t)
  PROVE  Inv'
<1> USE NodeAssumption DEF TypeOK, Nodes, Labels, PopUnlink, At, EndPop
<1> DEFINE a == head_next[t]
<1>1. a \in Items /\ next' = [next EXCEPT ![a] = NULL]
  OBVIOUS
<1>2. \/ outside' = outside \cup {a} /\ destroyed' = destroyed
      \/ destroyed' = destroyed \cup {a} /\ outside' = outside
  OBVIOUS
<1>3. a \in TakenNodes /\ a \notin outside \cup destroyed
  BY DEF Inv, Apart, TakenNodes
<1>4. TakenNodes' = TakenNodes \ {a}
  BY DEF Inv, Apart, TakenNodes
<1>5. Popped' = Popped /\ FreshNodes' = FreshNodes
  <2>1. FreshNodes' = FreshNodes
    BY DEF FreshNodes
  <2> QED BY <1>2, <1>3, <1>4, <2>1 DEF Popped
<1>6. Apart'
  <2>1. \A u, v \in At({"count_pop", "unlink"})' : head_next'[u] = head_next'[v] => u = v
    BY DEF Inv, Apart
  <2> QED BY <1>2, <1>3, <1>4, <1>5, <2>1 DEF Inv, Apart
<1>7. Linked'
  <2>1. NULL \notin Popped \cup FreshNodes
    BY DEF Popped, TakenNodes, FreshNodes
  <2> QED BY <1>1, <1>4, <1>5, <2>1 DEF Inv, Linked
<1>8. Unseen'
  BY DEF Inv, Unseen
<1>9. Snapshot'
  <2>1. next[head] # a
    BY <1>3 DEF Inv, Linked, Popped, TakenNodes
  <2> QED BY <1>1, <1>5, <2>1 DEF Inv, Snapshot
<1> QED BY <1>6, <1>7, <1>8, <1>9 DEF Inv

LEMMA InvStep == TypeOK /\ Inv /\ [Next]_vars => Inv'
<1> SUFFICES ASSUME TypeOK, Inv, [Next]_vars PROVE Inv'
  OBVIOUS
<1>1. ASSUME NEW t \in Threads, Call(t) \/ Step(t) PROVE Inv'
  BY <1>1, PushCallInv, PushLinkInv, PushLocalInv, PopLocalInv, PopSwapInv, PopUnlinkInv
     DEF Call, Step
<1>2. CASE UNCHANGED vars
  BY <1>2 DEF vars, locals, Inv, Apart, Linked, Unseen, Snapshot, TakenNodes, Popped, FreshNodes, At
<1> QED BY <1>1, <1>2 DEF Next

-----------------------------------------------------------------------------
(* Circles.  Only the link of a push and the exchange of __pop() make a    *)
(* node lead to another: the first to a node that leads nowhere, the second*)
(* from __head, which no node leads to.                                    *)

\* A pointer that is changed in n leaves no circle, if there was none, when it
\* is null, when n is __head, or when it leads to another node that leads
\* nowhere.
LEMMA NoCircleMade ==
  ASSUME TypeOK, NoCycle, NEW n \in Nodes, NEW m \in Items \cup {NULL},
         next' = [next EXCEPT ![n] = m],
         \/ m = NULL
         \/ n = head
         \/ m # n /\ m # NULL /\ next[m] = NULL
  PROVE  NoCycle'
<1> SUFFICES ASSUME NEW S \in SUBSET Nodes, S # {}
             PROVE  \E k \in S : next'[k] \notin S
  BY DEF NoCycle
<1> USE NodeAssumption DEF Nodes
<1>1. next'[n] = m /\ \A k \in Nodes \ {n} : next'[k] = next[k]
  BY DEF TypeOK
<1>2. NULL \notin S
  OBVIOUS
<1>3. CASE n \notin S
  BY <1>1, <1>3 DEF NoCycle
<1>4. CASE n \in S /\ m \notin S
  BY <1>1, <1>4
<1>5. CASE n = head /\ n \in S /\ m \in S
  <2>1. m \in S \ {n}
    BY <1>2, <1>5
  <2>2. PICK k \in S \ {n} : next[k] \notin S \ {n}
    BY <2>1 DEF NoCycle
  <2>3. next[k] # n
    BY <1>5, <2>2 DEF TypeOK
  <2> QED BY <1>1, <2>2, <2>3
<1>6. CASE m \in S /\ m # n /\ next[m] = NULL
  BY <1>1, <1>2, <1>6
<1> QED BY <1>2, <1>3, <1>4, <1>5, <1>6

LEMMA NoCycleStep == TypeOK /\ Inv /\ NoCycle /\ [Next]_vars => NoCycle'
<1> SUFFICES ASSUME TypeOK, Inv, NoCycle, [Next]_vars PROVE NoCycle'
  OBVIOUS
<1> USE NodeAssumption DEF Nodes
<1>1. ASSUME NEW t \in Threads, Call(t) \/ Step(t) PROVE NoCycle'
  <2>1. CASE PushCall(t)
    <3>1. PICK x \in outside \ Alive : next' = [next EXCEPT ![x] = NULL]
      BY <2>1 DEF PushCall
    <3> QED BY <3>1, NoCircleMade DEF TypeOK
  <2>2. CASE PushLink(t)
    <3>1. /\ next[new_node[t]] = NULL /\ new_node[t] # tail_node[t]
      BY <2>2 DEF PushLink, Goto, Inv, Unseen, At
    <3>2. new_node[t] \in Items /\ tail_node[t] \in Nodes
      BY <2>2 DEF PushLink, Goto, TypeOK
    <3> QED BY <2>2, <3>1, <3>2, NoCircleMade DEF PushLink
  <2>3. CASE PopSwap(t)
    <3>1. head_next_next[t] \in Items \cup {NULL}
      BY DEF TypeOK
    <3> QED BY <2>3, <3>1, NoCircleMade DEF PopSwap
  <2>4. CASE PopUnlink(t)
    <3>1. head_next[t] \in Nodes
      BY <2>4 DEF PopUnlink, TypeOK
    <3> QED BY <2>4, <3>1, NoCircleMade DEF PopUnlink
  <2>5. CASE ~(PushCall(t) \/ PushLink(t) \/ PopSwap(t) \/ PopUnlink(t))
    <3>1. next' = next
      BY <1>1, <2>5 DEF Call, Step, PushLoadTail, PushWalk, PushStoreTail, PushCount, PopCall,
         ClearCall, PopStart, PopLoadHead, PopLoadNext, PopRetry, TakeHead, PopCount, PopResetTail
    <3> QED BY <3>1 DEF NoCycle
  <2> QED BY <2>1, <2>2, <2>3, <2>4, <2>5
<1>2. CASE UNCHANGED vars
  BY <1>2 DEF vars, NoCycle
<1> QED BY <1>1, <1>2 DEF Next

\* In any interleaving of any number of pushes, pops and clears, also those that
\* link behind nodes that have been popped, the nodes never form a circle that
\* would keep itself alive.
THEOREM NoCycleCorrect == Spec => []NoCycle
<1>1. Init => NoCycle
  BY NodeAssumption DEF Init, NoCycle, Nodes
<1> QED BY <1>1, TypeInit, InvInit, TypeStep, InvStep, NoCycleStep, PTL DEF Spec

-----------------------------------------------------------------------------
(* __size                                                                  *)

\* The threads that own an item which is neither in the count nor outside.
Uncounted == At({"load_tail", "link", "store_tail", "count_push", "unlink"})

Counted == IsFiniteSet(Uncounted) /\ SizeAccounts

LEMMA ModShift ==
  ASSUME NEW a \in Nat, NEW m \in Nat, m > 0
  PROVE  (a + m) % m = a % m
<1> DEFINE d == ((a + m) \div m) - (a \div m) - 1
<1>1. /\ a = m * (a \div m) + (a % m) /\ a % m \in 0 .. m - 1 /\ a \div m \in Int
      /\ a + m = m * ((a + m) \div m) + ((a + m) % m) /\ (a + m) % m \in 0 .. m - 1
      /\ (a + m) \div m \in Int
  OBVIOUS
<1>2. m * d = (a % m) - ((a + m) % m) /\ d \in Int
  BY <1>1
<1>3. ~ (d >= 1)
  BY <1>1, <1>2
<1>4. ~ (d <= -1)
  BY <1>1, <1>2
<1>5. d = 0
  BY <1>2, <1>3, <1>4
<1> QED BY <1>1, <1>2, <1>5

\* fetch_add and fetch_sub of __size, modulo its width.
LEMMA SizeUp ==
  ASSUME NEW n \in 0 .. SizeMod - 1, NEW k \in Nat, k > 0
  PROVE  (((n + 1) % SizeMod) + k - 1) % SizeMod = (n + k) % SizeMod
<1>1. CASE n + 1 < SizeMod
  <2>1. (n + 1) % SizeMod = n + 1
    BY <1>1, SizeFacts
  <2> QED BY <2>1, SizeFacts
<1>2. CASE n + 1 = SizeMod
  <2>1. (n + 1) % SizeMod = 0
    BY <1>2, SizeFacts
  <2>2. ((k - 1) + SizeMod) % SizeMod = (k - 1) % SizeMod
    <3>1. k - 1 \in Nat
      OBVIOUS
    <3> QED BY <3>1, SizeFacts, ModShift
  <2>3. (k - 1) + SizeMod = n + k /\ 0 + k - 1 = k - 1
    BY <1>2, SizeFacts
  <2> QED BY <2>1, <2>2, <2>3
<1> QED BY <1>1, <1>2, SizeFacts

LEMMA SizeDown ==
  ASSUME NEW n \in 0 .. SizeMod - 1, NEW k \in Nat
  PROVE  (((n - 1) % SizeMod) + k + 1) % SizeMod = (n + k) % SizeMod
<1>1. CASE n > 0
  <2>1. (n - 1) % SizeMod = n - 1
    BY <1>1, SizeFacts
  <2> QED BY <2>1, <1>1, SizeFacts
<1>2. CASE n = 0
  <2>1. (n - 1) % SizeMod = SizeMod - 1
    BY <1>2, SizeFacts
  <2>2. (k + SizeMod) % SizeMod = k % SizeMod
    BY SizeFacts, ModShift
  <2>3. SizeMod - 1 + k + 1 = k + SizeMod
    BY SizeFacts
  <2> QED BY <1>2, <2>1, <2>2, <2>3
<1> QED BY <1>1, <1>2, SizeFacts

LEMMA CountedInit == Init => Counted
<1> SUFFICES ASSUME Init PROVE Counted
  OBVIOUS
<1>1. Uncounted = {} /\ outside = Items /\ destroyed = {} /\ size = 0
  BY DEF Init, Uncounted, At
<1>2. Cardinality(Items) \in Nat
  BY SizeAssumption, FS_CardinalityType
<1>3. Cardinality(Items) % SizeMod = Cardinality(Items)
  BY <1>2, SizeAssumption
<1>4. IsFiniteSet(Uncounted) /\ Cardinality(Uncounted) = 0 /\ Cardinality(destroyed) = 0
  BY <1>1, FS_EmptySet
<1>5. size + Cardinality(outside) + Cardinality(destroyed) + Cardinality(Uncounted)
        = Cardinality(Items)
  BY <1>1, <1>2, <1>4
<1> QED BY <1>3, <1>4, <1>5 DEF Counted, SizeAccounts, Uncounted

\* The numbers that SizeAccounts adds up, and how a step may change them.
LEMMA CountedStep ==
  ASSUME TypeOK, Inv, Counted, [Next]_vars
  PROVE  Counted'
<1> DEFINE o == Cardinality(outside)  d == Cardinality(destroyed)  c == Cardinality(Uncounted)
<1>1. IsFiniteSet(outside) /\ IsFiniteSet(destroyed) /\ IsFiniteSet(Uncounted)
  BY SizeAssumption, FS_Subset DEF TypeOK, Counted
<1>2. o \in Nat /\ d \in Nat /\ c \in Nat
  BY <1>1, FS_CardinalityType
<1>3. size \in 0 .. SizeMod - 1 /\ (size + o + d + c) % SizeMod = Cardinality(Items)
  BY DEF TypeOK, Counted, SizeAccounts, Uncounted
<1>4. SUFFICES /\ IsFiniteSet(Uncounted')
               /\ (size' + Cardinality(outside') + Cardinality(destroyed')
                     + Cardinality(Uncounted')) % SizeMod = (size + o + d + c) % SizeMod
  BY <1>3 DEF Counted, SizeAccounts, Uncounted
<1>5. CASE UNCHANGED <<size, outside, destroyed, Uncounted>>
  BY <1>1, <1>5
<1>6. ASSUME NEW t \in Threads, PushCall(t) PROVE <1>4!1
  <2>1. PICK x \in outside : outside' = outside \ {x}
    BY <1>6 DEF PushCall
  <2>2. Uncounted' = Uncounted \cup {t} /\ t \notin Uncounted
    BY <1>6 DEF PushCall, Goto, Uncounted, At, TypeOK
  <2>3. Cardinality(outside') = o - 1 /\ size' = size /\ destroyed' = destroyed
    BY <1>1, <1>6, <2>1, FS_RemoveElement DEF PushCall
  <2>4. IsFiniteSet(Uncounted') /\ Cardinality(Uncounted') = c + 1
    BY <1>1, <2>2, FS_AddElement
  <2> QED BY <1>2, <1>3, <2>3, <2>4
<1>7. ASSUME NEW t \in Threads, PushCount(t) PROVE <1>4!1
  <2>1. Uncounted' = Uncounted \ {t} /\ t \in Uncounted
    BY <1>7 DEF PushCount, Goto, Uncounted, At, TypeOK
  <2>2. IsFiniteSet(Uncounted') /\ Cardinality(Uncounted') = c - 1
    BY <1>1, <2>1, FS_RemoveElement
  <2>3. size' = (size + 1) % SizeMod /\ UNCHANGED <<outside, destroyed>>
    BY <1>7 DEF PushCount
  <2>4. c - 1 \in Nat
    BY <2>2, FS_CardinalityType
  <2>5. (size' + (o + d + c) - 1) % SizeMod = (size + (o + d + c)) % SizeMod
    BY <1>2, <1>3, <2>3, <2>4, SizeUp
  <2>6. size' \in Int
    BY <1>3, <2>3, SizeFacts
  <2> QED BY <1>2, <1>3, <2>2, <2>3, <2>5, <2>6
<1>8. ASSUME NEW t \in Threads, PopCount(t) PROVE <1>4!1
  <2>1. Uncounted' = Uncounted \cup {t} /\ t \notin Uncounted
    BY <1>8 DEF PopCount, Goto, Uncounted, At, TypeOK
  <2>2. IsFiniteSet(Uncounted') /\ Cardinality(Uncounted') = c + 1
    BY <1>1, <2>1, FS_AddElement
  <2>3. size' = (size - 1) % SizeMod /\ UNCHANGED <<outside, destroyed>>
    BY <1>8 DEF PopCount
  <2>4. (size' + (o + d + c) + 1) % SizeMod = (size + (o + d + c)) % SizeMod
    BY <1>2, <1>3, <2>3, SizeDown
  <2>5. size' \in Int
    BY <1>3, <2>3, SizeFacts
  <2> QED BY <1>2, <1>3, <2>2, <2>3, <2>4, <2>5
<1>9. ASSUME NEW t \in Threads, PopUnlink(t) PROVE <1>4!1
  <2> DEFINE a == head_next[t]
  <2>1. Uncounted' = Uncounted \ {t} /\ t \in Uncounted
    BY <1>9 DEF PopUnlink, Uncounted, At, TypeOK
  <2>2. IsFiniteSet(Uncounted') /\ Cardinality(Uncounted') = c - 1
    BY <1>1, <2>1, FS_RemoveElement
  <2>3. a \notin outside /\ a \notin destroyed
    BY <1>9 DEF PopUnlink, Inv, Apart, TakenNodes, At
  <2>4. \/ outside' = outside \cup {a} /\ destroyed' = destroyed
        \/ destroyed' = destroyed \cup {a} /\ outside' = outside
    BY <1>9 DEF PopUnlink
  <2>5. Cardinality(outside \cup {a}) = o + 1 /\ Cardinality(destroyed \cup {a}) = d + 1
    BY <1>1, <2>3, FS_AddElement
  <2>6. size' = size
    BY <1>9 DEF PopUnlink
  <2>7. size + Cardinality(outside') + Cardinality(destroyed') + (c - 1) = size + o + d + c
    <3>1. \/ Cardinality(outside') = o + 1 /\ Cardinality(destroyed') = d
          \/ Cardinality(outside') = o /\ Cardinality(destroyed') = d + 1
      BY <2>4, <2>5
    <3> HIDE DEF o, d, c
    <3> QED BY <1>2, <1>3, <3>1
  <2> QED BY <2>2, <2>6, <2>7
<1>10. ASSUME NEW t \in Threads,
              \/ PushLoadTail(t) \/ PushLink(t) \/ PushWalk(t) \/ PushStoreTail(t)
              \/ PopCall(t) \/ ClearCall(t) \/ PopLoadHead(t) \/ PopLoadNext(t) \/ PopSwap(t)
              \/ PopRetry(t) \/ PopResetTail(t)
       PROVE <1>4!1
  BY <1>5, <1>10 DEF TypeOK, PushLoadTail, PushLink, PushWalk, PushStoreTail, PopCall, ClearCall,
     PopStart, PopLoadHead, PopLoadNext, PopSwap, PopRetry, TakeHead, PopResetTail, Goto,
     Uncounted, At
<1>11. CASE UNCHANGED vars
  BY <1>5, <1>11 DEF vars, Uncounted, At
<1> QED BY <1>6, <1>7, <1>8, <1>9, <1>10, <1>11 DEF Next, Call, Step

\* size() always accounts for every item, for any number of threads: nothing
\* is counted twice or handed out twice, and a count that has wrapped comes back.
THEOREM SizeAccountsCorrect == Spec => []SizeAccounts
<1>1. Counted => SizeAccounts
  BY DEF Counted
<1> QED BY TypeInit, TypeStep, InvInit, InvStep, CountedInit, CountedStep, <1>1, PTL DEF Spec

-----------------------------------------------------------------------------
(* The list                                                                *)

\* A non-empty set of natural numbers has a least element.
LEMMA LeastNumber ==
  ASSUME NEW T \in SUBSET Nat, T # {}
  PROVE  \E i \in T : \A j \in T : i <= j
<1>1. PICK i \in T : \A j \in T : <<j, i>> \notin OpToRel(<, Nat)
  BY NatLessThanWellFounded, WFMin
<1>2. \A j \in T : ~ (j < i)
  BY <1>1 DEF OpToRel
<1> QED BY <1>2

LEMMA AppendFacts ==
  ASSUME NEW S, NEW s \in Seq(S), NEW x \in S
  PROVE  /\ Append(s, x) \in Seq(S) /\ Append(s, x) # <<>>
         /\ Len(Append(s, x)) = Len(s) + 1 /\ DOMAIN Append(s, x) = 1 .. Len(s) + 1
         /\ \A i \in 1 .. Len(s) : Append(s, x)[i] = s[i]
         /\ Append(s, x)[Len(s) + 1] = x
OBVIOUS

LEMMA TailFacts ==
  ASSUME NEW S, NEW s \in Seq(S), s # <<>>, Len(s) # 1
  PROVE  /\ Tail(s) \in Seq(S) /\ Tail(s) # <<>>
         /\ Len(Tail(s)) = Len(s) - 1 /\ DOMAIN Tail(s) = 1 .. Len(s) - 1
         /\ \A i \in DOMAIN Tail(s) : Tail(s)[i] = s[i + 1] /\ i + 1 \in DOMAIN s
<1>1. Len(s) \in Nat /\ Len(s) > 1
  <2> DEFINE n == Len(s)
  <2>1. n \in Nat \ {0} /\ n # 1
    BY EmptySeq
  <2> HIDE DEF n
  <2>2. n \in Nat /\ n > 1
    BY <2>1
  <2> QED BY <2>2 DEF n
<1>2. Tail(s) \in Seq(S) /\ Len(Tail(s)) = Len(s) - 1
  OBVIOUS
<1>3. DOMAIN Tail(s) = 1 .. Len(s) - 1 /\ DOMAIN s = 1 .. Len(s)
  BY <1>2
<1>4. \A i \in DOMAIN Tail(s) : Tail(s)[i] = s[i + 1] /\ i + 1 \in DOMAIN s
  BY <1>1, <1>3
<1>5. Tail(s) # <<>>
  <2>1. Len(Tail(s)) # 0
    BY <1>1, <1>2
  <2>2. Len(<<>>) = 0
    BY EmptySeq
  <2> QED BY <2>1, <2>2, Zenon
<1> QED BY <1>2, <1>3, <1>4, <1>5

LEMMA ShortTail ==
  ASSUME NEW S, NEW s \in Seq(S), s # <<>>
  PROVE  /\ 1 \in DOMAIN s
         /\ Len(s) # 1 => s[1 + 1] \in S
         /\ Len(s) = 1 => Tail(s) = <<>>
<1>1. Len(s) \in Nat /\ Len(s) # 0 /\ DOMAIN s = 1 .. Len(s) /\ \A i \in DOMAIN s : s[i] \in S
  BY EmptySeq
<1>2. Tail(s) \in Seq(S) /\ Len(Tail(s)) = Len(s) - 1
  OBVIOUS
<1>3. ASSUME Len(s) = 1 PROVE Tail(s) = <<>>
  <2>1. Len(Tail(s)) = 0
    BY <1>2, <1>3
  <2> QED BY <1>2, <2>1, EmptySeq, Zenon
<1>4. 1 \in DOMAIN s /\ (Len(s) # 1 => 1 + 1 \in DOMAIN s)
  BY <1>1
<1> QED BY <1>1, <1>3, <1>4

\* IsList for any next pointers.
IsListOf(nx, s) ==
  /\ nx[head] = IF s = <<>> THEN NULL ELSE s[1]
  /\ \A i \in DOMAIN s : nx[s[i]] = IF i = Len(s) THEN NULL ELSE s[i + 1]

LEMMA ListPrefix ==
  ASSUME NEW nx \in [Nodes -> Items \cup {NULL}], NEW s \in Seq(Items), NEW u \in Seq(Items),
         IsListOf(nx, s), IsListOf(nx, u), Len(s) <= Len(u)
  PROVE  s = u
<1>1. \A i \in 1 .. Len(s) : s[i] = u[i]
  <2> DEFINE T == {i \in 1 .. Len(s) : s[i] # u[i]}
  <2>1. SUFFICES ASSUME T # {} PROVE FALSE
    OBVIOUS
  <2>2. PICK i \in T : \A j \in T : i <= j
    <3>1. T \in SUBSET Nat
      OBVIOUS
    <3> HIDE DEF T
    <3> QED BY <2>1, <3>1, LeastNumber
  <2>3. CASE i = 1
    BY <2>2, <2>3 DEF IsListOf
  <2>4. CASE i # 1
    <3>1. i - 1 \in 1 .. Len(s) /\ i - 1 \notin T /\ i - 1 # Len(s) /\ i - 1 # Len(u)
      BY <2>2, <2>4
    <3>2. s[i - 1] = u[i - 1]
      BY <3>1
    <3>3. nx[s[i - 1]] = s[(i - 1) + 1] /\ nx[u[i - 1]] = u[(i - 1) + 1]
      BY <3>1 DEF IsListOf
    <3> QED BY <2>2, <3>2, <3>3
  <2> QED BY <2>3, <2>4
<1>2. CASE Len(s) < Len(u)
  <2>1. u[Len(s) + 1] \in Items
    BY <1>2
  <2>2. CASE Len(s) = 0
    BY <1>2, <2>1, <2>2, NodeAssumption DEF IsListOf
  <2>3. CASE Len(s) # 0
    <3>1. nx[s[Len(s)]] = NULL /\ nx[u[Len(s)]] = u[Len(s) + 1]
      BY <1>2, <2>3 DEF IsListOf
    <3>2. s[Len(s)] = u[Len(s)]
      BY <1>1, <2>3
    <3> QED BY <2>1, <3>1, <3>2, NodeAssumption
  <2> QED BY <2>2, <2>3
<1>3. CASE Len(s) = Len(u)
  BY <1>1, <1>3
<1> QED BY <1>2, <1>3

LEMMA IntervalSize == \A n \in Nat : Cardinality(1 .. n) = n
<1> SUFFICES ASSUME NEW n \in Nat PROVE Cardinality(1 .. n) = n
  OBVIOUS
<1>1. Cardinality(1 .. n) = IF 1 > n THEN 0 ELSE n - 1 + 1
  BY FS_Interval
<1> QED BY <1>1

LEMMA ListLength ==
  ASSUME NEW s \in Seq(Items), \A i, j \in DOMAIN s : s[i] = s[j] => i = j
  PROVE  Len(s) <= Cardinality(Items)
<1>1. s \in Injection(1 .. Len(s), Items)
  BY DEF Injection, IsInjective
<1>2. Cardinality(1 .. Len(s)) = Len(s)
  <2>1. Len(s) \in Nat
    OBVIOUS
  <2> QED BY <2>1, IntervalSize
<1> QED BY <1>1, <1>2, FS_Injection, SizeAssumption

\* There is one list, so that Queue is it.
LEMMA ListIsChosen ==
  ASSUME NEW nx \in [Nodes -> Items \cup {NULL}], NEW s \in Seq(Items), IsListOf(nx, s),
         \A i, j \in DOMAIN s : s[i] = s[j] => i = j
  PROVE  (CHOOSE u \in SeqOf(Items, Cardinality(Items)) : IsListOf(nx, u)) = s
<1>1. s \in SeqOf(Items, Cardinality(Items))
  <2>1. Len(s) <= Cardinality(Items)
    BY ListLength
  <2>2. Cardinality(Items) \in Nat
    BY SizeAssumption, FS_CardinalityType
  <2>3. Len(s) \in 0 .. Cardinality(Items) /\ s \in [1 .. Len(s) -> Items]
    BY <2>1, <2>2
  <2> QED BY <2>3 DEF SeqOf
<1>2. PICK u \in SeqOf(Items, Cardinality(Items)) :
        /\ IsListOf(nx, u)
        /\ u = CHOOSE v \in SeqOf(Items, Cardinality(Items)) : IsListOf(nx, v)
  BY <1>1
<1>3. u \in Seq(Items)
  BY <1>2 DEF SeqOf
<1>4. Len(s) <= Len(u) \/ Len(u) <= Len(s)
  BY <1>3
<1> QED BY <1>2, <1>3, <1>4, ListPrefix

LEMMA QueueIs ==
  ASSUME TypeOK, NEW s, IsQueue(s)
  PROVE  Queue = s
BY ListIsChosen DEF TypeOK, Queue, IsQueue, IsList, IsListOf

\* The same of the state after a step.
LEMMA QueueIsNext ==
  ASSUME TypeOK', NEW s, IsQueue(s)'
  PROVE  Queue' = s
BY ListIsChosen DEF TypeOK, Queue, IsQueue, IsList, IsListOf

\* What a step leaves of the list when it changes neither.
LEMMA QueueSame ==
  ASSUME NEW s, IsQueue(s), UNCHANGED next, Popped' \cup FreshNodes' = Popped \cup FreshNodes
  PROVE  IsQueue(s)'
BY DEF IsQueue, IsList

LEMMA QueueInit == Init => IsQueue(<<>>)
BY NodeAssumption DEF Init, IsQueue, IsList, Nodes

LEMMA PushCallQueue ==
  ASSUME TypeOK, Inv, NEW s, IsQueue(s), NEW t \in Threads, PushCall(t)
  PROVE  IsQueue(s)' /\ Taken' = Taken
<1> USE NodeAssumption DEF TypeOK, Nodes, Labels, PushCall, Goto, At
<1>1. PICK x \in outside \ Alive :
        /\ outside' = outside \ {x}
        /\ new_node' = [new_node EXCEPT ![t] = x]
        /\ next' = [next EXCEPT ![x] = NULL]
  OBVIOUS
<1>2. \A i \in DOMAIN s : s[i] # x
  BY DEF IsQueue, Popped
<1>3. IsList(s)'
  BY <1>1, <1>2 DEF IsQueue, IsList
<1>4. Popped' \cup FreshNodes' \subseteq Popped \cup FreshNodes
  <2>1. TakenNodes' = TakenNodes
    BY DEF TakenNodes
  <2>2. FreshNodes' \subseteq FreshNodes \cup {x}
    BY <1>1 DEF FreshNodes
  <2> QED BY <1>1, <2>1, <2>2 DEF Popped
<1>5. Taken' = Taken
  BY DEF Taken
<1> QED BY <1>3, <1>4, <1>5 DEF IsQueue

LEMMA PushLinkQueue ==
  ASSUME TypeOK, Inv, NEW s, IsQueue(s), NEW t \in Threads, PushLink(t),
         NEW x, x = new_node[t]
  PROVE  /\ IsQueue(s)' \/ IsQueue(Append(s, x))'
         /\ tail_node[t] = head \/ (\E i \in DOMAIN s : s[i] = tail_node[t])
              => IsQueue(Append(s, x))'
         /\ \A i \in DOMAIN s : s[i] # x
         /\ \A u \in Threads : Taken[u] # x
         /\ Taken' = Taken
<1> USE NodeAssumption DEF TypeOK, Nodes, Labels, PushLink, Goto, At, locals
<1> DEFINE n == tail_node[t]  u == Append(s, x)
<1>1. x \in Items /\ n \in Nodes /\ next' = [next EXCEPT ![n] = x] /\ next[n] = NULL
  OBVIOUS
<1>2. /\ s \in Seq(Items) /\ u \in Seq(Items) /\ u # <<>>
      /\ Len(u) = Len(s) + 1 /\ DOMAIN u = 1 .. Len(s) + 1
      /\ \A i \in 1 .. Len(s) : u[i] = s[i]
      /\ u[Len(s) + 1] = x
  <2>1. s \in Seq(Items)
    BY DEF IsQueue
  <2> QED BY <1>1, <2>1, AppendFacts
<1>3. x \in FreshNodes /\ x \notin Popped
  BY DEF FreshNodes, Inv, Apart
<1>4. \A i \in DOMAIN s : s[i] # x
  BY <1>3 DEF IsQueue
<1>5. Taken' = Taken /\ \A v \in Threads : Taken[v] # x
  BY DEF Taken, Inv, Unseen
<1>6. next[x] = NULL
  BY DEF Inv, Unseen
<1>7. Popped' = Popped /\ FreshNodes' = FreshNodes \ {x}
  <2>1. TakenNodes' = TakenNodes
    BY DEF TakenNodes
  <2>2. FreshNodes' = FreshNodes \ {x}
    BY DEF FreshNodes, Inv, Unseen
  <2> QED BY <2>1, <2>2 DEF Popped
<1>8. CASE n # head /\ \A i \in DOMAIN s : s[i] # n
  BY <1>1, <1>4, <1>5, <1>7, <1>8 DEF IsQueue, IsList
<1>9. ASSUME n = IF s = <<>> THEN head ELSE s[Len(s)]
      PROVE  IsQueue(u)'
  <2>1. \A i \in 1 .. Len(s) : u[i] = s[i] /\ u[i] # x
    BY <1>2, <1>4
  <2>2. u[Len(s) + 1] = x /\ DOMAIN u = 1 .. Len(s) + 1
    BY <1>2
  <2>3. next'[x] = NULL
    BY <1>1, <1>6, <1>9, <1>4, <1>2
  <2>4. next'[head] = u[1]
    BY <1>1, <1>2, <1>9, <2>1, <2>2 DEF IsQueue, IsList
  <2>5. \A i \in 1 .. Len(s) : next'[u[i]] = u[i + 1]
    BY <1>1, <1>2, <1>9, <2>1, <2>2 DEF IsQueue, IsList
  <2>6. IsList(u)'
    BY <1>2, <2>1, <2>2, <2>3, <2>4, <2>5 DEF IsList
  <2>7. \A i, j \in DOMAIN u : u[i] = u[j] => i = j
    BY <1>2, <2>1, <2>2 DEF IsQueue
  <2>8. \A i \in DOMAIN u : u[i] \notin Popped' \cup FreshNodes'
    BY <1>2, <1>3, <1>7, <2>1, <2>2 DEF IsQueue
  <2> QED BY <1>2, <2>6, <2>7, <2>8 DEF IsQueue
<1>10. CASE n = head
  BY <1>1, <1>2, <1>4, <1>5, <1>9, <1>10 DEF IsQueue, IsList
<1>11. CASE \E i \in DOMAIN s : s[i] = n
  <2>1. PICK i \in DOMAIN s : s[i] = n
    BY <1>11
  <2>2. i = Len(s)
    BY <1>1, <1>2, <2>1 DEF IsQueue, IsList
  <2>3. s # <<>>
    BY <2>1
  <2> QED BY <1>4, <1>5, <1>9, <2>1, <2>2, <2>3
<1> QED BY <1>8, <1>10, <1>11

LEMMA PopSwapQueue ==
  ASSUME TypeOK, Inv, NEW s, IsQueue(s), NEW t \in Threads, PopSwap(t)
  PROVE  /\ s # <<>> /\ (IsQueue(<<>>)' \/ IsQueue(Tail(s))')
         /\ head_next_next[t] = next[head_next[t]] => IsQueue(Tail(s))'
         /\ Taken[t] = NULL /\ Taken' = [Taken EXCEPT ![t] = Head(s)]
<1> USE NodeAssumption DEF TypeOK, Nodes, Labels, PopSwap, Goto, At, locals
<1> DEFINE a == head_next[t]  b == head_next_next[t]
<1>1. a \in Items /\ next[head] = a /\ next' = [next EXCEPT ![head] = b]
  OBVIOUS
<1>2. s \in Seq(Items) /\ s # <<>> /\ a = s[1] /\ a = Head(s)
  BY <1>1 DEF IsQueue, IsList
<1>3. b \in {NULL, next[a]}
  BY <1>1 DEF Inv, Snapshot
<1>4. Taken[t] = NULL /\ Taken' = [Taken EXCEPT ![t] = a]
  BY DEF Taken
<1>5. Popped' = Popped \cup {a} /\ FreshNodes' = FreshNodes
  BY DEF TakenNodes, Popped, FreshNodes
<1>6. CASE b = NULL
  <2>1. IsQueue(<<>>)'
    BY <1>1, <1>6 DEF IsQueue, IsList
  <2>2. next[a] = NULL => Tail(s) = <<>>
    BY <1>2, ShortTail DEF IsQueue, IsList
  <2> QED BY <1>2, <1>4, <1>6, <2>1, <2>2
<1>7. CASE b = next[a] /\ b # NULL
  <2> DEFINE u == Tail(s)
  <2>1. Len(s) # 1 /\ b = s[2]
    BY <1>2, <1>7 DEF IsQueue, IsList
  <2>2. u \in Seq(Items) /\ u # <<>> /\ Len(u) = Len(s) - 1 /\ DOMAIN u = 1 .. Len(s) - 1
    BY <1>2, <2>1, TailFacts
  <2>3. \A i \in DOMAIN u : u[i] = s[i + 1] /\ i + 1 \in DOMAIN s
    BY <1>2, <2>1, TailFacts
  <2> HIDE DEF u
  <2>4. IsList(u)'
    <3>1. next'[head] = u[1]
      BY <1>1, <2>1, <2>2, <2>3
    <3>2. \A i \in DOMAIN u : next'[u[i]] = next[s[i + 1]]
      BY <1>1, <1>2, <2>3
    <3>3. \A i \in DOMAIN u : next'[u[i]] = IF i = Len(u) THEN NULL ELSE u[i + 1]
      <4>1. SUFFICES ASSUME NEW i \in DOMAIN u
                     PROVE  next'[u[i]] = IF i = Len(u) THEN NULL ELSE u[i + 1]
        OBVIOUS
      <4>2. next'[u[i]] = IF i + 1 = Len(s) THEN NULL ELSE s[(i + 1) + 1]
        BY <2>3, <3>2 DEF IsQueue, IsList
      <4>3. CASE i = Len(u)
        BY <2>2, <4>2, <4>3
      <4>4. CASE i # Len(u)
        <5>1. i + 1 \in DOMAIN u /\ Len(s) \in Nat /\ i \in Nat
          BY <1>2, <2>2, <4>4
        <5>2. u[i + 1] = s[(i + 1) + 1]
          BY <2>3, <5>1
        <5> QED BY <2>2, <4>2, <4>4, <5>1, <5>2
      <4> QED BY <4>3, <4>4
    <3> QED BY <2>2, <3>1, <3>3 DEF IsList
  <2>5. \A i, j \in DOMAIN u : u[i] = u[j] => i = j
    BY <2>2, <2>3 DEF IsQueue
  <2>6. \A i \in DOMAIN u : u[i] # a
    BY <1>2, <2>2, <2>3 DEF IsQueue
  <2>7. \A i \in DOMAIN u : u[i] \notin Popped' \cup FreshNodes'
    BY <1>5, <2>3, <2>6 DEF IsQueue
  <2>8. IsQueue(u)'
    BY <2>2, <2>4, <2>5, <2>7 DEF IsQueue
  <2> QED BY <1>2, <1>4, <2>8 DEF u
<1> QED BY <1>3, <1>6, <1>7

LEMMA PopUnlinkQueue ==
  ASSUME TypeOK, Inv, NEW s, IsQueue(s), NEW t \in Threads, PopUnlink(t)
  PROVE  IsQueue(s)' /\ Taken[t] # NULL /\ Taken' = [Taken EXCEPT ![t] = NULL]
<1> USE NodeAssumption DEF TypeOK, Nodes, Labels, PopUnlink, At, EndPop
<1> DEFINE a == head_next[t]
<1>1. a \in Items /\ next' = [next EXCEPT ![a] = NULL] /\ a \in Popped
  BY DEF Popped, TakenNodes
<1>2. \A i \in DOMAIN s : s[i] # a
  BY <1>1 DEF IsQueue
<1>3. IsList(s)'
  BY <1>1, <1>2 DEF IsQueue, IsList
<1>4. Popped' \cup FreshNodes' \subseteq Popped \cup FreshNodes
  BY <1>1 DEF Popped, TakenNodes, FreshNodes
<1>5. Taken[t] # NULL /\ Taken' = [Taken EXCEPT ![t] = NULL]
  BY <1>1 DEF Taken
<1> QED BY <1>3, <1>4, <1>5 DEF IsQueue

LEMMA OtherQueue ==
  ASSUME TypeOK, NEW s, IsQueue(s), NEW t \in Threads,
         \/ PushLoadTail(t) \/ PushWalk(t) \/ PushStoreTail(t) \/ PushCount(t)
         \/ PopCall(t) \/ ClearCall(t) \/ PopLoadHead(t) \/ PopLoadNext(t) \/ PopRetry(t)
         \/ PopCount(t) \/ PopResetTail(t)
  PROVE  IsQueue(s)' /\ Taken' = Taken
<1> USE NodeAssumption DEF TypeOK, Labels, Goto, At, locals, PushLoadTail, PushWalk,
        PushStoreTail, PushCount, EndPush, PopCall, ClearCall, PopStart, PopLoadHead, PopLoadNext,
        PopRetry, TakeHead, PopCount, PopResetTail, EndPop
<1>1. next' = next /\ Popped' = Popped /\ FreshNodes' = FreshNodes
  BY DEF TakenNodes, Popped, FreshNodes
<1>2. Taken' = Taken
  BY DEF Taken
<1> QED BY <1>1, <1>2, QueueSame

-----------------------------------------------------------------------------
(* LockFreeQueue implements LossyFifo.                                     *)

LEMMA LossyInit == Init => Lossy!Init
<1> SUFFICES ASSUME Init PROVE Lossy!Init
  OBVIOUS
<1>1. TypeOK /\ IsQueue(<<>>)
  BY TypeInit, QueueInit
<1>2. Queue = <<>>
  BY <1>1, QueueIs
<1>3. Taken = [t \in Threads |-> NULL]
  BY DEF Init, Taken
<1> QED BY <1>2, <1>3 DEF Lossy!Init

LEMMA LossyStep ==
  ASSUME TypeOK, Inv, HasQueue, [Next]_vars
  PROVE  HasQueue' /\ [Lossy!Next]_Lossy!vars
<1>1. PICK s \in Seq(Items) : IsQueue(s)
  BY DEF HasQueue
<1>2. Queue = s /\ TypeOK'
  BY <1>1, QueueIs, TypeStep
<1>3. ASSUME NEW u, IsQueue(u)' PROVE HasQueue' /\ Queue' = u
  BY <1>2, <1>3, QueueIsNext DEF HasQueue, IsQueue
<1>4. CASE IsQueue(s)' /\ Taken' = Taken
  BY <1>2, <1>3, <1>4 DEF Lossy!vars
<1>5. ASSUME NEW t \in Threads, PushLink(t) PROVE HasQueue' /\ [Lossy!Next]_Lossy!vars
  <2>1. PICK x \in Items : x = new_node[t]
    BY <1>5 DEF PushLink, Goto, TypeOK
  <2>2. /\ IsQueue(s)' \/ IsQueue(Append(s, x))'
        /\ \A i \in DOMAIN s : s[i] # x
        /\ \A u \in Threads : Taken[u] # x
        /\ Taken' = Taken
    BY <1>1, <1>5, <2>1, PushLinkQueue
  <2>3. CASE IsQueue(Append(s, x))'
    <3>1. HasQueue' /\ Queue' = Append(Queue, x)
      BY <1>2, <1>3, <2>3
    <3>2. ~ Lossy!Contains(Queue, x)
      BY <1>1, <1>2, <2>2 DEF Lossy!Contains
    <3>3. Lossy!Enqueue(x)
      BY <2>2, <3>1, <3>2 DEF Lossy!Enqueue
    <3> QED BY <3>1, <3>3 DEF Lossy!Next
  <2> QED BY <1>4, <2>2, <2>3
<1>6. ASSUME NEW t \in Threads, PopSwap(t) PROVE HasQueue' /\ [Lossy!Next]_Lossy!vars
  <2>1. /\ s # <<>> /\ (IsQueue(<<>>)' \/ IsQueue(Tail(s))')
        /\ Taken[t] = NULL /\ Taken' = [Taken EXCEPT ![t] = Head(s)]
    BY <1>1, <1>6, PopSwapQueue
  <2>2. HasQueue' /\ Queue' \in {Tail(Queue), <<>>}
    BY <1>2, <1>3, <2>1
  <2>3. Lossy!Dequeue(t)
    BY <1>2, <2>1, <2>2 DEF Lossy!Dequeue
  <2> QED BY <2>2, <2>3 DEF Lossy!Next
<1>7. ASSUME NEW t \in Threads, PopUnlink(t) PROVE HasQueue' /\ [Lossy!Next]_Lossy!vars
  <2>1. IsQueue(s)' /\ Taken[t] # NULL /\ Taken' = [Taken EXCEPT ![t] = NULL]
    BY <1>1, <1>7, PopUnlinkQueue
  <2>2. HasQueue' /\ Queue' = Queue
    BY <1>2, <1>3, <2>1
  <2>3. Lossy!Deliver(t)
    BY <2>1, <2>2 DEF Lossy!Deliver
  <2> QED BY <2>2, <2>3 DEF Lossy!Next
<1>8. ASSUME NEW t \in Threads, PushCall(t) PROVE HasQueue' /\ [Lossy!Next]_Lossy!vars
  BY <1>1, <1>4, <1>8, PushCallQueue
<1>9. ASSUME NEW t \in Threads,
             \/ PushLoadTail(t) \/ PushWalk(t) \/ PushStoreTail(t) \/ PushCount(t)
             \/ PopCall(t) \/ ClearCall(t) \/ PopLoadHead(t) \/ PopLoadNext(t) \/ PopRetry(t)
             \/ PopCount(t) \/ PopResetTail(t)
      PROVE  HasQueue' /\ [Lossy!Next]_Lossy!vars
  BY <1>1, <1>4, <1>9, OtherQueue
<1>10. CASE UNCHANGED vars
  <2>1. next' = next /\ Popped' = Popped /\ FreshNodes' = FreshNodes /\ Taken' = Taken
    BY <1>10 DEF vars, locals, Popped, TakenNodes, FreshNodes, At, Taken
  <2> QED BY <1>1, <1>4, <2>1, QueueSame
<1> QED BY <1>5, <1>6, <1>7, <1>8, <1>9, <1>10 DEF Next, Call, Step

\* Every execution is one of a queue that may lose items but hands each out at
\* most once and in the order in which the pushes linked them, for any number
\* of threads and of items.
THEOREM LossyFifoRefinement == Spec => LossyFifoSpec
<1>1. Init => HasQueue
  BY QueueInit DEF HasQueue, IsQueue
<1> QED BY TypeInit, TypeStep, InvInit, InvStep, LossyInit, LossyStep, <1>1, PTL
     DEF Spec, LossyFifoSpec, Lossy!Spec
-----------------------------------------------------------------------------
(* The two ways of losing an item.                                         *)

\* Where an item is that is not lost.
Kept == outside \cup destroyed \cup ToSet(Queue) \cup {Taken[t] : t \in Threads} \cup FreshNodes

LEMMA LossStep ==
  ASSUME TypeOK, Inv, HasQueue, [Next]_vars
  PROVE  Explained \/ UNCHANGED vars
<1>1. PICK s \in Seq(Items) : IsQueue(s)
  BY DEF HasQueue
<1>2. Queue = s /\ TypeOK'
  BY <1>1, QueueIs, TypeStep
<1>3. ASSUME NEW u, IsQueue(u)' PROVE Queue' = u
  BY <1>2, <1>3, QueueIsNext
<1>4. Lost = Items \ Kept /\ Lost' = Items \ Kept'
  BY DEF Lost, Kept, FreshNodes
<1>5. ASSUME Kept \cap Items \subseteq Kept' PROVE Explained
  BY <1>4, <1>5 DEF Explained
<1>6. ASSUME NEW t \in Threads, PushCall(t) PROVE Explained
  <2>1. Queue' = Queue /\ Taken' = Taken
    BY <1>1, <1>2, <1>3, <1>6, PushCallQueue
  <2>2. PICK x \in outside : outside' = outside \ {x} /\ new_node' = [new_node EXCEPT ![t] = x]
    BY <1>6 DEF PushCall
  <2>3. destroyed' = destroyed /\ x \in FreshNodes' /\ FreshNodes \subseteq FreshNodes'
    BY <1>6, <2>2 DEF PushCall, Goto, FreshNodes, At, TypeOK
  <2>4. Kept \subseteq Kept'
    BY <2>1, <2>2, <2>3 DEF Kept
  <2> QED BY <1>5, <2>4
<1>7. ASSUME NEW t \in Threads, PushLink(t) PROVE Explained
  <2>1. PICK x \in Items : x = new_node[t]
    BY <1>7 DEF PushLink, Goto, TypeOK
  <2>2. CASE tail_node[t] \notin ToSet(s) \cup {head}
    BY <1>2, <1>7, <2>2 DEF Explained, StaleLink
  <2>3. CASE tail_node[t] \in ToSet(s) \cup {head}
    <3>1. tail_node[t] = head \/ \E i \in DOMAIN s : s[i] = tail_node[t]
      BY <2>3 DEF ToSet
    <3>2. Queue' = Append(s, x) /\ Taken' = Taken
      <4>1. IsQueue(Append(s, x))' /\ Taken' = Taken
        BY <1>1, <1>7, <2>1, <3>1, PushLinkQueue, Zenon
      <4> QED BY <1>3, <4>1
    <3>3. ToSet(s) \cup {x} \subseteq ToSet(Queue')
      BY <2>1, <3>2, AppendFacts DEF ToSet
    <3>4. outside' = outside /\ destroyed' = destroyed /\ FreshNodes \subseteq FreshNodes' \cup {x}
      BY <1>7, <2>1 DEF PushLink, Goto, FreshNodes, At, TypeOK, locals
    <3>5. Kept \subseteq Kept'
      BY <1>2, <3>2, <3>3, <3>4 DEF Kept
    <3> QED BY <1>5, <3>5
  <2> QED BY <2>2, <2>3
<1>8. ASSUME NEW t \in Threads, PopSwap(t) PROVE Explained
  <2>1. CASE head_next_next[t] # next[head_next[t]]
    BY <1>8, <2>1 DEF Explained, StaleSwap
  <2>2. CASE head_next_next[t] = next[head_next[t]]
    <3>1. s # <<>> /\ Queue' = Tail(s)
          /\ Taken[t] = NULL /\ Taken' = [Taken EXCEPT ![t] = Head(s)]
      BY <1>1, <1>3, <1>8, <2>2, PopSwapQueue
    <3>2. ToSet(s) \subseteq ToSet(Queue') \cup {Head(s)}
      <4> SUFFICES ASSUME NEW i \in DOMAIN s, i # 1 PROVE s[i] \in ToSet(Tail(s))
        BY <3>1 DEF ToSet
      <4>1. i - 1 \in DOMAIN Tail(s) /\ Tail(s)[i - 1] = s[i]
        BY <3>1
      <4> QED BY <4>1 DEF ToSet
    <3>3. Taken'[t] = Head(s) /\ \A u \in Threads \ {t} : Taken'[u] = Taken[u]
      BY <3>1 DEF Taken
    <3>4. {Taken[u] : u \in Threads} \cap Items \subseteq {Taken'[u] : u \in Threads}
      BY <3>1, <3>3, NodeAssumption
    <3>5. outside' = outside /\ destroyed' = destroyed /\ FreshNodes' = FreshNodes
      BY <1>8 DEF PopSwap, Goto, FreshNodes, At, TypeOK, locals
    <3>6. Kept \cap Items \subseteq Kept'
      BY <1>2, <3>2, <3>3, <3>4, <3>5 DEF Kept
    <3> QED BY <1>5, <3>6
  <2> QED BY <2>1, <2>2
<1>9. ASSUME NEW t \in Threads, PopUnlink(t) PROVE Explained
  <2>1. Queue' = Queue /\ Taken' = [Taken EXCEPT ![t] = NULL]
    BY <1>1, <1>2, <1>3, <1>9, PopUnlinkQueue
  <2>2. Taken[t] = head_next[t] /\ \A u \in Threads \ {t} : Taken'[u] = Taken[u]
    BY <1>9, <2>1 DEF Taken, PopUnlink
  <2>3. outside \cup destroyed \cup {head_next[t]} \subseteq outside' \cup destroyed'
    BY <1>9 DEF PopUnlink
  <2>4. FreshNodes' = FreshNodes
    BY <1>9 DEF PopUnlink, EndPop, FreshNodes, At, TypeOK
  <2>5. Kept \subseteq Kept'
    BY <2>1, <2>2, <2>3, <2>4 DEF Kept
  <2> QED BY <1>5, <2>5
<1>10. ASSUME NEW t \in Threads,
              \/ PushLoadTail(t) \/ PushWalk(t) \/ PushStoreTail(t) \/ PushCount(t)
              \/ PopCall(t) \/ ClearCall(t) \/ PopLoadHead(t) \/ PopLoadNext(t) \/ PopRetry(t)
              \/ PopCount(t) \/ PopResetTail(t)
       PROVE  Explained
  <2>1. Queue' = Queue /\ Taken' = Taken
    BY <1>1, <1>2, <1>3, <1>10, OtherQueue
  <2>2. outside' = outside /\ destroyed' = destroyed /\ FreshNodes' = FreshNodes
    BY <1>10
    DEF TypeOK, Goto, At, FreshNodes, locals, PushLoadTail, PushWalk, PushStoreTail, PushCount,
        EndPush, PopCall, ClearCall, PopStart, PopLoadHead, PopLoadNext, PopRetry, TakeHead,
        PopCount, PopResetTail, EndPop
  <2> QED BY <1>5, <2>1, <2>2 DEF Kept
<1> QED BY <1>6, <1>7, <1>8, <1>9, <1>10 DEF Next, Call, Step

\* In any interleaving of any number of threads an item is lost by a link behind
\* a node that has left the list, or by the exchange of a next pointer that was
\* read too early, and by nothing else.
THEOREM LossesExplainedCorrect == Spec => LossesExplained
<1>1. TypeOK /\ Inv /\ HasQueue /\ [Next]_vars => HasQueue' /\ [Explained]_vars
  BY LossyStep, LossStep
<1>2. Init => HasQueue
  BY QueueInit DEF HasQueue, IsQueue
<1> QED BY TypeInit, TypeStep, InvInit, InvStep, <1>1, <1>2, PTL DEF Spec, LossesExplained
=============================================================================
