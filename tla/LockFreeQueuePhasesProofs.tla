---------------------- MODULE LockFreeQueuePhasesProofs ----------------------
(***************************************************************************)
(* What is proved about LockFreeQueue when it is used in phases, for any   *)
(* number of threads and items: it loses nothing, it is a first-in         *)
(* first-out queue, and between the operations size() is its length.       *)
(***************************************************************************)
EXTENDS LockFreeQueuePhases, LockFreeQueueProofs

PushLabels == {"load_tail", "link", "store_tail", "count_push"}

\* The items that nobody holds.
Listed == Items \ (Popped \cup FreshNodes)

\* While pushes run, __tail and the nodes from which they walk are in the list.
Filling ==
  /\ \A t \in Threads : pc[t] \in {"idle"} \cup PushLabels
  /\ tail \in Listed \cup {head}
  /\ \A t \in At({"link"}) : tail_node[t] \in Listed \cup {head}
  /\ \A t \in At({"store_tail"}) : new_node[t] \in Listed

\* While pops run, nothing is linked behind the first node.
Draining ==
  /\ \A t \in Threads : pc[t] \in Labels \ PushLabels
  /\ \A t \in At({"swap_head"}) :
       head_next[t] = next[head] => head_next_next[t] = next[head_next[t]]
  /\ \A t \in At({"reset_tail"}) : next[head] = NULL

\* What a pop that returned nullopt leaves for the next phase.
Drained == next[head] = NULL /\ tail = head

\* All of them are in the list.
IsFull(s) == IsQueue(s) /\ \A x \in Listed : \E i \in DOMAIN s : s[i] = x

PhaseInv ==
  /\ phase \in {"fill", "drain", "drained"}
  /\ mixed \in BOOLEAN
  /\ ~ mixed =>
       /\ \E s \in Seq(Items) : IsFull(s)
       /\ phase = "fill" => Filling
       /\ phase # "fill" => Draining
       /\ phase = "drained" => Drained

LEMMA PhasedStep == [PhasedNext]_phaseVars => [Next]_vars
BY DEF PhasedNext, ObservePush, ObservePop, ObserveStep, Next, Call, phaseVars

LEMMA PhaseInit == PhasedInit => PhaseInv
<1> SUFFICES ASSUME PhasedInit PROVE PhaseInv
  OBVIOUS
<1>1. Init /\ phase = "fill" /\ mixed = FALSE
  BY DEF PhasedInit
<1>2. Listed = {}
  BY <1>1 DEF Init, Listed, Popped
<1>3. IsFull(<<>>) /\ <<>> \in Seq(Items)
  BY <1>1, <1>2, QueueInit DEF IsFull, IsQueue
<1>4. Filling
  BY <1>1 DEF Init, Filling, At
<1> QED BY <1>1, <1>3, <1>4 DEF PhaseInv

-----------------------------------------------------------------------------
(* What a step does to the list, the items in it and those in client hands *)

Received == outside \cup destroyed \cup FreshNodes

LEMMA PushCallFull ==
  ASSUME TypeOK, Inv, NEW s, IsFull(s), NEW t \in Threads, PushCall(t)
  PROVE  IsFull(s)' /\ Taken' = Taken /\ Received' = Received /\ Listed' = Listed
<1> USE NodeAssumption DEF TypeOK, Nodes, Labels, PushCall, Goto, At
<1>1. PICK x \in outside \ Alive :
        /\ outside' = outside \ {x}
        /\ new_node' = [new_node EXCEPT ![t] = x]
  OBVIOUS
<1>2. IsQueue(s)' /\ Taken' = Taken
  BY PushCallQueue DEF IsFull
<1>3. TakenNodes' = TakenNodes /\ FreshNodes' = FreshNodes \cup {x}
  BY <1>1 DEF TakenNodes, FreshNodes
<1>4. Received' = Received
  BY <1>1, <1>3 DEF Received
<1>5. Listed' = Listed
  <2>1. Popped \cup FreshNodes = TakenNodes \cup Received
    BY DEF Popped, Received
  <2>2. Popped' \cup FreshNodes' = TakenNodes' \cup Received'
    BY DEF Popped, Received
  <2> QED BY <1>3, <1>4, <2>1, <2>2 DEF Listed
<1> QED BY <1>2, <1>4, <1>5 DEF IsFull

LEMMA PushLinkFull ==
  ASSUME TypeOK, Inv, NEW s, IsFull(s), NEW t \in Threads, PushLink(t),
         tail_node[t] \in Listed \cup {head}, NEW x, x = new_node[t]
  PROVE  /\ IsFull(Append(s, x))' /\ Taken' = Taken /\ x \in Received
         /\ Received' = Received \ {x} /\ Listed' = Listed \cup {x}
<1>1. /\ IsQueue(s)' \/ IsQueue(Append(s, x))'
      /\ \A i \in DOMAIN s : s[i] # x
      /\ Taken' = Taken
  BY PushLinkQueue DEF IsFull
<1> USE NodeAssumption DEF TypeOK, Nodes, Labels, PushLink, Goto, At, locals
<1> DEFINE n == tail_node[t]
<1>2. x \in Items /\ next' = [next EXCEPT ![n] = x] /\ n \in Nodes /\ s \in Seq(Items)
  BY DEF IsFull, IsQueue
<1>3. n = head \/ \E i \in DOMAIN s : s[i] = n
  BY DEF IsFull
<1>4. ASSUME IsQueue(s)' PROVE FALSE
  <2>1. CASE n = head
    <3>1. next[head] = NULL /\ next'[head] = x
      BY <1>2, <2>1
    <3> QED BY <1>2, <1>4, <3>1 DEF IsFull, IsQueue, IsList
  <2>2. ASSUME NEW i \in DOMAIN s, s[i] = n PROVE FALSE
    <3>1. next'[s[i]] = x
      BY <1>2, <2>2
    <3>2. next'[s[i]] = IF i = Len(s) THEN NULL ELSE s[i + 1]
      BY <1>4 DEF IsQueue, IsList
    <3>3. i = Len(s) \/ i + 1 \in DOMAIN s
      BY <1>2
    <3> QED BY <1>1, <1>2, <3>1, <3>2, <3>3
  <2> QED BY <1>3, <2>1, <2>2
<1>5. TakenNodes' = TakenNodes /\ FreshNodes' = FreshNodes \ {x} /\ x \in FreshNodes
  <2>1. TakenNodes' = TakenNodes
    BY DEF TakenNodes
  <2> QED BY <2>1 DEF FreshNodes, Inv, Unseen
<1>6. x \notin Popped
  BY <1>5 DEF Inv, Apart
<1>7. x \in Received /\ Received' = Received \ {x}
  BY <1>5, <1>6 DEF Received, Popped
<1>8. Listed' = Listed \cup {x}
  BY <1>2, <1>5, <1>6 DEF Listed, Popped
<1>9. \A y \in Listed' : \E i \in DOMAIN Append(s, x) : Append(s, x)[i] = y
  <2>1. /\ DOMAIN Append(s, x) = 1 .. Len(s) + 1
        /\ \A i \in 1 .. Len(s) : Append(s, x)[i] = s[i]
        /\ Append(s, x)[Len(s) + 1] = x
        /\ DOMAIN s = 1 .. Len(s) /\ Len(s) \in Nat
    BY <1>2, AppendFacts
  <2>2. \A y \in Listed : \E i \in 1 .. Len(s) : Append(s, x)[i] = y
    BY <2>1 DEF IsFull
  <2> QED BY <1>8, <2>1, <2>2
<1> QED BY <1>1, <1>4, <1>7, <1>8, <1>9 DEF IsFull

LEMMA PopSwapFull ==
  ASSUME TypeOK, Inv, NEW s, IsFull(s), NEW t \in Threads, PopSwap(t),
         head_next_next[t] = next[head_next[t]]
  PROVE  /\ s # <<>> /\ IsFull(Tail(s))'
         /\ Taken[t] = NULL /\ Taken' = [Taken EXCEPT ![t] = Head(s)]
         /\ Received' = Received /\ Listed' = Listed \ {head_next[t]}
<1> USE NodeAssumption DEF TypeOK, Nodes, Labels, PopSwap, Goto, At, locals
<1> DEFINE a == head_next[t]  b == head_next_next[t]
<1>1. /\ a \in Items /\ next[head] = a /\ next' = [next EXCEPT ![head] = b] /\ b = next[a]
      /\ s \in Seq(Items)
  BY DEF IsFull, IsQueue
<1>2. /\ s # <<>> /\ (IsQueue(<<>>)' \/ IsQueue(Tail(s))')
      /\ Taken[t] = NULL /\ Taken' = [Taken EXCEPT ![t] = Head(s)]
  BY PopSwapQueue DEF IsFull
<1>3. a = s[1]
  BY <1>1, <1>2 DEF IsFull, IsQueue, IsList
<1>4. IsQueue(Tail(s))'
  <2>1. SUFFICES ASSUME IsQueue(<<>>)' PROVE Tail(s) = <<>>
    BY <1>2
  <2>2. b = NULL
    BY <1>1, <2>1 DEF IsQueue, IsList
  <2>3. 1 \in DOMAIN s /\ (Len(s) # 1 => 1 + 1 \in DOMAIN s)
    <3> DEFINE n == Len(s)
    <3>1. n \in Nat \ {0} /\ DOMAIN s = 1 .. n
      BY <1>1, <1>2, EmptySeq
    <3> HIDE DEF n
    <3>2. 1 \in 1 .. n /\ (n # 1 => 1 + 1 \in 1 .. n)
      BY <3>1
    <3> QED BY <3>1, <3>2 DEF n
  <2>4. next[s[1]] = IF 1 = Len(s) THEN NULL ELSE s[1 + 1]
    BY <2>3 DEF IsFull, IsQueue, IsList
  <2>5. Len(s) = 1
    BY <1>1, <1>3, <2>2, <2>3, <2>4
  <2>6. Tail(s) \in Seq(Items) /\ Len(Tail(s)) = 0
    BY <1>1, <1>2, <2>5, HeadTailProperties
  <2> QED BY <2>6, EmptySeq
<1>5. Popped' = Popped \cup {a} /\ FreshNodes' = FreshNodes
  BY DEF Popped, TakenNodes, FreshNodes
<1>6. Listed' = Listed \ {a} /\ Received' = Received
  BY <1>5 DEF Listed, Received
<1>7. ASSUME NEW y \in Listed' PROVE \E i \in DOMAIN Tail(s) : Tail(s)[i] = y
  <2>1. PICK i \in DOMAIN s : s[i] = y
    BY <1>6, <1>7 DEF IsFull
  <2>2. i # 1 /\ Len(s) # 1
    BY <1>1, <1>3, <1>6, <1>7, <2>1
  <2>3. /\ DOMAIN Tail(s) = 1 .. Len(s) - 1
        /\ \A j \in DOMAIN Tail(s) : Tail(s)[j] = s[j + 1]
    BY <1>1, <1>2, <2>2, TailFacts
  <2>4. i - 1 \in 1 .. Len(s) - 1 /\ (i - 1) + 1 = i
    BY <1>1, <2>1, <2>2
  <2> QED BY <2>1, <2>3, <2>4
<1> QED BY <1>2, <1>4, <1>6, <1>7 DEF IsFull

LEMMA PopUnlinkFull ==
  ASSUME TypeOK, Inv, NEW s, IsFull(s), NEW t \in Threads, PopUnlink(t)
  PROVE  /\ IsFull(s)' /\ Taken[t] # NULL /\ Taken' = [Taken EXCEPT ![t] = NULL]
         /\ Received' = Received \cup {Taken[t]} /\ Listed' = Listed
<1> USE NodeAssumption DEF TypeOK, Nodes, Labels, PopUnlink, At, EndPop
<1>1. IsQueue(s)' /\ Taken[t] # NULL /\ Taken' = [Taken EXCEPT ![t] = NULL]
  BY PopUnlinkQueue DEF IsFull
<1>2. head_next[t] \in TakenNodes /\ Taken[t] = head_next[t]
  BY DEF TakenNodes, Taken
<1>3. TakenNodes' = TakenNodes \ {head_next[t]} /\ FreshNodes' = FreshNodes
  BY DEF TakenNodes, FreshNodes, Inv, Apart
<1>4. Received' = Received \cup {Taken[t]} /\ Popped' = Popped
  BY <1>2, <1>3 DEF Received, Popped
<1>5. Listed' = Listed
  BY <1>3, <1>4 DEF Listed
<1> QED BY <1>1, <1>4, <1>5 DEF IsFull

LEMMA OtherFull ==
  ASSUME TypeOK, NEW s, IsFull(s), NEW t \in Threads,
         \/ PushLoadTail(t) \/ PushWalk(t) \/ PushStoreTail(t) \/ PushCount(t)
         \/ PopCall(t) \/ ClearCall(t) \/ PopLoadHead(t) \/ PopLoadNext(t) \/ PopRetry(t)
         \/ PopCount(t) \/ PopResetTail(t)
  PROVE  IsFull(s)' /\ Taken' = Taken /\ Received' = Received /\ Listed' = Listed
<1> USE NodeAssumption DEF TypeOK, Labels, Goto, At, locals, PushLoadTail, PushWalk,
        PushStoreTail, PushCount, EndPush, PopCall, ClearCall, PopStart, PopLoadHead, PopLoadNext,
        PopRetry, TakeHead, PopCount, PopResetTail, EndPop
<1>1. IsQueue(s)' /\ Taken' = Taken
  BY OtherQueue DEF IsFull
<1>2. UNCHANGED <<outside, destroyed>> /\ TakenNodes' = TakenNodes /\ FreshNodes' = FreshNodes
  BY DEF TakenNodes, FreshNodes
<1> QED BY <1>1, <1>2 DEF Listed, Received, Popped, IsFull

-----------------------------------------------------------------------------
(* The phases                                                              *)

LEMMA PushFilling ==
  ASSUME TypeOK, Inv, Filling, NEW t \in Threads,
         \/ PushCall(t) \/ PushLoadTail(t) \/ PushLink(t) \/ PushWalk(t) \/ PushStoreTail(t)
         \/ PushCount(t),
         Listed' = Listed \cup IF PushLink(t) THEN {new_node[t]} ELSE {}
  PROVE  Filling'
<1> USE NodeAssumption DEF TypeOK, Nodes, Labels, Goto, At, locals, Filling, PushLabels
<1>1. CASE PushCall(t)
  BY <1>1 DEF PushCall
<1>2. CASE PushLoadTail(t)
  BY <1>2 DEF PushLoadTail
<1>3. CASE PushLink(t)
  BY <1>3 DEF PushLink
<1>4. CASE PushWalk(t)
  <2> DEFINE n == tail_node[t]
  <2>1. n \in Nodes /\ n \notin TakenNodes /\ next[n] # NULL
    BY <1>4 DEF PushWalk, TakenNodes
  <2>2. next[n] \in Listed
    BY <2>1 DEF Inv, Linked, Listed
  <2> QED BY <1>4, <2>2 DEF PushWalk
<1>5. CASE PushStoreTail(t)
  BY <1>5 DEF PushStoreTail
<1>6. CASE PushCount(t)
  BY <1>6 DEF PushCount, EndPush
<1> QED BY <1>1, <1>2, <1>3, <1>4, <1>5, <1>6

LEMMA PopDraining ==
  ASSUME TypeOK, Inv, Draining, NEW t \in Threads,
         \/ PopCall(t) \/ ClearCall(t) \/ PopLoadHead(t) \/ PopLoadNext(t) \/ PopSwap(t)
         \/ PopRetry(t) \/ PopCount(t) \/ PopUnlink(t) \/ PopResetTail(t)
  PROVE  Draining' /\ (Drained \/ PopResetTail(t) => Drained')
<1> USE NodeAssumption DEF TypeOK, Nodes, Labels, Goto, At, locals, Draining, PushLabels, Drained
<1>1. CASE PopCall(t) \/ ClearCall(t)
  BY <1>1 DEF PopCall, ClearCall, PopStart, PopResetTail
<1>2. CASE PopLoadHead(t) \/ PopRetry(t)
  BY <1>2 DEF PopLoadHead, PopRetry, TakeHead, PopResetTail
<1>3. CASE PopLoadNext(t)
  BY <1>3 DEF PopLoadNext, PopResetTail
<1>4. CASE PopSwap(t)
  <2>1. Inv'
    BY <1>4, PopSwapInv
  <2>2. next[head] # NULL
    BY <1>4 DEF PopSwap
  <2>3. \A u \in At({"swap_head"})' : head_next'[u] # next'[head]
    <3>1. SUFFICES ASSUME NEW u \in At({"swap_head"})', head_next'[u] = next'[head]
                   PROVE  FALSE
      OBVIOUS
    <3>2. u # t /\ pc[u] = "swap_head" /\ head_next'[u] = head_next[u]
      BY <1>4, <3>1 DEF PopSwap
    <3>3. head_next[u] = next[head] \/ head_next[u] \in Popped
      BY <3>2 DEF Inv, Snapshot
    <3>4. head_next[u] \in Popped'
      BY <1>4, <3>3 DEF PopSwap, Popped, TakenNodes
    <3>5. next'[head] \notin Popped'
      <4>1. head \notin TakenNodes'
        BY <1>4 DEF PopSwap, TakenNodes
      <4> QED BY <2>1, <4>1 DEF Inv, Linked
    <3> QED BY <3>1, <3>2, <3>4, <3>5
  <2> QED BY <1>4, <2>2, <2>3 DEF PopSwap, PopResetTail
<1>5. CASE PopCount(t)
  BY <1>5 DEF PopCount, PopResetTail
<1>6. CASE PopUnlink(t)
  <2>1. head_next[t] \in Items /\ next[head] # head_next[t]
    BY <1>6 DEF PopUnlink, Inv, Linked, Popped, TakenNodes
  <2> QED BY <1>6, <2>1 DEF PopUnlink, EndPop, PopResetTail
<1>7. CASE PopResetTail(t)
  BY <1>7 DEF PopResetTail, EndPop
<1> QED BY <1>1, <1>2, <1>3, <1>4, <1>5, <1>6, <1>7

\* Between the phases both hold.
LEMMA QuietPhase ==
  ASSUME TypeOK, Quiet
  PROVE  Draining /\ (Drained => Filling)
BY DEF TypeOK, Quiet, At, Draining, Drained, Filling, Labels, PushLabels

FifoStep == Fifo!Next \/ UNCHANGED Fifo!vars

LEMMA FifoSame ==
  ASSUME TypeOK, TypeOK', NEW s, IsFull(s), IsFull(s)', Taken' = Taken, Received' = Received
  PROVE  FifoStep
<1>1. Queue' = Queue
  BY QueueIs, QueueIsNext DEF IsFull
<1> QED BY <1>1 DEF FifoStep, Fifo!vars, Received, FreshNodes

LEMMA PushStepFifo ==
  ASSUME TypeOK, TypeOK', Inv, Filling, NEW s \in Seq(Items), IsFull(s), NEW t \in Threads,
         \/ PushCall(t) \/ PushLoadTail(t) \/ PushLink(t) \/ PushWalk(t) \/ PushStoreTail(t)
         \/ PushCount(t)
  PROVE  (\E u \in Seq(Items) : IsFull(u)') /\ Filling' /\ FifoStep
<1>1. CASE PushLink(t)
  <2>1. PICK x \in Items : x = new_node[t]
    BY <1>1 DEF PushLink, Goto, TypeOK
  <2>2. tail_node[t] \in Listed \cup {head}
    BY <1>1 DEF PushLink, Goto, Filling, At
  <2>3. /\ IsFull(Append(s, x))' /\ Taken' = Taken /\ x \in Received
        /\ Received' = Received \ {x} /\ Listed' = Listed \cup {x}
    BY <1>1, <2>1, <2>2, PushLinkFull
  <2>4. Append(s, x) \in Seq(Items)
    BY <2>1, AppendFacts
  <2>5. Queue = s /\ Queue' = Append(s, x)
    BY <2>3, QueueIs, QueueIsNext DEF IsFull
  <2>6. Len(s) < Cardinality(Items)
    <3> DEFINE n == Len(s)  m == Len(Append(s, x))  c == Cardinality(Items)
    <3>1. m <= c
      BY <2>3, <2>4, ListLength DEF IsFull, IsQueue
    <3>2. m = n + 1 /\ n \in Nat
      BY <2>1, AppendFacts
    <3>3. c \in Nat
      BY SizeAssumption, FS_CardinalityType
    <3> HIDE DEF n, m, c
    <3>4. n < c
      BY <3>1, <3>2, <3>3
    <3> QED BY <3>4 DEF n, c
  <2>7. Fifo!Enqueue(x)
    BY <2>3, <2>5, <2>6 DEF Fifo!Enqueue, Received, FreshNodes
  <2>8. Filling'
    BY <1>1, <2>1, <2>3, PushFilling
  <2> QED BY <2>3, <2>4, <2>7, <2>8 DEF FifoStep, Fifo!Next
<1>2. CASE ~ PushLink(t)
  <2>1. IsFull(s)' /\ Taken' = Taken /\ Received' = Received /\ Listed' = Listed
    BY <1>2, PushCallFull, OtherFull
  <2> QED BY <1>2, <2>1, FifoSame, PushFilling
<1> QED BY <1>1, <1>2

LEMMA PopStepFifo ==
  ASSUME TypeOK, TypeOK', Inv, Draining, NEW s \in Seq(Items), IsFull(s), NEW t \in Threads,
         \/ PopCall(t) \/ ClearCall(t) \/ PopLoadHead(t) \/ PopLoadNext(t) \/ PopSwap(t)
         \/ PopRetry(t) \/ PopCount(t) \/ PopUnlink(t) \/ PopResetTail(t)
  PROVE  (\E u \in Seq(Items) : IsFull(u)') /\ FifoStep
<1>1. CASE PopSwap(t)
  <2>1. head_next_next[t] = next[head_next[t]]
    BY <1>1 DEF PopSwap, Goto, Draining, At
  <2>2. /\ s # <<>> /\ IsFull(Tail(s))'
        /\ Taken[t] = NULL /\ Taken' = [Taken EXCEPT ![t] = Head(s)] /\ Received' = Received
    BY <1>1, <2>1, PopSwapFull
  <2>3. Queue = s /\ Queue' = Tail(s)
    BY <2>2, QueueIs, QueueIsNext DEF IsFull
  <2>4. Fifo!Dequeue(t)
    BY <2>2, <2>3 DEF Fifo!Dequeue, Received, FreshNodes
  <2>5. Tail(s) \in Seq(Items)
    BY <2>2, HeadTailProperties
  <2> QED BY <2>2, <2>4, <2>5 DEF FifoStep, Fifo!Next
<1>2. CASE PopUnlink(t)
  <2>1. /\ IsFull(s)' /\ Taken[t] # NULL /\ Taken' = [Taken EXCEPT ![t] = NULL]
        /\ Received' = Received \cup {Taken[t]}
    BY <1>2, PopUnlinkFull
  <2>2. Queue' = Queue
    BY <2>1, QueueIs, QueueIsNext DEF IsFull
  <2>3. Fifo!Deliver(t)
    BY <2>1, <2>2 DEF Fifo!Deliver, Received, FreshNodes
  <2> QED BY <2>1, <2>3 DEF FifoStep, Fifo!Next
<1>3. CASE ~ PopSwap(t) /\ ~ PopUnlink(t)
  BY <1>3, OtherFull, FifoSame
<1> QED BY <1>1, <1>2, <1>3

LEMMA PhaseStep ==
  ASSUME TypeOK, TypeOK', Inv, PhaseInv, PhasedNext
  PROVE  PhaseInv' /\ (mixed' \/ FifoStep)
<1>1. phase \in {"fill", "drain", "drained"} /\ mixed \in BOOLEAN
  BY DEF PhaseInv
<1>2. PICK t \in Threads : ObservePush(t) \/ ObservePop(t) \/ ObserveStep(t)
  BY DEF PhasedNext
<1>3. phase' \in {"fill", "drain", "drained"} /\ mixed' \in BOOLEAN
  BY <1>1, <1>2 DEF ObservePush, ObservePop, ObserveStep
<1>4. CASE mixed'
  BY <1>3, <1>4 DEF PhaseInv
<1>5. CASE ~ mixed'
  <2>1. ~ mixed
    BY <1>1, <1>2, <1>5 DEF ObservePush, ObservePop, ObserveStep
  <2>2. PICK s \in Seq(Items) : IsFull(s)
    BY <2>1 DEF PhaseInv
  <2>3. CASE ObservePush(t)
    <3>1. PushCall(t) /\ phase' = "fill" /\ phase \in PushPhase
      BY <1>5, <2>1, <2>3 DEF ObservePush
    <3>2. Filling
      BY <1>1, <2>1, <3>1, QuietPhase DEF PushPhase, PhaseInv
    <3> QED BY <1>3, <2>2, <3>1, <3>2, PushStepFifo DEF PhaseInv
  <2>4. CASE ObservePop(t)
    <3>1. /\ PopCall(t) \/ ClearCall(t)
          /\ phase' = IF phase = "fill" THEN "drain" ELSE phase
          /\ phase \in PopPhase
      BY <1>5, <2>1, <2>4 DEF ObservePop
    <3>2. Draining
      BY <1>1, <2>1, <3>1, QuietPhase DEF PopPhase, PhaseInv
    <3>3. Draining' /\ (Drained => Drained')
      BY <3>1, <3>2, PopDraining
    <3>4. phase' # "fill" /\ (phase' = "drained" => Drained)
      BY <1>1, <2>1, <3>1 DEF PhaseInv
    <3> QED BY <1>3, <2>2, <3>1, <3>2, <3>3, <3>4, PopStepFifo DEF PhaseInv
  <2>5. CASE ObserveStep(t) /\ phase = "fill"
    <3>1. Filling /\ Step(t)
      BY <2>1, <2>5 DEF PhaseInv, ObserveStep
    <3>2. /\ \/ PushLoadTail(t) \/ PushLink(t) \/ PushWalk(t) \/ PushStoreTail(t)
             \/ PushCount(t)
          /\ ~ PopResetTail(t)
      BY <3>1 DEF Filling, PushLabels, Step, Goto, PopLoadHead, PopLoadNext, PopSwap, PopRetry,
         PopCount, PopUnlink, PopResetTail
    <3>3. phase' = "fill"
      BY <2>5, <3>2 DEF ObserveStep
    <3> QED BY <1>3, <2>2, <3>1, <3>2, <3>3, PushStepFifo DEF PhaseInv
  <2>6. CASE ObserveStep(t) /\ phase # "fill"
    <3>1. Draining /\ Step(t) /\ (phase = "drained" => Drained)
      BY <2>1, <2>6 DEF PhaseInv, ObserveStep
    <3>2. \/ PopLoadHead(t) \/ PopLoadNext(t) \/ PopSwap(t) \/ PopRetry(t) \/ PopCount(t)
          \/ PopUnlink(t) \/ PopResetTail(t)
      BY <3>1 DEF Draining, PushLabels, Step, Goto, PushLoadTail, PushLink, PushWalk,
         PushStoreTail, PushCount
    <3>3. Draining' /\ (Drained \/ PopResetTail(t) => Drained')
      BY <3>1, <3>2, PopDraining
    <3>4. phase' # "fill" /\ (phase' = "drained" => phase = "drained" \/ PopResetTail(t))
      BY <2>6 DEF ObserveStep
    <3> QED BY <1>3, <2>2, <3>1, <3>2, <3>3, <3>4, PopStepFifo DEF PhaseInv
  <2> QED BY <1>2, <2>3, <2>4, <2>5, <2>6
<1> QED BY <1>3, <1>4, <1>5

LEMMA PhaseInvSame == PhaseInv /\ UNCHANGED phaseVars => PhaseInv'
BY DEF phaseVars, vars, locals, PhaseInv, Filling, Draining, Drained, IsFull, IsQueue, IsList,
   Listed, Popped, TakenNodes, FreshNodes, At

\* Until the phases get mixed the queue is first-in first-out and loses
\* nothing, however the pushes of a phase, or its pops, overlap.
THEOREM PhasedFifoCorrect == PhasedSpec => PhasedFifo
<1> DEFINE All == TypeOK /\ Inv /\ PhaseInv
<1>1. PhasedInit => All /\ Fifo!Init
  <2>1. PhasedInit => Init
    BY DEF PhasedInit
  <2>2. Init => Fifo!Init
    <3>1. SUFFICES ASSUME Init PROVE Fifo!Init
      OBVIOUS
    <3>2. Queue = <<>>
      BY <3>1, TypeInit, QueueInit, QueueIs
    <3>3. Taken = [t \in Threads |-> NULL]
      BY <3>1 DEF Init, Taken
    <3>4. outside \cup destroyed \cup {new_node[t] : t \in At({"load_tail", "link"})} = Items
      BY <3>1 DEF Init, At
    <3> QED BY <3>2, <3>3, <3>4 DEF Fifo!Init
  <2> QED BY <2>1, <2>2, TypeInit, InvInit, PhaseInit
<1>2. All /\ [PhasedNext]_phaseVars => All' /\ [mixed' \/ FifoStep]_phaseVars
  <2>1. SUFFICES ASSUME All, [PhasedNext]_phaseVars
                 PROVE  All' /\ [mixed' \/ FifoStep]_phaseVars
    OBVIOUS
  <2>2. TypeOK' /\ Inv'
    BY <2>1, PhasedStep, TypeStep, InvStep
  <2>3. CASE PhasedNext
    BY <2>1, <2>2, <2>3, PhaseStep
  <2>4. CASE UNCHANGED phaseVars
    BY <2>1, <2>2, <2>4, PhaseInvSame
  <2> QED BY <2>1, <2>3, <2>4
<1> QED BY <1>1, <1>2, PTL DEF PhasedSpec, PhasedFifo, FifoStep

LEMMA PhaseInvariant == PhasedSpec => [](TypeOK /\ Apart /\ SizeAccounts /\ PhaseInv)
<1> DEFINE All == TypeOK /\ Inv /\ Counted /\ PhaseInv
<1>1. PhasedInit => All
  BY TypeInit, InvInit, CountedInit, PhaseInit DEF PhasedInit
<1>2. All /\ [PhasedNext]_phaseVars => All'
  <2>1. SUFFICES ASSUME All, [PhasedNext]_phaseVars PROVE All'
    OBVIOUS
  <2>2. TypeOK' /\ Inv' /\ Counted'
    BY <2>1, PhasedStep, TypeStep, InvStep, CountedStep
  <2>3. CASE PhasedNext
    BY <2>1, <2>2, <2>3, PhaseStep
  <2>4. CASE UNCHANGED phaseVars
    BY <2>1, <2>2, <2>4, PhaseInvSame
  <2> QED BY <2>1, <2>3, <2>4
<1>3. All => TypeOK /\ Apart /\ SizeAccounts /\ PhaseInv
  BY DEF Counted, Inv
<1> QED BY <1>1, <1>2, <1>3, PTL DEF PhasedSpec

LEMMA ListSize ==
  ASSUME NEW s \in Seq(Items), \A i, j \in DOMAIN s : s[i] = s[j] => i = j
  PROVE  Cardinality(ToSet(s)) = Len(s) /\ Len(s) \in Nat
<1> DEFINE T == ToSet(s)
<1>1. s \in Injection(1 .. Len(s), T) /\ s \in Surjection(1 .. Len(s), T)
  BY DEF Injection, Surjection, IsInjective, ToSet
<1>2. IsFiniteSet(T)
  <2>1. T \in SUBSET Items
    BY DEF ToSet
  <2> QED BY <2>1, SizeAssumption, FS_Subset
<1>3. Cardinality(1 .. Len(s)) = Len(s) /\ Len(s) \in Nat
  <2>1. Len(s) \in Nat
    OBVIOUS
  <2> QED BY <2>1, IntervalSize
<1>4. Cardinality(1 .. Len(s)) = Cardinality(T)
  BY <1>1, <1>2, FS_Injection
<1> QED BY <1>3, <1>4

LEMMA QuietQueue ==
  ASSUME TypeOK, Apart, PhaseInv, ~ mixed, Quiet
  PROVE  /\ IsQueue(Queue)
         /\ ToSet(Queue) = Items \ (outside \cup destroyed)
         /\ outside \cap destroyed = {}
<1>1. PICK s \in Seq(Items) : IsFull(s)
  BY DEF PhaseInv
<1>2. Queue = s
  BY <1>1, QueueIs DEF IsFull
<1>3. TakenNodes = {} /\ FreshNodes = {}
  BY DEF Quiet, At, TakenNodes, FreshNodes
<1>4. Listed = Items \ (outside \cup destroyed)
  BY <1>3 DEF Listed, Popped
<1>5. \A i \in DOMAIN s : s[i] \in Listed
  BY <1>1 DEF IsFull, IsQueue, Listed
<1> QED BY <1>1, <1>2, <1>4, <1>5 DEF IsFull, ToSet, Apart

\* In phases no item is lost: whenever no operation is in progress, what was
\* pushed and not popped is in the queue.
THEOREM NoItemLostInPhasesCorrect == PhasedSpec => []NoItemLostInPhases
<1>1. TypeOK /\ Apart /\ SizeAccounts /\ PhaseInv => NoItemLostInPhases
  BY QuietQueue DEF NoItemLostInPhases, NoItemLost, Quiet
<1> QED BY PhaseInvariant, <1>1, PTL

\* And then size() is the number of items in the queue.
THEOREM SizeIsLengthCorrect == PhasedSpec => []SizeIsLength
<1>1. ASSUME TypeOK, Apart, SizeAccounts, PhaseInv, ~ mixed, Quiet
      PROVE  size = Len(Queue)
  <2> DEFINE o == Cardinality(outside)  d == Cardinality(destroyed)
             l == Len(Queue)  n == Cardinality(Items)
  <2>1. /\ IsQueue(Queue)
        /\ ToSet(Queue) = Items \ (outside \cup destroyed)
        /\ outside \cap destroyed = {}
    BY <1>1, QuietQueue
  <2>2. o \in Nat /\ d \in Nat /\ n \in Nat
    BY <1>1, SizeAssumption, FS_Subset, FS_CardinalityType DEF TypeOK
  <2>3. Cardinality(ToSet(Queue)) = n - (o + d)
    <3>1. IsFiniteSet(outside) /\ IsFiniteSet(destroyed)
      BY <1>1, SizeAssumption, FS_Subset DEF TypeOK
    <3>2. Cardinality(outside \cup destroyed) = o + d - Cardinality({})
      BY <2>1, <3>1, FS_Union
    <3>3. Items \cap (outside \cup destroyed) = outside \cup destroyed
      BY <1>1 DEF TypeOK
    <3>4. Cardinality(Items \ (outside \cup destroyed)) = n - Cardinality(outside \cup destroyed)
      <4> DEFINE T == outside \cup destroyed
      <4>1. Cardinality(Items \ T) = Cardinality(Items) - Cardinality(Items \cap T)
        BY SizeAssumption, FS_Difference
      <4> QED BY <3>3, <4>1
    <3> QED BY <2>1, <2>2, <3>2, <3>4, FS_EmptySet
  <2>4. Cardinality(ToSet(Queue)) = l /\ l \in Nat
    BY <2>1, ListSize DEF IsQueue
  <2>5. Uncounted = {} /\ Cardinality(Uncounted) = 0
    BY <1>1, FS_EmptySet DEF Quiet, Uncounted, At
  <2>6. (size + o + d + 0) % SizeMod = n
    BY <1>1, <2>5 DEF SizeAccounts, Uncounted
  <2>7. size \in 0 .. SizeMod - 1 /\ n < SizeMod /\ SizeMod \in Nat
    BY <1>1, SizeAssumption DEF TypeOK
  <2> HIDE DEF o, d, l, n
  <2>8. o + d = n - l /\ n - l \in Nat
    BY <2>2, <2>3, <2>4
  <2>9. (size + (n - l)) % SizeMod = n
    BY <2>2, <2>4, <2>6, <2>7, <2>8
  <2>10. CASE size + (n - l) < SizeMod
    <3>1. (size + (n - l)) % SizeMod = size + (n - l)
      BY <2>7, <2>8, <2>10
    <3>2. size + (n - l) = n
      BY <2>9, <3>1
    <3> QED BY <2>2, <2>4, <2>7, <3>2 DEF l
  <2>11. CASE size + (n - l) >= SizeMod
    <3> DEFINE r == size + (n - l) - SizeMod
    <3>1. r \in Nat /\ r < SizeMod /\ r + SizeMod = size + (n - l) /\ r < n
      BY <2>2, <2>4, <2>7, <2>8, <2>11
    <3> HIDE DEF r
    <3>2. (r + SizeMod) % SizeMod = r % SizeMod
      BY <2>7, <3>1, ModShift
    <3>3. r % SizeMod = r
      BY <2>7, <3>1
    <3> QED BY <2>2, <2>9, <3>1, <3>2, <3>3
  <2> QED BY <2>2, <2>4, <2>7, <2>8, <2>10, <2>11
<1>2. TypeOK /\ Apart /\ SizeAccounts /\ PhaseInv => SizeIsLength
  BY <1>1 DEF SizeIsLength
<1> QED BY PhaseInvariant, <1>2, PTL
=============================================================================
