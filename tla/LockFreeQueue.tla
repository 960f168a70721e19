---------------------------- MODULE LockFreeQueue ----------------------------
(***************************************************************************)
(* LockFreeQueue<T> of src/src/lockfree/lockfree_queue.cc: a linked list   *)
(* that starts at the member __head, and __tail, a cache of its last node  *)
(* from which push() walks to the real end.                                *)
(*                                                                         *)
(* Every load, store and compare_exchange of an std::atomic<SharedPtr> is  *)
(* one step: AtomicSharedPtr shows that they are linearizable and that a   *)
(* node lives as long as somebody can follow a pointer to it.  A node is   *)
(* named for the one item it carries; an item that client code has got     *)
(* back may be pushed again once its old node is gone.                     *)
(*                                                                         *)
(* A definition named Bug... is the one after it with a mistake in it; no  *)
(* other definition uses it.                                               *)
(***************************************************************************)
EXTENDS Integers, FiniteSets, Sequences, SequencesExt

CONSTANTS
  Threads,
  Items,
  SizeMod,   \* number of values of __size, 2^64
  head,      \* &__head
  NULL

ASSUME SizeAssumption ==
  IsFiniteSet(Items) /\ SizeMod \in Nat /\ Cardinality(Items) < SizeMod
ASSUME NodeAssumption == head \notin Items /\ NULL \notin Items \cup {head}

VARIABLES
  next,            \* the next pointer of each node, __head included
  tail,            \* __tail
  size,            \* __size
  pc,              \* where each thread stands in the operation it runs
  caller,          \* whether __pop() runs for pop() or for clear()
  new_node,        \* the locals of push() ...
  tail_node,       \* ... (`tail' there)
  head_next,       \* ... and of __pop()
  head_next_next,
  outside,         \* items owned by client code
  destroyed        \* items that clear() dropped

locals == <<new_node, tail_node, head_next, head_next_next>>
vars == <<next, tail, size, pc, caller, locals, outside, destroyed>>

Nodes == Items \cup {head}

\* s is the list of items that starts at __head.
IsList(s) ==
  /\ next[head] = IF s = <<>> THEN NULL ELSE s[1]
  /\ \A i \in DOMAIN s : next[s[i]] = IF i = Len(s) THEN NULL ELSE s[i + 1]

\* The items in the queue, oldest first.
Queue == CHOOSE s \in SeqOf(Items, Cardinality(Items)) : IsList(s)

\* The nodes that some SharedPtr keeps alive: those that a root is a pointer
\* to, and those that the next pointer of a node alive leads to.
Roots == {head, tail} \cup UNION {{new_node[t], tail_node[t], head_next[t],
                                    head_next_next[t]} : t \in Threads}
Closed(S) == Roots \ {NULL} \subseteq S /\ \A n \in S : next[n] \in S \cup {NULL}
Alive == {n \in Nodes : \A S \in SUBSET Nodes : Closed(S) => n \in S}

Init ==
  /\ next = [n \in Nodes |-> NULL]
  /\ tail = head
  /\ size = 0
  /\ pc = [t \in Threads |-> "idle"]
  /\ caller = [t \in Threads |-> "pop"]
  /\ new_node = [t \in Threads |-> NULL]
  /\ tail_node = [t \in Threads |-> NULL]
  /\ head_next = [t \in Threads |-> NULL]
  /\ head_next_next = [t \in Threads |-> NULL]
  /\ outside = Items
  /\ destroyed = {}

Goto(t, from, to) == pc[t] = from /\ pc' = [pc EXCEPT ![t] = to]

\* The operation's SharedPtrs end with it.
EndPush(t) ==
  /\ new_node' = [new_node EXCEPT ![t] = NULL]
  /\ tail_node' = [tail_node EXCEPT ![t] = NULL]
  /\ UNCHANGED <<head_next, head_next_next>>

EndPop(t) ==
  /\ head_next' = [head_next EXCEPT ![t] = NULL]
  /\ head_next_next' = [head_next_next EXCEPT ![t] = NULL]
  /\ UNCHANGED <<new_node, tail_node>>

-----------------------------------------------------------------------------
(* push()                                                                  *)

\* make_shared of the new node
PushCall(t) ==
  /\ Goto(t, "idle", "load_tail")
  /\ \E x \in outside \ Alive :
       /\ outside' = outside \ {x}
       /\ new_node' = [new_node EXCEPT ![t] = x]
       /\ next' = [next EXCEPT ![x] = NULL]
  /\ UNCHANGED <<tail, size, caller, tail_node, head_next, head_next_next, destroyed>>

BugPushLoadTail(t) ==
  /\ Goto(t, "load_tail", "link")
  /\ tail' = new_node[t]
  /\ tail_node' = [tail_node EXCEPT ![t] = tail']
  /\ UNCHANGED <<next, size, caller, new_node, head_next, head_next_next, outside, destroyed>>

PushLoadTail(t) ==
  /\ Goto(t, "load_tail", "link")
  /\ tail_node' = [tail_node EXCEPT ![t] = tail]
  /\ UNCHANGED <<next, tail, size, caller, new_node, head_next, head_next_next,
                 outside, destroyed>>

BugPushLinkUnchecked(t) ==
  /\ Goto(t, "link", "store_tail")
  /\ next' = [next EXCEPT ![tail_node[t]] = new_node[t]]
  /\ UNCHANGED <<tail, size, caller, locals, outside, destroyed>>

\* compare_exchange of the node's next: null becomes new_node ...
PushLink(t) ==
  /\ Goto(t, "link", "store_tail")
  /\ next[tail_node[t]] = NULL
  /\ next' = [next EXCEPT ![tail_node[t]] = new_node[t]]
  /\ UNCHANGED <<tail, size, caller, locals, outside, destroyed>>

\* ... and anything else becomes the node to try.
PushWalk(t) ==
  /\ pc[t] = "link"
  /\ next[tail_node[t]] # NULL
  /\ tail_node' = [tail_node EXCEPT ![t] = next[tail_node[t]]]
  /\ UNCHANGED <<next, tail, size, pc, caller, new_node, head_next, head_next_next,
                 outside, destroyed>>

PushStoreTail(t) ==
  /\ Goto(t, "store_tail", "count_push")
  /\ tail' = new_node[t]
  /\ UNCHANGED <<next, size, caller, locals, outside, destroyed>>

PushCount(t) ==
  /\ Goto(t, "count_push", "idle")
  /\ size' = (size + 1) % SizeMod
  /\ EndPush(t)
  /\ UNCHANGED <<next, tail, caller, outside, destroyed>>

-----------------------------------------------------------------------------
(* __pop(), and pop() and clear(), which call it once or until it fails.   *)

PopStart(t, by) ==
  /\ Goto(t, "idle", "load_head")
  /\ caller' = [caller EXCEPT ![t] = by]
  /\ UNCHANGED <<next, tail, size, locals, outside, destroyed>>

PopCall(t)   == PopStart(t, "pop")
ClearCall(t) == PopStart(t, "clear")

\* head_next becomes what __head.next holds; the queue is empty if that is null.
TakeHead(t) ==
  /\ head_next' = [head_next EXCEPT ![t] = next[head]]
  /\ pc' = [pc EXCEPT ![t] = IF next[head] = NULL THEN "reset_tail" ELSE "load_next"]
  /\ UNCHANGED <<next, tail, size, caller, new_node, tail_node, head_next_next,
                 outside, destroyed>>

PopLoadHead(t) == pc[t] = "load_head" /\ TakeHead(t)

PopLoadNext(t) ==
  /\ Goto(t, "load_next", "swap_head")
  /\ head_next_next' = [head_next_next EXCEPT ![t] = next[head_next[t]]]
  /\ UNCHANGED <<next, tail, size, caller, new_node, tail_node, head_next,
                 outside, destroyed>>

BugPopSwapUnchecked(t) ==
  /\ Goto(t, "swap_head", "count_pop")
  /\ next' = [next EXCEPT ![head] = head_next_next[t]]
  /\ UNCHANGED <<tail, size, caller, locals, outside, destroyed>>

\* compare_exchange of __head.next, its success ...
PopSwap(t) ==
  /\ Goto(t, "swap_head", "count_pop")
  /\ next[head] = head_next[t]
  /\ next' = [next EXCEPT ![head] = head_next_next[t]]
  /\ UNCHANGED <<tail, size, caller, locals, outside, destroyed>>

BugPopRetryUnchecked(t) ==
  /\ Goto(t, "swap_head", "load_next")
  /\ next[head] # head_next[t]
  /\ head_next' = [head_next EXCEPT ![t] = next[head]]
  /\ UNCHANGED <<next, tail, size, caller, new_node, tail_node, head_next_next,
                 outside, destroyed>>

\* ... and its failure.
PopRetry(t) ==
  /\ pc[t] = "swap_head"
  /\ next[head] # head_next[t]
  /\ TakeHead(t)

BugPopCountForgotten(t) ==
  Goto(t, "count_pop", "unlink")
    /\ UNCHANGED <<next, tail, size, caller, locals, outside, destroyed>>

PopCount(t) ==
  /\ Goto(t, "count_pop", "unlink")
  /\ size' = (size - 1) % SizeMod
  /\ UNCHANGED <<next, tail, caller, locals, outside, destroyed>>

\* The popped node lets go of its successor and its value leaves with the call.
PopUnlink(t) ==
  /\ pc[t] = "unlink"
  /\ next' = [next EXCEPT ![head_next[t]] = NULL]
  /\ \/ /\ caller[t] = "pop"
        /\ pc' = [pc EXCEPT ![t] = "idle"]
        /\ outside' = outside \cup {head_next[t]}
        /\ UNCHANGED destroyed
     \/ /\ caller[t] = "clear"
        /\ pc' = [pc EXCEPT ![t] = "load_head"]
        /\ destroyed' = destroyed \cup {head_next[t]}
        /\ UNCHANGED outside
  /\ EndPop(t)
  /\ UNCHANGED <<tail, size, caller>>

BugPopKeepsTail(t) ==
  /\ Goto(t, "reset_tail", "idle")
  /\ EndPop(t)
  /\ UNCHANGED <<next, tail, size, caller, outside, destroyed>>

\* reset_tail(), and nullopt
PopResetTail(t) ==
  /\ Goto(t, "reset_tail", "idle")
  /\ tail' = head
  /\ EndPop(t)
  /\ UNCHANGED <<next, size, caller, outside, destroyed>>

-----------------------------------------------------------------------------
Call(t) == PushCall(t) \/ PopCall(t) \/ ClearCall(t)

Step(t) ==
  \/ PushLoadTail(t) \/ PushLink(t) \/ PushWalk(t) \/ PushStoreTail(t) \/ PushCount(t)
  \/ PopLoadHead(t) \/ PopLoadNext(t) \/ PopSwap(t) \/ PopRetry(t) \/ PopCount(t)
  \/ PopUnlink(t) \/ PopResetTail(t)

Next == \E t \in Threads : Call(t) \/ Step(t)

Spec == Init /\ [][Next]_vars

-----------------------------------------------------------------------------
(***************************************************************************)
(* Properties.                                                             *)
(***************************************************************************)
Labels == {"idle", "load_tail", "link", "store_tail", "count_push", "load_head",
           "load_next", "swap_head", "count_pop", "unlink", "reset_tail"}

\* next, size and the locals keep their shape, and a local that the code at pc
\* dereferences is not null.
TypeOK ==
  /\ next \in [Nodes -> Items \cup {NULL}]
  /\ tail \in Nodes
  /\ size \in 0 .. SizeMod - 1
  /\ pc \in [Threads -> Labels]
  /\ caller \in [Threads -> {"pop", "clear"}]
  /\ new_node \in [Threads -> Items \cup {NULL}]
  /\ tail_node \in [Threads -> Nodes \cup {NULL}]
  /\ head_next \in [Threads -> Items \cup {NULL}]
  /\ head_next_next \in [Threads -> Items \cup {NULL}]
  /\ outside \in SUBSET Items
  /\ destroyed \in SUBSET Items
  /\ \A t \in Threads :
       /\ pc[t] \in {"load_tail", "link", "store_tail", "count_push"} => new_node[t] # NULL
       /\ pc[t] = "link" => tail_node[t] # NULL
       /\ pc[t] \in {"load_next", "swap_head", "count_pop", "unlink"} => head_next[t] # NULL

At(labels) == {t \in Threads : pc[t] \in labels}

\* size() is the number of completed pushes less that of completed pops, up to
\* those that have changed the list and not yet the count; between the two it
\* can be one short of zero and wrap.
SizeAccounts ==
  (size + Cardinality(outside) + Cardinality(destroyed)
     + Cardinality(At({"load_tail", "link", "store_tail", "count_push", "unlink"})))
    % SizeMod = Cardinality(Items)

\* No nodes lead to each other in a circle, whatever chains of popped nodes a
\* push links behind: counted references then free every node that no root
\* leads to, and the walk of push() never comes back to a node.
NoCycle == \A S \in (SUBSET Nodes) \ {{}} : \E n \in S : next[n] \notin S

\* The item a pop has taken off the list and not returned yet.
Taken == [t \in Threads |-> IF pc[t] \in {"count_pop", "unlink"} THEN head_next[t] ELSE NULL]

Lossy == INSTANCE LossyFifo WITH Clients <- Threads, queue <- Queue, taken <- Taken

\* Under every interleaving pops deliver each item at most once and in the
\* order in which the pushes linked them.
LossyFifoSpec == Lossy!Spec

\* Items that a push has linked and no pop will ever find.
Lost == Items \ (outside \cup destroyed \cup ToSet(Queue)
                   \cup {Taken[t] : t \in Threads}
                   \cup {new_node[t] : t \in At({"load_tail", "link"})})

\* An item is lost in two ways only: a push links behind a node that has left
\* the list, or __pop() exchanges a pointer that it read before a push linked
\* behind the first node.
StaleLink(t) == PushLink(t) /\ tail_node[t] \notin ToSet(Queue) \cup {head}
StaleSwap(t) == PopSwap(t) /\ head_next_next[t] # next[head_next[t]]

Explained == Lost' \subseteq Lost \/ \E t \in Threads : StaleLink(t) \/ StaleSwap(t)

LossesExplained == [][Explained]_vars

\* When no operation is in progress, every item whose push() returned and that
\* no pop() has returned is in the queue.
NoItemLost ==
  At({"idle"}) = Threads => ToSet(Queue) = Items \ (outside \cup destroyed)
=============================================================================
