---------------------------- MODULE BoundedFifo -----------------------------
(***************************************************************************)
(* A bounded first-in first-out queue with several clients.  Enqueue and   *)
(* Dequeue take effect in one step each; the item a Dequeue removed        *)
(* reaches the client in a later Deliver step, since the client sees it    *)
(* only when its call returns.                                             *)
(***************************************************************************)
EXTENDS Naturals, Sequences

CONSTANTS Items, Clients, Bound, NULL

VARIABLES
  queue,     \* the items enqueued and not yet dequeued, oldest first
  taken,     \* the item each client dequeued and has not received yet
  received   \* items in the clients' hands

vars == <<queue, taken, received>>

Init ==
  /\ queue = <<>>
  /\ taken = [c \in Clients |-> NULL]
  /\ received = Items

Enqueue(x) ==
  /\ x \in received
  /\ Len(queue) < Bound
  /\ queue' = Append(queue, x)
  /\ received' = received \ {x}
  /\ UNCHANGED taken

Dequeue(c) ==
  /\ queue # <<>>
  /\ taken[c] = NULL
  /\ taken' = [taken EXCEPT ![c] = Head(queue)]
  /\ queue' = Tail(queue)
  /\ UNCHANGED received

Deliver(c) ==
  /\ taken[c] # NULL
  /\ received' = received \cup {taken[c]}
  /\ taken' = [taken EXCEPT ![c] = NULL]
  /\ UNCHANGED queue

Next ==
  \/ \E x \in Items : Enqueue(x)
  \/ \E c \in Clients : Dequeue(c) \/ Deliver(c)

Spec == Init /\ [][Next]_vars
=============================================================================
