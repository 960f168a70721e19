------------------------------ MODULE LossyFifo ------------------------------
(***************************************************************************)
(* A first-in first-out queue that may lose items: an enqueued item may    *)
(* never appear in it, and a dequeue may take everything behind its item   *)
(* away with it.  What it does not do is deliver an item twice or out of   *)
(* order.                                                                  *)
(***************************************************************************)
EXTENDS Naturals, Sequences, SequencesExt

CONSTANTS Items, Clients, NULL

VARIABLES
  queue,   \* the items in the queue, oldest first
  taken    \* the item each client dequeued and has not received yet

vars == <<queue, taken>>

Init == queue = <<>> /\ taken = [c \in Clients |-> NULL]

Enqueue(x) ==
  /\ ~Contains(queue, x)
  /\ \A c \in Clients : taken[c] # x
  /\ queue' = Append(queue, x)
  /\ UNCHANGED taken

Dequeue(c) ==
  /\ queue # <<>>
  /\ taken[c] = NULL
  /\ taken' = [taken EXCEPT ![c] = Head(queue)]
  /\ queue' \in {Tail(queue), <<>>}

Deliver(c) ==
  /\ taken[c] # NULL
  /\ taken' = [taken EXCEPT ![c] = NULL]
  /\ UNCHANGED queue

Next ==
  \/ \E x \in Items : Enqueue(x)
  \/ \E c \in Clients : Dequeue(c) \/ Deliver(c)

Spec == Init /\ [][Next]_vars
=============================================================================
