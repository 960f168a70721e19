---------------------------- MODULE RingbufOrder ----------------------------
(***************************************************************************)
(* When is RingbufQueue first-in first-out?  History variables record for  *)
(* which item each node was reserved and which reservation each pop        *)
(* claimed; they observe RingbufQueue and change nothing in it.            *)
(*                                                                         *)
(* The counter hands out reservations and claims in order.  A pop returns  *)
(* the item it claimed unless some pop claimed a node whose push had       *)
(* advanced the counter and not yet stored.  Such an `early' claim returns *)
(* nullopt and leaves the item of that node behind, for a later lap.       *)
(***************************************************************************)
EXTENDS RingbufQueue, Sequences

VARIABLES
  reserved,  \* the item each node is reserved for, NULL when there is none
  claim,     \* the item whose reservation a pop in progress has claimed
  early      \* some pop has claimed a node before its item was stored

orderVars == <<reserved, claim, early>>

OrderInit ==
  /\ Init
  /\ reserved = [i \in Index |-> NULL]
  /\ claim = [t \in Threads |-> NULL]
  /\ early = FALSE

ObserveReserve(t) ==
  /\ PushReserve(t) \/ TryPushReserve(t)
  /\ reserved' = [reserved EXCEPT ![e_point[t].push] = hand[t]]
  /\ UNCHANGED <<claim, early>>

ObserveClaim(t) ==
  LET i == e_point[t].pop IN
  /\ PopClaim(t)
  /\ claim' = [claim EXCEPT ![t] = reserved[i]]
  /\ reserved' = [reserved EXCEPT ![i] = NULL]
  /\ early' = (early \/ slots[i] # reserved[i])

ObserveLoad(t) ==
  /\ Load(t)
  /\ claim' = [claim EXCEPT ![t] = NULL]
  /\ UNCHANGED <<reserved, early>>

ObserveOther(t) ==
  /\ \/ t \in Producers /\ ( \/ PushCall(t) \/ TryPushCall(t)
                             \/ PushRetry(t) \/ TryPushRetry(t)
                             \/ TryPushRefused(t) \/ BlockingStore(t) )
     \/ t \in Consumers /\ (PopCall(t) \/ PopRetry(t) \/ PopEmpty(t))
  /\ UNCHANGED orderVars

OrderNext ==
  \/ \E t \in Producers : ObserveReserve(t)
  \/ \E t \in Consumers : ObserveClaim(t) \/ ObserveLoad(t)
  \/ \E t \in Threads : ObserveOther(t)
  \/ Destroy /\ UNCHANGED orderVars

OrderSpec == OrderInit /\ [][OrderNext]_<<vars, orderVars>>

-----------------------------------------------------------------------------
\* As long as no claim was early, each pop between its claim and its load finds
\* in the node exactly the item it claimed, however many laps other threads
\* make around the ring in between.
ClaimDelivered ==
  ~early => \A t \in Threads :
    pc[t] = "load" => claim[t] # NULL /\ slots[e_point[t].pop] = claim[t]

\* The reservations, oldest first.
Reservations ==
  [k \in 1 .. (counter.push - counter.pop) % Capacity |->
     reserved[(counter.pop + k - 1) % Capacity]]

\* A push or pop whose counter swap is still to come holds its item outside.
Fifo == INSTANCE BoundedFifo WITH
  Clients  <- Threads,
  Bound    <- Capacity - 1,
  queue    <- Reservations,
  taken    <- claim,
  received <- outside \cup {hand[t] : t \in {u \in Threads :
                               pc[u] \in {"push", "try_push"}}}

\* Up to the first early claim the ring is a first-in first-out queue of
\* capacity() - 1 items, for any number of threads; a thread alone makes none.
PatientFifo ==
  Fifo!Init /\ [][early' \/ Fifo!Next \/ UNCHANGED Fifo!vars]_<<vars, orderVars>>

\* Only overlapping operations make a claim early: the item of a reservation is
\* in its node or in the hand of a push that is about to store it there, so
\* that a pop that runs while no push does finds it.
ReservationKept ==
  ~early /\ (\A t \in Threads : pc[t] # "destroyed") =>
    \A i \in Index : reserved[i] # NULL =>
      \/ slots[i] = reserved[i]
      \/ \E t \in Storing(i) : hand[t] = reserved[i]

\* Until the first early claim a push waits only for pops that are under way: a
\* node that still holds an item when the next push for it comes has been
\* claimed, and the pop between its claim and its load is about to empty it.
PushWaitsForLoad ==
  ~early => \A t \in Threads :
    LET i == e_point[t].push IN
    pc[t] = "store" /\ slots[i] # NULL => Loading(i) # {}
=============================================================================
