------------------------------ MODULE ItemPool ------------------------------
(***************************************************************************)
(* What RingbufQueue promises its clients under every interleaving: an     *)
(* unordered pool.  An item enters once, leaves at most once, to the       *)
(* client or to the deleter, and only an item that entered leaves.  The    *)
(* pool promises neither an order nor that a take finds what is there.     *)
(***************************************************************************)
CONSTANT Items
VARIABLES outside, inside, destroyed

vars == <<outside, inside, destroyed>>

Init == outside = Items /\ inside = {} /\ destroyed = {}

Put(x) ==
  /\ x \in outside
  /\ outside' = outside \ {x}
  /\ inside' = inside \cup {x}
  /\ UNCHANGED destroyed

Take(x) ==
  /\ x \in inside
  /\ inside' = inside \ {x}
  /\ outside' = outside \cup {x}
  /\ UNCHANGED destroyed

\* Nothing stays behind when the pool goes.
Drop ==
  /\ destroyed' = destroyed \cup inside
  /\ inside' = {}
  /\ UNCHANGED outside

Next == Drop \/ \E x \in Items : Put(x) \/ Take(x)

Spec == Init /\ [][Next]_vars
=============================================================================
