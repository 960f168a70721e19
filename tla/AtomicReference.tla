--------------------------- MODULE AtomicReference ---------------------------
(***************************************************************************)
(* What std::atomic<SharedPtr<T>> promises: one cell.  Each operation      *)
(* takes effect in one step between its call and its return, with the      *)
(* arguments of the call, and answers with the value the cell had in that  *)
(* step.  A compare_exchange stores if that value is the expected one, and *)
(* only then.                                                              *)
(***************************************************************************)
CONSTANTS Clients, Values, NONE

Requests ==
  [op : {"load"}]
    \cup [op : {"store", "exchange"}, desired : Values]
    \cup [op : {"compare"}, expected : Values, desired : Values]

VARIABLES
  value,     \* what the cell holds
  request,   \* what each client has asked for, NONE once it has taken effect
  answer     \* what each client's operation saw, NONE before that and after

vars == <<value, request, answer>>

Init ==
  /\ value \in Values
  /\ request = [c \in Clients |-> NONE]
  /\ answer = [c \in Clients |-> NONE]

Call(c, r) ==
  /\ request[c] = NONE /\ answer[c] = NONE
  /\ request' = [request EXCEPT ![c] = r]
  /\ UNCHANGED <<value, answer>>

\* r takes effect and leaves x in the cell.
TakeEffect(c, r, x) ==
  /\ request[c] = r
  /\ request' = [request EXCEPT ![c] = NONE]
  /\ answer' = [answer EXCEPT ![c] = value]
  /\ value' = x

Load(c) == TakeEffect(c, [op |-> "load"], value)

Exchange(c, op, x) == TakeEffect(c, [op |-> op, desired |-> x], x)

Compare(c, e, x) ==
  TakeEffect(c, [op |-> "compare", expected |-> e, desired |-> x],
             IF value = e THEN x ELSE value)

Return(c) ==
  /\ answer[c] # NONE
  /\ answer' = [answer EXCEPT ![c] = NONE]
  /\ UNCHANGED <<value, request>>

Next ==
  \E c \in Clients :
    \/ \E r \in Requests : Call(c, r)
    \/ Load(c)
    \/ \E op \in {"store", "exchange"}, x \in Values : Exchange(c, op, x)
    \/ \E e, x \in Values : Compare(c, e, x)
    \/ Return(c)

Spec == Init /\ [][Next]_vars
=============================================================================
