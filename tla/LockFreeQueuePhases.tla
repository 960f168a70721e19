------------------------- MODULE LockFreeQueuePhases -------------------------
(***************************************************************************)
(* When is LockFreeQueue a queue?  When it is used in phases, as           *)
(* test_single_thread_fuzz uses it: any number of pushes, then pops until  *)
(* one has returned nullopt, then pushes again, with no operation in       *)
(* progress from one phase to the next.  Within a phase the threads run    *)
(* concurrently.  The variables here observe whether that is so; they      *)
(* change nothing in LockFreeQueue.                                        *)
(***************************************************************************)
EXTENDS LockFreeQueue

VARIABLES
  phase,   \* "fill", "drain", or "drained" once a pop has found it empty
  mixed    \* a push or pop was called out of its phase

phaseVars == <<vars, phase, mixed>>

PhasedInit == Init /\ phase = "fill" /\ mixed = FALSE

Quiet == At({"idle"}) = Threads

\* The phase that a push, or a pop, would run in.
PushPhase == {"fill"} \cup IF Quiet THEN {"drained"} ELSE {}
PopPhase  == {"drain", "drained"} \cup IF Quiet THEN {"fill"} ELSE {}

ObservePush(t) ==
  /\ PushCall(t)
  /\ mixed' = (mixed \/ phase \notin PushPhase)
  /\ phase' = "fill"

ObservePop(t) ==
  /\ PopCall(t) \/ ClearCall(t)
  /\ mixed' = (mixed \/ phase \notin PopPhase)
  /\ phase' = IF mixed' THEN "fill" ELSE IF phase = "fill" THEN "drain" ELSE phase

ObserveStep(t) ==
  /\ Step(t)
  /\ phase' = IF PopResetTail(t) /\ ~mixed THEN "drained" ELSE phase
  /\ UNCHANGED mixed

PhasedNext == \E t \in Threads : ObservePush(t) \/ ObservePop(t) \/ ObserveStep(t)

PhasedSpec == PhasedInit /\ [][PhasedNext]_phaseVars

-----------------------------------------------------------------------------
\* In phases no item is lost: whenever no operation is in progress, what was
\* pushed and not popped is in the queue.
NoItemLostInPhases == ~mixed => NoItemLost

\* And then size() is the number of items in the queue.
SizeIsLength == ~mixed /\ Quiet => size = Len(Queue)

Fifo == INSTANCE BoundedFifo WITH
  Clients  <- Threads,
  Bound    <- Cardinality(Items),
  queue    <- Queue,
  taken    <- Taken,
  received <- outside \cup destroyed \cup {new_node[t] : t \in At({"load_tail", "link"})}

\* Until the phases get mixed LockFreeQueue is a first-in first-out queue that
\* loses nothing, however the pushes of a phase, or its pops, overlap.
PhasedFifo ==
  Fifo!Init /\ [][mixed' \/ Fifo!Next \/ UNCHANGED Fifo!vars]_phaseVars
=============================================================================
