------------------------------ MODULE TaskTree ------------------------------
(***************************************************************************)
(* What coroutines promise whoever writes one, wherever they run: a task   *)
(* starts when its parent awaits it, goes through its body step by step,   *)
(* is past an acquire only with a permit and past a lock only with the     *)
(* mutex, which it gives back at the end of its body at the latest, is     *)
(* past an await only once the kid has a value, and gets the error of a    *)
(* kid that failed.  Shared locks may be held together.  Every task that   *)
(* can take a step may take it, in any order.                              *)
(***************************************************************************)
EXTENDS TaskPrograms

Init == TaskInit

Sleep(t) == Op(t) = "sleep" /\ Advance(t) /\ UNCHANGED <<permits, held, spawned>>

Acquire(t) ==
  /\ Op(t) \in Semas
  /\ permits > 0
  /\ permits' = permits - 1
  /\ Advance(t)
  /\ UNCHANGED <<held, spawned>>

Compatible(mode) == {"none"} \cup (IF mode = "shared" THEN {"shared"} ELSE {})

Lock(t) ==
  /\ Op(t) \in Locks
  /\ \A u \in Tasks : held[u] \in Compatible(Mode(Op(t)))
  /\ held' = [held EXCEPT ![t] = Mode(Op(t))]
  /\ Advance(t)
  /\ UNCHANGED <<permits, spawned>>

GiveUp(t) ==
  /\ Op(t) \in {"timed_acquire", "timed_lock"}
  /\ Advance(t)
  /\ UNCHANGED <<permits, held, spawned>>

Release(t) ==
  /\ Op(t) = "release"
  /\ permits' = permits + 1
  /\ Advance(t)
  /\ UNCHANGED <<held, spawned>>

Unlock(t) ==
  /\ Op(t) = "unlock"
  /\ held' = [held EXCEPT ![t] = "none"]
  /\ Advance(t)
  /\ UNCHANGED <<permits, spawned>>

Spawn(t) ==
  /\ Op(t) \in Starts
  /\ spawned' = spawned \cup ToSet(Kids(t))
  /\ Advance(t)
  /\ UNCHANGED <<permits, held>>

StartKid(t) ==
  /\ Op(t) \in Joins
  /\ pushed[t] < Len(Kids(t))
  /\ pushed' = [pushed EXCEPT ![t] = @ + 1]
  /\ UNCHANGED <<program, pos, result, permits, held, spawned>>

End(t, r) ==
  /\ result' = [result EXCEPT ![t] = r]
  /\ held' = [held EXCEPT ![t] = "none"]
  /\ UNCHANGED <<program, pos, pushed, permits, spawned>>

Joined(t) ==
  Op(t) \in Joins /\ pushed[t] = Len(Kids(t)) /\ \A k \in ToSet(Kids(t)) : Complete(k)

Failed(t) == \E k \in ToSet(Kids(t)) : result[k] = "error"

Join(t) ==
  /\ Joined(t)
  /\ Op(t) = "parallel_expected" \/ ~Failed(t)
  /\ Advance(t)
  /\ UNCHANGED <<permits, held, spawned>>

JoinFailed(t) == Joined(t) /\ Op(t) # "parallel_expected" /\ Failed(t) /\ End(t, "error")

Return(t) == Op(t) = "return" /\ End(t, "value")
Throw(t)  == Op(t) = "throw" /\ End(t, "error")

Next ==
  \E t \in Active :
    \/ Sleep(t) \/ Acquire(t) \/ Lock(t) \/ GiveUp(t) \/ Release(t) \/ Unlock(t)
    \/ Spawn(t) \/ StartKid(t) \/ Join(t) \/ JoinFailed(t) \/ Return(t) \/ Throw(t)

Spec == Init /\ [][Next]_taskVars
=============================================================================
