---------------------------- MODULE TaskPrograms ----------------------------
(***************************************************************************)
(* What tasks do, and how far each has come.  A task is a coroutine; its   *)
(* body is abstracted to the steps an event loop can tell apart:           *)
(*   sleep, acquire, lock, lock_shared                                     *)
(*                      co_await a poll awaitable in an InfiniteAwaiter: a *)
(*                      SleepPoller, a SemaAcquirePoller over a shared     *)
(*                      semaphore, a LockPoller or a SharedLockPoller over *)
(*                      a shared mutex                                     *)
(*   timed_acquire, timed_lock                                             *)
(*                      the semaphore and the mutex in a TimedAwaiter      *)
(*   release, unlock    give the semaphore a permit, destroy the lock that *)
(*                      the poller returned                                *)
(*   spawn              co_await loop->apush(kid.raw_coro(), false)        *)
(*   resume             kid.resume(), by hand                              *)
(*   await              co_await kid.as_awaitable()                        *)
(*   parallel, parallel_expected                                           *)
(*                      the two functions of executor.cc, on all the kids  *)
(*   throw              let an exception escape                            *)
(* and, at the end of the body, return.  A lock lives in the frame of its  *)
(* task, which destroys it when the body ends, if not before.  Main is no  *)
(* coroutine but the function that calls parallel() or parallel_expected().*)
(***************************************************************************)
EXTENDS Integers, Sequences, FiniteSets, SequencesExt

CONSTANTS Tasks, Main, Programs, Permits

Semas   == {"acquire", "timed_acquire"}
Locks   == {"lock", "lock_shared", "timed_lock"}
Timed   == {"sleep", "timed_acquire", "timed_lock"}
Polls   == {"sleep"} \cup Semas \cup Locks
Joins   == {"await", "parallel", "parallel_expected"}
Starts  == {"spawn", "resume"}
Results == {"none", "value", "error"}

\* The lock that a poller of Locks returns.
Mode(op) == IF op = "lock_shared" THEN "shared" ELSE "unique"

Ops  == Polls \cup Joins \cup Starts \cup {"release", "unlock", "throw"}
Body == Seq([op : Ops, kids : Seq(Tasks)])

\* Main, being no coroutine, can not co_await.
ASSUME TaskAssumption ==
  /\ Main \in Tasks
  /\ Permits \in Nat
  /\ \A p \in Programs, t \in Tasks :
       /\ p[t] \in Body
       /\ \A i \in DOMAIN p[t] :
            /\ (p[t][i].op \in Joins \cup Starts) = (p[t][i].kids # <<>>)
            /\ p[t][i].op \in Starts \cup {"await"} => Len(p[t][i].kids) = 1
            /\ p[t][i].op \in Polls \cup {"await", "spawn"} => t # Main

\* A BasicTask is started once, by the one that holds it.
ASSUME KidAssumption ==
  \A p \in Programs, t, u \in Tasks :
    \A i \in DOMAIN p[t], j \in DOMAIN p[u] :
      \A m \in DOMAIN p[t][i].kids, n \in DOMAIN p[u][j].kids :
        /\ p[t][i].kids[m] # Main
        /\ p[t][i].kids[m] = p[u][j].kids[n] => t = u /\ i = j /\ m = n

VARIABLES
  program,   \* the body of each task
  pos,       \* the step of its body each task is at
  pushed,    \* how many kids of that step it has given to the event loop
  result,    \* the __v of each task's PromiseState: nothing, a value, an error
  permits,   \* the count of the semaphore
  held,      \* the lock each task has on the mutex: none, unique or shared
  spawned    \* the tasks that have been started by a spawn or resumed by hand

taskVars == <<program, pos, pushed, result, permits, held, spawned>>

Op(t)   == IF pos[t] <= Len(program[t]) THEN program[t][pos[t]].op ELSE "return"
Kids(t) == program[t][pos[t]].kids

Complete(t) == result[t] # "none"

\* The kids of t's step that have been started.
Started(t) == IF Op(t) \in Joins THEN ToSet(SubSeq(Kids(t), 1, pushed[t])) ELSE {}

\* The tasks started and not complete.
Active ==
  {t \in Tasks : /\ ~Complete(t)
                 /\ t = Main \/ t \in spawned \/ \E p \in Tasks : ~Complete(p) /\ t \in Started(p)}

TaskInit ==
  /\ program \in Programs
  /\ pos = [t \in Tasks |-> 1]
  /\ pushed = [t \in Tasks |-> 0]
  /\ result = [t \in Tasks |-> "none"]
  /\ permits = Permits
  /\ held = [t \in Tasks |-> "none"]
  /\ spawned = {}

\* t goes on to the next step of its body.
Advance(t) ==
  /\ pos' = [pos EXCEPT ![t] = @ + 1]
  /\ pushed' = [pushed EXCEPT ![t] = 0]
  /\ UNCHANGED <<program, result>>

TaskTypeOK ==
  /\ \A t \in Tasks : pos[t] \in 1..Len(program[t]) + 1
  /\ \A t \in Tasks : pushed[t] \in 0..IF Op(t) \in Joins THEN Len(Kids(t)) ELSE 0
  /\ result \in [Tasks -> Results]
  /\ permits \in Nat
  /\ held \in [Tasks -> {"none", "unique", "shared"}]
  /\ spawned \subseteq Tasks
=============================================================================
