------------------------------ MODULE EventLoop ------------------------------
(***************************************************************************)
(* EventLoop of src/src/event_loop.cc, with the coroutines of              *)
(* basic_task.cc, the awaiters of awaitable.cc and the two parallel        *)
(* functions of executor.cc that run on it.                                *)
(*                                                                         *)
(* One thread runs the loop.  Its ring holds two kinds of coroutines:      *)
(* tasks just started, not owned by the ring, and the pollers              *)
(* (LoopAwaitable::__rec_wait), owned by the ring, that poll for a         *)
(* suspended task, resume it when its awaitable is ready and otherwise     *)
(* push a new poller.  A task that awaits another does not leave the       *)
(* thread: TaskAwaitable::await_suspend runs the loop itself, inside the   *)
(* task, until the awaited task is complete.  So the tasks that are in the *)
(* middle of a step are on the thread's stack, and only the topmost one    *)
(* can go on.  The loop has a single thread, so its ring is the            *)
(* first-in first-out queue of BoundedFifo.                                *)
(*                                                                         *)
(* Operators named Bug... are plausible mistakes in the definition that    *)
(* follows them; nothing uses them.                                        *)
(***************************************************************************)
EXTENDS TaskPrograms

CONSTANT Capacity   \* loop_capacity

ASSUME CapacityAssumption == Capacity \in Nat /\ Capacity >= 2

VARIABLES
  queue,   \* the ring: for whom an entry was pushed, and whether it is a poller
  stack,   \* the tasks that are running or run the loop, the topmost last
  due,     \* the tasks whose current sleep, or timeout, is over
  mutex,   \* the std::shared_mutex: "free", "locked", or "jammed" for ever
  ended    \* "no", or how main() ended

vars == <<program, pos, pushed, result, permits, held, spawned, queue, stack, due, mutex,
          ended>>

Entries == [task : Tasks, poller : BOOLEAN]
Endings == {"no", "returned", "terminated", "missing"}

Init ==
  /\ TaskInit
  /\ queue = <<>>
  /\ stack = <<Main>>
  /\ due = {}
  /\ mutex = "free"
  /\ ended = "no"

-----------------------------------------------------------------------------
(* The two states the topmost task of the stack can be in.                 *)

OnTop(t) == ended = "no" /\ t = Last(stack)

\* It executes its body...
Executing(t) == OnTop(t) /\ ~(Op(t) \in Joins /\ pushed[t] = Len(Kids(t)))

\* ...or runs the loop for the kids it has pushed.
InLoop(t) == OnTop(t) /\ Op(t) \in Joins /\ pushed[t] = Len(Kids(t))

\* EventLoop::push, and a push that can not store its entry: it spins, and
\* the thread that could make room is the one that spins.
Push(q, entry) == Len(q) < Capacity - 1 /\ queue' = Append(q, entry)

\* The clock reaches the deadline of a SleepPoller or TimedAwaiter.  A task
\* whose next step it is may find the deadline over at its first poll.
Expire(t) ==
  /\ ended = "no"
  /\ t \in Active /\ t \notin due
  /\ Op(t) \in Timed
  /\ due' = due \cup {t}
  /\ UNCHANGED <<taskVars, queue, stack, mutex, ended>>

-----------------------------------------------------------------------------
(* await_ready() of the awaiters.                                          *)

\* poll(): what the awaitable waits for is there.  Both lock pollers take the
\* mutex with try_lock().  (So does one whose own thread has locked it, which
\* the standard leaves undefined; a mutex of either library answers false.)
Poll(t) ==
  \/ Op(t) = "sleep" /\ t \in due
  \/ Op(t) \in Semas /\ permits > 0
  \/ Op(t) \in Locks /\ mutex = "free"

\* The semaphore or mutex is polled before the clock is read.
Ready(t) == Poll(t) \/ (Op(t) \in {"timed_acquire", "timed_lock"} /\ t \in due)

BugTake(t) == UNCHANGED <<permits, mutex, held>>

BugTakeUnpolled(t) ==
  /\ permits' = IF Op(t) \in Semas THEN permits - 1 ELSE permits
  /\ mutex' = IF Op(t) \in Locks THEN "locked" ELSE mutex
  /\ held' = [held EXCEPT ![t] = IF Op(t) \in Locks THEN Mode(Op(t)) ELSE @]

\* What a poll takes when it succeeds: a permit, the mutex, or nothing.
Take(t) ==
  /\ permits' = IF Op(t) \in Semas /\ Poll(t) THEN permits - 1 ELSE permits
  /\ mutex' = IF Op(t) \in Locks /\ Poll(t) THEN "locked" ELSE mutex
  /\ held' = [held EXCEPT ![t] = IF Op(t) \in Locks /\ Poll(t) THEN Mode(Op(t)) ELSE @]

\* The poll that finds t's awaitable ready takes what it has polled for, and
\* t is resumed behind its co_await.
PassReady(t) ==
  /\ Ready(t)
  /\ Take(t)
  /\ due' = due \ {t}
  /\ Advance(t)
  /\ UNCHANGED spawned

-----------------------------------------------------------------------------
(* Steps of the body of the topmost task.                                  *)

\* co_await of a poll awaitable that is ready at once: no suspension.
PollAtOnce(t) ==
  /\ Executing(t)
  /\ PassReady(t)
  /\ UNCHANGED <<queue, stack, ended>>

\* One that is not: LoopAwaitable::await_suspend pushes a poller, and the
\* thread returns to whoever resumed t.
PollSuspend(t) ==
  /\ Executing(t)
  /\ Op(t) \in Polls /\ ~Ready(t)
  /\ Push(queue, [task |-> t, poller |-> TRUE])
  /\ stack' = Front(stack)
  /\ UNCHANGED <<taskVars, due, mutex, ended>>

\* The semaphore's release().
Release(t) ==
  /\ Executing(t)
  /\ Op(t) = "release"
  /\ permits' = permits + 1
  /\ Advance(t)
  /\ UNCHANGED <<held, spawned, queue, stack, due, mutex, ended>>

BugDestroyLock(t) ==
  /\ held' = [held EXCEPT ![t] = "none"]
  /\ mutex' = IF held[t] = "shared" THEN "free" ELSE mutex

\* The destructor of t's lock calls unlock() or unlock_shared().  The second
\* undoes a lock that try_lock() took, which is undefined: glibc's frees the
\* mutex, libc++'s counts its readers down from 0 and no try_lock() succeeds
\* again.
DestroyLock(t) ==
  /\ held' = [held EXCEPT ![t] = "none"]
  /\ mutex' \in CASE held[t] = "none"   -> {mutex}
                  [] held[t] = "unique" -> {"free"}
                  [] held[t] = "shared" -> {"free", "jammed"}

Unlock(t) ==
  /\ Executing(t)
  /\ Op(t) = "unlock"
  /\ DestroyLock(t)
  /\ Advance(t)
  /\ UNCHANGED <<permits, spawned, queue, stack, due, ended>>

\* AsyncPush.  In a full ring it is not ready and would suspend t, but the
\* poller of a suspended task is itself pushed, and spins.
Spawn(t) ==
  /\ Executing(t)
  /\ Op(t) = "spawn"
  /\ Push(queue, [task |-> Kids(t)[1], poller |-> FALSE])
  /\ spawned' = spawned \cup ToSet(Kids(t))
  /\ Advance(t)
  /\ UNCHANGED <<permits, held, stack, due, mutex, ended>>

\* BasicTask::resume, by whoever holds the task: it runs above t, on t's stack,
\* until it is suspended.
Resume(t) ==
  /\ Executing(t)
  /\ Op(t) = "resume"
  /\ stack' = Append(stack, Kids(t)[1])
  /\ spawned' = spawned \cup ToSet(Kids(t))
  /\ Advance(t)
  /\ UNCHANGED <<permits, held, queue, due, mutex, ended>>

\* parallel and parallel_expected, and TaskAwaitable::await_suspend, push the
\* handles of the kids, one after the other.
PushKid(t) ==
  /\ Executing(t)
  /\ Op(t) \in Joins
  /\ Push(queue, [task |-> Kids(t)[pushed[t] + 1], poller |-> FALSE])
  /\ pushed' = [pushed EXCEPT ![t] = @ + 1]
  /\ UNCHANGED <<program, pos, result, permits, held, spawned, stack, due, mutex, ended>>

\* t stores its value or exception, its frame gives up the lock in it, and it
\* is suspended for good; from Main the program returns.
End(t, r) ==
  /\ result' = [result EXCEPT ![t] = r]
  /\ DestroyLock(t)
  /\ stack' = Front(stack)
  /\ ended' = IF t = Main THEN "returned" ELSE ended
  /\ UNCHANGED <<program, pos, pushed, permits, spawned, queue, due>>

Return(t) == Executing(t) /\ Op(t) = "return" /\ End(t, "value")
Throw(t)  == Executing(t) /\ Op(t) = "throw" /\ End(t, "error")

-----------------------------------------------------------------------------
(* run_one(), called by the loop of the topmost task: it pops the oldest   *)
(* entry and resumes it.  A poller resumed is destroyed when run_one()     *)
(* returns.                                                                *)

RunOne(t) ==
  /\ InLoop(t)
  /\ Op(t) = "await" => ~Complete(Kids(t)[1])
  /\ queue # <<>>

\* The entry is a task.
StartTask(t) ==
  /\ RunOne(t)
  /\ ~Head(queue).poller
  /\ queue' = Tail(queue)
  /\ stack' = Append(stack, Head(queue).task)
  /\ UNCHANGED <<taskVars, due, mutex, ended>>

\* It is a poller that finds its awaitable ready: it resumes the task.
ResumeTask(t) ==
  /\ RunOne(t)
  /\ Head(queue).poller
  /\ PassReady(Head(queue).task)
  /\ queue' = Tail(queue)
  /\ stack' = Append(stack, Head(queue).task)
  /\ UNCHANGED ended

BugPollAgainInFront(t) ==
  /\ RunOne(t)
  /\ Head(queue).poller /\ ~Ready(Head(queue).task)
  /\ UNCHANGED vars

BugPollAgainForgotten(t) ==
  /\ RunOne(t)
  /\ Head(queue).poller /\ ~Ready(Head(queue).task)
  /\ queue' = Tail(queue)
  /\ UNCHANGED <<taskVars, stack, due, mutex, ended>>

BugPollAgainTwice(t) ==
  /\ RunOne(t)
  /\ Head(queue).poller /\ ~Ready(Head(queue).task)
  /\ Push(queue, Head(queue))
  /\ UNCHANGED <<taskVars, stack, due, mutex, ended>>

\* It is a poller that does not: it sleeps and pushes the next one.
PollAgain(t) ==
  /\ RunOne(t)
  /\ Head(queue).poller /\ ~Ready(Head(queue).task)
  /\ Push(Tail(queue), Head(queue))
  /\ UNCHANGED <<taskVars, stack, due, mutex, ended>>

-----------------------------------------------------------------------------
(* The loop of the topmost task ends: await_suspend's when the kid is      *)
(* complete, and both kinds when run_one() finds the ring empty.           *)

BugLoopOverWithKids(t) ==
  /\ InLoop(t)
  /\ queue = <<>> \/ \A k \in ToSet(Kids(t)) : Complete(k)

LoopOver(t) ==
  /\ InLoop(t)
  /\ queue = <<>> \/ (Op(t) = "await" /\ Complete(Kids(t)[1]))

KidResults(t) == {result[k] : k \in ToSet(Kids(t))}

\* What goes wrong when they are read.  An incomplete task's value() reads an
\* empty optional, which is undefined, and its expected_value() throws
\* bad_optional_access.  value() rethrows an error: in parallel() its caller
\* gets it, but TaskAwaitable::await_resume is noexcept.
Fault(t) ==
  CASE "none" \in KidResults(t)                       -> "missing"
    [] KidResults(t) = {"error"} /\ Op(t) = "await"    -> "terminated"
    [] OTHER                                           -> "no"

Rethrows(t) == Op(t) = "parallel" /\ "error" \in KidResults(t)

TakeResults(t) ==
  /\ LoopOver(t)
  /\ Fault(t) = "no" /\ ~Rethrows(t)
  /\ Advance(t)
  /\ UNCHANGED <<permits, held, spawned, queue, stack, due, mutex, ended>>

Rethrow(t) ==
  /\ LoopOver(t)
  /\ Fault(t) = "no" /\ Rethrows(t)
  /\ End(t, "error")

Abort(t) ==
  /\ LoopOver(t)
  /\ Fault(t) # "no"
  /\ ended' = Fault(t)
  /\ UNCHANGED <<taskVars, queue, stack, due, mutex>>

Stop == ended # "no" /\ UNCHANGED vars

Step ==
  \E t \in Active :
    \/ PollAtOnce(t) \/ PollSuspend(t) \/ Release(t) \/ Unlock(t) \/ Spawn(t) \/ Resume(t)
    \/ PushKid(t) \/ Return(t) \/ Throw(t)
    \/ StartTask(t) \/ ResumeTask(t) \/ PollAgain(t)
    \/ TakeResults(t) \/ Rethrow(t) \/ Abort(t)

Next == Step \/ Stop \/ \E t \in Tasks : Expire(t)

Spec == Init /\ [][Next]_vars

\* The thread keeps running and the clock keeps going.
FairSpec == Spec /\ WF_vars(Step) /\ \A t \in Tasks : WF_vars(Expire(t))

-----------------------------------------------------------------------------
TypeOK ==
  /\ TaskTypeOK
  /\ queue \in Seq(Entries) /\ Len(queue) < Capacity
  /\ stack \in Seq(Tasks)
  /\ due \subseteq Tasks
  /\ mutex \in {"free", "locked", "jammed"}
  /\ ended \in Endings

\* Every task that was started and is not complete is in exactly one place,
\* the ring or the stack of the thread, so none is lost, resumed twice or
\* resumed while it runs; and the ring polls exactly for the suspended ones.
Places(t) ==
  Cardinality({i \in DOMAIN queue : queue[i].task = t})
    + Cardinality({i \in DOMAIN stack : stack[i] = t})

OneStrand ==
  /\ \A t \in Tasks : Places(t) = IF t \in Active THEN 1 ELSE 0
  /\ \A e \in ToSet(queue) : e.poller => Op(e.task) \in Polls

\* No push has to wait for room in the ring, where it would wait for its own
\* thread: LoopAwaitable's finds the room of the entry that was popped to
\* come there, if the tasks that can be suspended at once fit in the ring.
RoomToPush ==
  \A t \in Active :
    Executing(t) /\ Op(t) \in Polls \cup Joins \cup {"spawn"} => Len(queue) < Capacity - 1

\* await_resume() and the parallel functions never read a result before it
\* is there, though their loops also end when the ring is empty.
ResultReady == ended # "missing"

\* No task on the stack, buried or on top, waits for one below it, nor for one
\* that nobody will resume: each kid it has started is complete, in the ring or
\* above it.
KidsInReach ==
  \A i \in DOMAIN stack : \A k \in Started(stack[i]) :
    \/ Complete(k)
    \/ \E e \in ToSet(queue) : e.task = k
    \/ \E j \in DOMAIN stack : j > i /\ stack[j] = k

\* Whatever the order in which the loop runs them, tasks do what the
\* coroutines they are promise: they implement TaskTree.
Tree == INSTANCE TaskTree

TaskTreeSpec == Tree!Spec

\* The mutex is locked exactly while one task has a lock on it, whichever way
\* that task ends.  (No two readers share it: SharedLockPoller does not let
\* them, though std::shared_lock is for that.)
Holders == {t \in Tasks : held[t] # "none"}

LockAccounted == Cardinality(Holders) = IF mutex = "locked" THEN 1 ELSE 0

\* run_forever() ends for lack of entries only: when the program returns, every
\* task that was started has completed, the spawned ones that nobody awaits too.
NoneLeftBehind == ended = "returned" => Active = {}

\* The outermost loop ends: everything it runs gets its turn, is polled again
\* and completes, unless it polls a mutex jammed by unlock_shared().
Completes == <>(ended # "no" \/ mutex = "jammed")

\* A task that awaits a task gets its exception, as parallel()'s caller does.
ErrorReachesAwaiter == ended # "terminated"
=============================================================================
