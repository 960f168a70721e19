# Verification of jowi-asio

TLA+ models of jowi-asio, a C++ library of lock-free containers and of coroutine
tasks that run on an event loop, with the TLC runs that check them and the
theorems TLAPS proves about them. `PROJECT.json` lists the runs, the mutants that
each property detects, the source lines of every definition, the hazards, the
findings and the theorems.

All paths below are relative to the repository root, `src/`.

## 1. The system

| Component | Source | State it keeps | Operations |
|---|---|---|---|
| `RingbufQueue` | `src/lockfree/ringbuf_queue.cc` | `__nodes`, a vector of atomic pointers; `__counter`, one word with the push and the pop index | `push`, `try_push`, `pop`, destructor |
| `std::atomic<SharedPtr>` | `src/lockfree/shared_ptr.cc` | one word: a pointer and a 16-bit tag (the deferred count); a reference count per object | `load`, `store`, `exchange`, `compare_exchange_*` |
| `LockFreeQueue` | `src/lockfree/lockfree_queue.cc` | `__head`, `__tail` and the `next` of each node, all `atomic<SharedPtr>`; `__size` | `push`, `pop`, `clear`, `size` |
| `TaggedPtr`, `BitTuple` | `src/lockfree/tagged_ptr.cc`, `bit_tuple.cc` | one 64-bit word | atomic read, write, exchange, `exchange_tag` |
| `EventLoop` | `src/event_loop.cc` | a `RingbufQueue` of coroutine handles, a static registry of loops by thread | `push`, `apush`, `run_one`, `run_forever`, registry functions |
| `BasicTask`, `TaskAwaitable`, `LoopAwaitable` | `src/basic_task.cc` | the coroutine frame and its promise; a poller coroutine per suspended task | `co_await`, `as_awaitable`, `value`, completion |
| `PromiseState`, `TaskError` | `src/task.cc` | a completion flag and an optional expected value | `emplace`, `capture_exception`, `value`, `expected_value` |
| `InfiniteAwaiter`, `TimedAwaiter` | `src/awaitable.cc` | a poller, its last answer, a deadline | `await_ready`, `await_suspend`, `await_resume` |
| Pollers | `src/awaitables.cc` | a reference to a mutex or semaphore, or a time | `poll`, `poll_block` |
| `parallel`, `parallel_expected` | `src/executor.cc:111-146` | none | push all tasks, run the loop until it is empty, read the results |
| `PoolExecutor`, `PoolWorker` | `src/executor.cc:11-106` | a thread and a word with two flags for each worker | construction, `start`, `stop`, destruction, the thread function |

**How they interact.** A `LockFreeQueue` is made of `atomic<SharedPtr>`s, which are
made of atomic `TaggedPtr`s. A `RingbufQueue` uses an atomic `BitTuple` for its
counter and atomic `TaggedPtr`s for its nodes. The ring of an `EventLoop` is a
`RingbufQueue`. Tasks call their loop from inside: awaiting a poll awaitable
pushes a poller coroutine, awaiting a task pushes the task and *runs the loop
again on the same stack*. Pollers resume tasks by a direct call. A `PoolExecutor`
shares one loop among its threads. The parts share state through single atomic
words; there is no lock in the library.

**What is hard.** In the containers: several threads between two atomic steps of
their operations, values computed from an exchange that failed, indexes that go
around, addresses that are reused. In the tasks: which task is on whose stack, who
still holds the handle of a suspended coroutine, results that are read when a loop
ends for another reason than completion, a ring whose only consumer may be the
thread that pushes. In the pool: threads that read a word while it is being
constructed, and two flags that are read as "start", "stop" and "running" by
different functions.

**What makes each part correct.** Ring and queue: no item is lost, duplicated or
out of order, and no operation blocks for ever. `atomic<SharedPtr>`: every access
is linearizable, counts are exact, nothing dangles. Loop and tasks: a started task
is in exactly one place until it is complete, nobody reads a result that is not
there, every task completes, errors reach the awaiter. Pool: workers run after
`start()` and stop after `stop()`, and the destructor returns.

## 2. The modules

A definition whose name starts with `Bug` is the definition that follows it with a
plausible mistake. No other definition uses it; putting it in the place of the
correct one must violate the property that `PROJECT.json` pairs it with.

### Ring: `RingbufQueue`, `RingbufOrder`, `ItemPool`, `BoundedFifo`

`RingbufQueue.tla` has one atomic step per atomic access: a call, each exchange of
`__counter` (`PushReserve`, `PopClaim`, the retries, the refusals), and the access to
the node that comes after it (`BlockingStore`, `Load`). `e_point` and `d_point` are
the locals `e` and `d` of the loops, `hand` the argument of a push. A weak exchange
may fail for no reason. `blocking_store` is enabled only on a null node: its failed
rounds change nothing. `Destroy` is the destructor, when no operation is in progress.

`ItemPool` is the abstract specification that the ring meets always: an unordered
pool that neither loses nor duplicates. `RingbufOrder` adds history variables (which
item a node was reserved for, which a pop has claimed) to say when the ring is more
than that: until a pop has claimed a node whose item is not stored yet (`early`), it
is the first-in first-out queue `BoundedFifo` with `Capacity - 1` places, and a push
waits only for a pop that has already claimed its node (`PushWaitsForLoad`).
`PushServed` is what a single producer can rely on after that, too.
Proofs: `RingbufQueueProofs`, `RingbufOrderProofs`.

### `TaggedPtr`, `AtomicSharedPtr` and `AtomicReference`

`TaggedPtr` packs a pointer and a tag into one number: `FromPair` is `from_pair` with
its shifts and masks (a pointer or tag too wide loses bits), `RawPtr` and `RawTag` read
it. `PtrMod` stands for 2^48 and `TagMod` for 2^16.

In `AtomicSharedPtr` the word is `cell`, such a number, and the reference counts are
`rcount`. `load()` is three steps (raise the tag, add the reference, lower the tag) and
so is a failed `compare_exchange`; `exchange`, `store` and a successful
`compare_exchange` are one step that needs tag 0. A loop whose failed rounds change
only its own locals is the round that succeeds. `owns` names the `SharedPtr`s in the
frames of the client and of the operation, whose destructors drop their references.
Addresses are reused after deletion. `AtomicReference` is the abstract specification, a
cell: a client calls with a `request` and its arguments, the request takes effect in one
step, and its `answer` is what the cell held in that step; `Compare` stores if that is the
expected value and only then. `Linearizable` maps the requests to the operations that have
not yet raised the tag or swapped the word (`Request`), and the answers to the locals of
those that have (`Answer`).
Proofs: `AtomicSharedPtrProofs`.

### `LockFreeQueue`, `LockFreeQueuePhases`, `LossyFifo`

Each atomic load, store and exchange of `__head`, `__tail` or a `next` is a step; that
those are atomic is what `AtomicSharedPtr` shows. `Queue` is the list that starts at
`__head` (`IsList`); `Alive` is the least set of nodes closed under `next` that holds
what the members and the locals point to: only a node outside of it is made anew.
`LossyFifo` is what the queue
promises under every interleaving: an item may vanish, but none is delivered twice
or out of order. `LossesExplained` names the two steps that make one vanish: a link
behind a node that has left the list (`StaleLink`), and an exchange of `__head.next` by
a pop that read the next pointer before a push linked there (`StaleSwap`). `NoCycle`
says that wherever stale pushes link, the nodes never form a circle, on which the
counted references and the walk of `push` rely. `LockFreeQueuePhases` observes whether pushes and pops come in
separate phases; as long as they do, the queue is `BoundedFifo` and loses nothing.
Proofs: `LockFreeQueueProofs`, `LockFreeQueuePhasesProofs`.

### Tasks: `TaskPrograms`, `TaskTree`, `EventLoop`

A coroutine's body is abstracted to the steps a loop can tell apart (`TaskPrograms`):

| Step | Code |
|---|---|
| `sleep`, `acquire`, `lock`, `lock_shared` | a `SleepPoller`, `SemaAcquirePoller`, `LockPoller` or `SharedLockPoller` in an `InfiniteAwaiter` |
| `timed_acquire`, `timed_lock` | the same semaphore or mutex in a `TimedAwaiter` |
| `release`, `unlock` | `release()` of the semaphore; the destructor of the lock a poller returned |
| `await` | `co_await kid.as_awaitable()` |
| `spawn` | `co_await loop->apush(kid.raw_coro(), false)` |
| `resume` | `kid.resume()` by hand, above the resumer on its stack |
| `parallel`, `parallel_expected` | the functions of `executor.cc` |
| `throw`, and `return` at the end | the two ways a promise gets its result |

A lock lives in the frame of its task (`held`), so that returning or throwing gives it
back. `TaskTree` is what coroutines promise anyone who writes one: every task that is
able to take a step may take it, and shared locks may be held together. `EventLoop` is
what the code does: one thread with a `stack` of tasks, of which only the topmost
executes, and a `queue` whose entries are tasks just started or pollers. `RunOne` is
`run_one()`; its three continuations are a started task, a poller that resumes, and a
poller that is replaced. `LoopOver` is the condition on which `await_suspend` or
`run_forever` leaves its loop, and `Fault` what reading the results can then do: an
empty optional ("missing"), or an exception in the noexcept `await_resume`
("terminated").

The `mutex` is free, locked, or jammed. `SharedLockPoller` locks it exclusively and its
`std::shared_lock` undoes that with `unlock_shared()`, which the standard leaves
undefined: the model takes what glibc's mutex does (it is free again) and what libc++'s
does (its count of readers goes below zero and no `try_lock` succeeds again).

The ring is a plain queue here. One thread runs the loop, and the ring of one thread is
`BoundedFifo` without any condition (`SequentialFifo` of `RingbufOrderProofs`). A push on a
full ring is a step that is never enabled: the spinning thread is the only one that
could make room. Proofs: `EventLoopProofs`.

### `PoolExecutor`

`main` makes executors one after another. For each it constructs the workers (the thread
first, then its word, then the registration, as the member order has it), starts them,
and destroys them; `thread_work` is `Wait`, `RequireLoop`, `Run`, `Exit`. What the loop
runs is left out. `Garbage` is what the memory of a word may hold before the word is
constructed, and `early` are the threads that have read it then. `registry` is
`EventLoop::__local_loop`, from thread ids to loops; entries stay when a thread has
ended, and a later thread may get its id. The map has no lock: a look-up while `main`
inserts may find nothing. Workers are destroyed in the order of the vector, as
libstdc++ does it; since each destruction waits for its own thread only, the order makes
no difference here. Proofs: `PoolExecutorProofs`.

## 3. The runs

| Run | Instance | What it shows |
|---|---|---|
| `ringbuf` | 3 threads that push, try_push and pop, 3 items, 3 nodes; 50 457 states, by symmetry | indexes in range, one owner per item, reservations backed, claims delivered, ring = pool, ring = FIFO until an early claim, until which a push waits only for a pop under way |
| `ringbuf_spsc` | 1 producer, 1 polling consumer, 4 items, 3 nodes; 15 947 | with one producer every push returns, and the node it waits for has been or will be claimed |
| `ringbuf_mpsc_stuck` | 2 producers, 1 polling consumer, 2 nodes | **finding**: a push can block for ever |
| `ringbuf_size_one` | 1 thread, 1 node | **finding**: the second push stores past the end of the vector |
| `atomic_shared_ptr` | 2 threads, 2 addresses that are reused, packed words; 147 497 | exact counts, nothing dangles, linearizable (a compare_exchange swaps exactly if the word holds the expected pointer), operations return once no more are called |
| `lockfree_queue` | 3 threads, 3 items; 752 400, by symmetry | lossy FIFO always, items lost in two ways only, no circle of nodes, FIFO in phases, `size()` accounts |
| `lockfree_queue_sequential` | 1 thread, 3 items | **finding**: push, pop, push loses an item |
| `event_loop` | 568 programs of 4 tasks and main, ring of 4; 58 427 | one place per task, room for each push, no missing result, no task that waits for one below it on the stack, locks accounted for, nobody left behind, tasks do what `TaskTree` allows, the loop ends |
| `event_loop_buried` | 1 program | **finding**: crossed awaits block each other |
| `event_loop_throw` | 1 program | **finding**: awaiting a task that throws terminates |
| `pool_executor` | 2 pools of 2 workers, 3 ids, any memory; 38 971 | only an early reader misses its loop, only an old id gets an old loop, no word is destroyed before its thread ends |
| `pool_destructor` | 2 workers | **finding**: the destructor of a pool never returns |

**Bounds, and why they are enough.**
- *Ring*: three threads let two overlap while a third overtakes both. Three nodes are
  the smallest ring in which "full", "empty" and "one item" differ. Items can be pushed
  again after a pop, so indexes go around any number of times: there is no bound on
  the length of a behaviour.
- *Shared pointer*: two threads let a load, store or exchange of one fall between any two
  steps of the other; two addresses let the word change between different objects and
  come back to an address that is another object by then. They are the highest that
  `PtrMod = 4` has room for. `TagMod = 3` exceeds the number of threads, as 2^16 does
  (`TagAssumption`); the wrap with 65 536 threads in one load is excluded by assumption.
  What more threads and addresses could do is left to the proofs, which cover any number
  of them.
- *Queue*: three threads, three items and the sentinel `head`; items are pushed again,
  `SizeMod = 8` stands for 2^64 and wraps.
- *Programs*: `MCEventLoop` takes one root with up to two kids beside a root that
  releases permits (`Fans`), a root, its kid and the kid's kid (`Chains`), two roots that
  both await (`Crossings`, whose kids wait for the clock only), roots and a spawned task
  that lock, unlock, throw or return with the lock (`Guards`), a root that keeps a lock
  while it awaits (`Holdings`), and a task resumed by hand that suspends, awaits, throws
  or returns at once (`ByHand`). The ring has three usable places, the number of tasks
  that can be suspended at once, so it does get full. All programs have a permit for
  every acquire: one without would rightly wait for ever.
- *Pool*: two workers, so that one is constructed while the other already runs; two
  executors over three ids, so that a worker of the second can have an old id or a new
  one; all four values of the word as garbage.

**Fairness.** Ring: a thread inside an operation keeps running, a weak exchange does
not fail spuriously for ever, a consumer polls (`run_forever` and `thread_work` do);
nobody has to push. Shared pointer: a thread inside an operation keeps running. Loop:
the thread keeps running and each deadline comes (`steady_clock` never stops). Pool, in
`pool_destructor`: every thread is scheduled; nothing forces the executor out of scope.
These are the promises of any operating system scheduler; no strong fairness is used.
`Completes` allows for a jammed mutex, which every later lock polls in vain. The queue
has safety properties only, and so has `pool_executor`, since what it would have to show
of liveness is what `pool_destructor` refutes.

**Deadlock** is checked in `atomic_shared_ptr`, `lockfree_queue` and the event loop runs.
It is off for the ring, where a blocked push is a real stop and `PushReturns` is the
property about it, and for the pool, which stops when the last executor is gone or an
exception has left a thread.

## 4. Findings

1. `push()` of the ring can block for ever once an early pop has left its item behind
   (`ringbuf_mpsc_stuck`), against the comment at `ringbuf_queue.cc:120`.
2. A ring of size 1, which the tests use, stores out of range (`ringbuf_size_one`).
3. `LockFreeQueue`: a push after the queue has been emptied by a pop is lost
   (`lockfree_queue_sequential`). The tests push everything before they pop.
4. Tasks that await in a crossed order never go on (`event_loop_buried`), because a
   nested loop holds the tasks below it on the stack.
5. An awaited task that throws ends the program (`event_loop_throw`):
   `TaskAwaitable::await_resume` is noexcept.
6. The destructor of a `PoolExecutor` never returns, and until then its workers run nothing,
   apart from one that read its word before it was constructed (`pool_destructor`): the
   exchange loops of `start()` and `stop()` lack a `!`, and `{true, true}` means "run" to
   the second loop of `thread_work`.

A run shows each of them in one small instance. For each of them a theorem says, for every
instance, how far the failure goes or what use of the code is free of it:

1. `EarlyOnlyByOverlapCorrect`: only a pop that claims a node between the reservation and
   the store of a push starts it. `PushWaitsForLoadCorrect`: until then a push waits only for
   a pop that needs one more step. `PushServedCorrect`: a ring with one producer is free of
   it. `SequentialFifo`: so is a ring of one thread.
2. `IndexSafe`: every ring of two or more nodes is free of it.
3. `LossesExplainedCorrect`: a link behind a node that has left the list, as in the run, is
   one of the two ways in which an item is lost. `NoItemLostInPhasesCorrect`: while pushes
   and pops come in phases, none is.
4. `BuriedWaitCorrect`: a task is stopped only inside an await, a `parallel()` or a `resume()`
   of its own. `NoneBuriedCorrect`: where only main waits, no task is stopped by another.
5. `ErrorReachesAwaiterCorrect`: if no task is awaited that throws, or calls `parallel()` on
   one that may fail, no exception ends the program.
6. `WaitsForDestructorCorrect`: a worker that found its word constructed waits until the
   destructor stores to that word, whatever `start()` and `stop()` do in between.
   `JoinsOnlyEarlyCorrect`: the destructor gets past a worker only if that worker read its
   word before it was there.

## 5. Proofs

Each proof module holds for every value of the constants that meets the named
assumptions of the module it extends (`CapacityAssumption`, `NullAssumption`,
`WordAssumption`, `TagAssumption`, `BlockAssumption`, `PoolAssumption`, `TaskAssumption`,
`KidAssumption`) and what the theorem itself assumes.

| Module | Theorems | Also assumed |
|---|---|---|
| `RingbufQueueProofs` | `TypeCorrect`, `IndexSafe`, `PushNeverMeetsPopCorrect`, `OwnerCorrect`, `PoolRefinement`, `CounterMovesByOneCorrect`, `ReservationsBackedCorrect`, `PushServedCorrect` | `Capacity >= 2`: with one node `IndexInRange` is false; for `ReservationsBacked`, `Threads # {}`; for `PushServed`, one producer at most: with two it is false (finding 1) |
| `RingbufOrderProofs` | `ClaimDeliveredCorrect`, `ReservationKeptCorrect`, `FifoRefinement`, `PushWaitsForLoadCorrect`, `EarlyOnlyByOverlapCorrect`, `SequentialFifo` | `Capacity >= 2`, `Threads # {}`; for the last, one thread |
| `AtomicSharedPtrProofs` | `TagIsDeferredCountCorrect`, `ProtectedCorrect`, `RefCountExactCorrect`, `TypeCorrect`, `NoDanglingPointerCorrect`, `LinearizableCorrect`, `PackedPair` | |
| `LockFreeQueueProofs` | `TypeCorrect`, `SizeAccountsCorrect`, `LossyFifoRefinement`, `LossesExplainedCorrect`, `NoCycleCorrect` | |
| `LockFreeQueuePhasesProofs` | `PhasedFifoCorrect`, `NoItemLostInPhasesCorrect`, `SizeIsLengthCorrect` | |
| `EventLoopProofs` | `TypeCorrect`, `OneStrandCorrect`, `ResultReadyCorrect`, `TaskTreeCorrect`, `LockAccountedCorrect`, `RoomToPushCorrect`, `NoneLeftBehindCorrect`, `KidsInReachCorrect`, `ErrorReachesAwaiterCorrect`, `BuriedWaitCorrect`, `NoneBuriedCorrect` | for `RoomToPush`, `IsFiniteSet(Tasks)` and `Capacity >= Cardinality(Tasks)`; for `NoneLeftBehind`, `MainJoins`; for `ErrorReachesAwaiter`, `AwaitsSafely`; for `NoneBuried`, `OnlyMainWaits` |
| `PoolExecutorProofs` | `TypeCorrect`, `LoopThereAfterStartCorrect`, `LoopOfItsPoolCorrect`, `WordOutlivesThreadCorrect`, `WaitsForDestructorCorrect`, `JoinsOnlyEarlyCorrect` | |

Hardly any of these properties is inductive. The arguments:

- **Ring.** `Inv` adds to `TypeOK` what a thread carries between two exchanges: `Bounded`,
  that the indexes it may write into the counter or use on a node are in range; `Guarded`,
  that the value it wants to write fits the one it expects (a push never sets the indexes
  equal, a pop leaves the push index alone), which is why a stale value is harmless: the
  exchange succeeds only where it is not stale; and `HandHeld`, that exactly the pushes
  own an item. `StepCases` groups the actions by what they change. Ownership and the pool
  are proved on top of `Inv`. For `ReservationsBacked`, `Stepped` says that what an
  operation would write is what it expects, advanced by one, and `FewAtNode` that the sets
  which are counted are finite. `CounterMovesByOneCorrect` is what `Stepped` means for the
  counter. `PushServed` is inductive with it and with the fact that only producers push:
  while the only one waits at a node, nobody fills that node, and the pop index leaves it
  only by a claim, after which a pop is there to load.
- **Order of the ring.** `OrderInv` is `Inv`, `Stepped` and ownership, with `Promised` (a
  node is reserved exactly while it lies between the indexes) and, until the first early
  claim, `Orderly`: the item of a reservation is in its node or about to be stored there,
  a pop finds what it has claimed, a node is not reserved again with the same item still
  in it, and no two pops meet at one node. None of the five parts is kept without the
  others. `FifoRefinement` then needs arithmetic only: one more reservation is `Append`, a
  claim is `Tail` (`PushAround` and `PopAround`, about indexes that go around). For
  `PushWaitsForLoad`, `Cleared` adds that a node holds the item it is reserved for, or
  nothing, or a pop is about to load it. A claim is early only while a push is between its
  swap and its store, which two operations of one thread never are: `SequentialFifo`.
- **Shared pointer.** `TagInv` says that the tag is the number of threads between the two
  loops of a load and that the word keeps the pointer they have read. `CountInv` adds
  which `SharedPtr`s of a thread are null at each point of an operation (`Slots`): without
  it nothing could be said of the references that are overwritten. No dangling pointer and
  linearizability follow; for the latter, `RequestIs` and `AnswerIs` say what a thread asks
  for and answers at each point, and `ReferenceStep` maps each step.
- **Queue.** Client code, `clear()`, a pop under way and a push under way own disjoint
  sets of nodes (`Apart`), none of which a node in the list points to (`Linked`). A new
  node is seen by its push only (`Unseen`), since its memory was not `Alive`; so a node
  that has left the list since a pop loaded it cannot be the first again, and the exchange
  of `__head.next` does not succeed by mistake (`Snapshot`). With these the list stays
  finite and free of repetition (`IsQueue`); by the least-number principle there is only
  one (`ListPrefix`), so that each step appends to `Queue`, takes from its front or leaves
  it. `NoCycle` needs only that what is linked leads nowhere and is not the node it is
  linked to (`NoCircleMade`). `LossesExplained` goes through the steps and accounts for
  each item that leaves the list. `SizeAccountsCorrect` needs no more than `Apart`, and
  the arithmetic of a count that wraps. In phases, `PhaseInv` adds that while pushes run
  `__tail` and the nodes they walk over are in the list (`Filling`), that while pops run
  nothing is linked behind the first node (`Draining`), and that a pop which returned
  nullopt leaves an empty list with `__tail` at `__head` (`Drained`): then nothing is ever
  linked elsewhere than at the end.
- **Loop.** `LoopInv` says where a task can be: untouched, once in the ring or once on the
  stack (`Located`), in the ring only without kids (`Entered`), below its kids on the
  stack (`Nested`), main at the bottom. So a loop on top of the stack finds in the ring
  every kid it still waits for, which is why no result is missing; `KidsInReach` is what
  it says of all loops on the stack, the buried ones included. `LockInv` is about the
  mutex, `Alone` about the end of the program. `ErrorsWithin` says of every set of tasks
  closed under "may fail" that only its members have failed; `AwaitsSafely` asks for one
  such set, for each program, with no awaited task in it. `BuriedWait` is inductive beside
  `LoopInv`, since only the topmost task and the one at the head of the ring ever move;
  `OnlyMainWaits` says that the other tasks have no await, no `parallel` and no `resume`
  in their bodies. `TaskTreeCorrect` has a case for each action. `MainJoins` is the
  assumption that main calls `parallel` or `parallel_expected`, once or more, and does
  nothing else. The bound on the ring in `RoomToPushCorrect` is larger than the run's (4
  nodes for 5 tasks suffice there, since never more than three can be suspended at once).
- **Pool.** `PoolInv` adds that, while workers are constructed, a word that is there says
  wait (`Fresh`), that a registered worker has a loop (`HasLoop`), and that a loop in the
  registry is the present executor's unless its id is an old one (`OwnLoop`). `WaitInv`
  adds that a word says {false, true} from its construction until the destructor stores
  {true, true} (`WordSays`): no exchange of `start()` or `stop()` changes it.

**Only model-checked**: liveness (`PushReturns`, `Quiesces`, `Completes`), which is out of
the prover's reach. What is proved beside them are the invariants they rest on:
`PushServed` for the first, `TagIsDeferredCount` for the second, `OneStrand`, `KidsInReach`
and `RoomToPush` for the third. Every invariant, every action property and every
refinement of the passing runs is proved.

## 6. Not modelled

- **Memory orders.** Every step is sequentially consistent. TLC has no weaker memory.
- **The wrap of the 16-bit tag**, excluded by `TagAssumption`.
- **Hazards that a property states and does not exclude**: an early reader and a reused
  thread id are steps of `PoolExecutor`, and `LoopThereAfterStart` and `LoopOfItsPool` say
  that nothing else leads to a missing or a foreign loop; `LockAccounted` and `Completes` let a mutex be jammed once
  a `shared_lock` has undone an exclusive one, which is undefined; `SizeAccounts` lets
  `__size` wrap for a while. `PROJECT.json` has a note at each.
- **Code without a caller**: `exchange_tag` and `exchange_ptr` of an atomic `TaggedPtr`
  and the stores made of them, `store`, `try_store` and the moves of a ring node,
  `remove_event_loop`. **`run_until_complete`** does not compile when instantiated.
- **A loop run by several threads.** Only a `PoolExecutor` would share one. A worker that
  finds its word constructed leaves its wait only for the destructor, which gets no further
  than to its first such worker; what a worker does that has read `{true, true}` before its
  word was constructed, and so runs the loop at once, is not modelled beyond `Run`.
- **Failure to create a thread**: `std::thread`'s constructor may throw, which would end the
  construction of the pool halfway.
- **Coroutines of other libraries**: the `await_suspend` of the two awaiters and
  `poll_block`, which `BasicTask` never calls since it wraps every poll awaitable in a
  `LoopAwaitable`; and awaitables that are not poll awaitables, resumed by somebody
  outside the loop.
- **Tasks owned by the ring.** `push` and `apush` take ownership unless told otherwise, and
  `run_one` then destroys a task at its first suspension. The code only gives them pollers.
- **A task both resumed by hand and awaited**, which would be in the ring twice
  (`KidAssumption` excludes it), the second read of a result, `TaskError::what`.
- Build files, benchmarks, module interfaces.

## 7. Plan

Done: the ring, its order and their proofs; the shared pointer over packed words and its
proofs; the queue and its proofs; tasks, locks, spawning and the loop with their proofs; the pool with
garbage, its registry and its proofs; a theorem about the extent of each finding. What is left, in the order in which it matters:

1. **Owned tasks**: an entry of the ring that is destroyed at its first suspension, with
   the poller that still holds its handle.
2. **A loop shared by several threads**: `EventLoop` over `RingbufQueue` instead of a
   sequence, once the pool lets a thread run it.
3. **Foreign coroutines**: `InfiniteAwaiter::await_suspend` for a void poller, which does
   not wait.
