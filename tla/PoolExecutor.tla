---------------------------- MODULE PoolExecutor ----------------------------
(***************************************************************************)
(* PoolExecutor and PoolWorker of src/src/executor.cc: how the threads of  *)
(* a pool are started, told to run and to stop, and joined.                *)
(*                                                                         *)
(* main is the thread that constructs and destroys the executor.  Each     *)
(* worker polls the word __state of its PoolWorker, a BitTuple of a start  *)
(* and a stop flag.  The thread is the first member of PoolWorker and the  *)
(* word the second, so a worker can read the word before it is             *)
(* constructed; it then sees what the memory held, one of Garbage.         *)
(*                                                                         *)
(* The static registry EventLoop::__local_loop maps the id of a thread to  *)
(* its loop.  Nothing is ever removed from it, and the id of a joined      *)
(* thread may be given to a new one: executors are made one after another. *)
(* The loop of an executor is named by its number.                         *)
(*                                                                         *)
(* Operators named Bug... are plausible mistakes in the definition that    *)
(* follows them; nothing uses them.                                        *)
(***************************************************************************)
EXTENDS Naturals, FiniteSets

CONSTANTS
  Size,     \* max_size, the number of workers, at least 1
  Garbage,  \* what the memory of a new PoolWorker may hold, some of Words
  Ids,      \* thread ids, without main's
  Pools     \* how many executors main makes, one after another

Workers == 1..Size
Words   == [start : BOOLEAN, stop : BOOLEAN]

ASSUME PoolAssumption ==
  /\ Size \in Nat \ {0} /\ Pools \in Nat \ {0}
  /\ Garbage \subseteq Words
  /\ IsFiniteSet(Ids) /\ Cardinality(Ids) >= Size

VARIABLES
  state,       \* __state of each worker
  pool,        \* the number of the executor that is alive
  past,        \* the ids of the workers of the executors before it
  id,          \* the thread id of each of its workers
  registry,    \* __local_loop: the loop of each thread id, 0 for none
  main,        \* what main does next, and to which worker
  pc,          \* what each thread does next
  seen,        \* its local copy of the word
  loop,        \* the loop it runs, 0 before it has one
  early,       \* the workers that have read their word before it was constructed
  aborted      \* an exception has left a thread: std::terminate

poolVars   == <<pool, past, id>>
threadVars == <<pc, seen, loop, early, aborted>>
vars       == <<state, poolVars, registry, main, threadVars>>

Word(start, stop) == [start |-> start, stop |-> stop]

Main(op, w) == main = [op |-> op, worker |-> w] /\ ~aborted
Thread(step, w) == pc[w] = step /\ ~aborted
Go(op, w) == main' = [op |-> op, worker |-> w]

BugForAll(op, w, after) == IF w <= Size THEN Go(op, w + 1) ELSE Go(after, 1)

\* for (auto &worker : __workers)
ForAll(op, w, after) == IF w < Size THEN Go(op, w + 1) ELSE Go(after, 1)

Init ==
  /\ state = [w \in Workers |-> Word(FALSE, TRUE)]
  /\ pool = 1
  /\ past = {}
  /\ id = [w \in Workers |-> CHOOSE i \in Ids : TRUE]
  /\ registry = [i \in Ids |-> 0]
  /\ main = [op |-> "thread", worker |-> 1]
  /\ pc = [w \in Workers |-> "unborn"]
  /\ seen = state
  /\ loop = [w \in Workers |-> 0]
  /\ early = {}
  /\ aborted = FALSE

-----------------------------------------------------------------------------
(* PoolWorker::PoolWorker: the thread, its word, its registration.         *)

\* A new thread has the id of no other that is alive, and a word that is what
\* the memory holds.
StartThread(w) ==
  /\ Main("thread", w)
  /\ \E i \in Ids \ {id[v] : v \in 1..w - 1} : id' = [id EXCEPT ![w] = i]
  /\ \E g \in Garbage : state' = [state EXCEPT ![w] = g]
  /\ pc' = [pc EXCEPT ![w] = "wait"]
  /\ Go("construct", w)
  /\ UNCHANGED <<pool, past, registry, seen, loop, early, aborted>>

ConstructState(w) ==
  /\ Main("construct", w)
  /\ state' = [state EXCEPT ![w] = Word(FALSE, TRUE)]
  /\ Go("register", w)
  /\ UNCHANGED <<poolVars, registry, threadVars>>

BugRegister(w) ==
  /\ Main("register", w)
  /\ ForAll("thread", w, "start")
  /\ UNCHANGED <<state, poolVars, registry, threadVars>>

\* register_event_loop() does not replace a loop that is there; the
\* constructor discards that it answers false.
Register(w) ==
  /\ Main("register", w)
  /\ registry' = [registry EXCEPT ![id[w]] = IF @ = 0 THEN pool ELSE @]
  /\ ForAll("thread", w, "start")
  /\ UNCHANGED <<state, poolVars, threadVars>>

-----------------------------------------------------------------------------
(* start(), stop() and the destructors.                                    *)

\* while (compare_exchange_weak(e, d)) repeats an exchange that succeeded and
\* gives up after one that failed; a weak one may fail for no reason.
ExchangeLoop(w, e, d) ==
  state' \in {state} \cup IF state[w] = e THEN {[state EXCEPT ![w] = d]} ELSE {}

Start(w) ==
  /\ Main("start", w)
  /\ ExchangeLoop(w, Word(FALSE, FALSE), Word(TRUE, FALSE))
  /\ ForAll("start", w, "use")
  /\ UNCHANGED <<poolVars, registry, threadVars>>

\* The executor goes out of scope.
Leave ==
  /\ Main("use", 1)
  /\ Go("stop", 1)
  /\ UNCHANGED <<state, poolVars, registry, threadVars>>

Stop(w) ==
  /\ Main("stop", w)
  /\ ExchangeLoop(w, Word(TRUE, FALSE), Word(TRUE, TRUE))
  /\ ForAll("stop", w, "finalise")
  /\ UNCHANGED <<poolVars, registry, threadVars>>

FinaliseState(w) ==
  /\ Main("finalise", w)
  /\ state' = [state EXCEPT ![w] = Word(TRUE, TRUE)]
  /\ Go("join", w)
  /\ UNCHANGED <<poolVars, registry, threadVars>>

BugJoin(w) ==
  /\ Main("join", w)
  /\ ForAll("finalise", w, "gone")
  /\ UNCHANGED <<state, poolVars, registry, threadVars>>

Join(w) ==
  /\ Main("join", w)
  /\ pc[w] = "exit"
  /\ ForAll("finalise", w, "gone")
  /\ UNCHANGED <<state, poolVars, registry, threadVars>>

\* The next executor.
Again ==
  /\ Main("gone", 1)
  /\ pool < Pools
  /\ pool' = pool + 1
  /\ past' = past \cup {id[w] : w \in Workers}
  /\ pc' = [w \in Workers |-> "unborn"]
  /\ early' = {}
  /\ Go("thread", 1)
  /\ UNCHANGED <<state, id, registry, seen, loop, aborted>>

MainStep ==
  \E w \in Workers :
    \/ StartThread(w) \/ ConstructState(w) \/ Register(w)
    \/ Start(w) \/ Stop(w) \/ FinaliseState(w) \/ Join(w)

-----------------------------------------------------------------------------
(* PoolWorker::thread_work.                                                *)

BugWait(w) ==
  /\ Thread("wait", w)
  /\ seen' = [seen EXCEPT ![w] = state[w]]
  /\ pc' = [pc EXCEPT ![w] = IF ~seen'[w].start /\ ~seen'[w].stop THEN "wait" ELSE "require"]
  /\ early' = IF Main("construct", w) THEN early \cup {w} ELSE early
  /\ UNCHANGED <<state, poolVars, registry, main, loop, aborted>>

Wait(w) ==
  /\ Thread("wait", w)
  /\ seen' = [seen EXCEPT ![w] = state[w]]
  /\ pc' = [pc EXCEPT ![w] = IF ~seen'[w].start /\ seen'[w].stop THEN "wait" ELSE "require"]
  /\ early' = IF Main("construct", w) THEN early \cup {w} ELSE early
  /\ UNCHANGED <<state, poolVars, registry, main, loop, aborted>>

\* require_event_loop() throws if the thread is not registered, and may miss
\* its entry while main inserts another: the map has no lock.
RequireLoop(w) ==
  /\ Thread("require", w)
  /\ pc' = [pc EXCEPT ![w] = "run"]
  /\ loop' = [loop EXCEPT ![w] = registry[id[w]]]
  /\ aborted' \in {registry[id[w]] = 0} \cup (IF main.op = "register" THEN {TRUE} ELSE {})
  /\ UNCHANGED <<state, poolVars, registry, main, seen, early>>

Run(w) ==
  /\ Thread("run", w)
  /\ seen[w].stop
  /\ seen' = [seen EXCEPT ![w] = state[w]]
  /\ UNCHANGED <<state, poolVars, registry, main, pc, loop, early, aborted>>

Exit(w) ==
  /\ Thread("run", w)
  /\ ~seen[w].stop
  /\ pc' = [pc EXCEPT ![w] = "exit"]
  /\ UNCHANGED <<state, poolVars, registry, main, seen, loop, early, aborted>>

ThreadStep(w) == Wait(w) \/ RequireLoop(w) \/ Run(w) \/ Exit(w)

Next == MainStep \/ Leave \/ Again \/ \E w \in Workers : ThreadStep(w)

Spec == Init /\ [][Next]_vars

\* Every thread is scheduled; nothing makes the executor go out of scope.
FairSpec == Spec /\ WF_vars(MainStep) /\ \A w \in Workers : WF_vars(ThreadStep(w))

-----------------------------------------------------------------------------
TypeOK ==
  /\ state \in [Workers -> Words]
  /\ pool \in 1..Pools
  /\ past \subseteq Ids
  /\ id \in [Workers -> Ids]
  /\ registry \in [Ids -> 0..Pools]
  /\ main \in [op : {"thread", "construct", "register", "start", "use", "stop",
                     "finalise", "join", "gone"},
               worker : Workers]
  /\ pc \in [Workers -> {"unborn", "wait", "require", "run", "exit"}]
  /\ seen \in [Workers -> Words]
  /\ loop \in [Workers -> 0..Pools]
  /\ early \subseteq Workers
  /\ aborted \in BOOLEAN

\* A thread that is past its wait finds its loop: all workers are registered, so
\* the program does not end in require_event_loop() and no thread looks into
\* the registry while main changes it.  This is what thread_work assumes, and
\* it holds of every thread that did not read its word before there was one.
Constructing == main.op \in {"thread", "construct", "register"}

LoopThereAfterStart ==
  /\ \A w \in Workers \ early : pc[w] \in {"require", "run", "exit"} => ~Constructing
  /\ aborted => early # {}

\* A worker runs the loop of its own executor, where the tasks given to that
\* are, unless an earlier executor had a thread of the same id.
LoopOfItsPool ==
  \A w \in Workers :
    pc[w] \in {"run", "exit"} /\ id[w] \notin past /\ ~(aborted /\ w \in early)
      => loop[w] = pool

\* A thread has ended before its word, the second member, is destroyed.
Destroyed(w) ==
  \/ main.op \in {"finalise", "join"} /\ w < main.worker
  \/ main.op = "gone"

WordOutlivesThread == \A w \in Workers : Destroyed(w) /\ ~aborted => pc[w] = "exit"

\* The destructor of PoolExecutor, once entered, comes back: the word that
\* ~PoolWorker stores makes its thread leave thread_work and be joined.
DestructorReturns == main.op = "stop" ~> main.op = "gone"
=============================================================================
