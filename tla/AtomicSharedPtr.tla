--------------------------- MODULE AtomicSharedPtr ---------------------------
(***************************************************************************)
(* std::atomic<SharedPtr<T>> of src/src/lockfree/shared_ptr.cc: one word   *)
(* that holds a pointer to a reference counted AllocData and a 16-bit tag. *)
(* The tag is the deferred count: the number of threads that have read the *)
(* pointer and not yet added the reference they will return.  Only a word  *)
(* whose tag is 0 may be given another pointer.                            *)
(*                                                                         *)
(* A compare-exchange loop whose failed rounds change nothing but its own  *)
(* locals is one step here, the round that succeeds.  Several references   *)
(* that one thread adds or drops in a row are one step too: it is the last *)
(* drop that deletes, and no other thread acts on the value of the count.  *)
(*                                                                         *)
(* Blocks are addresses: a deleted one may be allocated again, so a stale  *)
(* pointer can meet its own address with another object behind it.         *)
(*                                                                         *)
(* A definition named Bug... is the one after it with a mistake in it; no  *)
(* other definition uses it.                                               *)
(***************************************************************************)
EXTENDS TaggedPtr, FiniteSets

CONSTANTS
  Threads,
  Blocks,    \* addresses of AllocData
  NONE       \* no answer: see Linearizable

NULL == 0

\* No thread defers twice at a time, so the tag counts to at most the number of
\* threads.  With 2^16 of them loading at once the tag would wrap to 0, which
\* opens the word to exchange() and which compare_exchange() takes for success.
ASSUME TagAssumption ==
  IsFiniteSet(Threads) /\ Cardinality(Threads) < TagMod

\* Addresses fit into the pointer half, as those of a user program do.
ASSUME BlockAssumption == Blocks \subseteq 1 .. PtrMod - 1 /\ NONE \notin 0 .. PtrMod - 1

VARIABLES
  cell,     \* __ptr of the atomic, a TaggedPtr<uint16_t>
  rcount,   \* __rcount of each AllocData, 0 where none is allocated
  pc,       \* where each thread stands in the operation it runs
  cur_ptr,  \* the pointer in the operation's cur_ptr
  owns      \* the SharedPtrs of each thread, by name

vars == <<cell, rcount, pc, cur_ptr, owns>>

Pointers == Blocks \cup {NULL}

\* A thread's SharedPtrs: its client code holds e, which load() and exchange()
\* are assigned to and which compare_exchange() takes by reference, and d, which
\* it passes by value.  arg is the parameter of store() and of
\* compare_exchange_weak(), desired the parameter of the function these call,
\* and old the pointer the word gave up.
Names == {"e", "d", "arg", "desired", "old"}

\* AllocData::copy, n times, and Deallocator: a null pointer has no count.
Add(count, p, n) == IF p = NULL THEN count ELSE [count EXCEPT ![p] = @ + n]
Drop(count, p)   == Add(count, p, -1)

Init ==
  /\ \E p \in Pointers :
       /\ cell = FromPair(p, 0)
       /\ rcount = [b \in Blocks |-> IF b = p THEN 1 ELSE 0]
  /\ pc = [t \in Threads |-> "idle"]
  /\ cur_ptr = [t \in Threads |-> NULL]
  /\ owns = [t \in Threads |-> [n \in Names |-> NULL]]

Goto(t, from, to) == pc[t] = from /\ pc' = [pc EXCEPT ![t] = to]

-----------------------------------------------------------------------------
(* Client code between its operations on the word.                         *)

\* make_shared; the address is any that is not in use.
Make(t) ==
  /\ pc[t] = "idle"
  /\ owns[t]["d"] = NULL
  /\ \E b \in Blocks :
       /\ rcount[b] = 0
       /\ rcount' = [rcount EXCEPT ![b] = 1]
       /\ owns' = [owns EXCEPT ![t]["d"] = b]
  /\ UNCHANGED <<cell, pc, cur_ptr>>

\* d = e, the copy assignment.
CopyAssign(t) ==
  /\ pc[t] = "idle"
  /\ rcount' = Drop(Add(rcount, owns[t]["e"], 1), owns[t]["d"])
  /\ owns' = [owns EXCEPT ![t]["d"] = owns[t]["e"]]
  /\ UNCHANGED <<cell, pc, cur_ptr>>

\* reset() or the end of a SharedPtr's life.
Reset(t, n) ==
  /\ pc[t] = "idle"
  /\ owns[t][n] # NULL
  /\ rcount' = Drop(rcount, owns[t][n])
  /\ owns' = [owns EXCEPT ![t][n] = NULL]
  /\ UNCHANGED <<cell, pc, cur_ptr>>

\* A call that takes d by value, moved into the parameter or copied.  store()
\* and the weak and strong compare_exchange pass their parameter on, by copy.
Pass(t, op, wrapped, moved) ==
  LET x == owns[t]["d"] IN
  /\ Goto(t, "idle", op)
  /\ owns' = [owns EXCEPT ![t]["d"] = IF moved THEN NULL ELSE x,
                          ![t]["arg"] = IF wrapped THEN x ELSE NULL,
                          ![t]["desired"] = x]
  /\ rcount' = Add(rcount, x, (IF wrapped THEN 1 ELSE 0) + (IF moved THEN 0 ELSE 1))
  /\ UNCHANGED <<cell, cur_ptr>>

LoadCall(t)     == Goto(t, "idle", "load") /\ UNCHANGED <<cell, rcount, cur_ptr, owns>>
StoreCall(t)    == \E moved \in BOOLEAN : Pass(t, "store", TRUE, moved)
ExchangeCall(t) == \E moved \in BOOLEAN : Pass(t, "exchange", FALSE, moved)
CompareCall(t)  == \E wrapped, moved \in BOOLEAN : Pass(t, "compare", wrapped, moved)

-----------------------------------------------------------------------------
(* load()                                                                  *)

BugDeferWithoutTag(t, from, to) ==
  /\ Goto(t, from, to)
  /\ cur_ptr' = [cur_ptr EXCEPT ![t] = RawPtr(cell)]
  /\ UNCHANGED <<cell, rcount, owns>>

\* First loop: read the pointer and raise the tag.
Defer(t, from, to) ==
  /\ Goto(t, from, to)
  /\ cell' = FromPair(RawPtr(cell), RawTag(cell) + 1)
  /\ cur_ptr' = [cur_ptr EXCEPT ![t] = RawPtr(cell)]
  /\ UNCHANGED <<rcount, owns>>

LoadDefer(t) == Defer(t, "load", "load_count")

\* steal_and_leak: add the reference that will be returned.
Count(t, from, to) ==
  /\ Goto(t, from, to)
  /\ rcount' = Add(rcount, cur_ptr[t], 1)
  /\ UNCHANGED <<cell, cur_ptr, owns>>

LoadCount(t) == Count(t, "load_count", "load_undefer")

\* Second loop: lower the tag; the result is what the loop last saw.
LoadUndefer(t) ==
  /\ Goto(t, "load_undefer", "assign")
  /\ cell' = FromPair(RawPtr(cell), RawTag(cell) - 1)
  /\ cur_ptr' = [cur_ptr EXCEPT ![t] = RawPtr(cell)]
  /\ owns' = [owns EXCEPT ![t]["old"] = RawPtr(cell)]
  /\ UNCHANGED rcount

\* e = load(...), e = exchange(...)
Assign(t) ==
  /\ Goto(t, "assign", "idle")
  /\ rcount' = Drop(rcount, owns[t]["e"])
  /\ owns' = [owns EXCEPT ![t]["e"] = owns[t]["old"], ![t]["old"] = NULL]
  /\ cur_ptr' = [cur_ptr EXCEPT ![t] = NULL]
  /\ UNCHANGED cell

-----------------------------------------------------------------------------
(* exchange(), store() and the successful compare_exchange().              *)

BugSwapUnderTag(t, from, to) ==
  /\ Goto(t, from, to)
  /\ cell' = FromPair(owns[t]["desired"], RawTag(cell))
  /\ cur_ptr' = [cur_ptr EXCEPT ![t] = RawPtr(cell)]
  /\ owns' = [owns EXCEPT ![t]["old"] = RawPtr(cell), ![t]["desired"] = NULL]
  /\ UNCHANGED rcount

BugSwapWithoutRelease(t, from, to) ==
  /\ Goto(t, from, to)
  /\ RawTag(cell) = 0
  /\ cell' = FromPair(owns[t]["desired"], 0)
  /\ cur_ptr' = [cur_ptr EXCEPT ![t] = RawPtr(cell)]
  /\ owns' = [owns EXCEPT ![t]["old"] = RawPtr(cell)]
  /\ UNCHANGED rcount

\* The word gives up its reference to the thread and takes over desired's.
Swap(t, from, to) ==
  /\ Goto(t, from, to)
  /\ RawTag(cell) = 0
  /\ cell' = FromPair(owns[t]["desired"], 0)
  /\ cur_ptr' = [cur_ptr EXCEPT ![t] = RawPtr(cell)]
  /\ owns' = [owns EXCEPT ![t]["old"] = RawPtr(cell), ![t]["desired"] = NULL]
  /\ UNCHANGED rcount

ExchangeSwap(t) == Swap(t, "exchange", "assign")
StoreSwap(t)    == Swap(t, "store", "discard")

BugCompareSwapUnchecked(t) == Swap(t, "compare", "discard")

CompareSwap(t)  == RawPtr(cell) = owns[t]["e"] /\ Swap(t, "compare", "discard")

\* store() ignores what exchange() returns, compare_exchange() calls dealloc on
\* it; the parameters that still own something end with the call.
Discard(t) ==
  /\ Goto(t, "discard", "idle")
  /\ rcount' = Drop(Drop(Drop(rcount, owns[t]["old"]), owns[t]["desired"]), owns[t]["arg"])
  /\ owns' = [owns EXCEPT ![t]["old"] = NULL, ![t]["desired"] = NULL, ![t]["arg"] = NULL]
  /\ cur_ptr' = [cur_ptr EXCEPT ![t] = NULL]
  /\ UNCHANGED cell

-----------------------------------------------------------------------------
(* compare_exchange() on a word that does not hold e: load into e.  A word *)
(* that holds e under a raised tag makes it spin.                          *)

CompareDefer(t) == RawPtr(cell) # owns[t]["e"] /\ Defer(t, "compare", "compare_assign")

\* e takes a reference that is counted only in the next step.
CompareAssign(t) ==
  /\ Goto(t, "compare_assign", "compare_count")
  /\ rcount' = Drop(rcount, owns[t]["e"])
  /\ owns' = [owns EXCEPT ![t]["e"] = cur_ptr[t]]
  /\ UNCHANGED <<cell, cur_ptr>>

BugCompareCountForgotten(t) ==
  Goto(t, "compare_count", "compare_undefer") /\ UNCHANGED <<cell, rcount, cur_ptr, owns>>

CompareCount(t) == Count(t, "compare_count", "compare_undefer")

BugCompareKeepsTag(t) ==
  Goto(t, "compare_undefer", "discard") /\ UNCHANGED <<cell, rcount, cur_ptr, owns>>

CompareUndefer(t) ==
  /\ Goto(t, "compare_undefer", "discard")
  /\ cell' = FromPair(RawPtr(cell), RawTag(cell) - 1)
  /\ cur_ptr' = [cur_ptr EXCEPT ![t] = RawPtr(cell)]
  /\ UNCHANGED <<rcount, owns>>

-----------------------------------------------------------------------------
Client(t) ==
  \/ Make(t) \/ CopyAssign(t) \/ \E n \in {"e", "d"} : Reset(t, n)

Call(t) == LoadCall(t) \/ StoreCall(t) \/ ExchangeCall(t) \/ CompareCall(t)

Step(t) ==
  \/ LoadDefer(t) \/ LoadCount(t) \/ LoadUndefer(t) \/ Assign(t)
  \/ ExchangeSwap(t) \/ StoreSwap(t) \/ CompareSwap(t) \/ Discard(t)
  \/ CompareDefer(t) \/ CompareAssign(t) \/ CompareCount(t) \/ CompareUndefer(t)

Next == \E t \in Threads : Client(t) \/ Call(t) \/ Step(t)

Spec == Init /\ [][Next]_vars

\* A thread inside an operation keeps running.
FairSpec == Spec /\ \A t \in Threads : WF_vars(Step(t))

-----------------------------------------------------------------------------
(***************************************************************************)
(* Properties.                                                             *)
(***************************************************************************)
Deferred == {"load_count", "load_undefer",
             "compare_assign", "compare_count", "compare_undefer"}
Labels   == {"idle", "load", "store", "exchange", "compare", "assign", "discard"}
              \cup Deferred

Deferring == {t \in Threads : pc[t] \in Deferred}

TypeOK ==
  /\ cell \in Words
  /\ rcount \in [Blocks -> Nat]
  /\ pc \in [Threads -> Labels]
  /\ cur_ptr \in [Threads -> Pointers]
  /\ owns \in [Threads -> [Names -> Pointers]]

\* The tag is the deferred count: no thread leaves it raised, none lowers it
\* twice, whatever the order in which loads and compare_exchanges overlap.
TagIsDeferredCount == RawTag(cell) = Cardinality(Deferring)

\* Between raising and lowering the tag a thread's word keeps its pointer, so
\* the reference the thread adds goes to the object the word still owns.
Protected == \A t \in Deferring : RawPtr(cell) = cur_ptr[t]

\* The references to b that exist: those of SharedPtrs, the word's own, and the
\* one load() has added but not yet put into a SharedPtr; e of a failed
\* compare_exchange() is without one until the next step.
SharedPtrsTo(b) == {x \in Threads \X Names : owns[x[1]][x[2]] = b}
Uncounted(b)    == {t \in Threads : pc[t] = "compare_count" /\ owns[t]["e"] = b}
Floating(b)     == {t \in Threads : pc[t] = "load_undefer" /\ cur_ptr[t] = b}

\* The reference count is exact at every moment, so the object is deleted with
\* its last reference, never before and never twice, and none leaks.
RefCountExact ==
  \A b \in Blocks :
    rcount[b] + Cardinality(Uncounted(b))
      = Cardinality(SharedPtrsTo(b)) + Cardinality(Floating(b))
          + (IF RawPtr(cell) = b THEN 1 ELSE 0)

\* A pointer that a thread may follow, the word's or that of a SharedPtr its
\* client holds, is one to an object that is alive, and so is the one whose
\* count load() or compare_exchange() is about to raise.
NoDanglingPointer ==
  /\ RawPtr(cell) # NULL => rcount[RawPtr(cell)] > 0
  /\ \A t \in Threads :
       /\ \A n \in Names : owns[t][n] # NULL => rcount[owns[t][n]] > 0
       /\ pc[t] \in Deferred /\ cur_ptr[t] # NULL => rcount[cur_ptr[t]] > 0

\* When the operations stop being called, those in progress return: no raised
\* tag is left behind for exchange(), store() or compare_exchange() to wait on.
Quiesces ==
  <>[][~\E t \in Threads : Call(t)]_vars => <>[](\A t \in Threads : pc[t] = "idle")

\* The operation a thread has called, until the step in which it takes effect.
Request == [t \in Threads |->
  CASE pc[t] = "load"                  -> [op |-> "load"]
    [] pc[t] \in {"store", "exchange"} -> [op |-> pc[t], desired |-> owns[t]["desired"]]
    [] pc[t] = "compare"               -> [op |-> "compare", expected |-> owns[t]["e"],
                                           desired |-> owns[t]["desired"]]
    [] OTHER                           -> NONE]

\* The value it works on from that step on, and in the end returns.
Answer == [t \in Threads |->
  CASE pc[t] \in Deferred \cup {"discard"} -> cur_ptr[t]
    [] pc[t] = "assign"                    -> owns[t]["old"]
    [] OTHER                               -> NONE]

Reference == INSTANCE AtomicReference WITH
  Clients <- Threads, Values <- Pointers,
  value <- RawPtr(cell), request <- Request, answer <- Answer

\* Every load, exchange, store and compare_exchange is linearizable: it takes
\* effect when it raises the tag or swaps the word, and what it returns is what
\* the word held then, even where the second loop of load() reads it once more.
\* A compare_exchange swaps exactly if the word then held the pointer in e.
Linearizable == Reference!Spec
=============================================================================
