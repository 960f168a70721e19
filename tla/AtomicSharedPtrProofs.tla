------------------------ MODULE AtomicSharedPtrProofs ------------------------
(***************************************************************************)
(* Proofs about AtomicSharedPtr for any number of threads below TagMod and *)
(* any set of addresses.                                                   *)
(*                                                                         *)
(* The first invariant, TagInv, is about the word: its tag counts the      *)
(* threads between the two loops of a load, and while one of them is there *)
(* the word keeps the pointer that thread has read.  The second, CountInv, *)
(* adds to it which of a thread's SharedPtrs are null at each point of an  *)
(* operation (Slots), without which nothing could be said of those that    *)
(* are overwritten, and that the counts are exact.  That no pointer        *)
(* dangles and that every operation is linearizable follow from them.      *)
(***************************************************************************)
EXTENDS AtomicSharedPtr, FiniteSetTheorems, TLAPS

-----------------------------------------------------------------------------
(* The word.                                                               *)

\* A pointer and a tag that fit into a word can be read back from what
\* from_pair() makes of them, whatever the widths of the two halves.
THEOREM PackedPair ==
  ASSUME NEW p \in 0 .. PtrMod - 1, NEW k \in 0 .. TagMod - 1
  PROVE  /\ FromPair(p, k) \in Words
         /\ RawPtr(FromPair(p, k)) = p
         /\ RawTag(FromPair(p, k)) = k
<1> DEFINE v == p + PtrMod * k
<1>1. p % PtrMod = p /\ k % TagMod = k
  BY WordAssumption
<1>2. FromPair(p, k) = v
  BY <1>1 DEF FromPair
<1>3. v % PtrMod = p /\ v \div PtrMod = k
  BY WordAssumption
<1>4. v \in 0 .. PtrMod * TagMod - 1
  BY WordAssumption
<1> QED BY <1>2, <1>3, <1>4 DEF Words, RawPtr, RawTag

\* The halves of a word.
LEMMA Halves ==
  ASSUME NEW v \in Words
  PROVE  RawPtr(v) \in 0 .. PtrMod - 1 /\ RawTag(v) \in 0 .. TagMod - 1
BY WordAssumption DEF Words, RawPtr, RawTag

\* A pointer of this model fits.
LEMMA PointersFit ==
  /\ Pointers \subseteq 0 .. PtrMod - 1
  /\ NULL \in Pointers /\ NULL \notin Blocks
  /\ 0 \in 0 .. TagMod - 1
BY WordAssumption, BlockAssumption DEF Pointers, NULL

\* Two finite sets that differ in x at most differ in size by x.
LEMMA OneElement ==
  ASSUME NEW S, NEW T, NEW x, IsFiniteSet(S), S \ {x} = T \ {x}
  PROVE  /\ IsFiniteSet(T)
         /\ Cardinality(S) \in Nat /\ Cardinality(T) \in Nat
         /\ Cardinality(T) = Cardinality(S) - (IF x \in S THEN 1 ELSE 0)
                                            + (IF x \in T THEN 1 ELSE 0)
<1> DEFINE R == S \ {x}
<1>1. IsFiniteSet(R) /\ Cardinality(R) = Cardinality(S) - (IF x \in S THEN 1 ELSE 0)
  BY FS_RemoveElement, FS_CardinalityType
<1>2. CASE x \in T
  <2>1. T = R \cup {x} /\ x \notin R
    BY <1>2
  <2>2. IsFiniteSet(R \cup {x}) /\ Cardinality(R \cup {x}) = Cardinality(R) + 1
    BY <1>1, <2>1, FS_AddElement
  <2>3. Cardinality(S) \in Nat /\ Cardinality(R) \in Nat
    BY <1>1, FS_CardinalityType
  <2> HIDE DEF R
  <2> QED BY <1>1, <1>2, <2>1, <2>2, <2>3
<1>3. CASE x \notin T
  <2>1. T = R
    BY <1>3
  <2>2. Cardinality(S) \in Nat /\ Cardinality(R) \in Nat
    BY <1>1, FS_CardinalityType
  <2> HIDE DEF R
  <2> QED BY <1>1, <1>3, <2>1, <2>2
<1> QED BY <1>2, <1>3

\* The tag has room for every thread.
LEMMA DeferringFinite ==
  /\ IsFiniteSet(Deferring)
  /\ Cardinality(Deferring) \in 0 .. TagMod - 1
  /\ \A t \in Threads \ Deferring : Cardinality(Deferring) + 1 \in 0 .. TagMod - 1
<1>1. IsFiniteSet(Deferring) /\ Cardinality(Deferring) <= Cardinality(Threads)
  BY TagAssumption, FS_Subset DEF Deferring
<1>2. Cardinality(Deferring) \in Nat /\ Cardinality(Threads) \in Nat
  BY <1>1, TagAssumption, FS_CardinalityType
<1>3. ASSUME NEW t \in Threads \ Deferring
      PROVE  Cardinality(Deferring) # Cardinality(Threads)
  BY <1>3, TagAssumption, FS_Subset DEF Deferring
<1> QED BY <1>1, <1>2, <1>3, WordAssumption, TagAssumption

-----------------------------------------------------------------------------
(* The tag.                                                                *)

\* TypeOK without the sign of the counts, which is a consequence of CountInv.
Typed ==
  /\ cell \in Words /\ RawPtr(cell) \in Pointers
  /\ rcount \in [Blocks -> Int]
  /\ pc \in [Threads -> Labels]
  /\ cur_ptr \in [Threads -> Pointers]
  /\ owns \in [Threads -> [Names -> Pointers]]

TagInv == Typed /\ TagIsDeferredCount /\ Protected

LEMMA TagInit == Init => TagInv
<1> SUFFICES ASSUME Init PROVE TagInv
  OBVIOUS
<1>1. PICK p \in Pointers :
        cell = FromPair(p, 0) /\ rcount = [b \in Blocks |-> IF b = p THEN 1 ELSE 0]
  BY DEF Init
<1>2. cell \in Words /\ RawPtr(cell) = p /\ RawTag(cell) = 0
  BY <1>1, PackedPair, PointersFit
<1>3. Typed
  BY <1>1, <1>2, PointersFit DEF Init, Typed, Labels
<1>4. Deferring = {}
  BY DEF Init, Deferring, Deferred
<1> QED BY <1>2, <1>3, <1>4, FS_EmptySet DEF TagInv, TagIsDeferredCount, Protected

\* Types are preserved by the arithmetic on counts.
LEMMA AddType ==
  ASSUME NEW c \in [Blocks -> Int], NEW p \in Pointers, NEW n \in Int
  PROVE  Add(c, p, n) \in [Blocks -> Int]
BY DEF Add, Pointers

LEMMA DropType ==
  ASSUME NEW c \in [Blocks -> Int], NEW p \in Pointers
  PROVE  Drop(c, p) \in [Blocks -> Int]
BY AddType DEF Drop

\* What a step does to the word and to the set of deferring threads: a step
\* that raises the tag, one that lowers it, one that swaps the pointer under
\* a tag of 0, and one that touches neither.
Raises(t) ==
  /\ t \notin Deferring
  /\ cell' = FromPair(RawPtr(cell), RawTag(cell) + 1)
  /\ cur_ptr' = [cur_ptr EXCEPT ![t] = RawPtr(cell)]
  /\ Deferring' = Deferring \cup {t}

Lowers(t) ==
  /\ t \in Deferring
  /\ cell' = FromPair(RawPtr(cell), RawTag(cell) - 1)
  /\ cur_ptr' = [cur_ptr EXCEPT ![t] = RawPtr(cell)]
  /\ Deferring' = Deferring \ {t}

Swaps(t) ==
  /\ t \notin Deferring
  /\ RawTag(cell) = 0
  /\ cell' = FromPair(owns[t]["desired"], 0)
  /\ cur_ptr' = [cur_ptr EXCEPT ![t] = RawPtr(cell)]
  /\ Deferring' = Deferring

Leaves(t) ==
  /\ cell' = cell
  /\ Deferring' = Deferring
  /\ \/ cur_ptr' = cur_ptr
     \/ t \notin Deferring /\ cur_ptr' = [cur_ptr EXCEPT ![t] = NULL]

LEMMA WordCases ==
  ASSUME Typed, NEW t \in Threads, Client(t) \/ Call(t) \/ Step(t)
  PROVE  Raises(t) \/ Lowers(t) \/ Swaps(t) \/ Leaves(t)
<1> USE DEF Typed, Deferring, Deferred
<1>1. CASE Client(t)
  BY <1>1 DEF Client, Make, CopyAssign, Reset, Leaves
<1>2. CASE Call(t)
  BY <1>2 DEF Call, LoadCall, StoreCall, ExchangeCall, CompareCall, Pass, Goto, Leaves
<1>3. CASE LoadDefer(t) \/ CompareDefer(t)
  BY <1>3 DEF LoadDefer, CompareDefer, Defer, Goto, Raises
<1>4. CASE LoadUndefer(t) \/ CompareUndefer(t)
  BY <1>4 DEF LoadUndefer, CompareUndefer, Goto, Lowers
<1>5. CASE ExchangeSwap(t) \/ StoreSwap(t) \/ CompareSwap(t)
  BY <1>5 DEF ExchangeSwap, StoreSwap, CompareSwap, Swap, Goto, Swaps
<1>6. CASE LoadCount(t) \/ CompareCount(t) \/ CompareAssign(t)
  BY <1>6 DEF LoadCount, CompareCount, CompareAssign, Count, Goto, Leaves
<1>7. CASE Assign(t) \/ Discard(t)
  BY <1>7 DEF Assign, Discard, Goto, Leaves
<1> QED BY <1>1, <1>2, <1>3, <1>4, <1>5, <1>6, <1>7 DEF Step

\* What the word becomes in each of these cases.
LEMMA WordStep ==
  ASSUME TagInv, NEW t \in Threads, Raises(t) \/ Lowers(t) \/ Swaps(t) \/ Leaves(t)
  PROVE  /\ cell' \in Words /\ RawPtr(cell') \in Pointers
         /\ RawPtr(cell') = IF Swaps(t) THEN owns[t]["desired"] ELSE RawPtr(cell)
         /\ TagIsDeferredCount' /\ Protected'
<1> USE DEF TagInv, Typed
<1>1. /\ RawPtr(cell) \in 0 .. PtrMod - 1
      /\ RawTag(cell) = Cardinality(Deferring)
      /\ RawTag(cell) \in 0 .. TagMod - 1
  BY Halves, PointersFit DEF TagIsDeferredCount
<1>2. IsFiniteSet(Deferring)
  BY DeferringFinite
<1>3. CASE Raises(t)
  <2>1. RawTag(cell) + 1 \in 0 .. TagMod - 1
    BY <1>1, <1>3, DeferringFinite DEF Raises
  <2>2. /\ cell' \in Words
        /\ RawPtr(cell') = RawPtr(cell) /\ RawTag(cell') = RawTag(cell) + 1
    BY <1>1, <1>3, <2>1, PackedPair DEF Raises
  <2>3. Cardinality(Deferring') = Cardinality(Deferring) + 1
    BY <1>2, <1>3, FS_AddElement DEF Raises
  <2>4. TagIsDeferredCount'
    BY <1>1, <2>2, <2>3 DEF TagIsDeferredCount
  <2>5. Protected'
    BY <1>3, <2>2 DEF Raises, Protected, Deferring
  <2>6. ~Swaps(t)
    BY <1>3 DEF Raises, Swaps
  <2> QED BY <2>2, <2>4, <2>5, <2>6
<1>4. CASE Lowers(t)
  <2>1. Cardinality(Deferring') = Cardinality(Deferring) - 1
    BY <1>2, <1>4, FS_RemoveElement DEF Lowers
  <2>2. Cardinality(Deferring') \in Nat
    BY <1>2, <1>4, FS_RemoveElement, FS_CardinalityType DEF Lowers
  <2>3. RawTag(cell) - 1 \in 0 .. TagMod - 1
    BY <1>1, <2>1, <2>2, WordAssumption
  <2>4. /\ cell' \in Words
        /\ RawPtr(cell') = RawPtr(cell) /\ RawTag(cell') = RawTag(cell) - 1
    BY <1>1, <1>4, <2>3, PackedPair DEF Lowers
  <2>5. TagIsDeferredCount'
    BY <1>1, <2>1, <2>4 DEF TagIsDeferredCount
  <2>6. Protected'
    BY <1>4, <2>4 DEF Lowers, Protected, Deferring
  <2>7. ~Swaps(t)
    BY <1>4 DEF Lowers, Swaps
  <2> QED BY <2>4, <2>5, <2>6, <2>7
<1>5. CASE Swaps(t)
  <2>1. owns[t]["desired"] \in Pointers
    BY DEF Names
  <2>2. /\ cell' \in Words
        /\ RawPtr(cell') = owns[t]["desired"] /\ RawTag(cell') = 0
    BY <1>5, <2>1, PackedPair, PointersFit DEF Swaps
  <2>3. Deferring = {}
    BY <1>1, <1>2, <1>5, FS_EmptySet DEF Swaps
  <2> QED BY <1>1, <1>5, <2>1, <2>2, <2>3 DEF Swaps, TagIsDeferredCount, Protected
<1>6. CASE Leaves(t)
  <2>1. RawPtr(cell') = IF Swaps(t) THEN owns[t]["desired"] ELSE RawPtr(cell)
    <3>1. SUFFICES ASSUME Swaps(t) PROVE RawPtr(cell') = owns[t]["desired"]
      BY <1>6 DEF Leaves
    <3>2. owns[t]["desired"] \in Pointers /\ cell' = FromPair(owns[t]["desired"], 0)
      BY <3>1 DEF Swaps, Names
    <3> QED BY <3>2, PackedPair, PointersFit
  <2>2. Protected'
    BY <1>6 DEF Leaves, Protected, Deferring
  <2> QED BY <1>1, <1>6, <2>1, <2>2 DEF Leaves, TagIsDeferredCount
<1> QED BY <1>3, <1>4, <1>5, <1>6

\* The types of the rest of the state.
LEMMA TypesStep ==
  ASSUME TagInv, NEW t \in Threads, Client(t) \/ Call(t) \/ Step(t)
  PROVE  /\ rcount' \in [Blocks -> Int]
         /\ pc' \in [Threads -> Labels]
         /\ cur_ptr' \in [Threads -> Pointers]
         /\ owns' \in [Threads -> [Names -> Pointers]]
<1> USE DEF TagInv, Typed
<1> DEFINE Rest == /\ pc' \in [Threads -> Labels]
                   /\ cur_ptr' \in [Threads -> Pointers]
                   /\ owns' \in [Threads -> [Names -> Pointers]]
<1>1. \A n \in Names : owns[t][n] \in Pointers
  OBVIOUS
<1>2. NULL \in Pointers /\ Blocks \subseteq Pointers /\ RawPtr(cell) \in Pointers
  BY DEF Pointers
<1>3. CASE Client(t)
  <2>1. CASE Make(t)
    BY <1>2, <2>1 DEF Make, Names
  <2>2. CASE CopyAssign(t)
    <3>1. owns[t]["e"] \in Pointers /\ owns[t]["d"] \in Pointers /\ 1 \in Int
      BY <1>1 DEF Names
    <3>2. rcount' \in [Blocks -> Int]
      BY <2>2, <3>1, AddType, DropType DEF CopyAssign
    <3> QED BY <2>2, <3>1, <3>2 DEF CopyAssign, Names
  <2>3. ASSUME NEW n \in {"e", "d"}, Reset(t, n)
        PROVE  rcount' \in [Blocks -> Int] /\ Rest
    <3>1. owns[t][n] \in Pointers
      BY <1>1 DEF Names
    <3>2. rcount' \in [Blocks -> Int]
      BY <2>3, <3>1, DropType DEF Reset
    <3>3. owns' \in [Threads -> [Names -> Pointers]]
      BY <1>2, <2>3 DEF Reset, Names
    <3>4. pc' = pc /\ cur_ptr' = cur_ptr
      BY <2>3 DEF Reset
    <3> QED BY <3>2, <3>3, <3>4
  <2> QED BY <1>3, <2>1, <2>2, <2>3 DEF Client
<1>4. CASE Call(t)
  <2>1. CASE LoadCall(t)
    BY <2>1 DEF LoadCall, Goto, Labels, Deferred
  <2>2. ASSUME NEW op \in {"store", "exchange", "compare"},
               NEW wrapped \in BOOLEAN, NEW moved \in BOOLEAN, Pass(t, op, wrapped, moved)
        PROVE  rcount' \in [Blocks -> Int] /\ Rest
    <3>1. rcount' \in [Blocks -> Int]
      <4>1. (IF wrapped THEN 1 ELSE 0) + (IF moved THEN 0 ELSE 1) \in Int
        OBVIOUS
      <4> QED BY <1>1, <2>2, <4>1, AddType DEF Pass, Names
    <3>2. Rest
      BY <1>1, <1>2, <2>2 DEF Pass, Goto, Labels, Names
    <3> QED BY <3>1, <3>2
  <2> QED BY <1>4, <2>1, <2>2 DEF Call, StoreCall, ExchangeCall, CompareCall
<1>5. CASE LoadDefer(t) \/ CompareDefer(t)
  BY <1>2, <1>5 DEF LoadDefer, CompareDefer, Defer, Goto, Labels, Deferred
<1>6. CASE LoadUndefer(t) \/ CompareUndefer(t)
  BY <1>2, <1>6 DEF LoadUndefer, CompareUndefer, Goto, Labels, Names
<1>7. CASE ExchangeSwap(t) \/ StoreSwap(t) \/ CompareSwap(t)
  <2>1. PICK to \in Labels : Swap(t, pc[t], to)
    BY <1>7 DEF ExchangeSwap, StoreSwap, CompareSwap, Swap, Goto, Labels
  <2> QED BY <1>2, <2>1 DEF Swap, Goto, Names
<1>8. CASE LoadCount(t) \/ CompareCount(t)
  <2>1. rcount' = Add(rcount, cur_ptr[t], 1) /\ cur_ptr[t] \in Pointers /\ 1 \in Int
    BY <1>8 DEF LoadCount, CompareCount, Count
  <2>2. rcount' \in [Blocks -> Int]
    BY <2>1, AddType
  <2>3. Rest
    BY <1>8 DEF LoadCount, CompareCount, Count, Goto, Labels, Deferred
  <2> QED BY <2>2, <2>3
<1>9. CASE Assign(t) \/ CompareAssign(t)
  <2>1. rcount' \in [Blocks -> Int]
    <3>1. rcount' = Drop(rcount, owns[t]["e"]) /\ owns[t]["e"] \in Pointers
      BY <1>1, <1>9 DEF Assign, CompareAssign, Names
    <3> QED BY <3>1, DropType
  <2>2. Rest
    <3>1. CASE Assign(t)
      BY <1>1, <1>2, <3>1 DEF Assign, Goto, Labels, Names
    <3>2. CASE CompareAssign(t)
      BY <1>2, <3>2 DEF CompareAssign, Goto, Labels, Deferred, Names
    <3> QED BY <1>9, <3>1, <3>2
  <2> QED BY <2>1, <2>2
<1>10. CASE Discard(t)
  <2>1. rcount' \in [Blocks -> Int]
    BY <1>1, <1>10, AddType, DropType DEF Discard, Names
  <2>2. Rest
    BY <1>2, <1>10 DEF Discard, Goto, Labels, Names
  <2> QED BY <2>1, <2>2
<1> QED BY <1>3, <1>4, <1>5, <1>6, <1>7, <1>8, <1>9, <1>10 DEF Step

LEMMA TagStep == TagInv /\ [Next]_vars => TagInv'
<1> SUFFICES ASSUME TagInv, [Next]_vars PROVE TagInv'
  OBVIOUS
<1>1. ASSUME NEW t \in Threads, Client(t) \/ Call(t) \/ Step(t)
      PROVE  TagInv'
  BY <1>1, WordCases, WordStep, TypesStep DEF TagInv, Typed
<1>2. CASE UNCHANGED vars
  BY <1>2 DEF vars, TagInv, Typed, TagIsDeferredCount, Protected, Deferring
<1> QED BY <1>1, <1>2 DEF Next

THEOREM TagInvCorrect == Spec => []TagInv
BY TagInit, TagStep, PTL DEF Spec

\* The tag is the deferred count, however many threads load at once.
THEOREM TagIsDeferredCountCorrect == Spec => []TagIsDeferredCount
<1>1. TagInv => TagIsDeferredCount
  BY DEF TagInv
<1> QED BY <1>1, TagInvCorrect, PTL

\* A word keeps its pointer while a thread is between the loops of a load.
THEOREM ProtectedCorrect == Spec => []Protected
<1>1. TagInv => Protected
  BY DEF TagInv
<1> QED BY <1>1, TagInvCorrect, PTL

-----------------------------------------------------------------------------
(* The counts.                                                             *)

\* Which SharedPtrs of a thread are null, so that a step may overwrite them, and
\* what e is while its reference is not counted.
Slots ==
  \A t \in Threads :
    /\ pc[t] \in {"idle", "load", "load_count", "load_undefer", "assign"}
         => owns[t]["arg"] = NULL /\ owns[t]["desired"] = NULL
    /\ pc[t] = "exchange" => owns[t]["arg"] = NULL
    /\ pc[t] \notin {"assign", "discard"} => owns[t]["old"] = NULL
    /\ pc[t] = "compare_count" => owns[t]["e"] = cur_ptr[t]

CountInv == TagInv /\ Slots /\ RefCountExact

\* What a thread contributes to the count of b.
Is(x, b) == IF x = b THEN 1 ELSE 0

Share(t, b) ==
  Is(owns[t]["e"], b) + Is(owns[t]["d"], b) + Is(owns[t]["arg"], b)
    + Is(owns[t]["desired"], b) + Is(owns[t]["old"], b)
    + (IF pc[t] = "load_undefer" THEN Is(cur_ptr[t], b) ELSE 0)
    - (IF pc[t] = "compare_count" THEN Is(owns[t]["e"], b) ELSE 0)

References(b) ==
  Cardinality(SharedPtrsTo(b)) + Cardinality(Floating(b)) - Cardinality(Uncounted(b))

\* SharedPtrs that hold b, in any table of them.
Holding(o, b) == {x \in Threads \X Names : o[x[1]][x[2]] = b}

LEMMA HoldingFinite ==
  ASSUME NEW o, NEW b
  PROVE  IsFiniteSet(Holding(o, b)) /\ Cardinality(Holding(o, b)) \in Nat
<1>1. IsFiniteSet(Names)
  <2>1. Names = {} \cup {"e"} \cup {"d"} \cup {"arg"} \cup {"desired"} \cup {"old"}
    BY DEF Names
  <2> QED BY <2>1, FS_EmptySet, FS_AddElement
<1>2. IsFiniteSet(Threads \X Names)
  BY <1>1, TagAssumption, FS_Product
<1> QED BY <1>2, FS_Subset, FS_CardinalityType DEF Holding

LEMMA HoldingOne ==
  ASSUME NEW o, NEW q, NEW b, NEW t \in Threads, NEW n \in Names,
         \A s \in Threads : \A m \in Names : s # t \/ m # n => q[s][m] = o[s][m]
  PROVE  Cardinality(Holding(q, b))
           = Cardinality(Holding(o, b)) - Is(o[t][n], b) + Is(q[t][n], b)
<1> DEFINE x == <<t, n>>
<1>1. /\ x \in Holding(o, b) <=> o[t][n] = b
      /\ x \in Holding(q, b) <=> q[t][n] = b
  BY DEF Holding
<1>2. Holding(o, b) \ {x} = Holding(q, b) \ {x}
  BY DEF Holding
<1>3. IsFiniteSet(Holding(o, b))
  BY HoldingFinite
<1> HIDE DEF x
<1>4. Cardinality(Holding(q, b))
        = Cardinality(Holding(o, b)) - (IF x \in Holding(o, b) THEN 1 ELSE 0)
                                     + (IF x \in Holding(q, b) THEN 1 ELSE 0)
  BY <1>2, <1>3, OneElement
<1> QED BY <1>1, <1>4 DEF Is

\* A step of one thread changes the references to b by what that thread's
\* share changes.
OnlyThread(t) ==
  \A s \in Threads \ {t} :
    pc'[s] = pc[s] /\ cur_ptr'[s] = cur_ptr[s] /\ owns'[s] = owns[s]

LEMMA ShareStep ==
  ASSUME Typed, Typed', NEW t \in Threads, OnlyThread(t), NEW b
  PROVE  /\ References(b) \in Int /\ References(b)' \in Int
         /\ References(b)' - References(b) = Share(t, b)' - Share(t, b)
<1> DEFINE o1 == [owns EXCEPT ![t]["e"] = owns'[t]["e"]]
           o2 == [o1 EXCEPT ![t]["d"] = owns'[t]["d"]]
           o3 == [o2 EXCEPT ![t]["arg"] = owns'[t]["arg"]]
           o4 == [o3 EXCEPT ![t]["desired"] = owns'[t]["desired"]]
           o5 == [o4 EXCEPT ![t]["old"] = owns'[t]["old"]]
           Table == [Threads -> [Names -> Pointers]]
<1>1. \A n \in Names : owns'[t][n] \in Pointers
  BY DEF Typed
<1>2. /\ o1 \in Table /\ o2 \in Table /\ o3 \in Table /\ o4 \in Table /\ o5 \in Table
  BY <1>1 DEF Typed, Names
<1>3. owns' = o5
  <2>1. owns' \in Table /\ owns \in Table
    BY DEF Typed
  <2>2. ASSUME NEW s \in Threads, NEW n \in Names PROVE owns'[s][n] = o5[s][n]
    BY <2>1 DEF Names, OnlyThread
  <2> HIDE DEF o5
  <2>3. ASSUME NEW s \in Threads PROVE owns'[s] = o5[s]
    BY <1>2, <2>1, <2>2
  <2> QED BY <1>2, <2>1, <2>3
<1>4. /\ o1[t]["d"] = owns[t]["d"] /\ o2[t]["arg"] = owns[t]["arg"]
      /\ o3[t]["desired"] = owns[t]["desired"] /\ o4[t]["old"] = owns[t]["old"]
      /\ o1[t]["e"] = owns'[t]["e"] /\ o2[t]["d"] = owns'[t]["d"]
      /\ o3[t]["arg"] = owns'[t]["arg"] /\ o4[t]["desired"] = owns'[t]["desired"]
      /\ o5[t]["old"] = owns'[t]["old"]
  BY DEF Typed, Names
<1>5. /\ SharedPtrsTo(b) = Holding(owns, b)
      /\ SharedPtrsTo(b)' = Holding(o5, b)
  BY <1>3 DEF SharedPtrsTo, Holding
<1>6. /\ Cardinality(Holding(owns, b)) \in Nat
      /\ Cardinality(Holding(o1, b)) \in Nat /\ Cardinality(Holding(o2, b)) \in Nat
      /\ Cardinality(Holding(o3, b)) \in Nat /\ Cardinality(Holding(o4, b)) \in Nat
      /\ Cardinality(Holding(o5, b)) \in Nat
  BY HoldingFinite
<1>7. /\ Cardinality(Holding(o1, b))
           = Cardinality(Holding(owns, b)) - Is(owns[t]["e"], b) + Is(o1[t]["e"], b)
      /\ Cardinality(Holding(o2, b))
           = Cardinality(Holding(o1, b)) - Is(o1[t]["d"], b) + Is(o2[t]["d"], b)
      /\ Cardinality(Holding(o3, b))
           = Cardinality(Holding(o2, b)) - Is(o2[t]["arg"], b) + Is(o3[t]["arg"], b)
      /\ Cardinality(Holding(o4, b))
           = Cardinality(Holding(o3, b)) - Is(o3[t]["desired"], b) + Is(o4[t]["desired"], b)
      /\ Cardinality(Holding(o5, b))
           = Cardinality(Holding(o4, b)) - Is(o4[t]["old"], b) + Is(o5[t]["old"], b)
  <2>1. Cardinality(Holding(o1, b))
        = Cardinality(Holding(owns, b)) - Is(owns[t]["e"], b) + Is(o1[t]["e"], b)
    <3>1. \A s \in Threads : \A m \in Names : s # t \/ m # "e" => o1[s][m] = owns[s][m]
      BY DEF Typed, Names
    <3> HIDE DEF o1, o2, o3, o4, o5
    <3> QED BY <3>1, HoldingOne DEF Names
  <2>2. Cardinality(Holding(o2, b))
        = Cardinality(Holding(o1, b)) - Is(o1[t]["d"], b) + Is(o2[t]["d"], b)
    <3>1. \A s \in Threads : \A m \in Names : s # t \/ m # "d" => o2[s][m] = o1[s][m]
      BY DEF Typed, Names
    <3> HIDE DEF o1, o2, o3, o4, o5
    <3> QED BY <3>1, HoldingOne DEF Names
  <2>3. Cardinality(Holding(o3, b))
        = Cardinality(Holding(o2, b)) - Is(o2[t]["arg"], b) + Is(o3[t]["arg"], b)
    <3>1. \A s \in Threads : \A m \in Names : s # t \/ m # "arg" => o3[s][m] = o2[s][m]
      BY DEF Typed, Names
    <3> HIDE DEF o1, o2, o3, o4, o5
    <3> QED BY <3>1, HoldingOne DEF Names
  <2>4. Cardinality(Holding(o4, b))
        = Cardinality(Holding(o3, b)) - Is(o3[t]["desired"], b) + Is(o4[t]["desired"], b)
    <3>1. \A s \in Threads : \A m \in Names : s # t \/ m # "desired" => o4[s][m] = o3[s][m]
      BY DEF Typed, Names
    <3> HIDE DEF o1, o2, o3, o4, o5
    <3> QED BY <3>1, HoldingOne DEF Names
  <2>5. Cardinality(Holding(o5, b))
        = Cardinality(Holding(o4, b)) - Is(o4[t]["old"], b) + Is(o5[t]["old"], b)
    <3>1. \A s \in Threads : \A m \in Names : s # t \/ m # "old" => o5[s][m] = o4[s][m]
      BY DEF Typed, Names
    <3> HIDE DEF o1, o2, o3, o4, o5
    <3> QED BY <3>1, HoldingOne DEF Names
  <2> QED BY <2>1, <2>2, <2>3, <2>4, <2>5
<1>8. /\ IsFiniteSet(Floating(b)) /\ IsFiniteSet(Uncounted(b))
      /\ Floating(b) \ {t} = Floating(b)' \ {t}
      /\ Uncounted(b) \ {t} = Uncounted(b)' \ {t}
  BY TagAssumption, FS_Subset DEF Floating, Uncounted, OnlyThread
<1>9. /\ Cardinality(Floating(b)) \in Nat /\ Cardinality(Floating(b)') \in Nat
      /\ Cardinality(Floating(b)')
           = Cardinality(Floating(b)) - (IF t \in Floating(b) THEN 1 ELSE 0)
                                        + (IF t \in Floating(b)' THEN 1 ELSE 0)
  BY <1>8, OneElement
<1>10. /\ Cardinality(Uncounted(b)) \in Nat /\ Cardinality(Uncounted(b)') \in Nat
       /\ Cardinality(Uncounted(b)')
            = Cardinality(Uncounted(b)) - (IF t \in Uncounted(b) THEN 1 ELSE 0)
                                          + (IF t \in Uncounted(b)' THEN 1 ELSE 0)
  BY <1>8, OneElement
<1>11. /\ t \in Floating(b) <=> pc[t] = "load_undefer" /\ cur_ptr[t] = b
       /\ t \in Floating(b)' <=> pc'[t] = "load_undefer" /\ cur_ptr'[t] = b
       /\ t \in Uncounted(b) <=> pc[t] = "compare_count" /\ owns[t]["e"] = b
       /\ t \in Uncounted(b)' <=> pc'[t] = "compare_count" /\ owns'[t]["e"] = b
  BY DEF Floating, Uncounted
<1> HIDE DEF o1, o2, o3, o4, o5
<1> DEFINE Held(o) == Is(o[t]["e"], b) + Is(o[t]["d"], b) + Is(o[t]["arg"], b)
                        + Is(o[t]["desired"], b) + Is(o[t]["old"], b)
<1>12. \A x : Is(x, b) \in {0, 1}
  BY DEF Is
<1>13. Cardinality(SharedPtrsTo(b)') = Cardinality(SharedPtrsTo(b)) - Held(owns) + Held(owns')
  BY <1>4, <1>5, <1>6, <1>7, <1>12
<1> DEFINE F0 == IF pc[t] = "load_undefer" THEN Is(cur_ptr[t], b) ELSE 0
           F1 == IF pc'[t] = "load_undefer" THEN Is(cur_ptr'[t], b) ELSE 0
           U0 == IF pc[t] = "compare_count" THEN Is(owns[t]["e"], b) ELSE 0
           U1 == IF pc'[t] = "compare_count" THEN Is(owns'[t]["e"], b) ELSE 0
<1>14. Cardinality(Floating(b)') = Cardinality(Floating(b)) - F0 + F1
  BY <1>9, <1>11 DEF Is
<1>15. Cardinality(Uncounted(b)') = Cardinality(Uncounted(b)) - U0 + U1
  BY <1>10, <1>11 DEF Is
<1>16. Cardinality(SharedPtrsTo(b)) \in Nat /\ Cardinality(SharedPtrsTo(b)') \in Nat
  BY <1>5, <1>6
<1>17. Share(t, b) = Held(owns) + F0 - U0 /\ Share(t, b)' = Held(owns') + F1 - U1
  BY DEF Share
<1>18. /\ F0 \in Int /\ F1 \in Int /\ U0 \in Int /\ U1 \in Int
       /\ Held(owns) \in Int /\ Held(owns') \in Int
  BY <1>12
<1>19. /\ References(b)
            = Cardinality(SharedPtrsTo(b)) + Cardinality(Floating(b)) - Cardinality(Uncounted(b))
       /\ References(b)'
            = Cardinality(SharedPtrsTo(b)') + Cardinality(Floating(b)') - Cardinality(Uncounted(b)')
  BY DEF References
<1> HIDE DEF F0, F1, U0, U1, Held
<1> QED BY <1>9, <1>10, <1>13, <1>14, <1>15, <1>16, <1>17, <1>18, <1>19

\* The value of a count after AllocData::copy and Deallocator.
LEMMA AddValue ==
  ASSUME NEW c \in [Blocks -> Int], NEW p \in Pointers, NEW n \in Int, NEW b \in Blocks
  PROVE  Add(c, p, n)[b] = IF p = b THEN c[b] + n ELSE c[b]
BY PointersFit DEF Add, Pointers

LEMMA DropValue ==
  ASSUME NEW c \in [Blocks -> Int], NEW p \in Pointers, NEW b \in Blocks
  PROVE  Drop(c, p)[b] = c[b] - Is(p, b)
BY AddValue DEF Drop, Is

\* RefCountExact, with what it sums put on one side.
Exact(b) == rcount[b] = References(b) + Is(RawPtr(cell), b)

AllExact == \A b \in Blocks : Exact(b)

LEMMA ExactSum == Typed => (RefCountExact <=> AllExact)
<1> SUFFICES ASSUME Typed, NEW b \in Blocks
             PROVE  rcount[b] + Cardinality(Uncounted(b))
                       = Cardinality(SharedPtrsTo(b)) + Cardinality(Floating(b))
                           + (IF RawPtr(cell) = b THEN 1 ELSE 0)
                      <=> Exact(b)
  BY DEF RefCountExact, AllExact
<1>1. SharedPtrsTo(b) = Holding(owns, b)
  BY DEF SharedPtrsTo, Holding
<1>2. Cardinality(SharedPtrsTo(b)) \in Nat
  BY <1>1, HoldingFinite
<1>3. IsFiniteSet(Floating(b)) /\ IsFiniteSet(Uncounted(b))
  BY TagAssumption, FS_Subset DEF Floating, Uncounted
<1>4. Cardinality(Floating(b)) \in Nat /\ Cardinality(Uncounted(b)) \in Nat
  BY <1>3, FS_CardinalityType
<1>5. rcount[b] \in Int
  BY DEF Typed
<1> QED BY <1>2, <1>4, <1>5 DEF Exact, References, Is

LEMMA OnlyThreadStep ==
  ASSUME Typed, NEW t \in Threads, Client(t) \/ Call(t) \/ Step(t)
  PROVE  OnlyThread(t)
<1> USE DEF OnlyThread, Typed, Goto
<1>1. CASE Client(t)
  BY <1>1 DEF Client, Make, CopyAssign, Reset
<1>2. CASE Call(t)
  BY <1>2 DEF Call, LoadCall, StoreCall, ExchangeCall, CompareCall, Pass
<1>3. CASE LoadDefer(t) \/ LoadCount(t) \/ LoadUndefer(t) \/ Assign(t)
  BY <1>3 DEF LoadDefer, Defer, LoadCount, Count, LoadUndefer, Assign
<1>4. CASE ExchangeSwap(t) \/ StoreSwap(t) \/ CompareSwap(t) \/ Discard(t)
  BY <1>4 DEF ExchangeSwap, StoreSwap, CompareSwap, Swap, Discard
<1>5. CASE CompareDefer(t) \/ CompareAssign(t) \/ CompareCount(t) \/ CompareUndefer(t)
  BY <1>5 DEF CompareDefer, Defer, CompareAssign, CompareCount, Count, CompareUndefer
<1> QED BY <1>1, <1>2, <1>3, <1>4, <1>5 DEF Step

LEMMA SlotsStep ==
  ASSUME TagInv, Slots, NEW t \in Threads, Client(t) \/ Call(t) \/ Step(t)
  PROVE  Slots'
<1> DEFINE Own == /\ pc'[t] \in {"idle", "load", "load_count", "load_undefer", "assign"}
                       => owns'[t]["arg"] = NULL /\ owns'[t]["desired"] = NULL
                  /\ pc'[t] = "exchange" => owns'[t]["arg"] = NULL
                  /\ pc'[t] \notin {"assign", "discard"} => owns'[t]["old"] = NULL
                  /\ pc'[t] = "compare_count" => owns'[t]["e"] = cur_ptr'[t]
<1>1. SUFFICES Own
  BY OnlyThreadStep DEF TagInv, Slots, OnlyThread
<1> USE DEF TagInv, Typed, Slots, Goto, Names
<1>2. CASE Client(t)
  BY <1>2 DEF Client, Make, CopyAssign, Reset
<1>3. CASE Call(t)
  <2>1. CASE LoadCall(t)
    BY <2>1 DEF LoadCall
  <2>2. ASSUME NEW op \in {"store", "compare"}, NEW wrapped \in BOOLEAN, NEW moved \in BOOLEAN,
               Pass(t, op, wrapped, moved)
        PROVE  Own
    BY <2>2 DEF Pass
  <2>3. ASSUME NEW moved \in BOOLEAN, Pass(t, "exchange", FALSE, moved)
        PROVE  Own
    BY <2>3 DEF Pass
  <2> QED BY <1>3, <2>1, <2>2, <2>3 DEF Call, StoreCall, ExchangeCall, CompareCall
<1>4. CASE LoadDefer(t) \/ LoadCount(t) \/ LoadUndefer(t) \/ Assign(t)
  <2>1. CASE LoadDefer(t) \/ LoadCount(t)
    BY <2>1 DEF LoadDefer, Defer, LoadCount, Count
  <2>2. CASE LoadUndefer(t)
    BY <2>2 DEF LoadUndefer
  <2>3. CASE Assign(t)
    BY <2>3 DEF Assign
  <2> QED BY <1>4, <2>1, <2>2, <2>3
<1>5. CASE ExchangeSwap(t) \/ StoreSwap(t) \/ CompareSwap(t) \/ Discard(t)
  <2>1. CASE ExchangeSwap(t)
    BY <2>1 DEF ExchangeSwap, Swap
  <2>2. CASE StoreSwap(t)
    BY <2>2 DEF StoreSwap, Swap
  <2>3. CASE CompareSwap(t)
    BY <2>3 DEF CompareSwap, Swap
  <2>4. CASE Discard(t)
    BY <2>4 DEF Discard
  <2> QED BY <1>5, <2>1, <2>2, <2>3, <2>4
<1>6. CASE CompareDefer(t) \/ CompareAssign(t) \/ CompareCount(t) \/ CompareUndefer(t)
  BY <1>6 DEF CompareDefer, Defer, CompareAssign, CompareCount, Count, CompareUndefer
<1> QED BY <1>2, <1>3, <1>4, <1>5, <1>6 DEF Step

\* The pointer of the word after the steps that write it.
LEMMA PointerStep ==
  ASSUME TagInv, NEW t \in Threads
  PROVE  /\ LoadDefer(t) \/ CompareDefer(t) \/ LoadUndefer(t) \/ CompareUndefer(t)
              => RawPtr(cell') = RawPtr(cell)
         /\ ExchangeSwap(t) \/ StoreSwap(t) \/ CompareSwap(t)
              => RawPtr(cell') = owns[t]["desired"]
<1>1. CASE LoadDefer(t) \/ CompareDefer(t)
  <2>1. Raises(t)
    BY <1>1 DEF LoadDefer, CompareDefer, Defer, Goto, Raises, TagInv, Typed, Deferring, Deferred
  <2>2. ~Swaps(t)
    BY <2>1 DEF Raises, Swaps
  <2>3. pc[t] \in {"load", "compare"} /\ pc'[t] \in Deferred
    BY <1>1 DEF LoadDefer, CompareDefer, Defer, Goto, TagInv, Typed, Deferred
  <2> QED BY <2>1, <2>2, <2>3, WordStep DEF ExchangeSwap, StoreSwap, CompareSwap, Swap, Goto, Deferred, TagInv, Typed
<1>2. CASE LoadUndefer(t) \/ CompareUndefer(t)
  <2>1. Lowers(t)
    BY <1>2 DEF LoadUndefer, CompareUndefer, Goto, Lowers, TagInv, Typed, Deferring, Deferred
  <2>2. ~Swaps(t)
    BY <2>1 DEF Lowers, Swaps
  <2>3. pc[t] \in {"load_undefer", "compare_undefer"}
    BY <1>2 DEF LoadUndefer, CompareUndefer, Goto
  <2> QED BY <2>1, <2>2, <2>3, WordStep DEF ExchangeSwap, StoreSwap, CompareSwap, Swap, Goto
<1>3. CASE ExchangeSwap(t) \/ StoreSwap(t) \/ CompareSwap(t)
  <2>1. cell' = FromPair(owns[t]["desired"], 0) /\ owns[t]["desired"] \in 0 .. PtrMod - 1
    BY <1>3, PointersFit DEF ExchangeSwap, StoreSwap, CompareSwap, Swap, TagInv, Typed, Names
  <2>2. RawPtr(cell') = owns[t]["desired"]
    BY <2>1, PointersFit, PackedPair
  <2>3. ~(LoadDefer(t) \/ CompareDefer(t) \/ LoadUndefer(t) \/ CompareUndefer(t))
    BY <1>3 DEF ExchangeSwap, StoreSwap, CompareSwap, Swap, LoadDefer, CompareDefer, Defer,
                LoadUndefer, CompareUndefer, Goto, TagInv, Typed
  <2> QED BY <2>2, <2>3
<1> QED BY <1>1, <1>2, <1>3

\* Each step changes the count of b by what the thread's share and the word's
\* change.
LEMMA DeltaStep ==
  ASSUME CountInv, TagInv', NEW t \in Threads, Client(t) \/ Call(t) \/ Step(t),
         NEW b \in Blocks
  PROVE  rcount'[b] - rcount[b]
           = Share(t, b)' - Share(t, b) + Is(RawPtr(cell'), b) - Is(RawPtr(cell), b)
<1> DEFINE Delta == Share(t, b)' - Share(t, b) + Is(RawPtr(cell'), b) - Is(RawPtr(cell), b)
<1>1. /\ \A x : Is(x, b) \in {0, 1}
      /\ Is(NULL, b) = 0 /\ Is(b, b) = 1
  BY PointersFit DEF Is
<1>2. Typed /\ Typed' /\ rcount[b] \in Int /\ rcount'[b] \in Int
  BY DEF CountInv, TagInv, Typed
<1>3. TagInv /\ Slots
  BY DEF CountInv
<1>4. cur_ptr[t] \in Pointers /\ \A n \in Names : owns[t][n] \in Pointers
  BY <1>2 DEF Typed
<1> DEFINE Pcs(from, to) == pc[t] = from /\ pc'[t] = to
           SameOwn == owns'[t] = owns[t]
           SameWord == RawPtr(cell') = RawPtr(cell)
<1>5. CASE Make(t)
  <2>1. /\ pc'[t] = pc[t] /\ pc[t] = "idle" /\ SameWord
        /\ owns'[t]["e"] = owns[t]["e"] /\ owns'[t]["arg"] = owns[t]["arg"]
        /\ owns'[t]["desired"] = owns[t]["desired"] /\ owns'[t]["old"] = owns[t]["old"]
    BY <1>2, <1>5 DEF Make, Typed, Names
  <2>2. rcount'[b] - rcount[b] = Is(owns'[t]["d"], b) /\ owns[t]["d"] = NULL
    BY <1>1, <1>2, <1>5 DEF Make, Typed, Names, Is
  <2> QED BY <1>1, <2>1, <2>2 DEF Share, Names
<1>6. CASE CopyAssign(t)
  <2>1. /\ pc'[t] = pc[t] /\ pc[t] = "idle" /\ SameWord
        /\ owns'[t]["e"] = owns[t]["e"] /\ owns'[t]["arg"] = owns[t]["arg"]
        /\ owns'[t]["desired"] = owns[t]["desired"] /\ owns'[t]["old"] = owns[t]["old"]
        /\ owns'[t]["d"] = owns[t]["e"]
    BY <1>2, <1>6 DEF CopyAssign, Typed, Names
  <2>2. /\ owns[t]["e"] \in Pointers /\ owns[t]["d"] \in Pointers /\ 1 \in Int
        /\ rcount \in [Blocks -> Int]
    BY <1>2, <1>4 DEF Names, Typed
  <2> DEFINE c == Add(rcount, owns[t]["e"], 1)
  <2>3. /\ c \in [Blocks -> Int]
        /\ c[b] = rcount[b] + Is(owns[t]["e"], b)
    BY <2>2, AddType, AddValue DEF Is
  <2>4. rcount'[b] = c[b] - Is(owns[t]["d"], b)
    <3>1. rcount' = Drop(c, owns[t]["d"])
      BY <1>6 DEF CopyAssign
    <3> HIDE DEF c
    <3> QED BY <2>2, <2>3, <3>1, DropValue
  <2> HIDE DEF c
  <2> QED BY <1>2, <2>1, <2>3, <2>4, PointersFit DEF Share, Is
<1>7. ASSUME NEW n \in {"e", "d"}, Reset(t, n)
      PROVE  rcount'[b] - rcount[b] = Delta
  <2>1. /\ pc'[t] = pc[t] /\ pc[t] = "idle" /\ SameWord
        /\ \A k \in Names \ {n} : owns'[t][k] = owns[t][k]
        /\ owns'[t][n] = NULL
    BY <1>2, <1>7 DEF Reset, Typed, Names
  <2>2. owns[t][n] \in Pointers /\ rcount \in [Blocks -> Int]
    BY <1>2, <1>4 DEF Names, Typed
  <2>3. rcount'[b] = rcount[b] - Is(owns[t][n], b)
    BY <1>7, <2>2, DropValue DEF Reset
  <2>4. /\ \A k \in Names \ {n} : Is(owns'[t][k], b) = Is(owns[t][k], b)
        /\ Is(owns'[t][n], b) = 0
    BY <1>1, <2>1
  <2>5. Share(t, b)' - Share(t, b) = - Is(owns[t][n], b)
    <3>1. /\ Is(owns[t]["e"], b) \in Int /\ Is(owns[t]["d"], b) \in Int
          /\ Is(owns[t]["arg"], b) \in Int /\ Is(owns[t]["desired"], b) \in Int
          /\ Is(owns[t]["old"], b) \in Int
      BY <1>1
    <3>2. Share(t, b) = Is(owns[t]["e"], b) + Is(owns[t]["d"], b) + Is(owns[t]["arg"], b)
                          + Is(owns[t]["desired"], b) + Is(owns[t]["old"], b)
      BY <2>1, <3>1 DEF Share
    <3>3. Share(t, b)' = Is(owns'[t]["e"], b) + Is(owns'[t]["d"], b) + Is(owns'[t]["arg"], b)
                           + Is(owns'[t]["desired"], b) + Is(owns'[t]["old"], b)
      BY <2>1, <2>4, <3>1 DEF Share, Names
    <3> QED BY <2>4, <3>1, <3>2, <3>3 DEF Names
  <2> QED BY <1>1, <1>2, <2>1, <2>3, <2>5
<1>8. CASE LoadCall(t)
  BY <1>1, <1>2, <1>8 DEF LoadCall, Goto, Share, Typed
<1>9. ASSUME NEW op \in {"store", "exchange", "compare"}, NEW wrapped \in BOOLEAN,
             NEW moved \in BOOLEAN, Pass(t, op, wrapped, moved)
      PROVE  rcount'[b] - rcount[b] = Delta
  <2> DEFINE n == (IF wrapped THEN 1 ELSE 0) + (IF moved THEN 0 ELSE 1)
             x == owns[t]["d"]
  <2>1. /\ Pcs("idle", op) /\ SameWord
        /\ owns'[t]["e"] = owns[t]["e"] /\ owns'[t]["old"] = owns[t]["old"]
        /\ owns'[t]["d"] = (IF moved THEN NULL ELSE x)
        /\ owns'[t]["arg"] = (IF wrapped THEN x ELSE NULL)
        /\ owns'[t]["desired"] = x
    BY <1>2, <1>9 DEF Pass, Goto, Typed, Names
  <2>2. owns[t]["arg"] = NULL /\ owns[t]["desired"] = NULL
    BY <1>3, <2>1 DEF Slots
  <2>3. n \in Int /\ x \in Pointers /\ rcount \in [Blocks -> Int] /\ rcount' = Add(rcount, x, n)
    BY <1>2, <1>4, <1>9 DEF Pass, Names, Typed
  <2>4. rcount'[b] = IF x = b THEN rcount[b] + n ELSE rcount[b]
    <3> HIDE DEF n, x
    <3> QED BY <2>3, AddValue
  <2>5. /\ Is(owns'[t]["d"], b) = IF moved THEN 0 ELSE Is(x, b)
        /\ Is(owns'[t]["arg"], b) = IF wrapped THEN Is(x, b) ELSE 0
    BY <1>1, <2>1
  <2> QED BY <1>1, <1>2, <2>1, <2>2, <2>4, <2>5 DEF Share, Is
<1>10. CASE LoadDefer(t) \/ CompareDefer(t)
  <2>1. /\ SameWord /\ SameOwn /\ rcount' = rcount
        /\ pc[t] \in {"load", "compare"} /\ pc'[t] \in {"load_count", "compare_assign"}
    BY <1>2, <1>3, <1>10, PointerStep DEF LoadDefer, CompareDefer, Defer, Goto, Typed
  <2> QED BY <1>1, <1>2, <2>1 DEF Share
<1>11. CASE LoadCount(t) \/ CompareCount(t)
  <2>1. /\ SameWord /\ SameOwn /\ cur_ptr'[t] = cur_ptr[t]
        /\ rcount' = Add(rcount, cur_ptr[t], 1)
        /\ Pcs("load_count", "load_undefer") \/ Pcs("compare_count", "compare_undefer")
    BY <1>2, <1>11 DEF LoadCount, CompareCount, Count, Goto, Typed
  <2>2. 1 \in Int /\ rcount \in [Blocks -> Int]
    BY <1>2 DEF Typed
  <2>3. rcount'[b] = rcount[b] + Is(cur_ptr[t], b)
    BY <1>2, <1>4, <2>1, <2>2, AddValue DEF Is
  <2>4. pc[t] = "compare_count" => owns[t]["e"] = cur_ptr[t]
    BY <1>3 DEF Slots
  <2> QED BY <1>1, <1>2, <2>1, <2>3, <2>4 DEF Share
<1>12. CASE LoadUndefer(t)
  <2>1. /\ SameWord /\ rcount' = rcount
        /\ Pcs("load_undefer", "assign")
        /\ owns'[t]["e"] = owns[t]["e"] /\ owns'[t]["d"] = owns[t]["d"]
        /\ owns'[t]["arg"] = owns[t]["arg"] /\ owns'[t]["desired"] = owns[t]["desired"]
        /\ owns'[t]["old"] = RawPtr(cell)
    BY <1>2, <1>3, <1>12, PointerStep DEF LoadUndefer, Goto, Typed, Names
  <2>2. owns[t]["old"] = NULL /\ cur_ptr[t] = RawPtr(cell)
    BY <1>3, <2>1 DEF Slots, TagInv, Protected, Deferring, Deferred
  <2> QED BY <1>1, <1>2, <2>1, <2>2 DEF Share, Names
<1>13. CASE Assign(t)
  <2>1. /\ SameWord /\ Pcs("assign", "idle")
        /\ owns'[t]["d"] = owns[t]["d"] /\ owns'[t]["arg"] = owns[t]["arg"]
        /\ owns'[t]["desired"] = owns[t]["desired"]
        /\ owns'[t]["e"] = owns[t]["old"] /\ owns'[t]["old"] = NULL
    BY <1>2, <1>13 DEF Assign, Goto, Typed, Names
  <2>2. owns[t]["e"] \in Pointers /\ rcount \in [Blocks -> Int]
    BY <1>2, <1>4 DEF Names, Typed
  <2>3. rcount'[b] = rcount[b] - Is(owns[t]["e"], b)
    BY <1>13, <2>2, DropValue DEF Assign
  <2> QED BY <1>2, <2>1, <2>3, PointersFit DEF Share, Is
<1>14. CASE ExchangeSwap(t) \/ StoreSwap(t) \/ CompareSwap(t)
  <2>1. /\ rcount' = rcount /\ RawPtr(cell') = owns[t]["desired"]
        /\ pc[t] \in {"exchange", "store", "compare"} /\ pc'[t] \in {"assign", "discard"}
    BY <1>2, <1>3, <1>14, PointerStep DEF ExchangeSwap, StoreSwap, CompareSwap, Swap, Goto, Typed
  <2>2. /\ owns'[t]["e"] = owns[t]["e"] /\ owns'[t]["d"] = owns[t]["d"]
 /\ owns'[t]["arg"] = owns[t]["arg"]
        /\ owns'[t]["old"] = RawPtr(cell) /\ owns'[t]["desired"] = NULL
    BY <1>2, <1>14 DEF ExchangeSwap, StoreSwap, CompareSwap, Swap, Typed, Names
  <2>3. owns[t]["old"] = NULL
    BY <1>3, <2>1 DEF Slots
  <2> QED BY <1>1, <1>2, <2>1, <2>2, <2>3 DEF Share, Names
<1>15. CASE Discard(t)
  <2> DEFINE c1 == Drop(rcount, owns[t]["old"])
             c2 == Drop(c1, owns[t]["desired"])
  <2>1. /\ SameWord /\ Pcs("discard", "idle")
        /\ owns'[t]["e"] = owns[t]["e"] /\ owns'[t]["d"] = owns[t]["d"]
        /\ owns'[t]["old"] = NULL /\ owns'[t]["desired"] = NULL /\ owns'[t]["arg"] = NULL
    BY <1>2, <1>15 DEF Discard, Goto, Typed, Names
  <2>2. /\ owns[t]["old"] \in Pointers /\ owns[t]["desired"] \in Pointers
        /\ owns[t]["arg"] \in Pointers /\ rcount \in [Blocks -> Int]
    BY <1>2, <1>4 DEF Names, Typed
  <2>3. c1 \in [Blocks -> Int] /\ c1[b] = rcount[b] - Is(owns[t]["old"], b)
    BY <2>2, DropType, DropValue
  <2>4. c2 \in [Blocks -> Int] /\ c2[b] = c1[b] - Is(owns[t]["desired"], b)
    <3> HIDE DEF c1
    <3> QED BY <2>2, <2>3, DropType, DropValue
  <2>5. rcount'[b] = c2[b] - Is(owns[t]["arg"], b)
    <3>1. rcount' = Drop(c2, owns[t]["arg"])
      BY <1>15 DEF Discard
    <3> HIDE DEF c2
    <3> QED BY <2>2, <2>4, <3>1, DropValue
  <2> HIDE DEF c1, c2
  <2> QED BY <1>1, <1>2, <2>1, <2>3, <2>4, <2>5 DEF Share
<1>16. CASE CompareAssign(t)
  <2>1. /\ SameWord /\ Pcs("compare_assign", "compare_count")
        /\ owns'[t]["d"] = owns[t]["d"] /\ owns'[t]["arg"] = owns[t]["arg"]
        /\ owns'[t]["desired"] = owns[t]["desired"] /\ owns'[t]["old"] = owns[t]["old"]
        /\ owns'[t]["e"] = cur_ptr[t]
    BY <1>2, <1>16 DEF CompareAssign, Goto, Typed, Names
  <2>2. owns[t]["e"] \in Pointers /\ rcount \in [Blocks -> Int]
    BY <1>2, <1>4 DEF Names, Typed
  <2>3. rcount'[b] = rcount[b] - Is(owns[t]["e"], b)
    BY <1>16, <2>2, DropValue DEF CompareAssign
  <2> QED BY <1>2, <2>1, <2>3, PointersFit DEF Share, Is
<1>17. CASE CompareUndefer(t)
  <2>1. SameWord /\ SameOwn /\ rcount' = rcount /\ Pcs("compare_undefer", "discard")
    BY <1>2, <1>3, <1>17, PointerStep DEF CompareUndefer, Goto, Typed
  <2> QED BY <1>1, <1>2, <2>1 DEF Share
<1> QED
  BY <1>5, <1>6, <1>7, <1>8, <1>9, <1>10, <1>11, <1>12, <1>13, <1>14, <1>15, <1>16, <1>17
  DEF Client, Call, StoreCall, ExchangeCall, CompareCall, Step

LEMMA CountInit == Init => CountInv
<1> SUFFICES ASSUME Init PROVE CountInv
  OBVIOUS
<1>1. TagInv /\ Typed
  BY TagInit DEF TagInv
<1>2. Slots
  BY PointersFit DEF Init, Slots, Names
<1>3. ASSUME NEW b \in Blocks PROVE Exact(b)
  <2>1. PICK p \in Pointers :
          cell = FromPair(p, 0) /\ rcount = [a \in Blocks |-> IF a = p THEN 1 ELSE 0]
    BY DEF Init
  <2>2. RawPtr(cell) = p
    BY <2>1, PackedPair, PointersFit
  <2>3. SharedPtrsTo(b) = {} /\ Floating(b) = {} /\ Uncounted(b) = {}
    BY PointersFit DEF Init, SharedPtrsTo, Floating, Uncounted
  <2> QED BY <2>1, <2>2, <2>3, FS_EmptySet DEF Exact, References, Is
<1> QED BY <1>1, <1>2, <1>3, ExactSum DEF CountInv, AllExact

LEMMA CountStep == CountInv /\ [Next]_vars => CountInv'
<1> SUFFICES ASSUME CountInv, [Next]_vars PROVE CountInv'
  OBVIOUS
<1>1. /\ TagInv /\ TagInv' /\ Typed /\ Typed' /\ Slots
      /\ \A b \in Blocks : Exact(b)
  BY TagStep, ExactSum DEF CountInv, TagInv, AllExact
<1>2. CASE UNCHANGED vars
  BY <1>1, <1>2 DEF vars, CountInv, Slots, RefCountExact, SharedPtrsTo, Floating, Uncounted
<1>3. ASSUME NEW t \in Threads, Client(t) \/ Call(t) \/ Step(t)
      PROVE  CountInv'
  <2>1. Slots'
    BY <1>1, <1>3, SlotsStep
  <2>2. ASSUME NEW b \in Blocks PROVE Exact(b)'
    <3>1. rcount'[b] - rcount[b]
            = Share(t, b)' - Share(t, b) + Is(RawPtr(cell'), b) - Is(RawPtr(cell), b)
      BY <1>1, <1>3, DeltaStep
    <3>2. /\ References(b) \in Int /\ References(b)' \in Int
          /\ References(b)' - References(b) = Share(t, b)' - Share(t, b)
      BY <1>1, <1>3, OnlyThreadStep, ShareStep
    <3>3. rcount[b] = References(b) + Is(RawPtr(cell), b)
      BY <1>1 DEF Exact
    <3>4. /\ rcount[b] \in Int /\ rcount'[b] \in Int
          /\ Is(RawPtr(cell), b) \in Int /\ Is(RawPtr(cell'), b) \in Int
      BY <1>1 DEF Typed, Is
    <3>5. Share(t, b) \in Int /\ Share(t, b)' \in Int
      BY DEF Share, Is
    <3> DEFINE r == rcount[b]  rr == rcount'[b]
               n == References(b)  nn == References(b)'
               s == Share(t, b)  ss == Share(t, b)'
               i == Is(RawPtr(cell), b)  ii == Is(RawPtr(cell'), b)
    <3>6. rr = nn + ii
      <4>1. /\ r \in Int /\ rr \in Int /\ n \in Int /\ nn \in Int
            /\ s \in Int /\ ss \in Int /\ i \in Int /\ ii \in Int
        BY <3>2, <3>4, <3>5
      <4>2. rr - r = ss - s + ii - i /\ nn - n = ss - s /\ r = n + i
        BY <3>1, <3>2, <3>3
      <4> HIDE DEF r, rr, n, nn, s, ss, i, ii
      <4> QED BY <4>1, <4>2
    <3> QED BY <3>6 DEF Exact
  <2>3. AllExact'
    BY <2>2 DEF AllExact
  <2>4. RefCountExact'
    BY <1>1, <2>3, ExactSum, PTL
  <2> QED BY <1>1, <2>1, <2>4 DEF CountInv
<1> QED BY <1>2, <1>3 DEF Next

THEOREM CountInvCorrect == Spec => []CountInv
BY CountInit, CountStep, PTL DEF Spec

\* The reference count of every object is the number of its references.
THEOREM RefCountExactCorrect == Spec => []RefCountExact
<1>1. CountInv => RefCountExact
  BY DEF CountInv
<1> QED BY <1>1, CountInvCorrect, PTL

-----------------------------------------------------------------------------
(* What follows from exact counts.                                         *)

\* The references that are not counted yet are e of as many threads, so a count
\* is never below the references it counts: b's is positive when the word holds
\* b or when some other SharedPtr does.
LEMMA CountBound ==
  ASSUME CountInv, NEW b \in Blocks
  PROVE  /\ rcount[b] \in Nat
         /\ RawPtr(cell) = b => rcount[b] > 0
         /\ \A x \in SharedPtrsTo(b) :
              x[2] # "e" \/ x[1] \notin Uncounted(b) => rcount[b] > 0
<1> DEFINE E == {<<s, "e">> : s \in Uncounted(b)}
           f == [s \in Uncounted(b) |-> <<s, "e">>]
<1>1. Typed /\ rcount[b] = References(b) + Is(RawPtr(cell), b) /\ rcount[b] \in Int
  BY ExactSum DEF CountInv, TagInv, Typed, AllExact, Exact
<1>2. SharedPtrsTo(b) = Holding(owns, b)
  BY DEF SharedPtrsTo, Holding
<1>3. IsFiniteSet(SharedPtrsTo(b)) /\ Cardinality(SharedPtrsTo(b)) \in Nat
  BY <1>2, HoldingFinite
<1>4. E \subseteq SharedPtrsTo(b)
  BY DEF Uncounted, SharedPtrsTo, Names
<1>5. IsFiniteSet(E) /\ Cardinality(E) <= Cardinality(SharedPtrsTo(b)) /\ Cardinality(E) \in Nat
  BY <1>3, <1>4, FS_Subset, FS_CardinalityType
<1>6. Cardinality(Uncounted(b)) <= Cardinality(E)
  <2>1. f \in Injection(Uncounted(b), E)
    BY DEF Injection, IsInjective
  <2> QED BY <1>5, <2>1, FS_Injection
<1>7. IsFiniteSet(Floating(b)) /\ IsFiniteSet(Uncounted(b))
  BY TagAssumption, FS_Subset DEF Floating, Uncounted
<1>8. Cardinality(Floating(b)) \in Nat /\ Cardinality(Uncounted(b)) \in Nat
  BY <1>7, FS_CardinalityType
<1>9. rcount[b] = Cardinality(SharedPtrsTo(b)) + Cardinality(Floating(b))
                    - Cardinality(Uncounted(b)) + (IF RawPtr(cell) = b THEN 1 ELSE 0)
  BY <1>1 DEF References, Is
<1>10. ASSUME NEW x \in SharedPtrsTo(b), x[2] # "e" \/ x[1] \notin Uncounted(b)
       PROVE  rcount[b] > 0
  <2>1. x \notin E
    BY <1>10
  <2>2. Cardinality(E) # Cardinality(SharedPtrsTo(b))
    BY <1>3, <1>4, <1>10, <2>1, FS_Subset
  <2> HIDE DEF E
  <2> QED BY <1>1, <1>3, <1>5, <1>6, <1>8, <1>9, <2>2
<1> HIDE DEF E
<1>11. rcount[b] \in Nat /\ (RawPtr(cell) = b => rcount[b] > 0)
  BY <1>1, <1>3, <1>5, <1>6, <1>8, <1>9
<1> QED BY <1>10, <1>11

LEMMA CountInvSafe == CountInv => TypeOK /\ NoDanglingPointer
<1> SUFFICES ASSUME CountInv PROVE TypeOK /\ NoDanglingPointer
  OBVIOUS
<1>1. TagInv /\ Typed
  BY DEF CountInv, TagInv
<1>2. TypeOK
  BY <1>1, CountBound DEF TypeOK, Typed
<1>3. ASSUME NEW p \in Pointers, p # NULL PROVE p \in Blocks
  BY <1>3 DEF Pointers
<1>4. RawPtr(cell) # NULL => rcount[RawPtr(cell)] > 0
  BY <1>1, <1>3, CountBound DEF Typed
<1>5. ASSUME NEW t \in Threads, pc[t] \in Deferred, cur_ptr[t] # NULL
      PROVE  rcount[cur_ptr[t]] > 0
  <2>1. RawPtr(cell) = cur_ptr[t]
    BY <1>1, <1>5 DEF TagInv, Protected, Deferring
  <2> QED BY <1>4, <1>5, <2>1
<1>6. ASSUME NEW t \in Threads, NEW n \in Names, owns[t][n] # NULL
      PROVE  rcount[owns[t][n]] > 0
  <2> DEFINE b == owns[t][n]
  <2>1. b \in Blocks
    BY <1>1, <1>3, <1>6 DEF Typed
  <2>2. CASE n # "e" \/ t \notin Uncounted(b)
    <3>1. <<t, n>> \in SharedPtrsTo(b)
      BY DEF SharedPtrsTo
    <3> QED BY <2>1, <2>2, <3>1, CountBound
  <2>3. CASE n = "e" /\ t \in Uncounted(b)
    <3>1. pc[t] = "compare_count" /\ cur_ptr[t] = b
      BY <2>3 DEF Uncounted, CountInv, Slots
    <3> QED BY <1>5, <1>6, <3>1 DEF Deferred
  <2> QED BY <2>2, <2>3
<1> QED BY <1>2, <1>4, <1>5, <1>6 DEF NoDanglingPointer

\* No count goes below zero, and everything else keeps its type.
THEOREM TypeCorrect == Spec => []TypeOK
BY CountInvSafe, CountInvCorrect, PTL

\* Every pointer that is followed is one to an object that is alive.
THEOREM NoDanglingPointerCorrect == Spec => []NoDanglingPointer
BY CountInvSafe, CountInvCorrect, PTL

-----------------------------------------------------------------------------
(* Linearizability.                                                        *)

LEMMA ReferenceInit == Init => Reference!Init
<1> SUFFICES ASSUME Init PROVE Reference!Init
  OBVIOUS
<1>1. RawPtr(cell) \in Pointers
  BY TagInit DEF TagInv, Typed
<1> QED BY <1>1 DEF Init, Reference!Init, Request, Answer, Deferred

\* What a thread asks for and what it answers, by where it stands.
RequestByPlace(t) ==
  /\ pc[t] = "load" => Request[t] = [op |-> "load"]
  /\ pc[t] \in {"store", "exchange"} =>
       Request[t] = [op |-> pc[t], desired |-> owns[t]["desired"]]
  /\ pc[t] = "compare" =>
       Request[t] = [op |-> "compare", expected |-> owns[t]["e"],
                     desired |-> owns[t]["desired"]]
  /\ pc[t] \notin {"load", "store", "exchange", "compare"} => Request[t] = NONE

AnswerByPlace(t) ==
  /\ pc[t] \in Deferred \cup {"discard"} => Answer[t] = cur_ptr[t]
  /\ pc[t] = "assign" => Answer[t] = owns[t]["old"]
  /\ pc[t] \in {"idle", "load", "store", "exchange", "compare"} => Answer[t] = NONE

LEMMA RequestIs ==
  ASSUME NEW t \in Threads PROVE RequestByPlace(t) /\ RequestByPlace(t)'
BY DEF Request, RequestByPlace

LEMMA AnswerIs ==
  ASSUME NEW t \in Threads PROVE AnswerByPlace(t) /\ AnswerByPlace(t)'
BY DEF Answer, AnswerByPlace, Deferred

\* A step of t changes what t asks for and answers, and nothing of the others.
LEMMA OthersWait ==
  ASSUME NEW t \in Threads, OnlyThread(t)
  PROVE  /\ Request = [Request EXCEPT ![t] = Request[t]]
         /\ Answer = [Answer EXCEPT ![t] = Answer[t]]
         /\ Request' = [Request EXCEPT ![t] = Request'[t]]
         /\ Answer' = [Answer EXCEPT ![t] = Answer'[t]]
<1>1. \A s \in Threads \ {t} : Request'[s] = Request[s]
  BY DEF Request, OnlyThread
<1>2. \A s \in Threads \ {t} : Answer'[s] = Answer[s]
  BY DEF Answer, OnlyThread
<1>3. /\ Request = [s \in Threads |-> Request[s]]
      /\ Request' = [s \in Threads |-> Request'[s]]
  BY DEF Request
<1>4. /\ Answer = [s \in Threads |-> Answer[s]]
      /\ Answer' = [s \in Threads |-> Answer'[s]]
  BY DEF Answer
<1>5. ASSUME NEW f, NEW g, f = [s \in Threads |-> f[s]], g = [s \in Threads |-> g[s]],
             \A s \in Threads \ {t} : g[s] = f[s]
      PROVE  f = [f EXCEPT ![t] = f[t]] /\ g = [f EXCEPT ![t] = g[t]]
  BY <1>5
<1>6. Request = [Request EXCEPT ![t] = Request[t]] /\ Request' = [Request EXCEPT ![t] = Request'[t]]
  BY <1>1, <1>3, <1>5
<1>7. Answer = [Answer EXCEPT ![t] = Answer[t]] /\ Answer' = [Answer EXCEPT ![t] = Answer'[t]]
  BY <1>2, <1>4, <1>5
<1> QED BY <1>6, <1>7

LEMMA ReferenceStep ==
  ASSUME TagInv, TagInv', NEW t \in Threads, Client(t) \/ Call(t) \/ Step(t)
  PROVE  [Reference!Next]_(Reference!vars)
<1> DEFINE word == RawPtr(cell)
           Before == {"load", "store", "exchange", "compare"}
<1>1. Typed /\ Typed' /\ OnlyThread(t)
  BY OnlyThreadStep DEF TagInv
<1>2. /\ \A p \in Pointers : p # NONE
      /\ word \in Pointers /\ cur_ptr[t] \in Pointers
      /\ \A n \in Names : owns[t][n] \in Pointers /\ owns'[t][n] \in Pointers
  BY <1>1, PointersFit, BlockAssumption DEF Typed
<1>3. /\ Request' = [Request EXCEPT ![t] = Request'[t]]
      /\ Answer' = [Answer EXCEPT ![t] = Answer'[t]]
      /\ Request'[t] = Request[t] => Request' = Request
      /\ Answer'[t] = Answer[t] => Answer' = Answer
  BY <1>1, OthersWait
<1>4. RequestByPlace(t) /\ RequestByPlace(t)' /\ AnswerByPlace(t) /\ AnswerByPlace(t)'
  BY RequestIs, AnswerIs
<1>5. ASSUME NEW r, NEW x, Request[t] = r, Request'[t] = NONE, Answer'[t] = word,
             RawPtr(cell') = x
      PROVE  Reference!TakeEffect(t, r, x)
  BY <1>3, <1>5 DEF Reference!TakeEffect
<1>6. CASE LoadDefer(t)
  <2>1. RawPtr(cell') = word
    BY <1>6, PointerStep
  <2>2. pc[t] = "load" /\ pc'[t] = "load_count" /\ cur_ptr'[t] = word
    BY <1>1, <1>6 DEF LoadDefer, Defer, Goto, Typed
  <2>3. Request[t] = [op |-> "load"] /\ Request'[t] = NONE /\ Answer'[t] = word
    BY <1>1, <1>4, <2>2 DEF Deferred, RequestByPlace, AnswerByPlace
  <2>4. Reference!Load(t)
    BY <1>5, <2>1, <2>3 DEF Reference!Load
  <2> QED BY <2>4 DEF Reference!Next
<1>7. CASE CompareDefer(t)
  <2>1. RawPtr(cell') = word /\ word # owns[t]["e"]
    BY <1>7, PointerStep DEF CompareDefer
  <2>2. pc[t] = "compare" /\ pc'[t] = "compare_assign" /\ cur_ptr'[t] = word
    BY <1>1, <1>7 DEF CompareDefer, Defer, Goto, Typed
  <2>3. /\ Request[t] = [op |-> "compare", expected |-> owns[t]["e"],
                         desired |-> owns[t]["desired"]]
        /\ Request'[t] = NONE /\ Answer'[t] = word
    BY <1>1, <1>4, <2>2 DEF Deferred, RequestByPlace, AnswerByPlace
  <2>4. Reference!Compare(t, owns[t]["e"], owns[t]["desired"])
    BY <1>5, <2>1, <2>3 DEF Reference!Compare
  <2> QED BY <1>2, <2>4 DEF Reference!Next, Names
<1>8. ASSUME NEW from, NEW to \in {"assign", "discard"}, Swap(t, from, to)
      PROVE  Request'[t] = NONE /\ Answer'[t] = word /\ pc[t] = from
  <2>1. /\ pc[t] = from /\ pc'[t] = to /\ cur_ptr'[t] = word /\ owns'[t]["old"] = word
    BY <1>1, <1>8 DEF Swap, Goto, Typed, Names
  <2> QED BY <1>1, <1>4, <1>8, <2>1 DEF RequestByPlace, AnswerByPlace
<1>9. CASE ExchangeSwap(t) \/ StoreSwap(t)
  <2>1. RawPtr(cell') = owns[t]["desired"]
    BY <1>9, PointerStep
  <2>2. pc[t] \in {"store", "exchange"} /\ Request'[t] = NONE /\ Answer'[t] = word
    BY <1>8, <1>9 DEF ExchangeSwap, StoreSwap
  <2>3. Request[t] = [op |-> pc[t], desired |-> owns[t]["desired"]]
    BY <1>1, <1>4, <2>2 DEF RequestByPlace
  <2>4. Reference!Exchange(t, pc[t], owns[t]["desired"])
    BY <1>5, <2>1, <2>2, <2>3 DEF Reference!Exchange
  <2> QED BY <1>2, <2>2, <2>4 DEF Reference!Next, Names
<1>10. CASE CompareSwap(t)
  <2>1. RawPtr(cell') = owns[t]["desired"] /\ word = owns[t]["e"]
    BY <1>10, PointerStep DEF CompareSwap
  <2>2. pc[t] = "compare" /\ Request'[t] = NONE /\ Answer'[t] = word
    BY <1>8, <1>10 DEF CompareSwap
  <2>3. Request[t] = [op |-> "compare", expected |-> owns[t]["e"],
                      desired |-> owns[t]["desired"]]
    BY <1>1, <1>4, <2>2 DEF RequestByPlace
  <2>4. Reference!Compare(t, owns[t]["e"], owns[t]["desired"])
    BY <1>5, <2>1, <2>2, <2>3 DEF Reference!Compare
  <2> QED BY <1>2, <2>4 DEF Reference!Next, Names
<1>11. CASE Assign(t) \/ Discard(t)
  <2>1. cell' = cell /\ pc[t] \in {"assign", "discard"} /\ pc'[t] = "idle"
    BY <1>1, <1>11 DEF Assign, Discard, Goto, Typed
  <2>2. /\ Request[t] = NONE /\ Request'[t] = NONE
        /\ Answer[t] # NONE /\ Answer'[t] = NONE
    BY <1>1, <1>4, <1>2, <2>1 DEF Names, RequestByPlace, AnswerByPlace
  <2>3. Request' = Request
    BY <1>3, <2>2
  <2>4. Reference!Return(t)
    BY <1>3, <2>1, <2>2, <2>3 DEF Reference!Return
  <2> QED BY <2>4 DEF Reference!Next
<1>12. ASSUME RawPtr(cell') = word, Request'[t] = Request[t], Answer'[t] = Answer[t]
       PROVE  UNCHANGED Reference!vars
  BY <1>3, <1>12 DEF Reference!vars
<1>13. CASE LoadUndefer(t) \/ CompareUndefer(t)
  <2>1. RawPtr(cell') = word /\ cur_ptr[t] = word
    BY <1>13, PointerStep
    DEF LoadUndefer, CompareUndefer, Goto, TagInv, Protected, Deferring, Deferred
  <2>2. /\ pc[t] \in {"load_undefer", "compare_undefer"}
        /\ \/ pc'[t] = "assign" /\ owns'[t]["old"] = word
           \/ pc'[t] = "discard" /\ cur_ptr'[t] = word
    BY <1>1, <1>13 DEF LoadUndefer, CompareUndefer, Goto, Typed, Names
  <2>3. Request'[t] = Request[t]
    BY <1>1, <1>4, <2>2 DEF RequestByPlace
  <2>4. Answer'[t] = Answer[t]
    BY <1>1, <1>4, <2>1, <2>2 DEF Deferred, AnswerByPlace
  <2> QED BY <1>12, <2>1, <2>3, <2>4
<1>14. CASE LoadCount(t) \/ CompareCount(t) \/ CompareAssign(t)
  <2>1. /\ cell' = cell /\ cur_ptr' = cur_ptr
        /\ pc[t] \in Deferred /\ pc'[t] \in Deferred
    BY <1>1, <1>14 DEF LoadCount, CompareCount, Count, CompareAssign, Goto, Typed, Deferred
  <2>2. Request'[t] = Request[t] /\ Answer'[t] = Answer[t]
    BY <1>1, <1>4, <2>1 DEF Deferred, RequestByPlace, AnswerByPlace
  <2> QED BY <1>12, <2>1, <2>2
<1>15. CASE Client(t)
  <2>1. cell' = cell /\ pc[t] = "idle" /\ pc'[t] = "idle"
    BY <1>15 DEF Client, Make, CopyAssign, Reset
  <2>2. Request'[t] = Request[t] /\ Answer'[t] = Answer[t]
    BY <1>1, <1>4, <2>1 DEF RequestByPlace, AnswerByPlace
  <2> QED BY <1>12, <2>1, <2>2
<1>16. CASE Call(t)
  <2>1. cell' = cell /\ pc[t] = "idle" /\ pc'[t] \in Before
    BY <1>1, <1>16 DEF Call, LoadCall, StoreCall, ExchangeCall, CompareCall, Pass, Goto, Typed
  <2>2. Request[t] = NONE /\ Answer[t] = NONE /\ Answer'[t] = NONE
    BY <1>1, <1>4, <2>1 DEF RequestByPlace, AnswerByPlace
  <2>3. Request'[t] \in Reference!Requests
    BY <1>1, <1>4, <1>2, <2>1 DEF Reference!Requests, Names, RequestByPlace
  <2>4. Answer' = Answer
    BY <1>3, <2>2
  <2>5. Reference!Call(t, Request'[t])
    BY <1>3, <2>1, <2>2, <2>4 DEF Reference!Call
  <2> QED BY <2>3, <2>5 DEF Reference!Next
<1> QED BY <1>6, <1>7, <1>9, <1>10, <1>11, <1>13, <1>14, <1>15, <1>16 DEF Step

\* Every operation takes effect in one step of its own, whatever the others do.
THEOREM LinearizableCorrect == Spec => Linearizable
<1>1. Init => Reference!Init
  BY ReferenceInit
<1>2. TagInv /\ TagInv' /\ [Next]_vars => [Reference!Next]_(Reference!vars)
  <2>1. CASE UNCHANGED vars
    BY <2>1 DEF vars, Reference!vars, Request, Answer
  <2> QED BY <2>1, ReferenceStep DEF Next
<1> QED BY <1>1, <1>2, TagInvCorrect, PTL DEF Spec, Linearizable, Reference!Spec
=============================================================================
