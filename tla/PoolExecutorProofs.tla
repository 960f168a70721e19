------------------------- MODULE PoolExecutorProofs -------------------------
(***************************************************************************)
(* Proofs about PoolExecutor for pools of any size, any number of them and *)
(* any thread ids.                                                         *)
(*                                                                         *)
(* PoolInv adds to the properties what makes them inductive: while workers *)
(* are constructed, a word that is there says wait (Fresh); every worker   *)
(* that has been registered has a loop (HasLoop); and a loop in the        *)
(* registry is the present executor's, unless its id is an old one         *)
(* (OwnLoop).                                                              *)
(***************************************************************************)
EXTENDS PoolExecutor, FiniteSetTheorems, TLAPS

\* The workers of the present executor that are in the registry.
Registered == IF Constructing THEN 1 .. main.worker - 1 ELSE Workers

Fresh ==
  \A w \in Workers :
    Constructing /\ pc[w] # "unborn" /\ ~(main.op = "construct" /\ main.worker = w)
      => state[w] = Word(FALSE, TRUE)

HasLoop == \A w \in Registered : registry[id[w]] # 0

OwnLoop ==
  \A i \in Ids :
    registry[i] # 0 =>
      i \in past \/ (registry[i] = pool /\ \E w \in Registered : id[w] = i)

PoolInv ==
  /\ TypeOK /\ Fresh /\ HasLoop /\ OwnLoop
  /\ LoopThereAfterStart /\ LoopOfItsPool /\ WordOutlivesThread

LEMMA SizeFacts == Size \in Nat /\ Size >= 1 /\ Pools \in Nat /\ Pools >= 1 /\ 1 \in Workers
BY PoolAssumption DEF Workers

LEMMA PoolInit == Init => PoolInv
<1> SUFFICES ASSUME Init PROVE PoolInv
  OBVIOUS
<1> USE SizeFacts DEF Init
<1>1. \E i \in Ids : TRUE
  <2>1. Ids # {}
    BY PoolAssumption, FS_EmptySet
  <2> QED BY <2>1
<1>2. TypeOK
  <2>1. Word(FALSE, TRUE) \in Words
    BY DEF Word, Words
  <2>2. id \in [Workers -> Ids]
    BY <1>1
  <2>3. main \in [op : {"thread"}, worker : Workers] /\ pool \in 1..Pools
    OBVIOUS
  <2>4. state \in [Workers -> Words] /\ seen \in [Workers -> Words]
    BY <2>1
  <2>5. registry \in [Ids -> 0..Pools] /\ loop \in [Workers -> 0..Pools]
    <3>1. 0 \in 0..Pools
      OBVIOUS
    <3> QED BY <3>1
  <2> QED BY <2>2, <2>3, <2>4, <2>5 DEF TypeOK
<1>3. Constructing /\ Registered = {}
  BY DEF Constructing, Registered
<1>4. Fresh /\ HasLoop /\ OwnLoop
  BY <1>3 DEF Fresh, HasLoop, OwnLoop
<1>5. LoopThereAfterStart /\ LoopOfItsPool /\ WordOutlivesThread
  BY <1>3 DEF LoopThereAfterStart, LoopOfItsPool, WordOutlivesThread, Destroyed
<1> QED BY <1>2, <1>4, <1>5 DEF PoolInv

\* What main does after worker w, as a loop over the workers goes on or ends.
LEMMA ForAllCases ==
  ASSUME NEW op, NEW after, NEW w \in Workers, ForAll(op, w, after)
  PROVE  \/ w < Size /\ w + 1 \in Workers /\ main' = [op |-> op, worker |-> w + 1]
         \/ w = Size /\ main' = [op |-> after, worker |-> 1]
BY SizeFacts DEF ForAll, Go, Workers

LEMMA TypeStep == TypeOK /\ [Next]_vars => TypeOK'
<1> SUFFICES ASSUME TypeOK, [Next]_vars PROVE TypeOK'
  OBVIOUS
<1> USE SizeFacts DEF TypeOK, poolVars, threadVars
<1>1. Word(FALSE, TRUE) \in Words /\ Word(TRUE, TRUE) \in Words /\ Word(TRUE, FALSE) \in Words
  BY DEF Word, Words
<1>2. ASSUME NEW w \in Workers, StartThread(w) PROVE TypeOK'
  <2>1. id' \in [Workers -> Ids] /\ state' \in [Workers -> Words]
    BY <1>2, PoolAssumption DEF StartThread
  <2>2. main' = [op |-> "construct", worker |-> w]
    BY <1>2 DEF StartThread, Go
  <2>3. pc' \in [Workers -> {"unborn", "wait", "require", "run", "exit"}]
    BY <1>2 DEF StartThread
  <2>4. main' \in [op : {"construct"}, worker : Workers]
    BY <2>2
  <2> QED BY <1>2, <2>1, <2>4, <2>3 DEF StartThread
<1>3. ASSUME NEW w \in Workers, ConstructState(w) \/ FinaliseState(w) PROVE TypeOK'
  <2>1. state' \in [Workers -> Words]
    BY <1>1, <1>3 DEF ConstructState, FinaliseState
  <2>2. main' \in [op : {"register", "join"}, worker : Workers]
    <3>1. main' \in {[op |-> "register", worker |-> w], [op |-> "join", worker |-> w]}
      BY <1>3 DEF ConstructState, FinaliseState, Go
    <3> QED BY <3>1
  <2> QED BY <1>3, <2>1, <2>2 DEF ConstructState, FinaliseState
<1>4. ASSUME NEW w \in Workers, Register(w) PROVE TypeOK'
  <2>1. id[w] \in Ids /\ pool \in 0 .. Pools
    OBVIOUS
  <2>2. registry' \in [Ids -> 0 .. Pools]
    BY <1>4, <2>1 DEF Register
  <2>3. main' \in [op : {"thread", "start"}, worker : Workers]
    <3>1. ForAll("thread", w, "start")
      BY <1>4 DEF Register
    <3> QED BY <3>1, ForAllCases
  <2> QED BY <1>4, <2>2, <2>3 DEF Register
<1>5. ASSUME NEW w \in Workers, Start(w) \/ Stop(w) PROVE TypeOK'
  <2>1. state' \in [Workers -> Words]
    BY <1>1, <1>5 DEF Start, Stop, ExchangeLoop
  <2>2. ASSUME Start(w)
        PROVE  main' \in [op : {"start", "use"}, worker : Workers]
    <3>1. ForAll("start", w, "use")
      BY <2>2 DEF Start
    <3> QED BY <3>1, ForAllCases
  <2>3. ASSUME Stop(w)
        PROVE  main' \in [op : {"stop", "finalise"}, worker : Workers]
    <3>1. ForAll("stop", w, "finalise")
      BY <2>3 DEF Stop
    <3> QED BY <3>1, ForAllCases
  <2> QED BY <1>5, <2>1, <2>2, <2>3 DEF Start, Stop
<1>6. ASSUME NEW w \in Workers, Join(w) PROVE TypeOK'
  <2>1. main' \in [op : {"finalise", "gone"}, worker : Workers]
    <3>1. ForAll("finalise", w, "gone")
      BY <1>6 DEF Join
    <3> QED BY <3>1, ForAllCases
  <2> QED BY <1>6, <2>1 DEF Join
<1>7. CASE Leave
  BY <1>7 DEF Leave, Go
<1>8. CASE Again
  BY <1>8 DEF Again, Go
<1>9. ASSUME NEW w \in Workers, Wait(w) PROVE TypeOK'
  BY <1>9 DEF Wait
<1>10. ASSUME NEW w \in Workers, RequireLoop(w) PROVE TypeOK'
  BY <1>10 DEF RequireLoop
<1>11. ASSUME NEW w \in Workers, Run(w) \/ Exit(w) PROVE TypeOK'
  BY <1>11 DEF Run, Exit
<1>12. CASE UNCHANGED vars
  BY <1>12 DEF vars
<1> QED
  BY <1>2, <1>3, <1>4, <1>5, <1>6, <1>7, <1>8, <1>9, <1>10, <1>11, <1>12
  DEF Next, MainStep, ThreadStep

\* What Start, Leave, Stop, FinaliseState and Join do not disturb: they come
\* after the construction and change neither the registry nor a thread.
LEMMA AfterStart ==
  ASSUME PoolInv, ~Constructing, main'.op \notin {"thread", "construct", "register"},
         UNCHANGED <<poolVars, registry, threadVars>>
  PROVE  Fresh' /\ HasLoop' /\ OwnLoop' /\ LoopThereAfterStart' /\ LoopOfItsPool'
<1>1. Constructing' = FALSE /\ Registered = Workers /\ Registered' = Workers
  BY DEF Constructing, Registered
<1>2. Fresh'
  BY <1>1 DEF Fresh
<1>3. HasLoop' /\ OwnLoop'
  BY <1>1 DEF PoolInv, HasLoop, OwnLoop, poolVars
<1>4. LoopThereAfterStart' /\ LoopOfItsPool'
  BY <1>1 DEF PoolInv, LoopThereAfterStart, LoopOfItsPool, poolVars, threadVars
<1> QED BY <1>2, <1>3, <1>4

\* A step of main while it constructs the workers.
LEMMA ConstructStep ==
  ASSUME PoolInv, TypeOK', NEW w \in Workers,
         StartThread(w) \/ ConstructState(w) \/ Register(w)
  PROVE  PoolInv'
<1> USE SizeFacts DEF Main, poolVars, threadVars
<1>1. /\ Constructing /\ ~aborted /\ ~aborted' /\ main.worker = w
      /\ Registered = 1 .. w - 1 /\ past' = past /\ pool' = pool /\ loop' = loop /\ early' = early
  <2>1. \E op \in {"thread", "construct", "register"} :
          main = [op |-> op, worker |-> w] /\ ~aborted
    BY DEF StartThread, ConstructState, Register
  <2>2. Constructing /\ main.worker = w /\ ~aborted /\ Registered = 1 .. w - 1
    BY <2>1 DEF Constructing, Registered
  <2>3. aborted' = aborted /\ past' = past /\ pool' = pool /\ loop' = loop /\ early' = early
    BY DEF StartThread, ConstructState, Register
  <2> QED BY <2>2, <2>3
<1>2. \A v \in Workers \ early : pc[v] \notin {"require", "run", "exit"}
  BY <1>1 DEF PoolInv, LoopThereAfterStart
<1>3. CASE StartThread(w)
  <2>1. main.op = "thread" /\ main' = [op |-> "construct", worker |-> w] /\ registry' = registry
    BY <1>3 DEF StartThread, Go
  <2>2. Constructing' /\ Registered' = Registered
    BY <1>1, <2>1 DEF Constructing, Registered
  <2>3. \A v \in Workers \ {w} : pc'[v] = pc[v] /\ state'[v] = state[v] /\ id'[v] = id[v]
    BY <1>3 DEF StartThread, PoolInv, TypeOK
  <2>4. pc'[w] = "wait"
    BY <1>3 DEF StartThread, PoolInv, TypeOK
  <2>5. Fresh'
    BY <1>1, <2>1, <2>2, <2>3 DEF PoolInv, Fresh
  <2>6. \A v \in Registered : v \in Workers \ {w}
    BY <1>1 DEF Workers
  <2>7. HasLoop' /\ OwnLoop'
    BY <1>1, <2>1, <2>2, <2>3, <2>6 DEF PoolInv, HasLoop, OwnLoop
  <2>8. LoopThereAfterStart'
    BY <1>1, <1>2, <2>3, <2>4 DEF PoolInv, LoopThereAfterStart
  <2>9. LoopOfItsPool'
    BY <1>1, <2>3, <2>4 DEF PoolInv, LoopOfItsPool
  <2>10. WordOutlivesThread'
    BY <2>1 DEF WordOutlivesThread, Destroyed
  <2> QED BY <2>5, <2>7, <2>8, <2>9, <2>10 DEF PoolInv
<1>4. CASE ConstructState(w)
  <2>1. /\ main.op = "construct" /\ main' = [op |-> "register", worker |-> w]
        /\ registry' = registry /\ id' = id /\ pc' = pc
    BY <1>4 DEF ConstructState, Go
  <2>2. Constructing' /\ Registered' = Registered
    BY <1>1, <2>1 DEF Constructing, Registered
  <2>3. /\ \A v \in Workers \ {w} : state'[v] = state[v]
        /\ state'[w] = Word(FALSE, TRUE)
    BY <1>4 DEF ConstructState, PoolInv, TypeOK
  <2>4. Fresh'
    BY <1>1, <2>1, <2>3 DEF PoolInv, Fresh
  <2>5. HasLoop' /\ OwnLoop'
    BY <1>1, <2>1, <2>2 DEF PoolInv, HasLoop, OwnLoop
  <2>6. LoopThereAfterStart' /\ LoopOfItsPool'
    BY <1>1, <1>2, <2>1 DEF PoolInv, LoopThereAfterStart, LoopOfItsPool
  <2>7. WordOutlivesThread'
    BY <2>1 DEF WordOutlivesThread, Destroyed
  <2> QED BY <2>4, <2>5, <2>6, <2>7 DEF PoolInv
<1>5. CASE Register(w)
  <2>1. main.op = "register" /\ id' = id /\ pc' = pc /\ state' = state
    BY <1>5 DEF Register
  <2>2. \/ w < Size /\ w + 1 \in Workers /\ main' = [op |-> "thread", worker |-> w + 1]
        \/ w = Size /\ main' = [op |-> "start", worker |-> 1]
    <3>1. ForAll("thread", w, "start")
      BY <1>5 DEF Register
    <3> QED BY <3>1, ForAllCases
  <2>3. Registered' = Registered \cup {w}
    BY <1>1, <2>2 DEF Registered, Constructing, Workers
  <2>4. id[w] \in Ids /\ pool \in Nat \ {0}
    BY DEF PoolInv, TypeOK
  <2>5. /\ \A i \in Ids \ {id[w]} : registry'[i] = registry[i]
        /\ registry'[id[w]] = IF registry[id[w]] = 0 THEN pool ELSE registry[id[w]]
    BY <1>5, <2>4 DEF Register, PoolInv, TypeOK
  <2>6. Fresh'
    BY <1>1, <2>1, <2>2 DEF PoolInv, Fresh
  <2>7. HasLoop'
    <3> SUFFICES ASSUME NEW v \in Registered' PROVE registry'[id[v]] # 0
      BY <2>1 DEF HasLoop
    <3>1. v \in Workers /\ id[v] \in Ids
      <4>1. v \in Workers
        BY <1>1, <2>3 DEF Workers
      <4> QED BY <4>1 DEF PoolInv, TypeOK
    <3>2. v = w \/ registry[id[v]] # 0
      BY <2>3 DEF PoolInv, HasLoop
    <3> QED BY <2>4, <2>5, <3>1, <3>2
  <2>8. OwnLoop'
    BY <1>1, <2>1, <2>3, <2>4, <2>5 DEF PoolInv, OwnLoop
  <2>9. LoopThereAfterStart' /\ LoopOfItsPool'
    BY <1>1, <1>2, <2>1 DEF PoolInv, LoopThereAfterStart, LoopOfItsPool
  <2>10. WordOutlivesThread'
    BY <2>2 DEF WordOutlivesThread, Destroyed
  <2> QED BY <2>6, <2>7, <2>8, <2>9, <2>10 DEF PoolInv
<1> QED BY <1>3, <1>4, <1>5

\* A step of main after that.
LEMMA MainStepAfter ==
  ASSUME PoolInv, TypeOK', NEW w \in Workers,
         Start(w) \/ Stop(w) \/ FinaliseState(w) \/ Join(w) \/ Leave
  PROVE  PoolInv'
<1> USE SizeFacts DEF Main, poolVars, threadVars
<1>1. ~Constructing /\ UNCHANGED <<poolVars, registry, threadVars>>
  <2>1. \E op \in {"start", "stop", "finalise", "join", "use"}, v \in Workers :
          main = [op |-> op, worker |-> v]
    BY DEF Start, Stop, FinaliseState, Join, Leave
  <2>2. UNCHANGED <<poolVars, registry, threadVars>>
    BY DEF Start, Stop, FinaliseState, Join, Leave
  <2> QED BY <2>1, <2>2 DEF Constructing
<1>2. /\ main'.op \notin {"thread", "construct", "register"}
      /\ \A v \in Workers : Destroyed(v)' => Destroyed(v) \/ (Join(w) /\ v = w)
  <2>1. CASE Start(w)
    <3>1. ForAll("start", w, "use")
      BY <2>1 DEF Start
    <3>2. main'.op \in {"start", "use"}
      BY <3>1, ForAllCases
    <3> QED BY <3>2 DEF Destroyed
  <2>2. CASE Stop(w)
    <3>1. ForAll("stop", w, "finalise")
      BY <2>2 DEF Stop
    <3>2. main'.op = "stop" \/ main' = [op |-> "finalise", worker |-> 1]
      BY <3>1, ForAllCases
    <3> QED BY <3>2 DEF Destroyed, Workers
  <2>3. CASE FinaliseState(w)
    <3>1. main = [op |-> "finalise", worker |-> w] /\ main' = [op |-> "join", worker |-> w]
      BY <2>3 DEF FinaliseState, Go
    <3> QED BY <3>1 DEF Destroyed
  <2>4. CASE Join(w)
    <3>1. ForAll("finalise", w, "gone") /\ main = [op |-> "join", worker |-> w]
      BY <2>4 DEF Join
    <3>2. \/ w < Size /\ main' = [op |-> "finalise", worker |-> w + 1]
          \/ w = Size /\ main' = [op |-> "gone", worker |-> 1]
      BY <3>1, ForAllCases
    <3>3. \A v \in Workers : v < w => Destroyed(v)
      BY <3>1 DEF Destroyed
    <3>4. \A v \in Workers : Destroyed(v)' => v <= w
      BY <3>2 DEF Destroyed, Workers
    <3>5. main'.op \in {"finalise", "gone"}
      BY <3>2
    <3> QED BY <2>4, <3>3, <3>4, <3>5 DEF Workers
  <2>5. CASE Leave
    <3>1. main' = [op |-> "stop", worker |-> 1]
      BY <2>5 DEF Leave, Go
    <3> QED BY <3>1 DEF Destroyed
  <2> QED BY <2>1, <2>2, <2>3, <2>4, <2>5
<1>3. WordOutlivesThread'
  <2>1. Join(w) => pc[w] = "exit"
    BY DEF Join
  <2> QED BY <1>1, <1>2, <2>1 DEF PoolInv, WordOutlivesThread
<1> QED BY <1>1, <1>2, <1>3, AfterStart DEF PoolInv

\* The next executor: its workers are still to come, and every id in the
\* registry is an old one.
LEMMA AgainStep == ASSUME PoolInv, TypeOK', Again PROVE PoolInv'
<1> USE SizeFacts DEF Main
<1>1. /\ main = [op |-> "gone", worker |-> 1] /\ main' = [op |-> "thread", worker |-> 1]
      /\ ~aborted /\ ~aborted' /\ registry' = registry
      /\ past' = past \cup {id[w] : w \in Workers}
      /\ \A v \in Workers : pc'[v] = "unborn"
  BY DEF Again, Go
<1>2. Constructing' /\ Registered = Workers /\ Registered' = {}
  BY <1>1 DEF Constructing, Registered
<1>3. Fresh' /\ HasLoop'
  BY <1>1, <1>2 DEF Fresh, HasLoop
<1>4. OwnLoop'
  BY <1>1, <1>2 DEF PoolInv, OwnLoop
<1>5. LoopThereAfterStart' /\ LoopOfItsPool'
  BY <1>1 DEF LoopThereAfterStart, LoopOfItsPool
<1>6. WordOutlivesThread'
  BY <1>1 DEF WordOutlivesThread, Destroyed
<1> QED BY <1>3, <1>4, <1>5, <1>6 DEF PoolInv

\* A step of a worker.  Its word says wait while the workers are constructed,
\* so it comes to the registry when that is complete.
LEMMA ThreadStepInv ==
  ASSUME PoolInv, TypeOK', NEW w \in Workers, ThreadStep(w)
  PROVE  PoolInv'
<1> USE DEF Thread, poolVars, threadVars
<1>1. /\ ~aborted /\ state' = state /\ registry' = registry /\ main' = main
      /\ pool' = pool /\ past' = past /\ id' = id
  BY DEF ThreadStep, Wait, RequireLoop, Run, Exit
<1>2. /\ \A v \in Workers \ {w} : pc'[v] = pc[v] /\ loop'[v] = loop[v]
      /\ pc[w] \notin {"unborn", "exit"} /\ pc'[w] # "unborn" /\ early \subseteq early'
  BY DEF ThreadStep, Wait, RequireLoop, Run, Exit, PoolInv, TypeOK
<1>3. Constructing' = Constructing /\ Registered' = Registered
  BY <1>1 DEF Constructing, Registered
<1>4. Fresh' /\ HasLoop' /\ OwnLoop'
  <2>1. Fresh'
    BY <1>1, <1>2, <1>3 DEF PoolInv, Fresh
  <2>2. HasLoop' /\ OwnLoop'
    BY <1>1, <1>3 DEF PoolInv, HasLoop, OwnLoop
  <2> QED BY <2>1, <2>2
<1>5. WordOutlivesThread'
  <2>1. \A v \in Workers : Destroyed(v)' = Destroyed(v)
    BY <1>1 DEF Destroyed
  <2> QED BY <1>1, <1>2, <2>1 DEF PoolInv, WordOutlivesThread
<1>6. CASE Wait(w)
  <2>1. loop' = loop /\ aborted' = aborted /\ pc'[w] \in {"wait", "require"}
    BY <1>6 DEF Wait, PoolInv, TypeOK
  <2>2. w \notin early' /\ pc'[w] = "require" => ~Constructing
    <3> SUFFICES ASSUME w \notin early', Constructing PROVE pc'[w] = "wait"
      BY <2>1
    <3>1. ~(main.op = "construct" /\ main.worker = w)
      <4>1. main = [op |-> main.op, worker |-> main.worker]
        BY DEF PoolInv, TypeOK
      <4> QED BY <1>1, <1>6, <4>1 DEF Wait, Main
    <3>2. state[w] = Word(FALSE, TRUE)
      BY <1>2, <3>1 DEF PoolInv, Fresh
    <3>3. seen'[w] = Word(FALSE, TRUE)
      BY <1>6, <3>2 DEF Wait, PoolInv, TypeOK
    <3> QED BY <1>6, <3>3 DEF Wait, Word, PoolInv, TypeOK
  <2>3. LoopThereAfterStart'
    BY <1>1, <1>2, <1>3, <2>1, <2>2 DEF PoolInv, LoopThereAfterStart
  <2>4. LoopOfItsPool'
    BY <1>1, <1>2, <2>1 DEF PoolInv, LoopOfItsPool
  <2> QED BY <1>4, <1>5, <2>3, <2>4 DEF PoolInv
<1>7. CASE RequireLoop(w)
  <2>1. /\ pc[w] = "require" /\ pc'[w] = "run" /\ early' = early
        /\ loop'[w] = registry[id[w]]
    BY <1>7 DEF RequireLoop, PoolInv, TypeOK
  <2>2. id[w] \in Ids
    BY DEF PoolInv, TypeOK
  <2>3. w \notin early => ~Constructing /\ registry[id[w]] # 0
    <3> SUFFICES ASSUME w \notin early PROVE ~Constructing /\ registry[id[w]] # 0
      OBVIOUS
    <3>1. ~Constructing
      BY <2>1 DEF PoolInv, LoopThereAfterStart
    <3> QED BY <3>1 DEF PoolInv, HasLoop, Registered
  <2>4. aborted' => w \in early
    BY <1>7, <2>3 DEF RequireLoop, Constructing
  <2>5. LoopThereAfterStart'
    BY <1>1, <1>2, <1>3, <2>1, <2>3, <2>4 DEF PoolInv, LoopThereAfterStart
  <2>6. id[w] \notin past /\ ~(aborted' /\ w \in early) => loop'[w] = pool
    <3> SUFFICES ASSUME id[w] \notin past, ~(aborted' /\ w \in early)
                 PROVE  registry[id[w]] = pool
      BY <2>1
    <3>1. registry[id[w]] # 0
      BY <1>7, <2>4 DEF RequireLoop
    <3> QED BY <2>2, <3>1 DEF PoolInv, OwnLoop
  <2>7. LoopOfItsPool'
    BY <1>1, <1>2, <2>1, <2>6 DEF PoolInv, LoopOfItsPool
  <2> QED BY <1>4, <1>5, <2>5, <2>7 DEF PoolInv
<1>8. CASE Run(w) \/ Exit(w)
  <2>1. /\ pc[w] = "run" /\ pc'[w] \in {"run", "exit"} /\ loop' = loop
        /\ early' = early /\ aborted' = aborted
    BY <1>8 DEF Run, Exit, PoolInv, TypeOK
  <2>2. LoopThereAfterStart'
    BY <1>1, <1>2, <1>3, <2>1 DEF PoolInv, LoopThereAfterStart
  <2>3. LoopOfItsPool'
    BY <1>1, <1>2, <2>1 DEF PoolInv, LoopOfItsPool
  <2> QED BY <1>4, <1>5, <2>2, <2>3 DEF PoolInv
<1> QED BY <1>6, <1>7, <1>8 DEF ThreadStep

LEMMA PoolStep == PoolInv /\ [Next]_vars => PoolInv'
<1> SUFFICES ASSUME PoolInv, [Next]_vars PROVE PoolInv'
  OBVIOUS
<1>1. TypeOK'
  BY TypeStep DEF PoolInv
<1>2. CASE MainStep
  <2> PICK w \in Workers :
        \/ StartThread(w) \/ ConstructState(w) \/ Register(w)
        \/ Start(w) \/ Stop(w) \/ FinaliseState(w) \/ Join(w)
    BY <1>2 DEF MainStep
  <2> QED BY <1>1, ConstructStep, MainStepAfter
<1>3. CASE Leave
  BY <1>1, <1>3, SizeFacts, MainStepAfter
<1>4. CASE Again
  BY <1>1, <1>4, AgainStep
<1>5. ASSUME NEW w \in Workers, ThreadStep(w) PROVE PoolInv'
  BY <1>1, <1>5, ThreadStepInv
<1>6. CASE UNCHANGED vars
  BY <1>6 DEF PoolInv, vars, poolVars, threadVars, TypeOK, Fresh, HasLoop, OwnLoop, Registered,
              Constructing, LoopThereAfterStart, LoopOfItsPool, WordOutlivesThread, Destroyed
<1> QED BY <1>2, <1>3, <1>4, <1>5, <1>6 DEF Next

LEMMA PoolInvariant == Spec => []PoolInv
<1> QED BY PoolInit, PoolStep, PTL DEF Spec

\* The words, ids, loops and program counters of an executor of any size are
\* what TypeOK says, however many executors are made one after another.
THEOREM TypeCorrect == Spec => []TypeOK
<1>1. PoolInv => TypeOK
  BY DEF PoolInv
<1> QED BY <1>1, PoolInvariant, PTL

\* However main and the workers interleave, a worker that did not read its
\* word before it was constructed finds a loop in require_event_loop().
THEOREM LoopThereAfterStartCorrect == Spec => []LoopThereAfterStart
<1>1. PoolInv => LoopThereAfterStart
  BY DEF PoolInv
<1> QED BY <1>1, PoolInvariant, PTL

\* A worker runs the loop of the executor that made it, unless its thread has
\* the id of a worker of an earlier executor.
THEOREM LoopOfItsPoolCorrect == Spec => []LoopOfItsPool
<1>1. PoolInv => LoopOfItsPool
  BY DEF PoolInv
<1> QED BY <1>1, PoolInvariant, PTL

\* The destructors join every thread before they destroy the word it reads.
THEOREM WordOutlivesThreadCorrect == Spec => []WordOutlivesThread
<1>1. PoolInv => WordOutlivesThread
  BY DEF PoolInv
<1> QED BY <1>1, PoolInvariant, PTL

-----------------------------------------------------------------------------
(***************************************************************************)
(* What the words say: start() and stop() change none, so a worker that    *)
(* did not read too early waits until its destructor stores the last word, *)
(* and then runs its loop for ever.  DestructorReturns fails in the run    *)
(* pool_destructor; here it is shown to fail in every pool.                *)
(***************************************************************************)

\* ~PoolWorker of w has stored its word.
Finalised(w) ==
  \/ main.op = "finalise" /\ w < main.worker
  \/ main.op = "join" /\ w <= main.worker
  \/ main.op = "gone"

WordSays ==
  \A w \in Workers :
    pc[w] # "unborn" /\ ~(main.op = "construct" /\ main.worker = w)
      => state[w] = IF Finalised(w) THEN Word(TRUE, TRUE) ELSE Word(FALSE, TRUE)

\* A worker whose first look at its word came after the construction.
WaitsForDestructor ==
  \A w \in Workers \ early :
    /\ pc[w] # "exit"
    /\ pc[w] \in {"require", "run"} => Finalised(w) /\ seen[w] = Word(TRUE, TRUE)

\* No other thread is ever joined.
JoinsOnlyEarly == \A w \in Workers : Destroyed(w) /\ ~aborted => w \in early

WaitInv == TypeOK /\ WordSays /\ WaitsForDestructor

\* A step of main, which moves no worker but the one whose thread it starts.
LEMMA WaitMainStep ==
  ASSUME WaitInv, TypeOK', MainStep \/ Leave
  PROVE  WaitInv'
<1> USE SizeFacts DEF Main, poolVars, threadVars
<1>1. ASSUME NEW w \in Workers, StartThread(w) PROVE WaitInv'
  <2>1. /\ main = [op |-> "thread", worker |-> w] /\ main' = [op |-> "construct", worker |-> w]
        /\ seen' = seen /\ early' = early /\ pc'[w] = "wait"
        /\ \A v \in Workers \ {w} : pc'[v] = pc[v] /\ state'[v] = state[v]
    BY <1>1 DEF StartThread, Go, WaitInv, TypeOK
  <2>2. \A v \in Workers : ~Finalised(v) /\ ~Finalised(v)'
    BY <2>1 DEF Finalised
  <2> QED BY <2>1, <2>2 DEF WaitInv, WordSays, WaitsForDestructor
<1>2. ASSUME NEW w \in Workers, ConstructState(w) PROVE WaitInv'
  <2>1. /\ main = [op |-> "construct", worker |-> w] /\ main' = [op |-> "register", worker |-> w]
        /\ seen' = seen /\ early' = early /\ pc' = pc
        /\ state'[w] = Word(FALSE, TRUE)
        /\ \A v \in Workers \ {w} : state'[v] = state[v]
    BY <1>2 DEF ConstructState, Go, WaitInv, TypeOK
  <2>2. \A v \in Workers : ~Finalised(v) /\ ~Finalised(v)'
    BY <2>1 DEF Finalised
  <2> QED BY <2>1, <2>2 DEF WaitInv, WordSays, WaitsForDestructor
<1>3. ASSUME NEW w \in Workers, Register(w) PROVE WaitInv'
  <2>1. ForAll("thread", w, "start") /\ main = [op |-> "register", worker |-> w]
        /\ UNCHANGED <<state, threadVars>>
    BY <1>3 DEF Register
  <2>2. main'.op \in {"thread", "start"}
    BY <2>1, ForAllCases
  <2>3. \A v \in Workers : ~Finalised(v) /\ ~Finalised(v)'
    BY <2>1, <2>2 DEF Finalised
  <2> QED BY <2>1, <2>2, <2>3 DEF WaitInv, WordSays, WaitsForDestructor
<1>4. ASSUME NEW w \in Workers, Start(w) \/ Stop(w) PROVE WaitInv'
  <2>1. /\ main \in {[op |-> "start", worker |-> w], [op |-> "stop", worker |-> w]}
        /\ UNCHANGED threadVars
    BY <1>4 DEF Start, Stop
  <2>2. main'.op \in {"start", "use", "stop"} \/ main' = [op |-> "finalise", worker |-> 1]
    <3>1. ForAll("start", w, "use") \/ ForAll("stop", w, "finalise")
      BY <1>4 DEF Start, Stop
    <3>2. CASE ForAll("start", w, "use")
      BY <3>2, ForAllCases
    <3>3. CASE ForAll("stop", w, "finalise")
      BY <3>3, ForAllCases
    <3> QED BY <3>1, <3>2, <3>3
  <2>3. \A v \in Workers : ~Finalised(v) /\ ~Finalised(v)'
    BY <2>1, <2>2 DEF Finalised, Workers
  <2>4. \A v \in Workers : pc[v] # "unborn" => state[v] = Word(FALSE, TRUE)
    <3>1. main.op # "construct"
      BY <2>1
    <3> QED BY <2>3, <3>1 DEF WaitInv, WordSays
  <2>5. \A v \in Workers : pc[v] # "unborn" => state'[v] = state[v]
    <3>1. CASE pc[w] = "unborn"
      BY <1>4, <3>1 DEF Start, Stop, ExchangeLoop, WaitInv, TypeOK
    <3>2. CASE pc[w] # "unborn"
      <4>1. state[w] # Word(FALSE, FALSE) /\ state[w] # Word(TRUE, FALSE)
        BY <2>4, <3>2 DEF Word
      <4> QED BY <1>4, <4>1 DEF Start, Stop, ExchangeLoop
    <3> QED BY <3>1, <3>2
  <2> QED BY <2>1, <2>3, <2>4, <2>5 DEF WaitInv, WordSays, WaitsForDestructor
<1>5. ASSUME NEW w \in Workers, FinaliseState(w) PROVE WaitInv'
  <2>1. /\ main = [op |-> "finalise", worker |-> w] /\ main' = [op |-> "join", worker |-> w]
        /\ UNCHANGED threadVars
        /\ state'[w] = Word(TRUE, TRUE)
        /\ \A v \in Workers \ {w} : state'[v] = state[v]
    BY <1>5 DEF FinaliseState, Go, WaitInv, TypeOK
  <2>2. \A v \in Workers : Finalised(v)' <=> Finalised(v) \/ v = w
    BY <2>1 DEF Finalised, Workers
  <2> QED BY <2>1, <2>2 DEF WaitInv, WordSays, WaitsForDestructor
<1>6. ASSUME NEW w \in Workers, Join(w) PROVE WaitInv'
  <2>1. /\ ForAll("finalise", w, "gone") /\ main = [op |-> "join", worker |-> w]
        /\ UNCHANGED <<state, threadVars>>
    BY <1>6 DEF Join
  <2>2. \/ w < Size /\ main' = [op |-> "finalise", worker |-> w + 1]
        \/ w = Size /\ main' = [op |-> "gone", worker |-> 1]
    BY <2>1, ForAllCases
  <2>3. \A v \in Workers : Finalised(v)' <=> Finalised(v)
    BY <2>1, <2>2 DEF Finalised, Workers
  <2> QED BY <2>1, <2>2, <2>3 DEF WaitInv, WordSays, WaitsForDestructor
<1>7. ASSUME Leave PROVE WaitInv'
  <2>1. /\ main = [op |-> "use", worker |-> 1] /\ main' = [op |-> "stop", worker |-> 1]
        /\ UNCHANGED <<state, threadVars>>
    BY <1>7 DEF Leave, Go
  <2>2. \A v \in Workers : ~Finalised(v) /\ ~Finalised(v)'
    BY <2>1 DEF Finalised
  <2> QED BY <2>1, <2>2 DEF WaitInv, WordSays, WaitsForDestructor
<1> QED BY <1>1, <1>2, <1>3, <1>4, <1>5, <1>6, <1>7 DEF MainStep

\* A step of a worker: what it reads after the construction is what WordSays.
LEMMA WaitThreadStep ==
  ASSUME WaitInv, TypeOK', NEW w \in Workers, ThreadStep(w)
  PROVE  WaitInv'
<1> USE DEF Thread
<1>1. /\ state' = state /\ main' = main /\ pc[w] # "unborn" /\ early \subseteq early'
      /\ \A v \in Workers \ {w} : pc'[v] = pc[v] /\ seen'[v] = seen[v]
  BY DEF ThreadStep, Wait, RequireLoop, Run, Exit, WaitInv, TypeOK
<1>2. \A v \in Workers : Finalised(v)' <=> Finalised(v)
  BY <1>1 DEF Finalised
<1>3. WordSays'
  BY <1>1, <1>2 DEF WaitInv, WordSays
<1>4. ~(main.op = "construct" /\ main.worker = w)
        => state[w] = IF Finalised(w) THEN Word(TRUE, TRUE) ELSE Word(FALSE, TRUE)
  BY <1>1 DEF WaitInv, WordSays
<1>5. w \notin early' =>
        /\ pc'[w] # "exit"
        /\ pc'[w] \in {"require", "run"} => Finalised(w) /\ seen'[w] = Word(TRUE, TRUE)
  <2> SUFFICES ASSUME w \notin early'
               PROVE  /\ pc'[w] # "exit"
                      /\ pc'[w] \in {"require", "run"} =>
                           Finalised(w) /\ seen'[w] = Word(TRUE, TRUE)
    OBVIOUS
  <2>1. /\ pc[w] # "exit"
        /\ pc[w] \in {"require", "run"} => Finalised(w) /\ seen[w] = Word(TRUE, TRUE)
    BY <1>1 DEF WaitInv, WaitsForDestructor
  <2>2. CASE Wait(w)
    <3>1. ~(main.op = "construct" /\ main.worker = w)
      <4>1. main = [op |-> main.op, worker |-> main.worker] /\ ~aborted
        BY <2>2 DEF WaitInv, TypeOK, Wait
      <4> QED BY <2>2, <4>1 DEF Wait, Main
    <3>2. seen'[w] = IF Finalised(w) THEN Word(TRUE, TRUE) ELSE Word(FALSE, TRUE)
      BY <1>4, <2>2, <3>1 DEF Wait, WaitInv, TypeOK
    <3>3. pc'[w] = IF ~seen'[w].start /\ seen'[w].stop THEN "wait" ELSE "require"
      BY <2>2 DEF Wait, WaitInv, TypeOK
    <3> QED BY <3>2, <3>3 DEF Word
  <2>3. CASE RequireLoop(w)
    BY <2>1, <2>3 DEF RequireLoop, WaitInv, TypeOK
  <2>4. CASE Run(w)
    <3>1. ~(main.op = "construct" /\ main.worker = w)
      BY <2>1, <2>4 DEF Run, Finalised
    <3> QED BY <1>4, <2>1, <2>4, <3>1 DEF Run, WaitInv, TypeOK
  <2>5. CASE Exit(w)
    BY <2>1, <2>5 DEF Exit, Word
  <2> QED BY <2>2, <2>3, <2>4, <2>5 DEF ThreadStep
<1>6. WaitsForDestructor'
  BY <1>1, <1>2, <1>5 DEF WaitInv, WaitsForDestructor
<1> QED BY <1>3, <1>6 DEF WaitInv

LEMMA WaitInvariant == Spec => []WaitInv
<1>1. Init => WaitInv
  <2>1. Init => TypeOK
    BY PoolInit DEF PoolInv
  <2> QED BY <2>1 DEF Init, WaitInv, WordSays, WaitsForDestructor
<1>2. WaitInv /\ [Next]_vars => WaitInv'
  <2> SUFFICES ASSUME WaitInv, [Next]_vars PROVE WaitInv'
    OBVIOUS
  <2>1. TypeOK'
    BY TypeStep DEF WaitInv
  <2>2. CASE MainStep \/ Leave
    BY <2>1, <2>2, WaitMainStep
  <2>3. CASE Again
    BY <2>1, <2>3 DEF Again, WaitInv, WordSays, WaitsForDestructor
  <2>4. ASSUME NEW w \in Workers, ThreadStep(w) PROVE WaitInv'
    BY <2>1, <2>4, WaitThreadStep
  <2>5. CASE UNCHANGED vars
    BY <2>5 DEF vars, poolVars, threadVars, WaitInv, TypeOK, WordSays, WaitsForDestructor, Finalised
  <2> QED BY <2>2, <2>3, <2>4, <2>5 DEF Next
<1> QED BY <1>1, <1>2, PTL DEF Spec

\* Whatever main does with a pool, a worker that did not read its word before
\* it was constructed stays in its wait, and runs no task, until ~PoolWorker
\* stores the last word; then it runs its loop and never leaves thread_work.
THEOREM WaitsForDestructorCorrect == Spec => []WaitsForDestructor
<1>1. WaitInv => WaitsForDestructor
  BY DEF WaitInv
<1> QED BY <1>1, WaitInvariant, PTL

\* ~PoolWorker of such a worker never comes back: the only threads that are
\* ever joined are those that read a word that was not there yet.  This is
\* how DestructorReturns fails, for pools of any size.
THEOREM JoinsOnlyEarlyCorrect == Spec => []JoinsOnlyEarly
<1>1. PoolInv /\ WaitInv => JoinsOnlyEarly
  BY DEF PoolInv, WordOutlivesThread, WaitInv, WaitsForDestructor, JoinsOnlyEarly
<1> QED BY <1>1, PoolInvariant, WaitInvariant, PTL
=============================================================================
