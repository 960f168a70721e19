-------------------------- MODULE EventLoopProofs --------------------------
(***************************************************************************)
(* Proofs about EventLoop for any programs, any number of tasks and a ring *)
(* of any capacity.                                                        *)
(*                                                                         *)
(* LoopInv is the inductive invariant behind most of them: a task that has *)
(* been started and is not complete is in one place of the ring or of the  *)
(* stack (Located); the ring holds tasks that have pushed no kid (Entered) *)
(* and the kids of a task on the stack are above it (Nested), so that a    *)
(* loop on top of the stack finds in the ring every kid it still waits     *)
(* for; no task is started before its parent comes to it (Untouched); and  *)
(* main is at the bottom (Bottom).  LockInv is the one about the mutex,    *)
(* Alone the one about the end of the program, ErrorsWithin the one about  *)
(* which tasks can fail, BuriedWait the one about why a task is stopped.   *)
(***************************************************************************)
EXTENDS EventLoop, FunctionTheorems, FiniteSetTheorems, SequenceTheorems, TLAPS

TypeInv ==
  /\ TypeOK
  /\ program \in Programs
  /\ pos \in [Tasks -> Nat]
  /\ pushed \in [Tasks -> Nat]

\* The kids that have been given to the event loop or resumed by hand.
Reached ==
  {k \in Tasks : \E t \in Tasks : \E i \in DOMAIN program[t] :
     \E n \in DOMAIN program[t][i].kids :
       /\ k = program[t][i].kids[n]
       /\ i < pos[t] \/ (i = pos[t] /\ n <= pushed[t])}

Untouched ==
  /\ spawned \subseteq Reached
  /\ \A k \in Tasks \ (Reached \cup {Main}) : pushed[k] = 0 /\ ~Complete(k)

\* Each of the tasks in a is in one place of the ring q or the stack s.
Located(q, s, a) ==
  /\ \A i, j \in DOMAIN q : q[i].task = q[j].task => i = j
  /\ \A i, j \in DOMAIN s : s[i] = s[j] => i = j
  /\ \A i \in DOMAIN q, j \in DOMAIN s : q[i].task # s[j]
  /\ \A t \in Tasks :
       t \in a <=> (\E i \in DOMAIN q : q[i].task = t) \/ (\E j \in DOMAIN s : s[j] = t)

Entered ==
  \A i \in DOMAIN queue :
    /\ queue[i].poller => Op(queue[i].task) \in Polls
    /\ pushed[queue[i].task] = 0

Nested ==
  \A t \in Tasks :
    ~Complete(t) /\ pushed[t] > 0 =>
      \E i \in DOMAIN stack :
        /\ stack[i] = t
        /\ \A j \in DOMAIN stack : stack[j] \in Started(t) => i < j

Bottom == ended = "no" => stack # <<>> /\ stack[1] = Main

LoopInv ==
  /\ TypeInv /\ Untouched /\ Located(queue, stack, Active)
  /\ Entered /\ Nested /\ Bottom

LockInv == IF mutex = "locked" THEN \E t \in Tasks : Holders = {t} ELSE Holders = {}

-----------------------------------------------------------------------------
(* The ring and the stack as sequences.                                    *)

LEMMA FrontFacts ==
  ASSUME NEW S, NEW s \in Seq(S), s # <<>>
  PROVE  /\ Front(s) \in Seq(S)
         /\ Len(Front(s)) = Len(s) - 1
         /\ \A i \in 1 .. Len(s) - 1 : Front(s)[i] = s[i]
         /\ Len(s) \in Nat /\ Len(s) >= 1
         /\ Last(s) = s[Len(s)] /\ Last(s) \in S
<1>1. Len(s) \in Nat /\ Len(s) >= 1 /\ Len(s) \in DOMAIN s
  OBVIOUS
<1>2. \A i \in 1 .. Len(s) : s[i] \in S
  OBVIOUS
<1>3. Last(s) = s[Len(s)] /\ Last(s) \in S
  BY <1>1, <1>2 DEF Last
<1>4. /\ Front(s) \in Seq(S) /\ Len(Front(s)) = Len(s) - 1
      /\ \A i \in 1 .. Len(s) - 1 : Front(s)[i] = s[i]
  <2> DEFINE n == Len(s) - 1
  <2>1. n \in Int /\ 1 \in Int /\ \A i \in 1 .. n : s[i] \in S
    BY <1>1, <1>2
  <2> HIDE DEF n
  <2>2. /\ SubSeq(s, 1, n) \in Seq(S)
        /\ Len(SubSeq(s, 1, n)) = IF 1 <= n THEN n - 1 + 1 ELSE 0
        /\ \A i \in 1 .. n - 1 + 1 : SubSeq(s, 1, n)[i] = s[1 + i - 1]
    BY <2>1, SubSeqProperties
  <2>3. n \in Nat /\ n - 1 + 1 = n /\ \A i \in 1 .. n : 1 + i - 1 = i
    BY <1>1 DEF n
  <2> QED BY <2>2, <2>3 DEF Front, n
<1> QED BY <1>1, <1>3, <1>4

LEMMA EntryTask ==
  ASSUME NEW q \in Seq(Entries), NEW i \in DOMAIN q
  PROVE  q[i] \in Entries /\ q[i].task \in Tasks
<1>1. q[i] \in Entries
  OBVIOUS
<1> QED BY <1>1 DEF Entries

LEMMA QueueFacts ==
  ASSUME NEW q \in Seq(Entries), q # <<>>
  PROVE  /\ Tail(q) \in Seq(Entries)
         /\ Len(q) \in Nat /\ Len(q) >= 1 /\ Len(Tail(q)) = Len(q) - 1
         /\ \A i \in 1 .. Len(q) - 1 : Tail(q)[i] = q[i + 1]
         /\ Head(q) = q[1] /\ q[1] \in Entries /\ q[1].task \in Tasks
         /\ 1 \in DOMAIN q
<1>1. Len(q) \in Nat /\ Len(q) >= 1 /\ 1 \in DOMAIN q
  OBVIOUS
<1>2. q[1] \in Entries /\ q[1].task \in Tasks
  BY <1>1, EntryTask
<1>3. /\ Tail(q) \in Seq(Entries) /\ Len(Tail(q)) = Len(q) - 1
      /\ \A i \in 1 .. Len(q) - 1 : Tail(q)[i] = q[i + 1]
      /\ Head(q) = q[1]
  BY <1>1, HeadTailProperties
<1> QED BY <1>1, <1>2, <1>3

\* An entry is pushed, a task is put on the stack; ...
LEMMA LocatedPush ==
  ASSUME NEW q \in Seq(Entries), NEW s \in Seq(Tasks), NEW a,
         Located(q, s, a), NEW e \in Entries, e.task \notin a
  PROVE  Located(Append(q, e), s, a \cup {e.task})
<1> DEFINE r == Append(q, e)
<1>1. /\ Len(q) \in Nat /\ DOMAIN q = 1 .. Len(q) /\ DOMAIN r = 1 .. Len(q) + 1
      /\ \A i \in DOMAIN q : r[i] = q[i]
      /\ r[Len(q) + 1] = e /\ e.task \in Tasks
  BY DEF Entries
<1>2. \A i \in DOMAIN q : q[i].task \in Tasks
  BY EntryTask
<1>3. \A j \in DOMAIN s : s[j] \in Tasks
  OBVIOUS
<1>4. /\ \A i \in DOMAIN q : q[i].task # e.task
      /\ \A j \in DOMAIN s : s[j] # e.task
  BY <1>1, <1>2, <1>3 DEF Located
<1> HIDE DEF r
<1>5. \A i, j \in DOMAIN r : r[i].task = r[j].task => i = j
  BY <1>1, <1>4 DEF Located
<1>6. \A i \in DOMAIN r, j \in DOMAIN s : r[i].task # s[j]
  BY <1>1, <1>4 DEF Located
<1>7. \A t \in Tasks : (\E i \in DOMAIN r : r[i].task = t)
                         <=> (\E i \in DOMAIN q : q[i].task = t) \/ t = e.task
  BY <1>1
<1>8. Located(r, s, a \cup {e.task})
  BY <1>5, <1>6, <1>7 DEF Located
<1> QED BY <1>8 DEF r

LEMMA LocatedCall ==
  ASSUME NEW q \in Seq(Entries), NEW s \in Seq(Tasks), NEW a,
         Located(q, s, a), NEW k \in Tasks, k \notin a
  PROVE  Located(q, Append(s, k), a \cup {k})
<1> DEFINE r == Append(s, k)
<1>1. /\ Len(s) \in Nat /\ DOMAIN s = 1 .. Len(s) /\ DOMAIN r = 1 .. Len(s) + 1
      /\ \A i \in DOMAIN s : r[i] = s[i]
      /\ r[Len(s) + 1] = k
  OBVIOUS
<1>2. \A i \in DOMAIN q : q[i].task \in Tasks
  BY EntryTask
<1>3. /\ \A i \in DOMAIN q : q[i].task # k
      /\ \A j \in DOMAIN s : s[j] # k
  BY <1>2 DEF Located
<1> HIDE DEF r
<1>4. \A i, j \in DOMAIN r : r[i] = r[j] => i = j
  BY <1>1, <1>3 DEF Located
<1>5. \A i \in DOMAIN q, j \in DOMAIN r : q[i].task # r[j]
  BY <1>1, <1>3 DEF Located
<1>6. \A t \in Tasks : (\E i \in DOMAIN r : r[i] = t) <=> (\E i \in DOMAIN s : s[i] = t) \/ t = k
  BY <1>1
<1>7. Located(q, r, a \cup {k})
  BY <1>4, <1>5, <1>6 DEF Located
<1> QED BY <1>7 DEF r

\* ... the oldest entry is popped, the topmost task leaves the stack.
LEMMA LocatedPop ==
  ASSUME NEW q \in Seq(Entries), NEW s \in Seq(Tasks), NEW a, Located(q, s, a), q # <<>>
  PROVE  Located(Tail(q), s, a \ {Head(q).task})
<1> DEFINE r == Tail(q)
<1>1. /\ Len(q) \in Nat /\ Len(q) >= 1 /\ DOMAIN q = 1 .. Len(q) /\ DOMAIN r = 1 .. Len(q) - 1
      /\ \A i \in DOMAIN r : i + 1 \in DOMAIN q /\ r[i] = q[i + 1]
      /\ 1 \in DOMAIN q /\ Head(q) = q[1]
  BY QueueFacts
<1> HIDE DEF r
<1>2. \A i, j \in DOMAIN r : r[i].task = r[j].task => i = j
  BY <1>1 DEF Located
<1>3. \A i \in DOMAIN r, j \in DOMAIN s : r[i].task # s[j]
  BY <1>1 DEF Located
<1>4. \A i \in DOMAIN r : r[i].task # q[1].task
  BY <1>1 DEF Located
<1>5. \A j \in DOMAIN s : s[j] # q[1].task
  BY <1>1 DEF Located
<1>6. \A i \in DOMAIN q : i = 1 \/ (i - 1 \in DOMAIN r /\ r[i - 1] = q[i])
  BY <1>1
<1>7. \A t \in Tasks : (\E i \in DOMAIN r : r[i].task = t)
                         <=> (\E i \in DOMAIN q : q[i].task = t) /\ t # q[1].task
  BY <1>1, <1>4, <1>6
<1>8. Located(r, s, a \ {q[1].task})
  BY <1>2, <1>3, <1>5, <1>7 DEF Located
<1> QED BY <1>1, <1>8 DEF r

LEMMA LocatedLeave ==
  ASSUME NEW q \in Seq(Entries), NEW s \in Seq(Tasks), NEW a, Located(q, s, a), s # <<>>
  PROVE  Located(q, Front(s), a \ {Last(s)})
<1> DEFINE r == Front(s)
<1>0. /\ r \in Seq(Tasks) /\ Len(r) = Len(s) - 1
      /\ \A i \in 1 .. Len(s) - 1 : r[i] = s[i]
      /\ Len(s) \in Nat /\ Len(s) >= 1 /\ Last(s) = s[Len(s)]
  BY FrontFacts
<1>1. /\ Len(s) \in Nat /\ Len(s) >= 1 /\ DOMAIN s = 1 .. Len(s) /\ DOMAIN r = 1 .. Len(s) - 1
      /\ \A i \in DOMAIN r : i \in DOMAIN s /\ r[i] = s[i]
      /\ Len(s) \in DOMAIN s /\ Last(s) = s[Len(s)]
  <2> HIDE DEF r
  <2>1. DOMAIN s = 1 .. Len(s)
    OBVIOUS
  <2>2. DOMAIN r = 1 .. Len(r)
    BY <1>0
  <2>3. DOMAIN r = 1 .. Len(s) - 1
    BY <1>0, <2>2
  <2>4. Len(s) \in DOMAIN s
    BY <1>0, <2>1
  <2>5. \A i \in DOMAIN r : i \in DOMAIN s /\ r[i] = s[i]
    BY <1>0, <2>1, <2>3
  <2> QED BY <1>0, <2>1, <2>3, <2>4, <2>5
<1> HIDE DEF r
<1>2. \A i, j \in DOMAIN r : r[i] = r[j] => i = j
  BY <1>1 DEF Located
<1>3. \A i \in DOMAIN q, j \in DOMAIN r : q[i].task # r[j]
  BY <1>1 DEF Located
<1>4. \A i \in DOMAIN q : q[i].task # s[Len(s)]
  BY <1>1 DEF Located
<1>5. \A i \in DOMAIN s : i = Len(s) \/ i \in DOMAIN r
  BY <1>1
<1>6. \A t \in Tasks : (\E i \in DOMAIN r : r[i] = t)
                         <=> (\E i \in DOMAIN s : s[i] = t) /\ t # s[Len(s)]
  BY <1>1, <1>5 DEF Located
<1>7. Located(q, r, a \ {s[Len(s)]})
  BY <1>2, <1>3, <1>4, <1>6 DEF Located
<1> QED BY <1>1, <1>7 DEF r

-----------------------------------------------------------------------------
(* Programs: the step a task is at, and the kids that have been started.   *)

LEMMA OpFacts ==
  ASSUME TypeInv, NEW t \in Tasks
  PROVE  /\ program[t] \in Body /\ pos[t] \in 1 .. Len(program[t]) + 1
         /\ pushed[t] \in Nat /\ (Op(t) \notin Joins => pushed[t] = 0)
         /\ Op(t) # "return" =>
              /\ pos[t] \in DOMAIN program[t] /\ pos[t] <= Len(program[t])
              /\ Op(t) = program[t][pos[t]].op
              /\ Kids(t) \in Seq(Tasks)
              /\ Op(t) \in Joins \cup Starts <=> Kids(t) # <<>>
              /\ Op(t) \in Starts \cup {"await"} => Len(Kids(t)) = 1
              /\ Op(t) \in Polls \cup {"await", "spawn"} => t # Main
              /\ Op(t) \in Joins => pushed[t] <= Len(Kids(t))
<1> DEFINE b == program[t]
           i == pos[t]
<1>1. b \in Body /\ i \in 1 .. Len(b) + 1 /\ pushed[t] \in Nat
  BY TaskAssumption DEF TypeInv, TypeOK, TaskTypeOK
<1>2. pushed[t] \in 0 .. IF Op(t) \in Joins THEN Len(Kids(t)) ELSE 0
  BY DEF TypeInv, TypeOK, TaskTypeOK
<1>3. Op(t) \notin Joins => pushed[t] = 0
  BY <1>2
<1>4. ASSUME Op(t) # "return"
      PROVE  /\ i \in DOMAIN b /\ i <= Len(b)
             /\ Op(t) = b[i].op
             /\ Kids(t) \in Seq(Tasks)
             /\ Op(t) \in Joins \cup Starts <=> Kids(t) # <<>>
             /\ Op(t) \in Starts \cup {"await"} => Len(Kids(t)) = 1
             /\ Op(t) \in Polls \cup {"await", "spawn"} => t # Main
             /\ Op(t) \in Joins => pushed[t] <= Len(Kids(t))
  <2>1. i <= Len(b) /\ Op(t) = b[i].op
    BY <1>4 DEF Op
  <2>2. i \in DOMAIN b
    BY <1>1, <2>1 DEF Body
  <2>3. b[i] \in [op : Ops, kids : Seq(Tasks)]
    <3> DEFINE S == [op : Ops, kids : Seq(Tasks)]
    <3>1. b \in Seq(S) /\ i \in 1 .. Len(b)
      BY <1>1, <2>1 DEF Body
    <3> HIDE DEF S, b, i
    <3>2. b[i] \in S
      BY <3>1
    <3> QED BY <3>2 DEF S, b, i
  <2>4. Kids(t) = b[i].kids /\ Kids(t) \in Seq(Tasks)
    BY <2>3 DEF Kids
  <2>5. /\ (b[i].op \in Joins \cup Starts) = (b[i].kids # <<>>)
        /\ b[i].op \in Starts \cup {"await"} => Len(b[i].kids) = 1
        /\ b[i].op \in Polls \cup {"await", "spawn"} => t # Main
    BY <2>2, TaskAssumption DEF TypeInv
  <2>6. Op(t) \in Joins => pushed[t] <= Len(Kids(t))
    BY <1>2, <2>4
  <2> QED BY <2>1, <2>2, <2>4, <2>5, <2>6
<1> QED BY <1>1, <1>3, <1>4

LEMMA StartedFacts ==
  ASSUME TypeInv, NEW t \in Tasks
  PROVE  /\ Op(t) \notin Joins => Started(t) = {}
         /\ Op(t) \in Joins => Started(t) = {Kids(t)[n] : n \in 1 .. pushed[t]}
<1>1. Op(t) \notin Joins => Started(t) = {}
  BY DEF Started
<1>2. ASSUME Op(t) \in Joins
      PROVE  Started(t) = {Kids(t)[n] : n \in 1 .. pushed[t]}
  <2> DEFINE n == pushed[t]
             ks == Kids(t)
  <2>1. ks \in Seq(Tasks) /\ n \in Nat /\ n <= Len(ks)
    BY <1>2, OpFacts DEF Joins
  <2> HIDE DEF n, ks
  <2>2. n \in Int /\ 1 \in Int /\ \A i \in 1 .. n : ks[i] \in Tasks
    BY <2>1
  <2>3. /\ SubSeq(ks, 1, n) \in Seq(Tasks)
        /\ Len(SubSeq(ks, 1, n)) = IF 1 <= n THEN n - 1 + 1 ELSE 0
        /\ \A i \in 1 .. n - 1 + 1 : SubSeq(ks, 1, n)[i] = ks[1 + i - 1]
    BY <2>2, SubSeqProperties
  <2>4. n - 1 + 1 = n /\ \A i \in 1 .. n : 1 + i - 1 = i
    BY <2>1
  <2>5. DOMAIN SubSeq(ks, 1, n) = 1 .. n
    BY <2>1, <2>3, <2>4
  <2>6. ToSet(SubSeq(ks, 1, n)) = {ks[i] : i \in 1 .. n}
    BY <2>3, <2>4, <2>5 DEF ToSet
  <2> QED BY <1>2, <2>6 DEF Started, n, ks
<1> QED BY <1>1, <1>2

\* A kid that has been started was reached by its parent.
LEMMA ActiveReached ==
  ASSUME TypeInv, Untouched
  PROVE  /\ \A t \in Tasks : Started(t) \subseteq Reached
         /\ Active \subseteq Reached \cup {Main}
<1>1. ASSUME NEW t \in Tasks, NEW k \in Started(t)
      PROVE  k \in Reached
  <2>1. Op(t) \in Joins /\ Op(t) # "return"
    BY <1>1, StartedFacts DEF Joins
  <2>2. PICK n \in 1 .. pushed[t] : k = Kids(t)[n]
    BY <2>1, <1>1, StartedFacts
  <2>3. /\ pos[t] \in DOMAIN program[t] /\ Kids(t) \in Seq(Tasks)
        /\ n \in DOMAIN Kids(t) /\ n <= pushed[t]
    BY <2>1, OpFacts
  <2>4. k \in Tasks
    BY <2>2, <2>3
  <2> QED BY <2>2, <2>3, <2>4 DEF Reached, Kids
<1>2. Active \subseteq Reached \cup {Main}
  BY <1>1 DEF Active, Untouched
<1> QED BY <1>1, <1>2

\* The kid that a task comes to next has not been started before.
LEMMA NextKid ==
  ASSUME TypeInv, Untouched, NEW t \in Tasks, Op(t) # "return",
         NEW n \in DOMAIN Kids(t), pushed[t] < n
  PROVE  /\ Kids(t)[n] \in Tasks /\ Kids(t)[n] # Main
         /\ Kids(t)[n] \notin Reached /\ Kids(t)[n] \notin Active
         /\ pushed[Kids(t)[n]] = 0 /\ ~Complete(Kids(t)[n])
<1> DEFINE k == Kids(t)[n]
<1>1. pos[t] \in DOMAIN program[t] /\ Kids(t) \in Seq(Tasks) /\ pos[t] \in Nat /\ program \in Programs
  BY OpFacts DEF TypeInv
<1>2. k \in Tasks /\ n \in Nat /\ pushed[t] \in Nat
  BY <1>1, OpFacts
<1>3. k # Main
  BY <1>1, KidAssumption DEF Kids
<1>4. ASSUME k \in Reached PROVE FALSE
  <2>1. PICK u \in Tasks : \E j \in DOMAIN program[u] : \E m \in DOMAIN program[u][j].kids :
          /\ k = program[u][j].kids[m]
          /\ j < pos[u] \/ (j = pos[u] /\ m <= pushed[u])
    BY <1>4 DEF Reached
  <2>2. PICK j \in DOMAIN program[u] : \E m \in DOMAIN program[u][j].kids :
          /\ k = program[u][j].kids[m]
          /\ j < pos[u] \/ (j = pos[u] /\ m <= pushed[u])
    BY <2>1
  <2>3. PICK m \in DOMAIN program[u][j].kids :
          /\ k = program[u][j].kids[m]
          /\ j < pos[u] \/ (j = pos[u] /\ m <= pushed[u])
    BY <2>2
  <2>4. u = t /\ j = pos[t] /\ m = n
    BY <1>1, <2>3, KidAssumption DEF Kids
  <2> QED BY <1>1, <1>2, <2>3, <2>4
<1>5. k \notin Active
  BY <1>3, <1>4, ActiveReached
<1> QED BY <1>2, <1>3, <1>4, <1>5 DEF Untouched

-----------------------------------------------------------------------------
(* What a step of one task does to the program positions, to what has been *)
(* reached and to which tasks are active.                                  *)

LEMMA AdvanceEffect ==
  ASSUME TypeInv, NEW t \in Tasks, Op(t) # "return", Advance(t)
  PROVE  /\ program' = program /\ result' = result
         /\ pos' \in [Tasks -> Nat] /\ pushed' \in [Tasks -> Nat]
         /\ pos'[t] = pos[t] + 1 /\ pushed'[t] = 0
         /\ \A u \in Tasks \ {t} : /\ pos'[u] = pos[u] /\ pushed'[u] = pushed[u]
                                  /\ Op(u)' = Op(u) /\ Kids(u)' = Kids(u)
                                  /\ Started(u)' = Started(u)
         /\ Started(t)' = {}
         /\ \A u \in Tasks : Complete(u)' = Complete(u)
<1>1. /\ program' = program /\ result' = result
      /\ pos' = [pos EXCEPT ![t] = pos[t] + 1] /\ pushed' = [pushed EXCEPT ![t] = 0]
  BY DEF Advance
<1>2. pos \in [Tasks -> Nat] /\ pushed \in [Tasks -> Nat]
  BY DEF TypeInv
<1>3. /\ pos' \in [Tasks -> Nat] /\ pushed' \in [Tasks -> Nat]
      /\ pos'[t] = pos[t] + 1 /\ pushed'[t] = 0
      /\ \A u \in Tasks \ {t} : pos'[u] = pos[u] /\ pushed'[u] = pushed[u]
  BY <1>1, <1>2
<1>4. \A u \in Tasks \ {t} : Op(u)' = Op(u) /\ Kids(u)' = Kids(u)
  BY <1>1, <1>3 DEF Op, Kids
<1>5. \A u \in Tasks \ {t} : Started(u)' = Started(u)
  BY <1>3, <1>4 DEF Started
<1>6. Started(t)' = {}
  <2>1. SubSeq(Kids(t)', 1, 0) = <<>>
    BY SubSeqEmpty
  <2>2. ToSet(<<>>) = {}
    BY DEF ToSet
  <2> QED BY <1>3, <2>1, <2>2 DEF Started
<1>7. \A u \in Tasks : Complete(u)' = Complete(u)
  BY <1>1 DEF Complete
<1> QED BY <1>1, <1>3, <1>4, <1>5, <1>6, <1>7

LEMMA AdvanceType ==
  ASSUME TypeInv, NEW t \in Tasks, Op(t) # "return", Advance(t)
  PROVE  /\ \A u \in Tasks : pos'[u] \in 1 .. Len(program'[u]) + 1
         /\ \A u \in Tasks : pushed'[u] \in 0 .. IF Op(u)' \in Joins THEN Len(Kids(u)') ELSE 0
         /\ program' \in Programs /\ pos' \in [Tasks -> Nat] /\ pushed' \in [Tasks -> Nat]
<1>1. \A u \in Tasks \ {t} :
        /\ pos'[u] \in 1 .. Len(program'[u]) + 1
        /\ pushed'[u] \in 0 .. IF Op(u)' \in Joins THEN Len(Kids(u)') ELSE 0
  BY AdvanceEffect DEF TypeInv, TypeOK, TaskTypeOK
<1>2. pos'[t] \in 1 .. Len(program'[t]) + 1
  <2>1. pos[t] \in Nat /\ pos[t] >= 1 /\ pos[t] <= Len(program[t]) /\ Len(program[t]) \in Nat
    BY OpFacts DEF Body
  <2> QED BY <2>1, AdvanceEffect
<1>3. pushed'[t] \in 0 .. IF Op(t)' \in Joins THEN Len(Kids(t)') ELSE 0
  <2> SUFFICES ASSUME Op(t)' \in Joins PROVE Len(Kids(t)') \in Nat
    BY AdvanceEffect
  <2> DEFINE b == program[t]
             i == pos'[t]
             S == [op : Ops, kids : Seq(Tasks)]
  <2>1. program' = program
    BY AdvanceEffect
  <2>2. i <= Len(b)
    BY <2>1 DEF Op, Joins
  <2>3. b \in Seq(S) /\ i \in 1 .. Len(b)
    <3>1. b \in Seq(S)
      BY OpFacts DEF Body
    <3>2. i \in 1 .. Len(b) + 1
      BY <1>2, <2>1
    <3>3. Len(b) \in Nat
      BY <3>1
    <3> HIDE DEF b, i
    <3> QED BY <2>2, <3>1, <3>2, <3>3
  <2>4. Kids(t)' = b[i].kids
    BY <2>1 DEF Kids
  <2> HIDE DEF b, i, S
  <2>5. b[i] \in S
    BY <2>3
  <2>6. b[i].kids \in Seq(Tasks)
    BY <2>5 DEF S
  <2> QED BY <2>4, <2>6
<1> QED BY <1>1, <1>2, <1>3, AdvanceEffect DEF TypeInv

LEMMA AdvanceReached ==
  ASSUME TypeInv, NEW t \in Tasks, Op(t) # "return", Advance(t),
         Op(t) \in Joins => pushed[t] = Len(Kids(t))
  PROVE  /\ Op(t) \notin Starts => Reached' = Reached
         /\ Op(t) \in Starts => Reached' = Reached \cup {Kids(t)[1]}
<1>1. /\ program' = program /\ pos'[t] = pos[t] + 1 /\ pushed'[t] = 0
      /\ \A u \in Tasks \ {t} : pos'[u] = pos[u] /\ pushed'[u] = pushed[u]
  BY AdvanceEffect
<1>2. /\ pos[t] \in Nat /\ pos[t] \in DOMAIN program[t] /\ pushed[t] \in Nat
      /\ Kids(t) = program[t][pos[t]].kids /\ Kids(t) \in Seq(Tasks)
      /\ program[t] \in Body
  BY OpFacts DEF Kids
<1>3. \A i \in DOMAIN program[t] : i \in Nat
  BY <1>2 DEF Body
<1>4. /\ Op(t) \notin Joins \cup Starts => DOMAIN Kids(t) = {}
      /\ Op(t) \in Joins => DOMAIN Kids(t) = 1 .. pushed[t]
      /\ Op(t) \in Starts => DOMAIN Kids(t) = {1}
  BY <1>2, OpFacts
<1>5. ASSUME NEW k \in Tasks
      PROVE  k \in Reached' <=> k \in Reached \/ (\E n \in DOMAIN Kids(t) : k = Kids(t)[n])
  <2> DEFINE At(u) == \E i \in DOMAIN program[u] : \E n \in DOMAIN program[u][i].kids :
                        /\ k = program[u][i].kids[n]
                        /\ i < pos[u] \/ (i = pos[u] /\ n <= pushed[u])
             AtNext(u) == \E i \in DOMAIN program[u] : \E n \in DOMAIN program[u][i].kids :
                        /\ k = program[u][i].kids[n]
                        /\ i < pos'[u] \/ (i = pos'[u] /\ n <= pushed'[u])
  <2>1. \A u \in Tasks \ {t} : AtNext(u) <=> At(u)
    BY <1>1
  <2>2. At(t) => AtNext(t)
    BY <1>1, <1>2, <1>3
  <2>3. (\E n \in DOMAIN Kids(t) : k = Kids(t)[n]) => AtNext(t)
    BY <1>1, <1>2
  <2>4. ASSUME AtNext(t) PROVE At(t) \/ (\E n \in DOMAIN Kids(t) : k = Kids(t)[n])
    <3>1. PICK i \in DOMAIN program[t] : \E n \in DOMAIN program[t][i].kids :
            /\ k = program[t][i].kids[n]
            /\ i < pos'[t] \/ (i = pos'[t] /\ n <= pushed'[t])
      BY <2>4
    <3>2. PICK n \in DOMAIN program[t][i].kids :
            /\ k = program[t][i].kids[n]
            /\ i < pos'[t] \/ (i = pos'[t] /\ n <= pushed'[t])
      BY <3>1
    <3>3. n >= 1 /\ n \in Nat
      <4> DEFINE b == program[t]
                 S == [op : Ops, kids : Seq(Tasks)]
      <4>1. b \in Seq(S) /\ i \in DOMAIN b
        BY <1>2 DEF Body
      <4> HIDE DEF b, S
      <4>2. b[i] \in S
        BY <4>1
      <4>3. b[i].kids \in Seq(Tasks)
        BY <4>2 DEF S
      <4> QED BY <3>2, <4>3 DEF b
    <3>4. i < pos[t] \/ i = pos[t]
      BY <1>1, <1>2, <1>3, <3>2, <3>3
    <3> QED BY <1>2, <3>2, <3>4
  <2>5. k \in Reached <=> \E u \in Tasks : At(u)
    BY DEF Reached
  <2>6. k \in Reached' <=> \E u \in Tasks : AtNext(u)
    BY <1>1 DEF Reached
  <2> HIDE DEF At, AtNext
  <2> QED BY <2>1, <2>2, <2>3, <2>4, <2>5, <2>6
<1>6. ASSUME Op(t) \in Joins, NEW n \in DOMAIN Kids(t)
      PROVE  Kids(t)[n] \in Reached
  <2>1. n \in DOMAIN program[t][pos[t]].kids /\ n <= pushed[t] /\ Kids(t)[n] \in Tasks
    BY <1>2, <1>4, <1>6
  <2> QED BY <1>2, <2>1 DEF Reached
<1>7. Reached \subseteq Tasks /\ Reached' \subseteq Tasks /\ \A n \in DOMAIN Kids(t) : Kids(t)[n] \in Tasks
  BY <1>2 DEF Reached
<1>8. ASSUME Op(t) \notin Joins \cup Starts PROVE Reached' = Reached
  <2>1. DOMAIN Kids(t) = {}
    BY <1>4, <1>8
  <2> QED BY <1>5, <1>7, <2>1
<1>9. ASSUME Op(t) \in Joins PROVE Reached' = Reached
  <2>1. \A k \in Tasks : k \in Reached' <=> k \in Reached
    BY <1>5, <1>6, <1>9
  <2> QED BY <1>7, <2>1
<1>10. ASSUME Op(t) \in Starts PROVE Reached' = Reached \cup {Kids(t)[1]}
  <2>1. DOMAIN Kids(t) = {1} /\ Kids(t)[1] \in Tasks
    BY <1>4, <1>7, <1>10
  <2>2. \A k \in Tasks : k \in Reached' <=> k \in Reached \/ k = Kids(t)[1]
    BY <1>5, <2>1
  <2> QED BY <1>7, <2>1, <2>2
<1> QED BY <1>8, <1>9, <1>10

LEMMA AdvanceActive ==
  ASSUME TypeInv, NEW t \in Tasks, Op(t) # "return", Advance(t), spawned' = spawned,
         \A k \in Started(t) : Complete(k)
  PROVE  Active' = Active
BY AdvanceEffect DEF Active

LEMMA ResumeActive ==
  ASSUME TypeInv, NEW t \in Tasks, Op(t) # "return", Op(t) \notin Joins, Advance(t),
         NEW k \in Tasks, ~Complete(k), spawned' = spawned \cup {k}
  PROVE  Active' = Active \cup {k}
<1>1. Started(t) = {}
  BY StartedFacts
<1> QED BY <1>1, AdvanceEffect DEF Active

\* PushKid and End, as far as the tasks are concerned.
LEMMA PushEffect ==
  ASSUME TypeInv, Untouched, NEW t \in Active, Op(t) \in Joins, pushed[t] # Len(Kids(t)),
         pushed' = [pushed EXCEPT ![t] = pushed[t] + 1],
         UNCHANGED <<program, pos, result, spawned>>
  PROVE  LET k == Kids(t)[pushed[t] + 1] IN
         /\ k \in Tasks /\ k # Main /\ k \notin Active /\ pushed[k] = 0 /\ k # t
         /\ pushed[t] + 1 \in 1 .. Len(Kids(t)) /\ pushed' \in [Tasks -> Nat]
         /\ \A u \in Tasks : Op(u)' = Op(u) /\ Kids(u)' = Kids(u) /\ Complete(u)' = Complete(u)
         /\ \A u \in Tasks \ {t} : pushed'[u] = pushed[u] /\ Started(u)' = Started(u)
         /\ pushed'[t] = pushed[t] + 1 /\ Started(t)' = Started(t) \cup {k}
         /\ Reached' = Reached \cup {k}
         /\ Active' = Active \cup {k}
<1> DEFINE n == pushed[t] + 1
           k == Kids(t)[n]
<1>1. t \in Tasks /\ ~Complete(t) /\ Op(t) # "return"
  BY DEF Active, Joins
<1>2. pushed[t] \in Nat /\ Kids(t) \in Seq(Tasks) /\ n \in 1 .. Len(Kids(t)) /\ n \in DOMAIN Kids(t)
  BY <1>1, OpFacts
<1>3. /\ k \in Tasks /\ k # Main /\ k \notin Reached /\ k \notin Active /\ pushed[k] = 0
      /\ ~Complete(k)
  BY <1>1, <1>2, NextKid
<1>4. /\ pushed' \in [Tasks -> Nat] /\ pushed'[t] = n
      /\ \A u \in Tasks \ {t} : pushed'[u] = pushed[u]
  BY <1>1, <1>2 DEF TypeInv
<1>5. \A u \in Tasks : Op(u)' = Op(u) /\ Kids(u)' = Kids(u) /\ Complete(u)' = Complete(u)
  BY DEF Op, Kids, Complete
<1>6. \A u \in Tasks \ {t} : Started(u)' = Started(u)
  BY <1>4, <1>5 DEF Started
<1>7. Started(t)' = Started(t) \cup {k}
  <2> DEFINE ks == Kids(t)
  <2>1. Started(t)' = ToSet(SubSeq(ks, 1, n))
    BY <1>4, <1>5 DEF Started
  <2>2. Started(t) = {ks[i] : i \in 1 .. pushed[t]}
    BY <1>1, StartedFacts
  <2>3. n \in Int /\ 1 \in Int /\ \A i \in 1 .. n : ks[i] \in Tasks
    BY <1>2
  <2>4. 1 .. n = (1 .. pushed[t]) \cup {n}
    BY <1>2
  <2>5. k = ks[n]
    OBVIOUS
  <2>6. n \in Nat /\ n >= 1 /\ n - 1 + 1 = n /\ \A i \in 1 .. n : 1 + i - 1 = i
    BY <1>2
  <2> HIDE DEF ks, n, k
  <2>7. /\ SubSeq(ks, 1, n) \in Seq(Tasks)
        /\ Len(SubSeq(ks, 1, n)) = IF 1 <= n THEN n - 1 + 1 ELSE 0
        /\ \A i \in 1 .. n - 1 + 1 : SubSeq(ks, 1, n)[i] = ks[1 + i - 1]
    BY <2>3, SubSeqProperties
  <2>8. DOMAIN SubSeq(ks, 1, n) = 1 .. n
    BY <2>6, <2>7
  <2>9. \A i \in 1 .. n : SubSeq(ks, 1, n)[i] = ks[i]
    BY <2>6, <2>7
  <2>10. ToSet(SubSeq(ks, 1, n)) = {ks[i] : i \in 1 .. n}
    BY <2>8, <2>9 DEF ToSet
  <2> QED BY <2>1, <2>2, <2>4, <2>5, <2>10
<1>8. Reached' = Reached \cup {k}
  <2>1. pos[t] \in DOMAIN program[t] /\ Kids(t) = program[t][pos[t]].kids
    BY <1>1, OpFacts DEF Kids
  <2> DEFINE At(x, u, i, m) == /\ x = program[u][i].kids[m]
                               /\ i < pos[u] \/ (i = pos[u] /\ m <= pushed[u])
             AtNext(x, u, i, m) == /\ x = program[u][i].kids[m]
                                   /\ i < pos[u] \/ (i = pos[u] /\ m <= pushed'[u])
  <2>2. \A x : x \in Reached <=>
          x \in Tasks /\ \E u \in Tasks : \E i \in DOMAIN program[u] :
                           \E m \in DOMAIN program[u][i].kids : At(x, u, i, m)
    BY DEF Reached
  <2>3. \A x : x \in Reached' <=>
          x \in Tasks /\ \E u \in Tasks : \E i \in DOMAIN program[u] :
                           \E m \in DOMAIN program[u][i].kids : AtNext(x, u, i, m)
    BY DEF Reached
  <2>4. k \in Reached'
    <3>1. AtNext(k, t, pos[t], n)
      BY <1>2, <1>4, <2>1
    <3> HIDE DEF AtNext, n
    <3> QED BY <1>1, <1>2, <1>3, <2>1, <2>3, <3>1
  <2>5. ASSUME NEW x \in Reached PROVE x \in Reached'
    <3>1. ASSUME NEW u \in Tasks, NEW i \in DOMAIN program[u],
                 NEW m \in DOMAIN program[u][i].kids, At(x, u, i, m)
          PROVE  AtNext(x, u, i, m)
      <4>1. CASE u = t /\ i = pos[t]
        <5>1. m \in DOMAIN Kids(t)
          BY <2>1, <4>1
        <5>2. m \in Nat
          BY <1>2, <5>1
        <5> QED BY <1>2, <1>4, <3>1, <4>1, <5>2
      <4>2. CASE u # t
        BY <1>4, <3>1, <4>2
      <4>3. CASE i # pos[u]
        BY <3>1, <4>3
      <4> QED BY <4>1, <4>2, <4>3
    <3> HIDE DEF At, AtNext
    <3> QED BY <2>5, <2>2, <2>3, <3>1
  <2>6. ASSUME NEW x \in Reached', x \notin Reached PROVE x = k
    <3>1. PICK u \in Tasks : \E i \in DOMAIN program[u] : \E m \in DOMAIN program[u][i].kids :
            /\ x = program[u][i].kids[m]
            /\ i < pos[u] \/ (i = pos[u] /\ m <= pushed'[u])
      BY <2>6 DEF Reached
    <3>2. PICK i \in DOMAIN program[u] : \E m \in DOMAIN program[u][i].kids :
            /\ x = program[u][i].kids[m]
            /\ i < pos[u] \/ (i = pos[u] /\ m <= pushed'[u])
      BY <3>1
    <3>3. PICK m \in DOMAIN program[u][i].kids :
            /\ x = program[u][i].kids[m]
            /\ i < pos[u] \/ (i = pos[u] /\ m <= pushed'[u])
      BY <3>2
    <3>4. x \in Tasks
      BY <2>6 DEF Reached
    <3>5. ~(i < pos[u]) /\ ~(m <= pushed[u]) /\ i = pos[u] /\ m <= pushed'[u]
      BY <2>6, <3>3, <3>4 DEF Reached
    <3>6. u = t
      BY <1>4, <3>5
    <3>7. m \in DOMAIN Kids(t) /\ x = Kids(t)[m]
      BY <2>1, <3>3, <3>5, <3>6
    <3>8. m \in Nat
      BY <1>2, <3>7
    <3>9. m = n
      BY <1>2, <1>4, <3>5, <3>6, <3>8
    <3> QED BY <3>7, <3>9
  <2> QED BY <2>4, <2>5, <2>6
<1>9. Active' = Active \cup {k}
  BY <1>1, <1>3, <1>5, <1>6, <1>7 DEF Active
<1>10. k # t
  BY <1>3
<1> QED BY <1>2, <1>3, <1>4, <1>5, <1>6, <1>7, <1>8, <1>9, <1>10

LEMMA EndEffect ==
  ASSUME TypeInv, NEW t \in Active, NEW r \in {"value", "error"},
         result' = [result EXCEPT ![t] = r], UNCHANGED <<program, pos, pushed, spawned>>,
         \A k \in Started(t) : Complete(k)
  PROVE  /\ \A u \in Tasks : Op(u)' = Op(u) /\ Kids(u)' = Kids(u) /\ Started(u)' = Started(u)
         /\ \A u \in Tasks \ {t} : Complete(u)' = Complete(u)
         /\ Complete(t)' /\ Reached' = Reached
         /\ Active' = Active \ {t}
<1>1. \A u \in Tasks : Op(u)' = Op(u) /\ Kids(u)' = Kids(u) /\ Started(u)' = Started(u)
  BY DEF Op, Kids, Started
<1>2. t \in Tasks /\ ~Complete(t)
  BY DEF Active
<1>3. /\ \A u \in Tasks \ {t} : Complete(u)' = Complete(u)
      /\ Complete(t)'
  BY <1>2 DEF Complete, TypeInv, TypeOK, TaskTypeOK
<1>4. Reached' = Reached
  BY DEF Reached
<1>5. Active' = Active \ {t}
  BY <1>1, <1>2, <1>3 DEF Active
<1> QED BY <1>1, <1>3, <1>4, <1>5

-----------------------------------------------------------------------------
(* The types.                                                              *)

\* The program, its positions and the results, ...
Progress ==
  /\ program \in Programs /\ pos \in [Tasks -> Nat] /\ pushed \in [Tasks -> Nat]
  /\ \A u \in Tasks : pos[u] \in 1 .. Len(program[u]) + 1
  /\ \A u \in Tasks : pushed[u] \in 0 .. IF Op(u) \in Joins THEN Len(Kids(u)) ELSE 0
  /\ result \in [Tasks -> Results]

\* ... what is shared, and the thread.
Shared ==
  /\ permits \in Nat
  /\ held \in [Tasks -> {"none", "unique", "shared"}]
  /\ mutex \in {"free", "locked", "jammed"}
  /\ spawned \subseteq Tasks

Thread ==
  /\ queue \in Seq(Entries) /\ Len(queue) < Capacity
  /\ stack \in Seq(Tasks)
  /\ due \subseteq Tasks
  /\ ended \in Endings

LEMMA TypeParts == TypeInv <=> Progress /\ Shared /\ Thread
BY DEF TypeInv, TypeOK, TaskTypeOK, Progress, Shared, Thread

LEMMA TypeInit == Init => TypeInv
<1> SUFFICES ASSUME Init PROVE TypeInv
  OBVIOUS
<1>1. Shared
  BY TaskAssumption DEF Init, TaskInit, Shared
<1>2. Thread
  BY TaskAssumption, CapacityAssumption DEF Init, Thread, Endings
<1>3. Progress
  <2>1. \A u \in Tasks : Len(program[u]) \in Nat
    BY TaskAssumption DEF Init, TaskInit, Body
  <2>2. \A u \in Tasks : pos[u] \in 1 .. Len(program[u]) + 1
    BY <2>1 DEF Init, TaskInit
  <2>3. ASSUME NEW u \in Tasks, Op(u) \in Joins
        PROVE  Len(Kids(u)) \in Nat
    <3> DEFINE b == program[u]
               S == [op : Ops, kids : Seq(Tasks)]
    <3>1. pos[u] = 1 /\ 1 <= Len(b)
      BY <2>3 DEF Init, TaskInit, Op, Joins
    <3>2. b \in Seq(S) /\ 1 \in 1 .. Len(b)
      <4>1. b \in Seq(S)
        BY TaskAssumption DEF Init, TaskInit, Body
      <4> HIDE DEF S
      <4> QED BY <2>1, <3>1, <4>1
    <3>3. Kids(u) = b[1].kids
      BY <3>1 DEF Kids
    <3> HIDE DEF b, S
    <3>4. b[1] \in S
      BY <3>2
    <3>5. b[1].kids \in Seq(Tasks)
      BY <3>4 DEF S
    <3> QED BY <3>3, <3>5
  <2>4. \A u \in Tasks : pushed[u] \in 0 .. IF Op(u) \in Joins THEN Len(Kids(u)) ELSE 0
    BY <2>3 DEF Init, TaskInit
  <2>5. pos \in [Tasks -> Nat] /\ pushed \in [Tasks -> Nat] /\ result \in [Tasks -> Results]
    BY DEF Init, TaskInit, Results
  <2> QED BY <2>2, <2>4, <2>5 DEF Progress, Init, TaskInit
<1> QED BY <1>1, <1>2, <1>3, TypeParts

LEMMA AdvanceProgress ==
  ASSUME TypeInv, NEW t \in Tasks, Op(t) # "return", Advance(t)
  PROVE  Progress'
BY AdvanceType, AdvanceEffect, TypeParts DEF Progress

LEMMA TakeShared ==
  ASSUME TypeInv, NEW t \in Tasks, Take(t), spawned' = spawned
  PROVE  Shared'
<1>1. Mode(Op(t)) \in {"unique", "shared"}
  BY DEF Mode
<1>2. Op(t) \in Semas /\ Poll(t) => permits > 0
  BY DEF Poll, Semas, Locks
<1> QED BY <1>1, <1>2, TypeParts DEF Take, Shared

LEMMA DestroyShared ==
  ASSUME TypeInv, NEW t \in Tasks, DestroyLock(t), spawned' = spawned, permits' = permits
  PROVE  Shared'
<1>1. held[t] \in {"none", "unique", "shared"}
  BY TypeParts DEF Shared
<1>2. mutex' \in {"free", "locked", "jammed"}
  BY <1>1, TypeParts DEF DestroyLock, Shared
<1> QED BY <1>2, TypeParts DEF DestroyLock, Shared

\* The entry or the task that a step adds.
LEMMA PushThread ==
  ASSUME NEW q \in Seq(Entries), NEW e \in Entries, Push(q, e)
  PROVE  queue' \in Seq(Entries) /\ Len(queue') < Capacity
BY CapacityAssumption DEF Push

\* What Step and Expire ask for, by the action.
LEMMA FirstKid ==
  ASSUME TypeInv, NEW t \in Tasks, Op(t) \in Starts
  PROVE  /\ Kids(t)[1] \in Tasks /\ ToSet(Kids(t)) = {Kids(t)[1]}
         /\ 1 \in DOMAIN Kids(t) /\ pushed[t] < 1
<1>1. Kids(t) \in Seq(Tasks) /\ Len(Kids(t)) = 1
  BY OpFacts DEF Starts
<1>2. pushed[t] = 0
  BY OpFacts DEF Starts, Joins
<1> QED BY <1>1, <1>2 DEF ToSet

LEMMA TopFacts ==
  ASSUME LoopInv, NEW t \in Tasks, OnTop(t)
  PROVE  /\ stack \in Seq(Tasks) /\ stack # <<>> /\ Len(stack) \in DOMAIN stack
         /\ stack[Len(stack)] = t /\ Last(stack) = t /\ stack[1] = Main
         /\ ended = "no" /\ t \in Active
         /\ \A i \in DOMAIN queue : queue[i].task # t
<1>1. ended = "no" /\ t = Last(stack) /\ stack # <<>> /\ stack[1] = Main
  BY DEF OnTop, LoopInv, Bottom
<1>2. stack \in Seq(Tasks)
  BY TypeParts DEF LoopInv, Thread
<1>3. Len(stack) \in Nat /\ Len(stack) >= 1 /\ Last(stack) = stack[Len(stack)]
  BY <1>1, <1>2, FrontFacts
<1>4. Len(stack) \in DOMAIN stack
  BY <1>2, <1>3
<1>5. t \in Active /\ \A i \in DOMAIN queue : queue[i].task # t
  BY <1>1, <1>3, <1>4 DEF LoopInv, Located
<1> QED BY <1>1, <1>2, <1>3, <1>4, <1>5

LEMMA HeadFacts ==
  ASSUME LoopInv, queue # <<>>
  PROVE  LET h == Head(queue).task IN
         /\ queue \in Seq(Entries) /\ Head(queue) \in Entries /\ h \in Tasks /\ h \in Active
         /\ Head(queue).poller => Op(h) \in Polls
         /\ pushed[h] = 0
         /\ \A i \in DOMAIN stack : stack[i] # h
         /\ Tail(queue) \in Seq(Entries) /\ Len(Tail(queue)) = Len(queue) - 1
         /\ \A i \in DOMAIN Tail(queue) : /\ i + 1 \in DOMAIN queue /\ Tail(queue)[i] = queue[i + 1]
                                        /\ Tail(queue)[i].task # h
<1>1. queue \in Seq(Entries)
  BY TypeParts DEF LoopInv, Thread
<1>2. /\ Tail(queue) \in Seq(Entries)
      /\ Len(queue) \in Nat /\ Len(queue) >= 1 /\ Len(Tail(queue)) = Len(queue) - 1
      /\ \A i \in 1 .. Len(queue) - 1 : Tail(queue)[i] = queue[i + 1]
      /\ Head(queue) = queue[1] /\ queue[1] \in Entries /\ queue[1].task \in Tasks
      /\ 1 \in DOMAIN queue
  BY <1>1, QueueFacts
<1>3. \A i \in DOMAIN Tail(queue) : /\ i + 1 \in DOMAIN queue /\ i + 1 # 1
                                  /\ Tail(queue)[i] = queue[i + 1]
  BY <1>1, <1>2
<1>4. \A i \in DOMAIN Tail(queue) : Tail(queue)[i].task # queue[1].task
  BY <1>2, <1>3 DEF LoopInv, Located
<1>5. queue[1].task \in Active /\ \A i \in DOMAIN stack : stack[i] # queue[1].task
  BY <1>2 DEF LoopInv, Located
<1>6. (queue[1].poller => Op(queue[1].task) \in Polls) /\ pushed[queue[1].task] = 0
  BY <1>2 DEF LoopInv, Entered
<1> QED BY <1>1, <1>2, <1>3, <1>4, <1>5, <1>6

-----------------------------------------------------------------------------
(* LoopInv is inductive: one lemma for each way a step moves the tasks.    *)

\* A step of the topmost task, or of the loop, that moves it on only.
LEMMA MoveOn ==
  ASSUME LoopInv, TypeInv', NEW t \in Tasks, OnTop(t), Op(t) # "return", Op(t) \notin Starts,
         Op(t) \in Joins => pushed[t] = Len(Kids(t)),
         \A k \in Started(t) : Complete(k),
         Advance(t), UNCHANGED <<spawned, queue, stack, ended>>
  PROVE  LoopInv'
<1> USE DEF LoopInv
<1>1. Active' = Active /\ Reached' = Reached
  BY AdvanceActive, AdvanceReached
<1>2. Untouched'
  BY <1>1, AdvanceEffect DEF Untouched
<1>3. Located(queue, stack, Active)'
  BY <1>1 DEF Located
<1>4. \A i \in DOMAIN queue : queue[i].task \in Tasks \ {t}
  BY TopFacts, EntryTask DEF TypeInv, TypeOK
<1>5. Entered'
  BY <1>4, AdvanceEffect DEF Entered
<1>6. Nested'
  BY AdvanceEffect DEF Nested
<1>7. Bottom'
  BY DEF Bottom
<1> QED BY <1>2, <1>3, <1>5, <1>6, <1>7

LEMMA StepSuspend ==
  ASSUME LoopInv, TypeInv', NEW t \in Tasks, PollSuspend(t)
  PROVE  LoopInv'
<1> USE DEF LoopInv
<1> DEFINE e == [task |-> t, poller |-> TRUE]
<1>1. /\ OnTop(t) /\ Op(t) \in Polls /\ queue' = Append(queue, e) /\ stack' = Front(stack)
      /\ UNCHANGED <<taskVars, ended>>
  BY DEF PollSuspend, Executing, Push
<1>2. t # Main /\ pushed[t] = 0
  BY <1>1, OpFacts DEF Polls, Semas, Locks, Joins
<1>3. Active' = Active /\ Reached' = Reached /\ UNCHANGED <<program, pos, pushed, spawned, result>>
  BY <1>1 DEF taskVars, Active, Started, Op, Kids, Complete, Reached
<1>4. /\ stack \in Seq(Tasks) /\ stack # <<>> /\ Last(stack) = t /\ t \in Active
      /\ queue \in Seq(Entries) /\ e \in Entries
  BY <1>1, TopFacts DEF TypeInv, TypeOK, Entries
<1>5. /\ Len(stack) \in Nat /\ Len(stack) >= 1
      /\ DOMAIN stack' = 1 .. Len(stack) - 1 /\ DOMAIN stack = 1 .. Len(stack)
      /\ \A i \in DOMAIN stack' : stack'[i] = stack[i]
      /\ stack' \in Seq(Tasks) /\ Len(stack') = Len(stack) - 1
  <2>1. /\ Front(stack) \in Seq(Tasks) /\ Len(Front(stack)) = Len(stack) - 1
        /\ \A i \in 1 .. Len(stack) - 1 : Front(stack)[i] = stack[i]
        /\ Len(stack) \in Nat /\ Len(stack) >= 1
    BY <1>4, FrontFacts
  <2> QED BY <1>1, <1>4, <2>1
<1>6. Located(queue, stack, Active)'
  <2>1. Located(queue, Front(stack), Active \ {t})
    BY <1>4, LocatedLeave
  <2>2. Located(Append(queue, e), Front(stack), (Active \ {t}) \cup {e.task})
    BY <1>1, <1>4, <1>5, <2>1, LocatedPush
  <2>3. (Active \ {t}) \cup {e.task} = Active
    BY <1>4
  <2>4. Located(queue', stack', Active')
    BY <1>1, <1>3, <2>2, <2>3
  <2> QED BY <2>4 DEF Located
<1>7. Untouched'
  BY <1>3 DEF Untouched, Complete
<1>8. /\ DOMAIN queue' = 1 .. Len(queue) + 1 /\ DOMAIN queue = 1 .. Len(queue)
      /\ \A i \in DOMAIN queue : queue'[i] = queue[i]
      /\ queue'[Len(queue) + 1] = e /\ Len(queue) \in Nat
  BY <1>1, <1>4
<1>9. Entered'
  <2>1. \A i \in DOMAIN queue' : i \in DOMAIN queue \/ queue'[i] = e
    BY <1>8
  <2> QED BY <1>1, <1>2, <1>3, <1>8, <2>1 DEF Entered, Op
<1>10. Nested'
  <2> SUFFICES ASSUME NEW u \in Tasks, ~Complete(u)', pushed'[u] > 0
               PROVE  \E i \in DOMAIN stack' :
                        /\ stack'[i] = u
                        /\ \A j \in DOMAIN stack' : stack'[j] \in Started(u)' => i < j
    BY DEF Nested
  <2>1. Started(u)' = Started(u) /\ ~Complete(u) /\ pushed[u] > 0 /\ u # t
    BY <1>2, <1>3 DEF Started, Op, Kids, Complete
  <2>2. PICK i \in DOMAIN stack :
          stack[i] = u /\ \A j \in DOMAIN stack : stack[j] \in Started(u) => i < j
    BY <2>1 DEF Nested
  <2>3. i # Len(stack)
    BY <1>1, <2>1, <2>2, TopFacts
  <2>4. i \in DOMAIN stack'
    BY <1>5, <2>3
  <2> QED BY <1>5, <2>1, <2>2, <2>4
<1>11. Bottom'
  <2>1. ended = "no" /\ stack[1] = Main /\ stack[Len(stack)] = t
    BY <1>1, TopFacts
  <2>2. Len(stack) # 1
    BY <1>2, <2>1
  <2>3. Len(stack') >= 1 /\ 1 \in DOMAIN stack'
    BY <1>5, <2>2
  <2> QED BY <1>5, <2>1, <2>3 DEF Bottom
<1> QED BY <1>6, <1>7, <1>9, <1>10, <1>11

\* A task is put on the stack: those below it stay below it.
LEMMA NestedCall ==
  ASSUME LoopInv, NEW k \in Tasks, stack' = Append(stack, k),
         \A u \in Tasks : ~Complete(u)' /\ pushed'[u] > 0 =>
           ~Complete(u) /\ pushed[u] > 0 /\ Started(u)' = Started(u)
  PROVE  Nested' /\ (Bottom => (ended = "no" => stack' # <<>> /\ stack'[1] = Main))
<1>1. /\ stack \in Seq(Tasks) /\ Len(stack) \in Nat
      /\ DOMAIN stack = 1 .. Len(stack) /\ DOMAIN stack' = 1 .. Len(stack) + 1
      /\ \A i \in DOMAIN stack : stack'[i] = stack[i]
  BY DEF LoopInv, TypeInv, TypeOK
<1>2. Nested'
  <2> SUFFICES ASSUME NEW u \in Tasks, ~Complete(u)', pushed'[u] > 0
               PROVE  \E i \in DOMAIN stack' :
                        /\ stack'[i] = u
                        /\ \A j \in DOMAIN stack' : stack'[j] \in Started(u)' => i < j
    BY DEF Nested
  <2>1. PICK i \in DOMAIN stack :
          stack[i] = u /\ \A j \in DOMAIN stack : stack[j] \in Started(u) => i < j
    BY DEF LoopInv, Nested
  <2>2. \A j \in DOMAIN stack' : j \in DOMAIN stack \/ i < j
    BY <1>1
  <2>3. i \in DOMAIN stack' /\ stack'[i] = u
    BY <1>1, <2>1
  <2> QED BY <1>1, <2>1, <2>2, <2>3
<1>3. ASSUME stack # <<>>, stack[1] = Main
      PROVE  stack' # <<>> /\ stack'[1] = Main
  <2>1. 1 \in DOMAIN stack
    BY <1>1, <1>3
  <2> QED BY <1>1, <1>3, <2>1
<1> QED BY <1>2, <1>3 DEF Bottom

\* An entry is pushed for a task that has given no kid to the loop.
LEMMA EnteredPush ==
  ASSUME LoopInv, NEW e \in Entries, queue' = Append(queue, e), NEW t \in Tasks,
         \A i \in DOMAIN queue : queue[i].task \in Tasks \ {t},
         \A u \in Tasks \ {t} : Op(u)' = Op(u) /\ pushed'[u] = pushed[u],
         pushed'[e.task] = 0, ~e.poller
  PROVE  Entered'
<1>1. /\ queue \in Seq(Entries) /\ DOMAIN queue = 1 .. Len(queue) /\ Len(queue) \in Nat
      /\ DOMAIN queue' = 1 .. Len(queue) + 1
      /\ \A i \in DOMAIN queue : queue'[i] = queue[i]
      /\ queue'[Len(queue) + 1] = e
  BY DEF LoopInv, TypeInv, TypeOK
<1>2. \A i \in DOMAIN queue' : i \in DOMAIN queue \/ queue'[i] = e
  BY <1>1
<1>3. ASSUME NEW i \in DOMAIN queue', NEW u \in Tasks, u = queue'[i].task
      PROVE  (queue'[i].poller => Op(u)' \in Polls) /\ pushed'[u] = 0
  <2>1. CASE i \in DOMAIN queue
    <3>1. queue'[i] = queue[i] /\ u \in Tasks \ {t} /\ queue[i].task = u
      BY <1>1, <1>3, <2>1
    <3>2. (queue[i].poller => Op(u) \in Polls) /\ pushed[u] = 0
      BY <2>1, <3>1 DEF LoopInv, Entered
    <3> QED BY <3>1, <3>2
  <2>2. CASE queue'[i] = e
    BY <1>3, <2>2
  <2> QED BY <1>2, <2>1, <2>2
<1>4. \A i \in DOMAIN queue' : queue'[i].task \in Tasks
  BY <1>1, <1>2, EntryTask DEF Entries
<1> QED BY <1>3, <1>4 DEF Entered

LEMMA StepSpawn ==
  ASSUME LoopInv, TypeInv', NEW t \in Tasks, Spawn(t) \/ Resume(t)
  PROVE  LoopInv'
<1> USE DEF LoopInv
<1> DEFINE k == Kids(t)[1]
           e == [task |-> k, poller |-> FALSE]
<1>1. /\ OnTop(t) /\ Op(t) \in Starts /\ Op(t) # "return" /\ Op(t) \notin Joins
      /\ Advance(t) /\ ended' = ended /\ spawned' = spawned \cup ToSet(Kids(t))
  BY DEF Spawn, Resume, Executing, Starts, Joins
<1>2. k \in Tasks /\ ToSet(Kids(t)) = {k} /\ 1 \in DOMAIN Kids(t) /\ pushed[t] < 1
  BY <1>1, FirstKid
<1>3. k # Main /\ k \notin Reached /\ k \notin Active /\ pushed[k] = 0 /\ ~Complete(k)
  BY <1>1, <1>2, NextKid
<1>4. /\ stack \in Seq(Tasks) /\ t \in Active /\ queue \in Seq(Entries) /\ e \in Entries
      /\ k # t
  BY <1>1, <1>2, <1>3, TopFacts DEF TypeInv, TypeOK, Entries
<1>5. Active' = Active \cup {k} /\ Reached' = Reached \cup {k}
  BY <1>1, <1>2, <1>3, ResumeActive, AdvanceReached
<1>6. Untouched'
  BY <1>1, <1>2, <1>5, AdvanceEffect DEF Untouched
<1>7. \A i \in DOMAIN queue : queue[i].task \in Tasks \ {t}
  BY <1>1, <1>4, TopFacts, EntryTask
<1>8. \A u \in Tasks \ {t} : Op(u)' = Op(u) /\ pushed'[u] = pushed[u]
  BY <1>1, AdvanceEffect
<1>9. \A u \in Tasks : ~Complete(u)' /\ pushed'[u] > 0 =>
        ~Complete(u) /\ pushed[u] > 0 /\ Started(u)' = Started(u)
  BY <1>1, AdvanceEffect
<1>10. CASE Spawn(t)
  <2>1. queue' = Append(queue, e) /\ stack' = stack
    BY <1>10 DEF Spawn, Push
  <2>2. Located(Append(queue, e), stack, Active \cup {e.task})
    BY <1>3, <1>4, LocatedPush
  <2>3. Located(queue', stack', Active')
    BY <1>5, <2>1, <2>2
  <2>4. pushed'[k] = 0
    BY <1>1, <1>2, <1>3, <1>4, AdvanceEffect
  <2>5. Entered'
    BY <1>4, <1>7, <1>8, <2>1, <2>4, EnteredPush
  <2>6. Nested' /\ Bottom'
    BY <1>1, <1>9, <2>1 DEF Nested, Bottom
  <2> QED BY <1>6, <2>3, <2>5, <2>6 DEF Located
<1>11. CASE Resume(t)
  <2>1. queue' = queue /\ stack' = Append(stack, k)
    BY <1>11 DEF Resume
  <2>2. Located(queue, Append(stack, k), Active \cup {k})
    BY <1>2, <1>3, <1>4, LocatedCall
  <2>3. Located(queue', stack', Active')
    BY <1>5, <2>1, <2>2
  <2>4. Entered'
    BY <1>7, <1>8, <2>1 DEF Entered
  <2>5. Nested' /\ Bottom'
    BY <1>1, <1>2, <1>9, <2>1, NestedCall DEF Bottom
  <2> QED BY <1>6, <2>3, <2>4, <2>5 DEF Located
<1> QED BY <1>10, <1>11

LEMMA StepPushKid ==
  ASSUME LoopInv, TypeInv', NEW t \in Tasks, PushKid(t)
  PROVE  LoopInv'
<1> USE DEF LoopInv
<1> DEFINE k == Kids(t)[pushed[t] + 1]
           e == [task |-> k, poller |-> FALSE]
<1>1. /\ OnTop(t) /\ Op(t) \in Joins /\ pushed[t] # Len(Kids(t))
      /\ queue' = Append(queue, e) /\ pushed' = [pushed EXCEPT ![t] = pushed[t] + 1]
      /\ UNCHANGED <<program, pos, result, permits, held, spawned, stack, ended>>
  BY DEF PushKid, Executing, Push
<1>2. t \in Active /\ queue \in Seq(Entries) /\ stack \in Seq(Tasks)
  BY <1>1, TopFacts DEF TypeInv, TypeOK
<1>3. /\ k \in Tasks /\ k # Main /\ k \notin Active /\ pushed[k] = 0 /\ k # t
      /\ pushed' \in [Tasks -> Nat]
      /\ \A u \in Tasks : Op(u)' = Op(u) /\ Kids(u)' = Kids(u) /\ Complete(u)' = Complete(u)
      /\ \A u \in Tasks \ {t} : pushed'[u] = pushed[u] /\ Started(u)' = Started(u)
      /\ Started(t)' = Started(t) \cup {k}
      /\ Reached' = Reached \cup {k}
      /\ Active' = Active \cup {k}
  BY <1>1, <1>2, PushEffect
<1>4. e \in Entries
  BY <1>3 DEF Entries
<1>5. Untouched'
  <2>1. t \in Reached \cup {Main}
    BY <1>2, ActiveReached
  <2> QED BY <1>1, <1>3, <2>1 DEF Untouched
<1>6. Located(queue', stack', Active')
  <2>1. Located(Append(queue, e), stack, Active \cup {e.task})
    BY <1>2, <1>3, <1>4, LocatedPush
  <2> QED BY <1>1, <1>3, <2>1
<1>7. Entered'
  <2>1. \A i \in DOMAIN queue : queue[i].task \in Tasks \ {t}
    BY <1>1, <1>2, TopFacts, EntryTask
  <2>2. \A u \in Tasks \ {t} : Op(u)' = Op(u) /\ pushed'[u] = pushed[u]
    BY <1>3
  <2>3. pushed'[e.task] = 0 /\ ~e.poller
    BY <1>3
  <2> QED BY <1>1, <1>4, <2>1, <2>2, <2>3, EnteredPush
<1>8. Nested'
  <2> SUFFICES ASSUME NEW u \in Tasks, ~Complete(u)', pushed'[u] > 0
               PROVE  \E i \in DOMAIN stack :
                        /\ stack[i] = u
                        /\ \A j \in DOMAIN stack : stack[j] \in Started(u)' => i < j
    BY <1>1 DEF Nested
  <2>1. CASE u # t
    BY <1>3, <2>1 DEF Nested
  <2>2. CASE u = t
    <3>1. \A j \in DOMAIN stack : stack[j] \in Active /\ stack[j] # k
      BY <1>2, <1>3 DEF Located
    <3>2. CASE pushed[t] > 0
      <4>1. PICK i \in DOMAIN stack :
              stack[i] = t /\ \A j \in DOMAIN stack : stack[j] \in Started(t) => i < j
        BY <1>2, <1>3, <2>2, <3>2 DEF Nested
      <4> QED BY <1>3, <2>2, <3>1, <4>1
    <3>3. CASE pushed[t] = 0
      <4>1. Started(t) = {}
        BY <1>1, <3>3, StartedFacts
      <4>2. Len(stack) \in DOMAIN stack /\ stack[Len(stack)] = t
        BY <1>1, TopFacts
      <4> QED BY <1>3, <2>2, <3>1, <4>1, <4>2
    <3>4. pushed[t] \in Nat
      BY DEF TypeInv
    <3> QED BY <3>2, <3>3, <3>4
  <2> QED BY <2>1, <2>2
<1>9. Bottom'
  BY <1>1 DEF Bottom
<1> QED BY <1>5, <1>6, <1>7, <1>8, <1>9 DEF Located

\* When the loop of the topmost task ends, all the kids it ran for are
\* complete: one that is not would be in the ring, for it can not be on the
\* stack, where the kids of a task are above it.
LEMMA LoopOverComplete ==
  ASSUME LoopInv, NEW t \in Tasks, LoopOver(t)
  PROVE  /\ Started(t) = ToSet(Kids(t))
         /\ \A k \in ToSet(Kids(t)) : k \in Tasks /\ Complete(k)
<1> USE DEF LoopInv
<1>1. /\ OnTop(t) /\ Op(t) \in Joins /\ pushed[t] = Len(Kids(t)) /\ Op(t) # "return"
      /\ queue = <<>> \/ (Op(t) = "await" /\ Complete(Kids(t)[1]))
  BY DEF LoopOver, InLoop, Joins
<1>2. Kids(t) \in Seq(Tasks) /\ Kids(t) # <<>> /\ (Op(t) = "await" => Len(Kids(t)) = 1)
  BY <1>1, OpFacts
<1>3. Started(t) = ToSet(Kids(t)) /\ ToSet(Kids(t)) \subseteq Tasks
  BY <1>1, <1>2, StartedFacts DEF ToSet
<1>4. ASSUME NEW k \in ToSet(Kids(t)), ~Complete(k) PROVE FALSE
  <2>1. t \in Active /\ ~Complete(t) /\ k \in Tasks
    BY <1>1, <1>3, <1>4, TopFacts DEF Active
  <2>2. k \in Active
    BY <1>3, <1>4, <2>1 DEF Active
  <2>3. pushed[t] > 0
    BY <1>1, <1>2
  <2>4. PICK i \in DOMAIN stack :
          stack[i] = t /\ \A j \in DOMAIN stack : stack[j] \in Started(t) => i < j
    BY <2>1, <2>3 DEF Nested
  <2>5. /\ stack \in Seq(Tasks) /\ Len(stack) \in DOMAIN stack /\ stack[Len(stack)] = t
    BY <1>1, TopFacts
  <2>6. i = Len(stack)
    BY <2>4, <2>5 DEF Located
  <2>7. \A j \in DOMAIN stack : stack[j] # k
    BY <1>3, <1>4, <2>4, <2>5, <2>6
  <2>8. \E j \in DOMAIN queue : queue[j].task = k
    BY <2>1, <2>2, <2>7 DEF Located
  <2>9. queue # <<>>
    BY <2>8
  <2>10. Complete(Kids(t)[1]) /\ Len(Kids(t)) = 1
    BY <1>1, <1>2, <2>9
  <2>11. k = Kids(t)[1]
    BY <1>2, <1>4, <2>10 DEF ToSet
  <2> QED BY <1>4, <2>10, <2>11
<1> QED BY <1>3, <1>4

LEMMA StepEnd ==
  ASSUME LoopInv, TypeInv', NEW t \in Tasks, OnTop(t), NEW r \in {"value", "error"}, End(t, r),
         \A k \in Started(t) : Complete(k)
  PROVE  LoopInv'
<1> USE DEF LoopInv
<1>1. /\ stack \in Seq(Tasks) /\ stack # <<>> /\ Last(stack) = t /\ stack[Len(stack)] = t
      /\ stack[1] = Main /\ t \in Active /\ ended = "no" /\ queue \in Seq(Entries)
  BY TopFacts DEF TypeInv, TypeOK
<1>2. /\ queue' = queue /\ stack' = Front(stack) /\ ended' = IF t = Main THEN "returned" ELSE ended
      /\ result' = [result EXCEPT ![t] = r] /\ UNCHANGED <<program, pos, pushed, spawned>>
  BY DEF End
<1>3. /\ \A u \in Tasks : Op(u)' = Op(u) /\ Kids(u)' = Kids(u) /\ Started(u)' = Started(u)
      /\ \A u \in Tasks \ {t} : Complete(u)' = Complete(u)
      /\ Complete(t)' /\ Reached' = Reached
      /\ Active' = Active \ {t}
  BY <1>1, <1>2, EndEffect
<1>4. /\ Len(stack) \in Nat /\ Len(stack) >= 1
      /\ DOMAIN stack' = 1 .. Len(stack) - 1 /\ DOMAIN stack = 1 .. Len(stack)
      /\ \A i \in DOMAIN stack' : stack'[i] = stack[i]
      /\ stack' \in Seq(Tasks) /\ Len(stack') = Len(stack) - 1
  <2>1. /\ Front(stack) \in Seq(Tasks) /\ Len(Front(stack)) = Len(stack) - 1
        /\ \A i \in 1 .. Len(stack) - 1 : Front(stack)[i] = stack[i]
        /\ Len(stack) \in Nat /\ Len(stack) >= 1
    BY <1>1, FrontFacts
  <2>2. stack' \in Seq(Tasks) /\ Len(stack') = Len(stack) - 1
    BY <1>2, <2>1
  <2>3. DOMAIN stack' = 1 .. Len(stack) - 1 /\ DOMAIN stack = 1 .. Len(stack)
    BY <1>1, <2>2
  <2> QED BY <1>2, <2>1, <2>2, <2>3
<1>5. Located(queue', stack', Active')
  BY <1>1, <1>2, <1>3, LocatedLeave
<1>6. Untouched'
  <2>1. t \in Reached \cup {Main}
    BY <1>1, ActiveReached
  <2> QED BY <1>2, <1>3, <2>1 DEF Untouched
<1>7. Entered'
  <2>1. \A i \in DOMAIN queue : queue[i].task \in Tasks
    BY <1>1, EntryTask
  <2> QED BY <1>2, <1>3, <2>1 DEF Entered
<1>8. Nested'
  <2> SUFFICES ASSUME NEW u \in Tasks, ~Complete(u)', pushed'[u] > 0
               PROVE  \E i \in DOMAIN stack' :
                        /\ stack'[i] = u
                        /\ \A j \in DOMAIN stack' : stack'[j] \in Started(u)' => i < j
    BY DEF Nested
  <2>1. Started(u)' = Started(u) /\ ~Complete(u) /\ pushed[u] > 0 /\ u # t
    BY <1>2, <1>3
  <2>2. PICK i \in DOMAIN stack :
          stack[i] = u /\ \A j \in DOMAIN stack : stack[j] \in Started(u) => i < j
    BY <2>1 DEF Nested
  <2>3. i # Len(stack)
    BY <1>1, <2>1, <2>2
  <2>4. i \in DOMAIN stack'
    BY <1>4, <2>3
  <2> QED BY <1>4, <2>1, <2>2, <2>4
<1>9. Bottom'
  <2> SUFFICES ASSUME t # Main PROVE stack' # <<>> /\ stack'[1] = Main
    BY <1>1, <1>2 DEF Bottom
  <2>1. Len(stack) # 1
    BY <1>1
  <2>2. Len(stack') >= 1 /\ 1 \in DOMAIN stack'
    BY <1>4, <2>1
  <2> QED BY <1>1, <1>4, <2>2
<1> QED BY <1>5, <1>6, <1>7, <1>8, <1>9 DEF Located

\* run_one() and the three things that come of it.
LEMMA StepStart ==
  ASSUME LoopInv, TypeInv', NEW t \in Tasks, StartTask(t)
  PROVE  LoopInv'
<1> USE DEF LoopInv
<1> DEFINE h == Head(queue).task
<1>1. /\ queue # <<>> /\ queue' = Tail(queue) /\ stack' = Append(stack, h)
      /\ UNCHANGED <<taskVars, ended>>
  BY DEF StartTask, RunOne
<1>2. /\ queue \in Seq(Entries) /\ h \in Tasks /\ h \in Active
      /\ Tail(queue) \in Seq(Entries)
      /\ \A i \in DOMAIN Tail(queue) : i + 1 \in DOMAIN queue /\ Tail(queue)[i] = queue[i + 1]
  BY <1>1, HeadFacts
<1>3. stack \in Seq(Tasks)
  BY DEF TypeInv, TypeOK
<1>4. /\ Active' = Active /\ Reached' = Reached
      /\ UNCHANGED <<program, pos, pushed, spawned, result>>
      /\ \A u \in Tasks : Op(u)' = Op(u) /\ Started(u)' = Started(u) /\ Complete(u)' = Complete(u)
  BY <1>1 DEF taskVars, Active, Started, Op, Kids, Complete, Reached
<1>5. Located(queue', stack', Active')
  <2>1. Located(Tail(queue), stack, Active \ {h})
    BY <1>1, <1>2, <1>3, LocatedPop
  <2>2. Located(Tail(queue), Append(stack, h), (Active \ {h}) \cup {h})
    BY <1>2, <1>3, <2>1, LocatedCall
  <2>3. (Active \ {h}) \cup {h} = Active
    BY <1>2
  <2> QED BY <1>1, <1>4, <2>2, <2>3
<1>6. Untouched'
  BY <1>4 DEF Untouched
<1>7. Entered'
  <2>1. \A i \in DOMAIN queue : queue[i].task \in Tasks
    BY <1>2, EntryTask
  <2> QED BY <1>1, <1>2, <1>4, <2>1 DEF Entered
<1>8. Nested' /\ Bottom'
  BY <1>1, <1>2, <1>4, NestedCall DEF Bottom
<1> QED BY <1>5, <1>6, <1>7, <1>8 DEF Located

LEMMA StepResume ==
  ASSUME LoopInv, TypeInv', NEW t \in Tasks, ResumeTask(t)
  PROVE  LoopInv'
<1> USE DEF LoopInv
<1> DEFINE h == Head(queue).task
<1>1. /\ queue # <<>> /\ Head(queue).poller /\ queue' = Tail(queue) /\ stack' = Append(stack, h)
      /\ Advance(h) /\ UNCHANGED <<spawned, ended>>
  BY DEF ResumeTask, RunOne, PassReady
<1>2. /\ queue \in Seq(Entries) /\ h \in Tasks /\ h \in Active /\ Op(h) \in Polls
      /\ Tail(queue) \in Seq(Entries)
      /\ \A i \in DOMAIN Tail(queue) : /\ i + 1 \in DOMAIN queue /\ Tail(queue)[i] = queue[i + 1]
                                     /\ Tail(queue)[i].task # h
  BY <1>1, HeadFacts
<1>3. stack \in Seq(Tasks)
  BY DEF TypeInv, TypeOK
<1>4. Op(h) # "return" /\ Op(h) \notin Joins /\ Op(h) \notin Starts /\ Started(h) = {}
  BY <1>2, StartedFacts DEF Polls, Semas, Locks, Joins, Starts
<1>5. Active' = Active /\ Reached' = Reached
  BY <1>1, <1>2, <1>4, AdvanceActive, AdvanceReached
<1>6. Located(queue', stack', Active')
  <2>1. Located(Tail(queue), stack, Active \ {h})
    BY <1>1, <1>2, <1>3, LocatedPop
  <2>2. Located(Tail(queue), Append(stack, h), (Active \ {h}) \cup {h})
    BY <1>2, <1>3, <2>1, LocatedCall
  <2>3. (Active \ {h}) \cup {h} = Active
    BY <1>2
  <2> QED BY <1>1, <1>5, <2>2, <2>3
<1>7. /\ \A u \in Tasks \ {h} : /\ Op(u)' = Op(u) /\ pushed'[u] = pushed[u]
                              /\ Started(u)' = Started(u)
      /\ pushed'[h] = 0 /\ \A u \in Tasks : Complete(u)' = Complete(u)
  BY <1>1, <1>2, <1>4, AdvanceEffect
<1>8. Untouched'
  <2>1. spawned' \subseteq Reached'
    BY <1>1, <1>5 DEF Untouched
  <2>2. \A k \in Tasks \ (Reached' \cup {Main}) : pushed'[k] = 0 /\ ~Complete(k)'
    BY <1>5, <1>7 DEF Untouched
  <2> QED BY <2>1, <2>2 DEF Untouched
<1>9. Entered'
  <2>1. \A i \in DOMAIN Tail(queue) : Tail(queue)[i].task \in Tasks \ {h}
    BY <1>2, EntryTask
  <2>2. \A i \in DOMAIN Tail(queue) :
          /\ Tail(queue)[i].poller => Op(Tail(queue)[i].task) \in Polls
          /\ pushed[Tail(queue)[i].task] = 0
    BY <1>2 DEF Entered
  <2>3. ASSUME NEW i \in DOMAIN queue', NEW u \in Tasks, u = queue'[i].task
        PROVE  (queue'[i].poller => Op(u)' \in Polls) /\ pushed'[u] = 0
    BY <1>1, <1>7, <2>1, <2>2, <2>3
  <2>4. \A i \in DOMAIN queue' : queue'[i].task \in Tasks
    BY <1>1, <2>1
  <2> QED BY <2>3, <2>4 DEF Entered
<1>10. Nested' /\ Bottom'
  <2>1. \A u \in Tasks : ~Complete(u)' /\ pushed'[u] > 0 =>
          ~Complete(u) /\ pushed[u] > 0 /\ Started(u)' = Started(u)
    BY <1>7
  <2> QED BY <1>1, <1>2, <2>1, NestedCall DEF Bottom
<1> QED BY <1>6, <1>8, <1>9, <1>10 DEF Located

LEMMA StepPollAgain ==
  ASSUME LoopInv, TypeInv', NEW t \in Tasks, PollAgain(t)
  PROVE  LoopInv'
<1> USE DEF LoopInv
<1> DEFINE e == Head(queue)
           h == Head(queue).task
<1>1. /\ queue # <<>> /\ e.poller /\ queue' = Append(Tail(queue), e) /\ stack' = stack
      /\ UNCHANGED <<taskVars, ended>>
  BY DEF PollAgain, RunOne, Push
<1>2. /\ queue \in Seq(Entries) /\ e \in Entries /\ h \in Tasks /\ h \in Active
      /\ Op(h) \in Polls /\ pushed[h] = 0
      /\ Tail(queue) \in Seq(Entries)
      /\ \A i \in DOMAIN Tail(queue) : i + 1 \in DOMAIN queue /\ Tail(queue)[i] = queue[i + 1]
  BY <1>1, HeadFacts
<1>3. stack \in Seq(Tasks)
  BY DEF TypeInv, TypeOK
<1>4. /\ Active' = Active /\ Reached' = Reached
      /\ UNCHANGED <<program, pos, pushed, spawned, result>>
      /\ \A u \in Tasks : Op(u)' = Op(u) /\ Started(u)' = Started(u) /\ Complete(u)' = Complete(u)
  BY <1>1 DEF taskVars, Active, Started, Op, Kids, Complete, Reached
<1>5. Located(queue', stack', Active')
  <2>1. Located(Tail(queue), stack, Active \ {h})
    BY <1>1, <1>2, <1>3, LocatedPop
  <2>2. Located(Append(Tail(queue), e), stack, (Active \ {h}) \cup {e.task})
    BY <1>2, <1>3, <2>1, LocatedPush
  <2>3. (Active \ {h}) \cup {e.task} = Active
    BY <1>2
  <2> QED BY <1>1, <1>4, <2>2, <2>3
<1>6. Untouched'
  BY <1>4 DEF Untouched
<1>7. Entered'
  <2>1. \A i \in DOMAIN Tail(queue) :
          /\ Tail(queue)[i].task \in Tasks
          /\ Tail(queue)[i].poller => Op(Tail(queue)[i].task) \in Polls
          /\ pushed[Tail(queue)[i].task] = 0
    BY <1>2, EntryTask DEF Entered
  <2>2. \A i \in DOMAIN queue' : (i \in DOMAIN Tail(queue) /\ queue'[i] = Tail(queue)[i]) \/ queue'[i] = e
    BY <1>1, <1>2
  <2>3. ASSUME NEW i \in DOMAIN queue', NEW u \in Tasks, u = queue'[i].task
        PROVE  (queue'[i].poller => Op(u)' \in Polls) /\ pushed'[u] = 0
    BY <1>2, <1>4, <2>1, <2>2, <2>3
  <2>4. \A i \in DOMAIN queue' : queue'[i].task \in Tasks
    BY <1>2, <2>1, <2>2
  <2> QED BY <2>3, <2>4 DEF Entered
<1>8. Nested'
  BY <1>1, <1>4 DEF Nested
<1>9. Bottom'
  BY <1>1 DEF Bottom
<1> QED BY <1>5, <1>6, <1>7, <1>8, <1>9 DEF Located

\* Steps that move no task: the clock, the end by a fault, a stutter.
LEMMA StepStay ==
  ASSUME LoopInv, TypeInv', UNCHANGED <<taskVars, queue, stack>>, ended' = "no" => ended = "no"
  PROVE  LoopInv'
<1> USE DEF LoopInv
<1>1. /\ Active' = Active /\ Reached' = Reached
      /\ UNCHANGED <<program, pos, pushed, spawned, result>>
      /\ \A u \in Tasks : Op(u)' = Op(u) /\ Started(u)' = Started(u) /\ Complete(u)' = Complete(u)
  BY DEF taskVars, Active, Started, Op, Kids, Complete, Reached
<1>2. Untouched' /\ Nested' /\ Bottom'
  BY <1>1 DEF Untouched, Nested, Bottom
<1>3. Located(queue, stack, Active)'
  BY <1>1 DEF Located
<1>4. Entered'
  <2>1. \A i \in DOMAIN queue : queue[i].task \in Tasks
    BY EntryTask DEF TypeInv, TypeOK
  <2> QED BY <1>1, <2>1 DEF Entered
<1> QED BY <1>2, <1>3, <1>4

-----------------------------------------------------------------------------
LEMMA TypeStep ==
  ASSUME LoopInv, [Next]_vars
  PROVE  TypeInv'
<1> USE DEF LoopInv
<1>1. Progress /\ Shared /\ Thread
  BY TypeParts
<1>2. Active \subseteq Tasks
  BY DEF Active
<1>3. SUFFICES Progress' /\ Shared' /\ Thread'
  BY TypeParts DEF TypeInv, TypeOK, TaskTypeOK, Progress, Shared, Thread
<1>4. ASSUME NEW t \in Tasks, PassReady(t)
      PROVE  Op(t) # "return" /\ Progress' /\ Shared' /\ due' \subseteq Tasks
  <2>1. Op(t) \in Polls /\ Op(t) # "return"
    BY <1>4 DEF PassReady, Ready, Poll, Polls, Semas, Locks
  <2> QED BY <1>1, <1>4, <2>1, AdvanceProgress, TakeShared DEF PassReady, Thread
<1>5. ASSUME NEW t \in Tasks, PollAtOnce(t)
      PROVE  Progress' /\ Shared' /\ Thread'
  BY <1>1, <1>4, <1>5 DEF PollAtOnce, Thread
<1>6. ASSUME UNCHANGED taskVars, UNCHANGED mutex
      PROVE  Progress' /\ Shared'
  BY <1>1, <1>6 DEF taskVars, Progress, Shared, Op, Kids
<1>7. ASSUME NEW t \in Tasks, OnTop(t)
      PROVE  Front(stack) \in Seq(Tasks)
  BY <1>7, TopFacts, FrontFacts
<1>8. ASSUME NEW t \in Tasks, PollSuspend(t)
      PROVE  Progress' /\ Shared' /\ Thread'
  <2>1. [task |-> t, poller |-> TRUE] \in Entries
    BY DEF Entries
  <2>2. queue' \in Seq(Entries) /\ Len(queue') < Capacity
    BY <1>1, <1>8, <2>1, PushThread DEF PollSuspend, Thread
  <2> QED BY <1>1, <1>6, <1>7, <1>8, <2>2 DEF PollSuspend, Executing, Thread
<1>9. ASSUME NEW t \in Tasks, Release(t)
      PROVE  Progress' /\ Shared' /\ Thread'
  <2>1. Progress'
    BY <1>9, AdvanceProgress DEF Release
  <2>2. Shared'
    BY <1>1, <1>9 DEF Release, Shared
  <2> QED BY <1>1, <1>9, <2>1, <2>2 DEF Release, Thread
<1>10. ASSUME NEW t \in Tasks, Unlock(t)
       PROVE  Progress' /\ Shared' /\ Thread'
  <2>1. Progress'
    BY <1>10, AdvanceProgress DEF Unlock
  <2>2. Shared'
    BY <1>10, DestroyShared DEF Unlock
  <2> QED BY <1>1, <1>10, <2>1, <2>2 DEF Unlock, Thread
<1>11. ASSUME NEW t \in Tasks, Spawn(t) \/ Resume(t)
       PROVE  Progress' /\ Shared' /\ Thread'
  <2>1. Op(t) \in Starts /\ Op(t) # "return" /\ Advance(t)
    BY <1>11 DEF Spawn, Resume, Starts
  <2>2. Progress' /\ Kids(t)[1] \in Tasks /\ ToSet(Kids(t)) = {Kids(t)[1]}
    BY <2>1, FirstKid, AdvanceProgress
  <2>3. Shared'
    BY <1>1, <1>11, <2>2 DEF Spawn, Resume, Shared
  <2>4. [task |-> Kids(t)[1], poller |-> FALSE] \in Entries
    BY <2>2 DEF Entries
  <2>5. queue' \in Seq(Entries) /\ Len(queue') < Capacity
    BY <1>1, <1>11, <2>4, PushThread DEF Spawn, Resume, Thread
  <2> QED BY <1>1, <1>11, <2>2, <2>3, <2>5 DEF Spawn, Resume, Thread
<1>12. ASSUME NEW t \in Active, PushKid(t)
       PROVE  Progress' /\ Shared' /\ Thread'
  <2> DEFINE k == Kids(t)[pushed[t] + 1]
  <2>1. /\ Op(t) \in Joins /\ pushed[t] # Len(Kids(t))
        /\ pushed' = [pushed EXCEPT ![t] = pushed[t] + 1]
        /\ UNCHANGED <<program, pos, result, permits, held, spawned, stack, due, mutex, ended>>
    BY <1>12 DEF PushKid, Executing
  <2>2. /\ k \in Tasks /\ pushed[t] + 1 \in 1 .. Len(Kids(t)) /\ pushed' \in [Tasks -> Nat]
        /\ \A u \in Tasks : Op(u)' = Op(u) /\ Kids(u)' = Kids(u)
        /\ \A u \in Tasks \ {t} : pushed'[u] = pushed[u]
        /\ pushed'[t] = pushed[t] + 1
    BY <2>1, PushEffect
  <2>3. Progress'
    <3>1. pushed'[t] \in 0 .. Len(Kids(t))
      BY <2>2
    <3>2. \A u \in Tasks : pushed'[u] \in 0 .. IF Op(u)' \in Joins THEN Len(Kids(u)') ELSE 0
      BY <1>1, <2>1, <2>2, <3>1 DEF Progress
    <3> QED BY <1>1, <2>1, <2>2, <3>2 DEF Progress
  <2>4. Shared'
    BY <1>1, <2>1 DEF Shared
  <2>5. [task |-> k, poller |-> FALSE] \in Entries
    BY <2>2 DEF Entries
  <2>6. queue' \in Seq(Entries) /\ Len(queue') < Capacity
    BY <1>1, <1>12, <2>5, PushThread DEF PushKid, Thread
  <2> QED BY <1>1, <2>1, <2>3, <2>4, <2>6 DEF Thread
<1>13. ASSUME NEW t \in Tasks, OnTop(t), NEW r \in {"value", "error"}, End(t, r)
       PROVE  Progress' /\ Shared' /\ Thread'
  <2>1. Progress'
    BY <1>1, <1>13 DEF End, Progress, Results, Op, Kids
  <2>2. Shared'
    BY <1>13, DestroyShared DEF End
  <2>3. ended' \in Endings
    BY <1>1, <1>13 DEF End, Thread, Endings
  <2> QED BY <1>1, <1>7, <1>13, <2>1, <2>2, <2>3 DEF End, Thread
<1>14. ASSUME NEW t \in Tasks, StartTask(t) \/ ResumeTask(t) \/ PollAgain(t)
       PROVE  Progress' /\ Shared' /\ Thread'
  <2> DEFINE h == Head(queue).task
  <2>1. /\ queue # <<>> /\ h \in Tasks /\ Head(queue) \in Entries
        /\ Tail(queue) \in Seq(Entries) /\ Len(Tail(queue)) = Len(queue) - 1
    BY <1>14, HeadFacts DEF StartTask, ResumeTask, PollAgain, RunOne
  <2>2. Len(Tail(queue)) < Capacity
    BY <1>1, <2>1, CapacityAssumption DEF Thread
  <2>3. Append(stack, h) \in Seq(Tasks)
    BY <1>1, <2>1 DEF Thread
  <2>4. CASE StartTask(t)
    BY <1>1, <1>6, <2>1, <2>2, <2>3, <2>4 DEF StartTask, Thread
  <2>5. CASE ResumeTask(t)
    BY <1>1, <1>4, <2>1, <2>2, <2>3, <2>5 DEF ResumeTask, Thread
  <2>6. CASE PollAgain(t)
    <3>1. queue' \in Seq(Entries) /\ Len(queue') < Capacity
      BY <2>1, <2>6, PushThread DEF PollAgain
    <3> QED BY <1>1, <1>6, <2>6, <3>1 DEF PollAgain, Thread
  <2> QED BY <1>14, <2>4, <2>5, <2>6
<1>15. ASSUME NEW t \in Tasks, TakeResults(t)
       PROVE  Progress' /\ Shared' /\ Thread'
  <2>1. Op(t) # "return"
    BY <1>15 DEF TakeResults, LoopOver, InLoop, Joins
  <2>2. Progress'
    BY <1>15, <2>1, AdvanceProgress DEF TakeResults
  <2> QED BY <1>1, <1>15, <2>2 DEF TakeResults, Shared, Thread
<1>16. ASSUME NEW t \in Tasks, Abort(t)
       PROVE  Progress' /\ Shared' /\ Thread'
  <2>1. Fault(t) \in Endings
    BY DEF Fault, Endings
  <2> QED BY <1>1, <1>6, <1>16, <2>1 DEF Abort, Thread
<1>17. ASSUME NEW t \in Tasks, Expire(t)
       PROVE  Progress' /\ Shared' /\ Thread'
  BY <1>1, <1>6, <1>17 DEF Expire, Thread
<1>18. CASE UNCHANGED vars
  BY <1>1, <1>18 DEF vars, Progress, Shared, Thread, Op, Kids
<1> QED
  BY <1>2, <1>5, <1>8, <1>9, <1>10, <1>11, <1>12, <1>13, <1>14, <1>15, <1>16, <1>17, <1>18
  DEF Next, Step, Stop, Return, Throw, Rethrow, Executing, LoopOver, InLoop

LEMMA LoopInit == Init => LoopInv
<1> SUFFICES ASSUME Init PROVE LoopInv
  OBVIOUS
<1>1. TypeInv
  BY TypeInit
<1>2. /\ program \in Programs /\ result = [t \in Tasks |-> "none"] /\ spawned = {}
      /\ \A t \in Tasks : pos[t] = 1 /\ pushed[t] = 0
      /\ queue = <<>> /\ stack = <<Main>> /\ ended = "no" /\ Main \in Tasks
  BY TaskAssumption DEF Init, TaskInit
<1>3. \A t \in Tasks : ~Complete(t) /\ Started(t) = {}
  <2>1. \A t \in Tasks : Started(t) = {}
    BY <1>1, <1>2, StartedFacts
  <2> QED BY <1>2, <2>1 DEF Complete
<1>4. Active = {Main}
  BY <1>2, <1>3 DEF Active
<1>5. Located(queue, stack, Active)
  <2>1. DOMAIN queue = {} /\ DOMAIN stack = {1} /\ stack[1] = Main
    BY <1>2
  <2> QED BY <1>2, <1>4, <2>1 DEF Located
<1>6. Untouched /\ Entered /\ Nested /\ Bottom
  BY <1>2, <1>3 DEF Untouched, Entered, Nested, Bottom
<1> QED BY <1>1, <1>5, <1>6 DEF LoopInv

LEMMA LoopStep == LoopInv /\ [Next]_vars => LoopInv'
<1> SUFFICES ASSUME LoopInv, [Next]_vars PROVE LoopInv'
  OBVIOUS
<1>1. TypeInv'
  BY TypeStep
<1>2. Active \subseteq Tasks /\ TypeInv
  BY DEF Active, LoopInv
<1>3. ASSUME NEW t \in Active, PollAtOnce(t) \/ Release(t) \/ Unlock(t)
      PROVE  LoopInv'
  <2>1. /\ OnTop(t) /\ Op(t) # "return" /\ Op(t) \notin Starts /\ Op(t) \notin Joins
        /\ Advance(t) /\ UNCHANGED <<spawned, queue, stack, ended>>
    BY <1>3 DEF PollAtOnce, PassReady, Ready, Poll, Release, Unlock, Executing, Semas, Locks,
                Starts, Joins
  <2>2. Started(t) = {}
    BY <1>2, <2>1, StartedFacts
  <2> QED BY <1>1, <1>2, <2>1, <2>2, MoveOn
<1>4. ASSUME NEW t \in Active, TakeResults(t)
      PROVE  LoopInv'
  <2>1. /\ OnTop(t) /\ Op(t) # "return" /\ Op(t) \notin Starts /\ pushed[t] = Len(Kids(t))
        /\ Advance(t) /\ UNCHANGED <<spawned, queue, stack, ended>> /\ LoopOver(t)
    BY <1>4 DEF TakeResults, LoopOver, InLoop, Starts, Joins
  <2>2. \A k \in Started(t) : Complete(k)
    BY <1>2, <2>1, LoopOverComplete
  <2> QED BY <1>1, <1>2, <2>1, <2>2, MoveOn
<1>5. ASSUME NEW t \in Active, Return(t) \/ Throw(t)
      PROVE  LoopInv'
  <2>1. OnTop(t) /\ Op(t) \notin Joins /\ \E r \in {"value", "error"} : End(t, r)
    BY <1>5 DEF Return, Throw, Executing, Joins
  <2>2. Started(t) = {}
    BY <1>2, <2>1, StartedFacts
  <2> QED BY <1>1, <1>2, <2>1, <2>2, StepEnd
<1>6. ASSUME NEW t \in Active, Rethrow(t)
      PROVE  LoopInv'
  <2>1. OnTop(t) /\ LoopOver(t) /\ End(t, "error")
    BY <1>6 DEF Rethrow, LoopOver, InLoop
  <2>2. \A k \in Started(t) : Complete(k)
    BY <1>2, <2>1, LoopOverComplete
  <2> QED BY <1>1, <1>2, <2>1, <2>2, StepEnd
<1>7. ASSUME NEW t \in Active, Abort(t)
      PROVE  LoopInv'
  <2>1. ended' # "no" /\ UNCHANGED <<taskVars, queue, stack>>
    BY <1>7 DEF Abort
  <2> QED BY <1>1, <2>1, StepStay
<1>8. ASSUME NEW t \in Tasks, Expire(t)
      PROVE  LoopInv'
  BY <1>1, <1>8, StepStay DEF Expire
<1>9. CASE UNCHANGED vars
  <2>1. UNCHANGED <<taskVars, queue, stack>> /\ ended' = ended
    BY <1>9 DEF vars, taskVars
  <2> QED BY <1>1, <2>1, StepStay
<1>10. ASSUME NEW t \in Active, StartTask(t) \/ ResumeTask(t) \/ PollAgain(t)
       PROVE  LoopInv'
  BY <1>1, <1>2, <1>10, StepStart, StepResume, StepPollAgain
<1>11. ASSUME NEW t \in Active, PollSuspend(t) \/ Spawn(t) \/ Resume(t) \/ PushKid(t)
       PROVE  LoopInv'
  BY <1>1, <1>2, <1>11, StepSuspend, StepSpawn, StepPushKid
<1> QED
  BY <1>3, <1>4, <1>5, <1>6, <1>7, <1>8, <1>9, <1>10, <1>11 DEF Next, Step, Stop

LEMMA LoopInvariant == Spec => []LoopInv
<1> QED BY LoopInit, LoopStep, PTL DEF Spec

-----------------------------------------------------------------------------
\* The types of all variables, in particular: the ring is never overfull.
THEOREM TypeCorrect == Spec => []TypeOK
<1>1. LoopInv => TypeOK
  BY DEF LoopInv, TypeInv
<1> QED BY <1>1, LoopInvariant, PTL

\* A task started and not complete is in one place, the ring or the stack, and
\* the ring polls for suspended tasks only: none is lost or run twice.
THEOREM OneStrandCorrect == Spec => []OneStrand
<1>1. ASSUME LoopInv PROVE OneStrand
  <2>1. queue \in Seq(Entries) /\ Located(queue, stack, Active) /\ Entered
    BY <1>1 DEF LoopInv, TypeInv, TypeOK
  <2>2. ASSUME NEW t \in Tasks
        PROVE  Places(t) = IF t \in Active THEN 1 ELSE 0
    <3> DEFINE Q == {i \in DOMAIN queue : queue[i].task = t}
               S == {i \in DOMAIN stack : stack[i] = t}
    <3>1. t \in Active => \/ (\E i : Q = {i}) /\ S = {}
                          \/ (\E i : S = {i}) /\ Q = {}
      <4> SUFFICES ASSUME t \in Active
                   PROVE  \/ (\E i : Q = {i}) /\ S = {}
                          \/ (\E i : S = {i}) /\ Q = {}
        OBVIOUS
      <4>1. CASE \E i \in DOMAIN queue : queue[i].task = t
        <5>1. PICK i \in DOMAIN queue : queue[i].task = t
          BY <4>1
        <5>2. Q = {i} /\ S = {}
          BY <2>1, <5>1 DEF Located
        <5> QED BY <5>2
      <4>2. CASE \E i \in DOMAIN stack : stack[i] = t
        <5>1. PICK i \in DOMAIN stack : stack[i] = t
          BY <4>2
        <5>2. S = {i} /\ Q = {}
          BY <2>1, <5>1 DEF Located
        <5> QED BY <5>2
      <4> QED BY <2>1, <4>1, <4>2 DEF Located
    <3>2. t \notin Active => Q = {} /\ S = {}
      BY <2>1 DEF Located
    <3>3. /\ t \in Active => \/ Cardinality(Q) = 1 /\ Cardinality(S) = 0
                             \/ Cardinality(Q) = 0 /\ Cardinality(S) = 1
          /\ t \notin Active => Cardinality(Q) = 0 /\ Cardinality(S) = 0
      BY <3>1, <3>2, FS_EmptySet, FS_Singleton
    <3>4. Places(t) = Cardinality(Q) + Cardinality(S)
      BY DEF Places
    <3> HIDE DEF Q, S
    <3> QED BY <3>3, <3>4
  <2>3. \A e \in ToSet(queue) : e.poller => Op(e.task) \in Polls
    BY <2>1 DEF ToSet, Entered
  <2> QED BY <2>2, <2>3 DEF OneStrand
<1> QED BY <1>1, LoopInvariant, PTL

\* A ring with room for every task there is never blocks the thread that runs
\* the loop: apart from main and the task that pushes, or is pushed, each task
\* has one entry at most.
THEOREM RoomToPushCorrect ==
  ASSUME IsFiniteSet(Tasks), Capacity >= Cardinality(Tasks)
  PROVE  Spec => []RoomToPush
<1>1. ASSUME LoopInv, NEW t \in Active, Executing(t), Op(t) \in Polls \cup Joins \cup {"spawn"}
      PROVE  Len(queue) < Capacity - 1
  <2>1. /\ OnTop(t) /\ t \in Tasks /\ TypeInv /\ Untouched /\ Located(queue, stack, Active)
        /\ queue \in Seq(Entries) /\ Op(t) # "return"
    BY <1>1 DEF Executing, Active, LoopInv, TypeInv, TypeOK, Polls, Semas, Locks, Joins
  <2>2. \A i \in DOMAIN queue : queue[i].task \in Tasks \ {t, Main}
    <3>1. stack[1] = Main /\ 1 \in DOMAIN stack /\ stack[Len(stack)] = t /\ Len(stack) \in DOMAIN stack
      BY <1>1, <2>1, TopFacts
    <3> QED BY <2>1, <3>1, EntryTask DEF Located
  <2>3. PICK x \in Tasks \ {Main} : \A i \in DOMAIN queue : queue[i].task # x
    <3>1. CASE Op(t) \in Polls
      <4>1. t # Main
        BY <2>1, <3>1, OpFacts
      <4> QED BY <2>1, <2>2, <4>1
    <3>2. CASE Op(t) \in Joins \cup {"spawn"}
      <4>1. pushed[t] + 1 \in DOMAIN Kids(t) /\ pushed[t] < pushed[t] + 1
        <5>1. /\ Kids(t) \in Seq(Tasks) /\ pushed[t] \in Nat
              /\ Op(t) \in Joins => pushed[t] <= Len(Kids(t))
              /\ Op(t) = "spawn" => Len(Kids(t)) = 1 /\ pushed[t] = 0
          BY <2>1, OpFacts DEF Starts, Joins
        <5>2. Op(t) \in Joins => pushed[t] # Len(Kids(t))
          BY <1>1 DEF Executing
        <5> QED BY <3>2, <5>1, <5>2
      <4> DEFINE k == Kids(t)[pushed[t] + 1]
      <4>2. k \in Tasks /\ k # Main /\ k \notin Active
        BY <2>1, <4>1, NextKid
      <4> HIDE DEF k
      <4> QED BY <2>1, <4>2 DEF Located
    <3> QED BY <1>1, <3>1, <3>2
  <2> DEFINE D == 1 .. Len(queue)
             T == Tasks \ {x, Main}
             f == [i \in D |-> queue[i].task]
  <2>4. f \in Injection(D, T)
    <3>1. f \in [D -> T]
      BY <2>1, <2>2, <2>3
    <3>2. \A i, j \in D : f[i] = f[j] => i = j
      BY <2>1 DEF Located
    <3> HIDE DEF f, D, T
    <3> QED BY <3>1, <3>2, Fun_IsInj
  <2>5. IsFiniteSet(T) /\ Cardinality(T) = Cardinality(Tasks) - 2
    <3>1. IsFiniteSet(Tasks \ {Main}) /\ Cardinality(Tasks \ {Main}) = Cardinality(Tasks) - 1
      BY FS_RemoveElement, TaskAssumption
    <3>2. /\ IsFiniteSet((Tasks \ {Main}) \ {x})
          /\ Cardinality((Tasks \ {Main}) \ {x}) = Cardinality(Tasks \ {Main}) - 1
      BY <3>1, FS_RemoveElement
    <3>3. (Tasks \ {Main}) \ {x} = T
      OBVIOUS
    <3>4. Cardinality(Tasks) \in Nat
      BY FS_CardinalityType
    <3> HIDE DEF T
    <3> QED BY <3>1, <3>2, <3>3, <3>4
  <2>6. Cardinality(D) <= Cardinality(T)
    <3> HIDE DEF D, T, f
    <3> QED BY <2>4, <2>5, FS_Injection
  <2>7. Cardinality(D) = Len(queue) /\ Len(queue) \in Nat
    <3>1. Len(queue) \in Nat
      BY <2>1
    <3>2. Cardinality(D) = IF 1 > Len(queue) THEN 0 ELSE Len(queue) - 1 + 1
      BY <3>1, FS_Interval
    <3> HIDE DEF D
    <3> QED BY <3>1, <3>2
  <2>8. Cardinality(Tasks) \in Nat
    BY FS_CardinalityType
  <2> HIDE DEF D, T, f
  <2> QED BY <2>5, <2>6, <2>7, <2>8, CapacityAssumption
<1>2. LoopInv => RoomToPush
  BY <1>1 DEF RoomToPush
<1> QED BY <1>2, LoopInvariant, PTL

\* No result is read before it is there.
THEOREM ResultReadyCorrect == Spec => []ResultReady
<1>1. Init => ResultReady
  BY DEF Init, ResultReady
<1>2. ASSUME LoopInv, ResultReady, [Next]_vars PROVE ResultReady'
  <2>1. ASSUME NEW t \in Active, Abort(t) PROVE ResultReady'
    <3>1. LoopOver(t) /\ ended' = Fault(t) /\ t \in Tasks
      BY <2>1 DEF Abort, Active
    <3>2. "none" \notin KidResults(t)
      BY <1>2, <3>1, LoopOverComplete DEF KidResults, Complete
    <3> QED BY <3>1, <3>2 DEF Fault, ResultReady
  <2>2. ASSUME NEW t \in Active, NEW r \in {"value", "error"}, End(t, r) PROVE ResultReady'
    BY <1>2, <2>2 DEF End, ResultReady
  <2>3. ended' = ended => ResultReady'
    BY <1>2 DEF ResultReady
  <2> QED
    BY <1>2, <2>1, <2>2, <2>3
    DEF Next, Step, Stop, vars, Expire, PollAtOnce, PollSuspend, Release, Unlock, Spawn, Resume,
        PushKid, Return, Throw, StartTask, ResumeTask, PollAgain, TakeResults, Rethrow
<1> QED BY <1>1, <1>2, LoopInvariant, PTL DEF Spec

\* No task on the stack waits for one below it: the kids that are neither
\* complete nor in the ring are on the stack, and there above their parent.
THEOREM KidsInReachCorrect == Spec => []KidsInReach
<1>1. ASSUME LoopInv PROVE KidsInReach
  <2> SUFFICES ASSUME NEW i \in DOMAIN stack, NEW k \in Started(stack[i]), ~Complete(k),
                      \A e \in ToSet(queue) : e.task # k
               PROVE  \E j \in DOMAIN stack : j > i /\ stack[j] = k
    BY DEF KidsInReach
  <2> DEFINE t == stack[i]
  <2>1. /\ TypeInv /\ Untouched /\ Located(queue, stack, Active) /\ stack \in Seq(Tasks)
        /\ t \in Tasks
    BY <1>1 DEF LoopInv, TypeInv, TypeOK
  <2>2. t \in Active /\ ~Complete(t)
    BY <2>1 DEF Located, Active
  <2>3. k \in Tasks
    BY <2>1, ActiveReached DEF Reached
  <2>4. k \in Active
    BY <2>2, <2>3 DEF Active
  <2>5. \A j \in DOMAIN queue : queue[j].task # k
    BY DEF ToSet
  <2>6. PICK j \in DOMAIN stack : stack[j] = k
    BY <2>1, <2>3, <2>4, <2>5 DEF Located
  <2>7. pushed[t] > 0
    <3>1. pushed[t] \in Nat
      BY <2>1, OpFacts
    <3>2. \E n \in 1 .. pushed[t] : TRUE
      BY <2>1, StartedFacts
    <3> QED BY <3>1, <3>2
  <2>8. PICK h \in DOMAIN stack :
          stack[h] = t /\ \A g \in DOMAIN stack : stack[g] \in Started(t) => h < g
    BY <1>1, <2>1, <2>2, <2>7 DEF LoopInv, Nested
  <2>9. h = i
    BY <2>1, <2>8 DEF Located
  <2>10. i < j
    BY <2>6, <2>8, <2>9
  <2> QED BY <2>6, <2>10
<1> QED BY <1>1, LoopInvariant, PTL

-----------------------------------------------------------------------------
(* The mutex.                                                              *)

LEMMA LockTaken ==
  ASSUME TypeInv, LockInv, NEW t \in Tasks, Take(t)
  PROVE  LockInv'
<1>1. CASE Op(t) \in Locks /\ Poll(t)
  <2>1. mutex = "free" /\ mutex' = "locked" /\ held' = [held EXCEPT ![t] = Mode(Op(t))]
    BY <1>1 DEF Take, Poll, Semas, Locks
  <2>2. Mode(Op(t)) # "none"
    BY DEF Mode
  <2>3. \A u \in Tasks : held[u] = "none"
    BY <2>1 DEF LockInv, Holders
  <2>4. Holders' = {t}
    BY <2>1, <2>2, <2>3 DEF Holders, TypeInv, TypeOK, TaskTypeOK
  <2> QED BY <2>1, <2>4 DEF LockInv
<1>2. CASE ~(Op(t) \in Locks /\ Poll(t))
  <2>1. mutex' = mutex /\ held' = held
    BY <1>2 DEF Take, TypeInv, TypeOK, TaskTypeOK
  <2> QED BY <2>1 DEF LockInv, Holders
<1> QED BY <1>1, <1>2

LEMMA LockDestroyed ==
  ASSUME TypeInv, LockInv, NEW t \in Tasks, DestroyLock(t)
  PROVE  LockInv'
<1>1. held \in [Tasks -> {"none", "unique", "shared"}] /\ held' = [held EXCEPT ![t] = "none"]
  BY DEF TypeInv, TypeOK, TaskTypeOK, DestroyLock
<1>2. Holders' = Holders \ {t}
  BY <1>1 DEF Holders
<1>3. CASE held[t] = "none"
  <2>1. mutex' = mutex /\ Holders' = Holders
    BY <1>2, <1>3 DEF DestroyLock, Holders
  <2> QED BY <2>1 DEF LockInv
<1>4. CASE held[t] # "none"
  <2>1. t \in Holders
    BY <1>4 DEF Holders
  <2>2. Holders = {t}
    BY <2>1 DEF LockInv
  <2>3. mutex' \in {"free", "jammed"}
    BY <1>1, <1>4 DEF DestroyLock
  <2> QED BY <1>2, <2>2, <2>3 DEF LockInv
<1> QED BY <1>3, <1>4

LEMMA LockStep == TypeInv /\ LoopInv /\ LockInv /\ [Next]_vars => LockInv'
<1> SUFFICES ASSUME TypeInv, LoopInv, LockInv, [Next]_vars PROVE LockInv'
  OBVIOUS
<1>1. ASSUME NEW t \in Active, PollAtOnce(t) \/ ResumeTask(t)
      PROVE  LockInv'
  <2>1. \E u \in Tasks : Take(u)
    BY <1>1, HeadFacts DEF PollAtOnce, ResumeTask, PassReady, RunOne, Active
  <2> QED BY <2>1, LockTaken
<1>2. ASSUME NEW t \in Active, DestroyLock(t) PROVE LockInv'
  BY <1>2, LockDestroyed DEF Active
<1>3. held' = held /\ mutex' = mutex => LockInv'
  BY DEF LockInv, Holders
<1> QED
  BY <1>1, <1>2, <1>3
  DEF Next, Step, Stop, vars, taskVars, Expire, PollSuspend, Release, Unlock, Spawn, Resume, PushKid,
      Return, Throw, Rethrow, End, StartTask, PollAgain, TakeResults, Abort

LEMMA LockInvariant == Spec => [](LoopInv /\ LockInv)
<1>1. Init => LockInv
  BY DEF Init, TaskInit, LockInv, Holders
<1>2. LoopInv => TypeInv
  BY DEF LoopInv
<1> QED BY <1>1, <1>2, LockStep, LoopInvariant, PTL DEF Spec

\* The mutex is locked exactly while one task has a lock on it.
THEOREM LockAccountedCorrect == Spec => []LockAccounted
<1>1. LockInv => LockAccounted
  BY FS_EmptySet, FS_Singleton DEF LockInv, LockAccounted
<1> QED BY <1>1, LockInvariant, PTL

-----------------------------------------------------------------------------
(* What the tasks see of the loop is what TaskTree promises.               *)

LEMMA TreeSame ==
  /\ Tree!taskVars = taskVars /\ Tree!Active = Active
  /\ \A t \in Tasks : /\ Tree!Op(t) = Op(t) /\ Tree!Kids(t) = Kids(t)
                      /\ Tree!Complete(t) = Complete(t)
                      /\ Advance(t) <=> Tree!Advance(t)
  /\ Tree!Semas = Semas /\ Tree!Locks = Locks /\ Tree!Joins = Joins /\ Tree!Starts = Starts
  /\ \A op : Tree!Mode(op) = Mode(op)
  /\ \A s : Tree!ToSet(s) = ToSet(s)
<1>1. /\ Tree!Semas = Semas /\ Tree!Locks = Locks /\ Tree!Joins = Joins /\ Tree!Starts = Starts
      /\ Tree!taskVars = taskVars /\ \A op : Tree!Mode(op) = Mode(op)
      /\ \A s : Tree!ToSet(s) = ToSet(s)
  BY DEF Tree!ToSet, ToSet, Tree!Semas, Semas, Tree!Locks, Locks, Tree!Joins, Joins, Tree!Starts, Starts,
         Tree!taskVars, taskVars, Tree!Mode, Mode
<1>2. \A t \in Tasks : /\ Tree!Op(t) = Op(t) /\ Tree!Kids(t) = Kids(t)
                       /\ Tree!Complete(t) = Complete(t)
                       /\ Tree!Started(t) = Started(t)
                       /\ Advance(t) <=> Tree!Advance(t)
  BY <1>1 DEF Tree!Op, Op, Tree!Kids, Kids, Tree!Complete, Complete, Tree!Started, Started,
              Tree!Advance, Advance
<1>3. Tree!Active = Active
  BY <1>2 DEF Tree!Active, Active
<1> QED BY <1>1, <1>2, <1>3

\* An awaitable found ready is one that may be passed.
LEMMA TreePass ==
  ASSUME LoopInv, LockInv, NEW t \in Active, PassReady(t)
  PROVE  Tree!Next
<1> USE TreeSame
<1>1. /\ t \in Tasks /\ Ready(t) /\ Take(t) /\ Tree!Advance(t) /\ UNCHANGED spawned
      /\ held \in [Tasks -> {"none", "unique", "shared"}]
  BY DEF PassReady, Active, LoopInv, TypeInv, TypeOK, TaskTypeOK
<1>2. CASE Op(t) = "sleep"
  <2>1. permits' = permits /\ held' = held
    BY <1>1, <1>2 DEF Take, Semas, Locks
  <2>2. Tree!Sleep(t)
    BY <1>1, <1>2, <2>1 DEF Tree!Sleep
  <2> QED BY <2>2 DEF Tree!Next
<1>3. CASE Op(t) \in Semas /\ Poll(t)
  <2>1. permits > 0 /\ permits' = permits - 1 /\ held' = held
    BY <1>1, <1>3 DEF Take, Poll, Semas, Locks
  <2>2. Tree!Acquire(t)
    BY <1>1, <1>3, <2>1 DEF Tree!Acquire
  <2> QED BY <2>2 DEF Tree!Next
<1>4. CASE Op(t) \in Locks /\ Poll(t)
  <2>1. mutex = "free" /\ permits' = permits /\ held' = [held EXCEPT ![t] = Mode(Op(t))]
    BY <1>1, <1>4 DEF Take, Poll, Semas, Locks
  <2>2. \A u \in Tasks : held[u] \in Tree!Compatible(Mode(Op(t)))
    BY <2>1 DEF LockInv, Holders, Tree!Compatible
  <2>3. Tree!Lock(t)
    BY <1>1, <1>4, <2>1, <2>2 DEF Tree!Lock
  <2> QED BY <2>3 DEF Tree!Next
<1>5. CASE Op(t) \in {"timed_acquire", "timed_lock"} /\ ~Poll(t)
  <2>1. permits' = permits /\ held' = held
    BY <1>1, <1>5 DEF Take
  <2>2. Tree!GiveUp(t)
    BY <1>1, <1>5, <2>1 DEF Tree!GiveUp
  <2> QED BY <2>2 DEF Tree!Next
<1> QED BY <1>1, <1>2, <1>3, <1>4, <1>5 DEF Ready, Poll

\* A join reads the results of complete kids, and an error among them stops it.
LEMMA TreeJoin ==
  ASSUME LoopInv, NEW t \in Active, TakeResults(t) \/ Rethrow(t)
  PROVE  Tree!Next
<1> USE TreeSame
<1>1. t \in Tasks /\ LoopOver(t) /\ Fault(t) = "no" /\ Op(t) \in Joins /\ pushed[t] = Len(Kids(t))
  BY DEF TakeResults, Rethrow, Active, LoopOver, InLoop
<1>2. \A k \in ToSet(Kids(t)) : k \in Tasks /\ Complete(k)
  BY <1>1, LoopOverComplete
<1>3. Tree!Joined(t)
  BY <1>1, <1>2 DEF Tree!Joined
<1>4. Tree!Failed(t) <=> "error" \in KidResults(t)
  BY <1>1 DEF Tree!Failed, KidResults
<1>5. Op(t) = "await" => ~Tree!Failed(t)
  <2> SUFFICES ASSUME Op(t) = "await" PROVE "error" \notin KidResults(t)
    BY <1>4
  <2>1. Kids(t) \in Seq(Tasks) /\ Len(Kids(t)) = 1
    BY <1>1, OpFacts DEF LoopInv
  <2>2. KidResults(t) = {result[Kids(t)[1]]}
    BY <2>1 DEF KidResults, ToSet
  <2>3. "none" \notin KidResults(t)
    BY <1>2 DEF KidResults, Complete
  <2> QED BY <1>1, <2>2, <2>3 DEF Fault
<1>6. CASE TakeResults(t)
  <2>1. /\ Tree!Advance(t) /\ UNCHANGED <<permits, held, spawned>>
        /\ Op(t) = "parallel_expected" \/ ~Tree!Failed(t)
    BY <1>1, <1>4, <1>5, <1>6 DEF TakeResults, Rethrows, Joins
  <2>2. Tree!Join(t)
    BY <1>1, <1>3, <2>1 DEF Tree!Join
  <2> QED BY <2>2 DEF Tree!Next
<1>7. CASE Rethrow(t)
  <2>1. Op(t) = "parallel" /\ Tree!Failed(t) /\ Tree!End(t, "error")
    BY <1>4, <1>7 DEF Rethrow, Rethrows, End, DestroyLock, Tree!End
  <2>2. Tree!JoinFailed(t)
    BY <1>1, <1>3, <2>1 DEF Tree!JoinFailed
  <2> QED BY <2>2 DEF Tree!Next
<1> QED BY <1>6, <1>7

LEMMA TreeStep == LoopInv /\ LockInv /\ [Next]_vars => [Tree!Next]_(Tree!taskVars)
<1> SUFFICES ASSUME LoopInv, LockInv, [Next]_vars, ~UNCHANGED taskVars
             PROVE  Tree!Next
  BY DEF taskVars, Tree!taskVars
<1> USE TreeSame
<1>1. ASSUME NEW t \in Active, PollAtOnce(t) \/ ResumeTask(t)
      PROVE  Tree!Next
  <2>1. \E u \in Active : PassReady(u)
    BY <1>1, HeadFacts DEF PollAtOnce, ResumeTask, RunOne
  <2> QED BY <2>1, TreePass
<1>2. ASSUME NEW t \in Active, Release(t) \/ Unlock(t) \/ Spawn(t) \/ Resume(t)
      PROVE  Tree!Next
  <2>1. t \in Tasks
    BY DEF Active
  <2>2. CASE Release(t) \/ Unlock(t)
    <3>1. Tree!Release(t) \/ Tree!Unlock(t)
      BY <2>1, <2>2 DEF Release, Unlock, DestroyLock, Tree!Release, Tree!Unlock
    <3> QED BY <3>1 DEF Tree!Next
  <2>3. CASE Spawn(t) \/ Resume(t)
    <3>1. Tree!Spawn(t)
      BY <2>1, <2>3 DEF Spawn, Resume, Starts, Tree!Spawn
    <3> QED BY <3>1 DEF Tree!Next
  <2> QED BY <1>2, <2>2, <2>3
<1>3. ASSUME NEW t \in Active, PushKid(t)
      PROVE  Tree!Next
  <2>1. t \in Tasks /\ Op(t) \in Joins /\ pushed[t] # Len(Kids(t)) /\ Op(t) # "return" /\ TypeInv
    BY <1>3 DEF Active, PushKid, Executing, Joins, LoopInv
  <2>2. pushed[t] < Len(Kids(t))
    BY <2>1, OpFacts
  <2>3. Tree!StartKid(t)
    BY <1>3, <2>1, <2>2 DEF PushKid, Tree!StartKid
  <2> QED BY <2>3 DEF Tree!Next
<1>4. ASSUME NEW t \in Active, Return(t) \/ Throw(t)
      PROVE  Tree!Next
  <2>1. t \in Tasks
    BY DEF Active
  <2>2. Tree!Return(t) \/ Tree!Throw(t)
    BY <1>4, <2>1 DEF Return, Throw, End, DestroyLock, Tree!Return, Tree!Throw, Tree!End
  <2> QED BY <2>2 DEF Tree!Next
<1>5. ASSUME NEW t \in Active, TakeResults(t) \/ Rethrow(t)
      PROVE  Tree!Next
  BY <1>5, TreeJoin
<1> QED
  BY <1>1, <1>2, <1>3, <1>4, <1>5
  DEF Next, Step, Stop, vars, taskVars, Expire, PollSuspend, StartTask, PollAgain, Abort

\* In whatever order the loop runs them, tasks do what coroutines promise.
THEOREM TaskTreeCorrect == Spec => TaskTreeSpec
<1>1. Init => Tree!Init
  BY DEF Init, TaskInit, Tree!Init, Tree!TaskInit
<1> QED BY <1>1, TreeStep, LockInvariant, PTL DEF Spec, TaskTreeSpec, Tree!Spec

-----------------------------------------------------------------------------
(* The end of the program.                                                 *)

\* Between two calls of parallel(), main is alone.
Alone ==
  /\ ended = "no" /\ pos[Main] > 1 /\ pushed[Main] = 0 => stack = <<Main>> /\ queue = <<>>
  /\ NoneLeftBehind

MainJoins ==
  \A p \in Programs :
    p[Main] # <<>> /\ \A i \in DOMAIN p[Main] : p[Main][i].op \in {"parallel", "parallel_expected"}

LEMMA MainOnTop ==
  ASSUME LoopInv, OnTop(Main)
  PROVE  stack = <<Main>> /\ (queue = <<>> => Active = {Main})
<1>1. /\ stack \in Seq(Tasks) /\ Len(stack) \in DOMAIN stack /\ stack[Len(stack)] = Main
      /\ stack[1] = Main /\ Main \in Active
  BY TopFacts, TaskAssumption
<1>2. Len(stack) = 1
  <2>1. 1 \in DOMAIN stack
    BY <1>1
  <2>2. \A i, j \in DOMAIN stack : stack[i] = stack[j] => i = j
    BY DEF LoopInv, Located
  <2> QED BY <1>1, <2>1, <2>2
<1>3. stack = <<Main>>
  BY <1>1, <1>2
<1>4. ASSUME queue = <<>> PROVE Active = {Main}
  <2>1. DOMAIN queue = {} /\ \A i \in DOMAIN stack : stack[i] = Main
    BY <1>1, <1>2, <1>4
  <2> QED BY <1>1, <2>1 DEF LoopInv, Located, Active
<1> QED BY <1>3, <1>4

LEMMA MainStep ==
  ASSUME MainJoins, LoopInv
  PROVE  /\ Op(Main) \in {"parallel", "parallel_expected", "return"}
         /\ Op(Main) = "return" => pos[Main] > 1 /\ pushed[Main] = 0
         /\ InLoop(Main) => pushed[Main] > 0
<1>1. Main \in Tasks /\ TypeInv /\ program \in Programs
  BY TaskAssumption DEF LoopInv, TypeInv
<1>2. Op(Main) # "return" => Op(Main) \in {"parallel", "parallel_expected"}
  BY <1>1, OpFacts DEF MainJoins
<1>3. ASSUME Op(Main) = "return" PROVE pos[Main] > 1 /\ pushed[Main] = 0
  <2>1. pushed[Main] = 0
    BY <1>1, <1>3, OpFacts DEF Joins
  <2>2. program[Main] \in Body /\ program[Main] # <<>> /\ pos[Main] \in 1 .. Len(program[Main]) + 1
    BY <1>1, OpFacts DEF MainJoins
  <2>3. pos[Main] = 1 => Op(Main) \in {"parallel", "parallel_expected"}
    <3>1. Len(program[Main]) \in Nat /\ Len(program[Main]) # 0 /\ DOMAIN program[Main] = 1 .. Len(program[Main])
      BY <2>2 DEF Body
    <3> QED BY <1>1, <3>1 DEF Op, MainJoins
  <2> QED BY <1>3, <2>1, <2>2, <2>3 DEF Body
<1>4. InLoop(Main) => pushed[Main] > 0
  <2> SUFFICES ASSUME InLoop(Main) PROVE pushed[Main] > 0
    OBVIOUS
  <2>1. Op(Main) \in Joins /\ Op(Main) # "return" /\ pushed[Main] = Len(Kids(Main))
    BY DEF InLoop, Joins
  <2>2. Kids(Main) \in Seq(Tasks) /\ Kids(Main) # <<>>
    BY <1>1, <2>1, OpFacts
  <2> QED BY <2>1, <2>2
<1> QED BY <1>2, <1>3, <1>4

\* The disjuncts of Step.
StepOf(t) ==
  \/ PollAtOnce(t) \/ PollSuspend(t) \/ Release(t) \/ Unlock(t) \/ Spawn(t) \/ Resume(t)
  \/ PushKid(t) \/ Return(t) \/ Throw(t)
  \/ StartTask(t) \/ ResumeTask(t) \/ PollAgain(t)
  \/ TakeResults(t) \/ Rethrow(t) \/ Abort(t)

LEMMA AloneStep ==
  ASSUME MainJoins, LoopInv, LoopInv', Alone, [Next]_vars
  PROVE  Alone'
<1>1. Main \in Tasks /\ TypeInv /\ (ended = "no" => stack # <<>> /\ stack[1] = Main)
  BY TaskAssumption DEF LoopInv, Bottom
<1>2. ASSUME UNCHANGED <<taskVars, queue, stack>>, ended' # "returned" \/ ended' = ended,
             ended' = "no" => ended = "no"
      PROVE  Alone'
  BY <1>2 DEF Alone, NoneLeftBehind, taskVars, Active, Started, Op, Kids, Complete
<1>3. ASSUME pos'[Main] = pos[Main], pushed'[Main] = pushed[Main], ended = "no", ended' # "returned",
             pos[Main] > 1 => pushed[Main] # 0
      PROVE  Alone'
  BY <1>3 DEF Alone, NoneLeftBehind
<1>4. ASSUME NEW t \in Active, ResumeTask(t)
      PROVE  pos'[Main] = pos[Main] /\ pushed'[Main] = pushed[Main]
  <2> DEFINE h == Head(queue).task
  <2>1. ended = "no" /\ queue # <<>> /\ Advance(h) /\ Head(queue).poller
    BY <1>4 DEF ResumeTask, PassReady, RunOne, InLoop, OnTop
  <2>2. h \in Tasks /\ Op(h) \in Polls /\ \A i \in DOMAIN stack : stack[i] # h
    BY <2>1, HeadFacts
  <2>3. stack \in Seq(Tasks) /\ 1 \in DOMAIN stack
    BY <1>1, <2>1 DEF TypeInv, TypeOK
  <2>4. h # Main /\ Op(h) # "return"
    BY <1>1, <2>1, <2>2, <2>3 DEF Polls, Semas, Locks
  <2> QED BY <1>1, <2>1, <2>2, <2>4, AdvanceEffect
<1>5. ASSUME NEW t \in Active, t # Main, OnTop(t)
      PROVE  pos[Main] > 1 => pushed[Main] # 0
  <2>1. stack # <<Main>>
    BY <1>5, TopFacts DEF Active
  <2> QED BY <1>5, <2>1 DEF Alone, OnTop
<1>6. ASSUME NEW t \in Active, t # Main, StepOf(t)
      PROVE  Alone'
  <2>1. OnTop(t) /\ ended = "no" /\ t \in Tasks
    BY <1>6 DEF StepOf, PollAtOnce, PollSuspend, Release, Unlock, Spawn, Resume, PushKid, Return, Throw,
                StartTask, ResumeTask, PollAgain, RunOne, TakeResults, Rethrow, Abort, LoopOver, InLoop,
                Executing, OnTop, Active
  <2>2. Op(t) # "return" /\ Advance(t) => pos'[Main] = pos[Main] /\ pushed'[Main] = pushed[Main]
    BY <1>1, <1>6, <2>1, AdvanceEffect
  <2>3. PushKid(t) => pos'[Main] = pos[Main] /\ pushed'[Main] = pushed[Main]
    BY <1>1, <1>6 DEF PushKid, TypeInv
  <2>4. pos'[Main] = pos[Main] /\ pushed'[Main] = pushed[Main]
    BY <1>4, <1>6, <2>2, <2>3
    DEF StepOf, PollAtOnce, PassReady, Ready, Poll, Semas, Locks, PollSuspend, taskVars, Release, Unlock,
        Spawn, Resume, Return, Throw, End, StartTask, PollAgain, TakeResults, Rethrow, Abort, LoopOver,
        InLoop, Joins
  <2>5. ended' # "returned"
    BY <1>6, <2>1
    DEF StepOf, PollAtOnce, PollSuspend, Release, Unlock, Spawn, Resume, PushKid, Return, Throw, End,
        StartTask, ResumeTask, PollAgain, TakeResults, Rethrow, Abort, Fault
  <2> QED BY <1>3, <1>5, <1>6, <2>1, <2>4, <2>5
<1>7. ASSUME StepOf(Main), Main \in Active
      PROVE  Alone'
  <2>1. Op(Main) \in {"parallel", "parallel_expected", "return"}
    BY MainStep
  <2>2. CASE PushKid(Main)
    <3>1. pushed'[Main] = pushed[Main] + 1 /\ pushed[Main] \in Nat /\ ended' = "no"
      BY <1>1, <2>2 DEF PushKid, Executing, OnTop, TypeInv
    <3> QED BY <3>1 DEF Alone, NoneLeftBehind
  <2>3. CASE StartTask(Main) \/ ResumeTask(Main) \/ PollAgain(Main)
    <3>1. pushed[Main] > 0 /\ pushed[Main] \in Nat /\ ended = "no" /\ ended' = "no"
      BY <1>1, <2>3, MainStep DEF StartTask, ResumeTask, PollAgain, RunOne, InLoop, OnTop, TypeInv
    <3>2. pos'[Main] = pos[Main] /\ pushed'[Main] = pushed[Main]
      BY <1>4, <1>7, <2>3 DEF StartTask, PollAgain, taskVars
    <3> QED BY <1>3, <3>1, <3>2
  <2>4. CASE Return(Main) \/ Rethrow(Main)
    <3>1. /\ OnTop(Main) /\ \E r \in {"value", "error"} : End(Main, r)
          /\ Return(Main) => Op(Main) = "return"
          /\ Rethrow(Main) => LoopOver(Main)
      BY <2>4 DEF Return, Rethrow, Executing, LoopOver, InLoop
    <3>2. queue = <<>>
      BY <2>1, <2>4, <3>1, MainStep DEF Alone, OnTop, LoopOver
    <3>3. Active = {Main}
      BY <3>1, <3>2, MainOnTop
    <3>4. \A k \in Started(Main) : Complete(k)
      <4>1. CASE Return(Main)
        BY <1>1, <3>1, <4>1, StartedFacts DEF Joins
      <4>2. CASE Rethrow(Main)
        BY <1>1, <3>1, <4>2, LoopOverComplete
      <4> QED BY <2>4, <4>1, <4>2
    <3>5. Active' = {} /\ ended' = "returned"
      BY <1>1, <1>7, <3>1, <3>3, <3>4, EndEffect DEF End
    <3> QED BY <3>5 DEF Alone, NoneLeftBehind
  <2>5. CASE TakeResults(Main)
    <3>1. OnTop(Main) /\ queue = <<>> /\ UNCHANGED <<queue, stack, ended>>
      BY <2>1, <2>5 DEF TakeResults, LoopOver, InLoop
    <3> QED BY <3>1, MainOnTop DEF Alone, NoneLeftBehind, OnTop
  <2>6. CASE Abort(Main)
    <3>1. UNCHANGED <<taskVars, queue, stack>> /\ ended' \in {"missing", "terminated"}
      BY <2>6 DEF Abort, Fault
    <3> QED BY <1>2, <3>1
  <2> QED
    BY <1>7, <2>1, <2>2, <2>3, <2>4, <2>5, <2>6
    DEF StepOf, PollAtOnce, PassReady, Ready, Poll, Semas, Locks, Polls, PollSuspend, Release, Unlock,
        Spawn, Resume, Throw
<1>8. ASSUME NEW t \in Tasks, Expire(t)
      PROVE  Alone'
  BY <1>2, <1>8 DEF Expire
<1>9. CASE UNCHANGED vars
  BY <1>2, <1>9 DEF vars, taskVars
<1>10. Step => \E t \in Active : StepOf(t)
  BY DEF Step, StepOf
<1> QED BY <1>6, <1>7, <1>8, <1>9, <1>10 DEF Next, Stop

\* When a main() that only calls parallel() and parallel_expected() returns, every
\* task that was ever started is complete, spawned ones included.
THEOREM NoneLeftBehindCorrect ==
  ASSUME MainJoins
  PROVE  Spec => []NoneLeftBehind
<1>1. Init => Alone
  BY TaskAssumption DEF Init, TaskInit, Alone, NoneLeftBehind
<1>2. LoopInv /\ LoopInv' /\ Alone /\ [Next]_vars => Alone'
  BY AloneStep
<1>3. Alone => NoneLeftBehind
  BY DEF Alone
<1> QED BY <1>1, <1>2, <1>3, LoopInvariant, PTL DEF Spec

-----------------------------------------------------------------------------
(* Errors.                                                                 *)

\* In program p only tasks of S fail: those that throw, and those that call
\* parallel() on a task of S.
CanFail(p, S) ==
  \A t \in Tasks : \A i \in DOMAIN p[t] :
    \/ p[t][i].op = "throw"
    \/ p[t][i].op = "parallel" /\ ToSet(p[t][i].kids) \cap S # {}
    => t \in S

ErrorsWithin ==
  \A S \in SUBSET Tasks :
    CanFail(program, S) => \A t \in Tasks : result[t] = "error" => t \in S

LEMMA ErrorsStep == LoopInv /\ ErrorsWithin /\ [Next]_vars => ErrorsWithin'
<1> SUFFICES ASSUME LoopInv, ErrorsWithin, [Next]_vars PROVE ErrorsWithin'
  OBVIOUS
<1>1. TypeInv /\ result \in [Tasks -> Results]
  BY DEF LoopInv, TypeInv, TypeOK, TaskTypeOK
<1>2. ASSUME program' = program, result' = result PROVE ErrorsWithin'
  BY <1>2 DEF ErrorsWithin, CanFail
<1>3. ASSUME NEW t \in Tasks, End(t, "error"),
             \/ Op(t) = "throw"
             \/ Op(t) = "parallel" /\ \E k \in ToSet(Kids(t)) : result[k] = "error"
      PROVE  ErrorsWithin'
  <2> SUFFICES ASSUME NEW S \in SUBSET Tasks, CanFail(program, S),
                      NEW u \in Tasks, result'[u] = "error"
               PROVE  u \in S
    BY <1>3 DEF End, ErrorsWithin
  <2>1. CASE u # t
    BY <1>1, <1>3, <2>1 DEF End, ErrorsWithin
  <2>2. CASE u = t
    <3>1. /\ pos[t] \in DOMAIN program[t] /\ Op(t) = program[t][pos[t]].op
          /\ Kids(t) \in Seq(Tasks)
      BY <1>1, <1>3, OpFacts
    <3>2. ToSet(Kids(t)) \subseteq Tasks
      BY <3>1 DEF ToSet
    <3>3. Op(t) = "parallel" => ToSet(Kids(t)) \cap S # {}
      BY <1>3, <3>2 DEF ErrorsWithin
    <3> QED BY <1>3, <2>2, <3>1, <3>3 DEF CanFail, Kids
  <2> QED BY <2>1, <2>2
<1>4. ASSUME NEW t \in Tasks, End(t, "value") PROVE ErrorsWithin'
  BY <1>1, <1>4 DEF End, ErrorsWithin
<1>5. ASSUME NEW t \in Active, StepOf(t) PROVE ErrorsWithin'
  <2>1. t \in Tasks
    BY DEF Active
  <2>2. CASE Throw(t)
    BY <1>3, <2>1, <2>2 DEF Throw
  <2>3. CASE Return(t)
    BY <1>4, <2>1, <2>3 DEF Return
  <2>4. CASE Rethrow(t)
    BY <1>3, <2>1, <2>4 DEF Rethrow, Rethrows, KidResults
  <2>5. CASE ~(Throw(t) \/ Return(t) \/ Rethrow(t))
    <3>1. program' = program /\ result' = result
      BY <1>5, <2>5
      DEF StepOf, PollAtOnce, PassReady, Advance, PollSuspend, taskVars, Release, Unlock, Spawn,
          Resume, PushKid, StartTask, ResumeTask, PollAgain, TakeResults, Abort
    <3> QED BY <1>2, <3>1
  <2> QED BY <2>2, <2>3, <2>4, <2>5
<1>6. ASSUME NEW t \in Tasks, Expire(t) PROVE ErrorsWithin'
  BY <1>2, <1>6 DEF Expire, taskVars
<1>7. CASE UNCHANGED vars
  BY <1>2, <1>7 DEF vars
<1> QED BY <1>5, <1>6, <1>7 DEF Next, Step, StepOf, Stop

\* Tasks that may fail are run by parallel() and parallel_expected() only, or
\* spawned, or resumed by hand: none is awaited.
AwaitsSafely ==
  \A p \in Programs : \E S \in SUBSET Tasks :
    /\ CanFail(p, S)
    /\ \A t \in Tasks : \A i \in DOMAIN p[t] :
         p[t][i].op = "await" => ToSet(p[t][i].kids) \cap S = {}

\* An exception ends the program only where a task is awaited that throws, or
\* that calls parallel() on one that may fail.
THEOREM ErrorReachesAwaiterCorrect ==
  ASSUME AwaitsSafely
  PROVE  Spec => []ErrorReachesAwaiter
<1>1. Init => ErrorsWithin /\ ErrorReachesAwaiter
  BY DEF Init, TaskInit, ErrorsWithin, ErrorReachesAwaiter
<1>2. ASSUME LoopInv, ErrorsWithin, ErrorReachesAwaiter, [Next]_vars
      PROVE  ErrorReachesAwaiter'
  <2>1. ASSUME NEW t \in Active, Abort(t), ended' = "terminated" PROVE FALSE
    <3>1. /\ t \in Tasks /\ TypeInv /\ program \in Programs
          /\ Op(t) = "await" /\ KidResults(t) = {"error"}
      BY <1>2, <2>1 DEF Abort, Fault, Active, LoopInv, TypeInv
    <3>2. /\ pos[t] \in DOMAIN program[t] /\ Op(t) = program[t][pos[t]].op
          /\ Kids(t) \in Seq(Tasks)
      BY <3>1, OpFacts
    <3>3. PICK k \in ToSet(Kids(t)) : result[k] = "error" /\ k \in Tasks
      BY <3>1, <3>2 DEF KidResults, ToSet
    <3>4. PICK S \in SUBSET Tasks :
            /\ CanFail(program, S)
            /\ \A u \in Tasks : \A i \in DOMAIN program[u] :
                 program[u][i].op = "await" => ToSet(program[u][i].kids) \cap S = {}
      BY <3>1 DEF AwaitsSafely
    <3>5. k \in S
      BY <1>2, <3>3, <3>4 DEF ErrorsWithin
    <3> QED BY <3>1, <3>2, <3>3, <3>4, <3>5 DEF Kids
  <2>2. ASSUME NEW t \in Active, StepOf(t), ~Abort(t) PROVE ended' \in {ended, "returned"}
    BY <2>2
    DEF StepOf, PollAtOnce, PollSuspend, Release, Unlock, Spawn, Resume, PushKid, Return, Throw,
        End, StartTask, ResumeTask, PollAgain, TakeResults, Rethrow
  <2>3. ended' \in {ended, "returned"} => ErrorReachesAwaiter'
    BY <1>2 DEF ErrorReachesAwaiter
  <2>4. ASSUME NEW t \in Active, StepOf(t) PROVE ErrorReachesAwaiter'
    BY <2>1, <2>2, <2>3, <2>4 DEF ErrorReachesAwaiter
  <2>5. (Stop \/ (\E t \in Tasks : Expire(t)) \/ UNCHANGED vars) => ended' = ended
    BY DEF Stop, Expire, vars
  <2> QED BY <1>2, <2>3, <2>4, <2>5 DEF Next, Step, StepOf
<1> QED BY <1>1, <1>2, ErrorsStep, LoopInvariant, PTL DEF Spec

-----------------------------------------------------------------------------
(* The tasks under the topmost one.                                        *)

\* t runs the loop for the kids of its step, or has resumed a task by hand.
Waiting(t) ==
  \/ Op(t) \in Joins /\ pushed[t] = Len(Kids(t))
  \/ pos[t] - 1 \in DOMAIN program[t] /\ program[t][pos[t] - 1].op = "resume"

BuriedWait == \A i \in DOMAIN stack : i < Len(stack) => Waiting(stack[i])

\* A step that moves on the tasks of S at most: those that it leaves or puts under
\* the topmost one are not of S, or wait after it.
LEMMA BuriedKept ==
  ASSUME LoopInv, BuriedWait, NEW S, program' = program,
         \A u \in Tasks \ S : pos'[u] = pos[u] /\ pushed'[u] = pushed[u],
         \A i \in DOMAIN stack' : i < Len(stack') =>
           /\ i \in DOMAIN stack /\ stack'[i] = stack[i]
           /\ (i < Len(stack) /\ stack[i] \notin S) \/ Waiting(stack[i])'
  PROVE  BuriedWait'
<1>1. \A i \in DOMAIN stack : stack[i] \in Tasks
  BY TypeParts DEF LoopInv, Thread
<1>2. ASSUME NEW u \in Tasks \ S PROVE Waiting(u)' = Waiting(u)
  BY DEF Waiting, Op, Kids
<1> QED BY <1>1, <1>2 DEF BuriedWait

LEMMA BuriedStep == LoopInv /\ BuriedWait /\ [Next]_vars => BuriedWait'
<1> SUFFICES ASSUME LoopInv, BuriedWait, [Next]_vars PROVE BuriedWait'
  OBVIOUS
<1>1. /\ TypeInv /\ stack \in Seq(Tasks) /\ pos \in [Tasks -> Nat] /\ pushed \in [Tasks -> Nat]
      /\ \A i, j \in DOMAIN stack : stack[i] = stack[j] => i = j
  BY TypeParts DEF LoopInv, TypeInv, Thread, Located
<1>2. ASSUME program' = program, pos' = pos, pushed' = pushed, stack' = stack PROVE BuriedWait'
  BY <1>2, BuriedKept
<1>3. ASSUME NEW t \in Tasks, OnTop(t), program' = program, stack' \in {stack, Front(stack)},
             \A u \in Tasks \ {t} : pos'[u] = pos[u] /\ pushed'[u] = pushed[u]
      PROVE  BuriedWait'
  <2>1. /\ stack # <<>> /\ Len(stack) \in DOMAIN stack /\ stack[Len(stack)] = t
        /\ Len(stack) \in Nat /\ DOMAIN stack = 1 .. Len(stack)
    BY <1>1, <1>3, TopFacts
  <2> DEFINE S == {t}
  <2>2. /\ \A i \in DOMAIN stack : i < Len(stack) => stack[i] \notin S
        /\ \A u \in Tasks \ S : pos'[u] = pos[u] /\ pushed'[u] = pushed[u]
    BY <1>1, <1>3, <2>1
  <2> HIDE DEF S
  <2>3. CASE stack' = stack
    BY <1>3, <2>2, <2>3, BuriedKept
  <2>4. CASE stack' = Front(stack)
    <3>1. /\ Front(stack) \in Seq(Tasks) /\ Len(Front(stack)) = Len(stack) - 1
          /\ \A i \in 1 .. Len(stack) - 1 : Front(stack)[i] = stack[i]
      BY <1>1, <2>1, FrontFacts
    <3>2. \A i \in DOMAIN stack' :
            i \in DOMAIN stack /\ i < Len(stack) /\ stack'[i] = stack[i]
      BY <2>1, <2>4, <3>1
    <3> QED BY <1>3, <2>2, <3>2, BuriedKept
  <2> QED BY <1>3, <2>3, <2>4
<1>4. ASSUME NEW t \in Tasks, OnTop(t), program' = program, NEW S,
             \A u \in Tasks \ S : pos'[u] = pos[u] /\ pushed'[u] = pushed[u],
             \A i \in DOMAIN stack : i < Len(stack) => stack[i] \notin S,
             Waiting(t)', NEW k \in Tasks, stack' = Append(stack, k)
      PROVE  BuriedWait'
  <2>1. /\ stack # <<>> /\ Len(stack) \in DOMAIN stack /\ stack[Len(stack)] = t
        /\ Len(stack) \in Nat /\ DOMAIN stack = 1 .. Len(stack)
    BY <1>1, <1>4, TopFacts
  <2>2. \A i \in DOMAIN stack' : i < Len(stack') =>
          i \in DOMAIN stack /\ stack'[i] = stack[i] /\ (i < Len(stack) \/ i = Len(stack))
    BY <1>1, <1>4, <2>1
  <2> QED BY <1>4, <2>1, <2>2, BuriedKept
<1>5. ASSUME NEW t \in Tasks, InLoop(t), NEW u \in Tasks, u # t,
             program' = program, pos'[t] = pos[t], pushed'[t] = pushed[t]
      PROVE  Waiting(t)'
  BY <1>5 DEF InLoop, Waiting, Op, Kids
<1>6. ASSUME NEW t \in Active, StepOf(t) PROVE BuriedWait'
  <2>1. t \in Tasks
    BY DEF Active
  <2>2. CASE StartTask(t)
    <3>1. /\ program' = program /\ pos' = pos /\ pushed' = pushed /\ InLoop(t)
          /\ Head(queue).task \in Tasks /\ Head(queue).task # t
          /\ stack' = Append(stack, Head(queue).task)
      BY <2>1, <2>2, HeadFacts, TopFacts DEF StartTask, RunOne, InLoop, taskVars
    <3>2. Waiting(t)' /\ OnTop(t)
      BY <1>5, <2>1, <3>1 DEF InLoop
    <3> DEFINE S == {}
    <3>3. /\ \A i \in DOMAIN stack : i < Len(stack) => stack[i] \notin S
          /\ \A u \in Tasks \ S : pos'[u] = pos[u] /\ pushed'[u] = pushed[u]
      BY <3>1
    <3> HIDE DEF S
    <3> QED BY <1>4, <2>1, <3>1, <3>2, <3>3
  <2>3. CASE ResumeTask(t)
    <3> DEFINE h == Head(queue).task
    <3>1. /\ InLoop(t) /\ PassReady(h) /\ stack' = Append(stack, h)
          /\ h \in Tasks /\ h # t /\ \A i \in DOMAIN stack : stack[i] # h
      BY <2>1, <2>3, HeadFacts, TopFacts DEF ResumeTask, RunOne, InLoop
    <3> HIDE DEF h
    <3>2. /\ program' = program
          /\ \A u \in Tasks \ {h} : pos'[u] = pos[u] /\ pushed'[u] = pushed[u]
      BY <1>1, <3>1 DEF PassReady, Advance
    <3>3. Waiting(t)' /\ OnTop(t)
      BY <1>5, <2>1, <3>1, <3>2 DEF InLoop
    <3> DEFINE S == {h}
    <3>4. /\ \A i \in DOMAIN stack : i < Len(stack) => stack[i] \notin S
          /\ \A u \in Tasks \ S : pos'[u] = pos[u] /\ pushed'[u] = pushed[u]
      BY <3>1, <3>2
    <3> HIDE DEF S
    <3> QED BY <1>4, <2>1, <3>1, <3>2, <3>3, <3>4
  <2>4. CASE Resume(t)
    <3>1. /\ Op(t) = "resume" /\ OnTop(t) /\ Advance(t) /\ stack' = Append(stack, Kids(t)[1])
          /\ Kids(t)[1] \in Tasks
      BY <1>1, <2>1, <2>4, FirstKid DEF Resume, Executing, Starts
    <3>2. /\ pos[t] \in DOMAIN program[t] /\ program[t][pos[t]].op = "resume"
          /\ pos'[t] = pos[t] + 1 /\ program' = program /\ pos[t] \in Nat
          /\ \A u \in Tasks \ {t} : pos'[u] = pos[u] /\ pushed'[u] = pushed[u]
      BY <1>1, <2>1, <3>1, OpFacts, AdvanceEffect
    <3>3. pos'[t] - 1 = pos[t]
      BY <3>2
    <3>4. Waiting(t)'
      BY <3>2, <3>3 DEF Waiting
    <3>5. \A i \in DOMAIN stack : i < Len(stack) => stack[i] \notin {t}
      BY <1>1, <2>1, <3>1, TopFacts
    <3> QED BY <1>4, <2>1, <3>1, <3>2, <3>4, <3>5
  <2>5. CASE PushKid(t)
    <3>1. /\ OnTop(t) /\ program' = program /\ pos' = pos /\ stack' = stack
          /\ \A u \in Tasks \ {t} : pushed'[u] = pushed[u]
      BY <1>1, <2>1, <2>5 DEF PushKid, Executing
    <3> QED BY <1>3, <2>1, <3>1
  <2>6. CASE PollAtOnce(t) \/ Release(t) \/ Unlock(t) \/ Spawn(t) \/ TakeResults(t)
    <3>1. OnTop(t) /\ Advance(t) /\ stack' = stack
      BY <2>6 DEF PollAtOnce, PassReady, Release, Unlock, Spawn, TakeResults, LoopOver, InLoop,
                  Executing
    <3>2. /\ program' = program
          /\ \A u \in Tasks \ {t} : pos'[u] = pos[u] /\ pushed'[u] = pushed[u]
      BY <1>1, <3>1 DEF Advance
    <3> QED BY <1>3, <2>1, <3>1, <3>2
  <2>7. CASE PollSuspend(t) \/ Return(t) \/ Throw(t) \/ Rethrow(t)
    <3>1. /\ OnTop(t) /\ program' = program /\ pos' = pos /\ pushed' = pushed
          /\ stack' = Front(stack)
      BY <2>7 DEF PollSuspend, Return, Throw, Rethrow, End, LoopOver, InLoop, Executing, taskVars
    <3> QED BY <1>3, <2>1, <3>1
  <2>8. CASE PollAgain(t) \/ Abort(t)
    BY <1>2, <2>8 DEF PollAgain, Abort, taskVars
  <2> QED BY <1>6, <2>2, <2>3, <2>4, <2>5, <2>6, <2>7, <2>8 DEF StepOf
<1>7. ASSUME NEW t \in Tasks, Expire(t) PROVE BuriedWait'
  BY <1>2, <1>7 DEF Expire, taskVars
<1>8. CASE UNCHANGED vars
  BY <1>2, <1>8 DEF vars
<1> QED BY <1>6, <1>7, <1>8 DEF Next, Step, StepOf, Stop

\* A task is stopped in the middle of a step by nothing but an await, a call of
\* parallel() or a resume() of its own: whatever lies under the topmost task of
\* the stack is there because it waits, or has resumed somebody.
THEOREM BuriedWaitCorrect == Spec => []BuriedWait
<1>1. Init => BuriedWait
  BY DEF Init, BuriedWait
<1> QED BY <1>1, BuriedStep, LoopInvariant, PTL DEF Spec

\* Tasks do not await, call parallel() or resume tasks by hand: only main does.
OnlyMainWaits ==
  \A p \in Programs : \A t \in Tasks \ {Main} : \A i \in DOMAIN p[t] :
    p[t][i].op \notin Joins \cup {"resume"}

\* While only main waits, main alone is ever under another task: what a task does
\* can not keep another one from going on, as it can where both await.
THEOREM NoneBuriedCorrect ==
  ASSUME OnlyMainWaits
  PROVE  Spec => [](ended = "no" => Len(stack) <= 2)
<1>1. ASSUME LoopInv, BuriedWait, ended = "no" PROVE Len(stack) <= 2
  <2>1. /\ stack \in Seq(Tasks) /\ Len(stack) \in Nat /\ DOMAIN stack = 1 .. Len(stack)
        /\ TypeInv /\ program \in Programs /\ stack[1] = Main
        /\ \A i, j \in DOMAIN stack : stack[i] = stack[j] => i = j
    BY <1>1, TypeParts DEF LoopInv, TypeInv, Thread, Located, Bottom
  <2>2. SUFFICES ASSUME Len(stack) > 2 PROVE FALSE
    BY <2>1
  <2>3. 1 \in DOMAIN stack /\ 2 \in DOMAIN stack /\ stack[2] \in Tasks /\ Waiting(stack[2])
    BY <1>1, <2>1, <2>2 DEF BuriedWait
  <2>4. stack[2] # Main
    BY <2>1, <2>3
  <2> DEFINE t == stack[2]
  <2> HIDE DEF t
  <2>5. /\ Op(t) \notin Joins
        /\ pos[t] - 1 \in DOMAIN program[t] => program[t][pos[t] - 1].op # "resume"
    <3>1. Op(t) # "return" => pos[t] \in DOMAIN program[t] /\ Op(t) = program[t][pos[t]].op
      BY <2>1, <2>3, OpFacts DEF t
    <3>2. Op(t) = "return" => Op(t) \notin Joins
      BY DEF Joins
    <3> QED BY <2>1, <2>3, <2>4, <3>1, <3>2 DEF OnlyMainWaits, t
  <2> QED BY <2>3, <2>5 DEF Waiting, t
<1>2. Init => BuriedWait
  BY DEF Init, BuriedWait
<1> QED BY <1>1, <1>2, BuriedStep, LoopInvariant, PTL DEF Spec
====
