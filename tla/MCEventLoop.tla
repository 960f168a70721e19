---------------------------- MODULE MCEventLoop ----------------------------
(* Instances of EventLoop for TLC: the programs that are run.              *)
EXTENDS EventLoop

CONSTANTS M, A, B, C, D

Do(op)         == [op |-> op, kids |-> <<>>]
Join(op, kids) == [op |-> op, kids |-> kids]
Await(kid)     == Join("await", <<kid>>)

Bodies(ops, n) == UNION {[1..k -> {Do(op) : op \in ops}] : k \in 0..n}

Program(main, a, b, c, d) ==
  [t \in Tasks |-> CASE t = M -> <<Join(main, <<A, B>>)>>
                     [] t = A -> a [] t = B -> b [] t = C -> c [] t = D -> d]

Count(op, p) == Cardinality({<<t, i>> \in Tasks \X (1..3) : i \in DOMAIN p[t] /\ p[t][i].op = op})

\* One root with kids, which acquire, and another that releases permits.
Fans == {
  Program(main, a, b, c, d) :
    main \in {"parallel", "parallel_expected"},
    a \in {<<Await(C), Do("acquire")>>, <<Await(C), Await(D)>>,
           <<Do("sleep"), Join("parallel", <<C, D>>)>>, <<Join("parallel_expected", <<C, D>>)>>},
    b \in {<<Do("release"), Do("sleep"), Do("release")>>},
    c \in Bodies({"sleep", "throw"} \cup Semas, 2),
    d \in {<<Do("sleep")>>, <<Do("acquire")>>, <<Do("throw")>>}}

\* A root, its kid and the kid of that.
Chains == {
  Program("parallel", a, b, c, d) :
    a \in {<<Await(C)>>, <<Do("acquire"), Await(C)>>},
    b \in {<<Do("sleep"), Do("release"), Do("release")>>},
    c \in {<<Await(D)>>, <<Await(D), Do("sleep")>>},
    d \in Bodies({"acquire", "timed_acquire"}, 1)}

\* Two roots that await kids, which wait for the clock only.
Crossings == {
  Program("parallel_expected", a, b, c, d) :
    a \in {<<Await(C), Do("acquire")>>, <<Do("sleep"), Await(C), Do("acquire")>>},
    b \in {<<Await(D), Do("release")>>, <<Do("sleep"), Await(D), Do("release")>>},
    c \in Bodies({"sleep"}, 2),
    d \in Bodies({"sleep"}, 2)}

\* Roots and a spawned task that lock a mutex and unlock it, throw or return.
Guards == {
  Program(main, a, b, c, <<>>) :
    main \in {"parallel", "parallel_expected"},
    a \in {<<Join("spawn", <<C>>), Do("lock"), Do("sleep")>>,
           <<Join("spawn", <<C>>), Do("lock_shared"), Do("unlock"), Do("sleep")>>},
    b \in {<<Do(op)>> \o rest :
             op \in Locks,
             rest \in {<<Do("sleep"), Do("throw")>>, <<Do("sleep"), Do("unlock"), Do("lock")>>}},
    c \in {<<Do("lock_shared"), Do("sleep")>>, <<Do("sleep"), Do("timed_lock"), Do("sleep")>>}}

\* A root that holds the mutex while it awaits, beside one that wants it.
Holdings == {
  Program("parallel", <<Do(op), Await(C), Do(end)>>, <<Do("sleep"), Do(other), Do(end)>>,
          <<Do("sleep")>>, <<>>) :
    op \in {"lock", "lock_shared"}, other \in Locks, end \in {"unlock", "throw"}}

\* A root that resumes a task by hand, which suspends, awaits, throws or returns.
ByHand == {
  Program(main, <<Join("resume", <<C>>), Do(op)>>, <<Do("lock"), Do("sleep")>>, c, <<Do("sleep")>>) :
    main \in {"parallel", "parallel_expected"},
    op \in {"sleep", "timed_lock"},
    c \in {<<>>, <<Do("throw")>>, <<Do("sleep"), Do("lock")>>, <<Do("lock"), Do("sleep")>>,
           <<Do("sleep"), Do("throw")>>, <<Await(D), Do("sleep")>>}}

\* The programs with a permit for every acquire.
WithPermits == Guards \cup Holdings \cup ByHand \cup {
  p \in Fans \cup Chains \cup Crossings :
    Count("acquire", p) + Count("timed_acquire", p) <= Count("release", p)}

\* A awaits C and then releases the permit that D, awaited by B, acquires.
ReleaseAfterAwait == {
  Program("parallel_expected", <<Await(C), Do("release")>>, <<Await(D)>>,
          <<Do("sleep")>>, <<Do("acquire")>>)}

\* C throws, and A awaits it.
ThrowingKid == {
  Program("parallel_expected", <<Await(C)>>, <<>>, <<Do("sleep"), Do("throw")>>, <<>>)}
=============================================================================
