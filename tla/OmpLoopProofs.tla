---------------------------- MODULE OmpLoopProofs ----------------------------
(***************************************************************************)
(* Proofs about the static schedule of normalised loops (incr = 1), for    *)
(* any bounds and any size of the team, and about programs of parallel     *)
(* loops, for any number of cores: the arguments arrive, and, for the      *)
(* numbers of arguments whose case ends in a break, the fork calls the     *)
(* microtask once in each thread and each iteration of a loop is executed  *)
(* once before the region returns.                                         *)
(***************************************************************************)
EXTENDS OmpLoop, TLAPS

-----------------------------------------------------------------------------
(* The static schedule. *)

\* Division with remainder, on which leftOver rests.
LEMMA DivisionFacts ==
  ASSUME NEW n \in Nat, NEW m \in Nat \ {0}
  PROVE  /\ n \div m \in Nat
         /\ n - (n \div m) * m \in Nat
         /\ n - (n \div m) * m < m
BY SMT

\* Distributing a product over the successor, for the nonlinear steps below.
LEMMA TimesSucc ==
  ASSUME NEW q \in Nat, NEW t \in Nat
  PROVE  /\ t * q \in Nat
         /\ t * (q + 1) = t * q + t
         /\ (t + 1) * q = t * q + q
BY SMT

\* Multiplication by a chunk size is monotonic in the thread number.
LEMMA TimesMonotonic ==
  ASSUME NEW q \in Nat, NEW t \in Nat, NEW u \in Nat, t <= u
  PROVE  t * q <= u * q
<1>1. PICK d \in Nat : u = t + d
  <2>1. u - t \in Nat /\ u = t + (u - t)
    OBVIOUS
  <2> QED
    BY <2>1
<1>2. u * q = t * q + d * q
  BY <1>1, SMT
<1>3. d * q \in Nat /\ t * q \in Nat
  BY TimesSucc
<1> QED
  BY <1>2, <1>3

\* The types of the quantities that static_init computes.
LEMMA LoopFacts ==
  ASSUME NEW l \in Loops, l.incr = 1
  PROVE  /\ l.lower \in Int /\ l.upper \in Int /\ l.nb \in Nat \ {0}
         /\ loopSize(l) \in Nat
         /\ l.upper = l.lower + loopSize(l) - 1
         /\ baseChunk(l) \in Nat
         /\ leftOver(l) \in Nat /\ leftOver(l) < l.nb
         /\ loopSize(l) = l.nb * baseChunk(l) + leftOver(l)
<1>1. /\ l.lower \in Int /\ l.upper \in Int /\ l.lower <= l.upper
      /\ l.nb \in Nat \ {0}
  BY LoopsAssumption, MaxThreadsAssumption
<1>2. loopSize(l) = l.upper - l.lower + 1
  <2>1. (l.upper - l.lower) \div 1 = l.upper - l.lower
    BY <1>1
  <2> QED
    BY <2>1 DEF loopSize
<1>3. loopSize(l) \in Nat
  BY <1>1, <1>2
<1>4. /\ baseChunk(l) \in Nat
      /\ leftOver(l) \in Nat
      /\ leftOver(l) < l.nb
  BY <1>1, <1>3, DivisionFacts DEF baseChunk, leftOver
<1>5. baseChunk(l) * l.nb = l.nb * baseChunk(l) /\ l.nb * baseChunk(l) \in Nat
  BY <1>1, <1>4, SMT
<1>6. loopSize(l) = l.nb * baseChunk(l) + leftOver(l)
  BY <1>3, <1>5 DEF leftOver
<1> QED
  BY <1>1, <1>2, <1>3, <1>4, <1>6

\* Where the part of thread t starts and ends: the threads before leftOver
\* have taken one iteration more each.
LEMMA PartFacts ==
  ASSUME NEW l \in Loops, l.incr = 1, NEW t \in 0 .. l.nb - 1
  PROVE  LET q == baseChunk(l)  r == leftOver(l)
         IN  /\ t < r =>
                   /\ StaticLower(l, t) = l.lower + t * q + t
                   /\ StaticUpper(l, t) = l.lower + t * q + t + q
             /\ t >= r =>
                   /\ StaticLower(l, t) = l.lower + t * q + r
                   /\ StaticUpper(l, t) = l.lower + t * q + r + q - 1
<1> DEFINE q == baseChunk(l)
           r == leftOver(l)
<1>1. /\ l.lower \in Int /\ q \in Nat /\ r \in Nat /\ t \in Nat
      /\ t * q \in Nat /\ t * (q + 1) = t * q + t /\ t * (q + 1) \in Nat
  BY LoopFacts, TimesSucc
<1>2. CASE t < r
  <2>1. chunkOf(l, t) = q + 1
    BY <1>2 DEF chunkOf
  <2>2. t * chunkOf(l, t) * l.incr = t * q + t
    BY <1>1, <2>1
  <2>3. StaticLower(l, t) = l.lower + t * q + t
    BY <1>1, <1>2, <2>2 DEF StaticLower
  <2>4. StaticUpper(l, t) = StaticLower(l, t) + (q + 1) * 1 - 1
    BY <2>1 DEF StaticUpper
  <2> HIDE DEF q, r
  <2> QED
    BY <1>1, <1>2, <2>3, <2>4 DEF q, r
<1>3. CASE t >= r
  <2>1. ~(t < r) /\ chunkOf(l, t) = q
    BY <1>1, <1>3 DEF chunkOf
  <2>2. t * chunkOf(l, t) * l.incr = t * q
    BY <1>1, <2>1
  <2>3. StaticLower(l, t) = l.lower + t * q + r
    BY <1>1, <2>1, <2>2 DEF StaticLower
  <2>4. StaticUpper(l, t) = StaticLower(l, t) + q * 1 - 1
    BY <2>1 DEF StaticUpper
  <2> QED
    BY <1>1, <1>3, <2>3, <2>4
<1> QED
  BY <1>1, <1>2, <1>3

-----------------------------------------------------------------------------
(***************************************************************************)
(* No iteration is executed twice: the part of a thread ends before the    *)
(* part of a later thread begins (kmp_sch_static).                         *)
(***************************************************************************)
THEOREM StaticPartsDisjoint ==
  ASSUME NEW l \in Loops, l.incr = 1,
         NEW t \in 0 .. l.nb - 1, NEW u \in 0 .. l.nb - 1, t < u
  PROVE  StaticUpper(l, t) < StaticLower(l, u)
<1> DEFINE q == baseChunk(l)
           r == leftOver(l)
<1>1. /\ l.lower \in Int /\ q \in Nat /\ r \in Nat /\ t \in Nat /\ u \in Nat
      /\ t * q \in Nat /\ u * q \in Nat
  BY LoopFacts, TimesSucc
<1>2. t * q + q <= u * q
  <2>1. (t + 1) * q <= u * q
    BY <1>1, TimesMonotonic
  <2> QED
    BY <1>1, <2>1, TimesSucc
<1>3. /\ t < r => StaticUpper(l, t) = l.lower + t * q + t + q
      /\ t >= r => StaticUpper(l, t) = l.lower + t * q + r + q - 1
  BY PartFacts
<1>4. /\ u < r => StaticLower(l, u) = l.lower + u * q + u
      /\ u >= r => StaticLower(l, u) = l.lower + u * q + r
  BY PartFacts
<1> HIDE DEF q, r
<1> QED
  BY <1>1, <1>2, <1>3, <1>4

(***************************************************************************)
(* No iteration is left out: every iteration of the loop lies in the part  *)
(* of some thread of the team (kmp_sch_static).                            *)
(***************************************************************************)
THEOREM StaticPartsCover ==
  ASSUME NEW l \in Loops, l.incr = 1, NEW i \in l.lower .. l.upper
  PROVE  \E t \in 0 .. l.nb - 1 : StaticLower(l, t) <= i /\ i <= StaticUpper(l, t)
<1> DEFINE q == baseChunk(l)
           r == leftOver(l)
           k == i - l.lower
           full == r * (q + 1)
<1>1. /\ l.lower \in Int /\ q \in Nat /\ r \in Nat /\ r < l.nb
      /\ l.nb \in Nat \ {0} /\ k \in Nat
      /\ k < l.nb * q + r
  BY LoopFacts
<1>2. full = r * q + r /\ r * q \in Nat
  BY <1>1, TimesSucc
<1>3. CASE k < full
  <2> DEFINE t == k \div (q + 1)
  <2>1. /\ t \in Nat
        /\ k - t * (q + 1) \in Nat /\ k - t * (q + 1) < q + 1
    <3>1. q + 1 \in Nat \ {0} /\ k \in Nat
      BY <1>1
    <3> HIDE DEF q, k
    <3> QED
      BY <3>1, DivisionFacts
  <2>2. t < r
    <3>1. ~(r <= t)
      <4>1. r <= t => r * (q + 1) <= t * (q + 1)
        BY <1>1, <2>1, TimesMonotonic
      <4> QED
        BY <4>1, <2>1, <1>1, <1>2, <1>3, TimesSucc
    <3> QED
      BY <3>1, <2>1, <1>1
  <2>3. t \in 0 .. l.nb - 1
    BY <1>1, <2>1, <2>2
  <2>4. /\ StaticLower(l, t) = l.lower + t * q + t
        /\ StaticUpper(l, t) = l.lower + t * q + t + q
    BY <2>2, <2>3, PartFacts
  <2>5. t * (q + 1) = t * q + t /\ t * q \in Nat
    BY <1>1, <2>1, TimesSucc
  <2>6. StaticLower(l, t) <= i /\ i <= StaticUpper(l, t)
    <3> HIDE DEF t, q, r
    <3> QED
      BY <1>1, <2>1, <2>4, <2>5
  <2> QED
    BY <2>3, <2>6
<1>4. CASE k >= full
  <2> DEFINE rest == k - full
             m == l.nb - r
             s == rest \div q
             t == r + s
  <2>1. rest \in Nat /\ m \in Nat \ {0}
    BY <1>1, <1>2, <1>4
  <2>2. rest < m * q
    <3>1. l.nb * q = m * q + r * q
      BY <1>1, SMT
    <3>2. m * q \in Nat
      BY <1>1, <2>1, TimesSucc
    <3> HIDE DEF q, r, m
    <3> QED
      BY <1>1, <1>2, <1>4, <3>1, <3>2, TimesSucc
  <2>3. q # 0
    BY <1>1, <2>1, <2>2
  <2>4. /\ s \in Nat
        /\ rest - s * q \in Nat /\ rest - s * q < q
    BY <1>1, <2>1, <2>3, DivisionFacts
  <2>5. s < m
    <3>1. ~(m <= s)
      <4>1. m <= s => m * q <= s * q
        BY <1>1, <2>1, <2>4, TimesMonotonic
      <4>2. m * q \in Nat /\ s * q \in Nat
        BY <1>1, <2>1, <2>4, TimesSucc
      <4> HIDE DEF m, s, rest
      <4> QED
        BY <4>1, <4>2, <2>1, <2>2, <2>4
    <3> QED
      BY <3>1, <2>1, <2>4
  <2>6. t \in 0 .. l.nb - 1 /\ t >= r
    BY <1>1, <2>4, <2>5
  <2>7. /\ StaticLower(l, t) = l.lower + t * q + r
        /\ StaticUpper(l, t) = l.lower + t * q + r + q - 1
    BY <2>6, PartFacts
  <2>8. t * q = r * q + s * q /\ s * q \in Nat
    BY <1>1, <2>4, SMT
  <2>9. k = r * q + r + rest
    BY <1>1, <1>2, <2>1
  <2>10. StaticLower(l, t) <= i /\ i <= StaticUpper(l, t)
    <3> HIDE DEF t, s, rest, q, r
    <3> QED
      BY <1>1, <1>2, <2>1, <2>3, <2>4, <2>7, <2>8, <2>9
  <2> QED
    BY <2>6, <2>10
<1> QED
  BY <1>1, <1>2, <1>3, <1>4

(***************************************************************************)
(* No part reaches beyond the loop: a thread executes only iterations of   *)
(* the loop (kmp_sch_static).                                              *)
(***************************************************************************)
THEOREM StaticPartsInside ==
  ASSUME NEW l \in Loops, l.incr = 1, NEW t \in 0 .. l.nb - 1
  PROVE  l.lower <= StaticLower(l, t) /\ StaticUpper(l, t) <= l.upper
<1> DEFINE q == baseChunk(l)
           r == leftOver(l)
<1>1. /\ l.lower \in Int /\ l.upper \in Int /\ l.nb \in Nat \ {0}
      /\ q \in Nat /\ r \in Nat /\ r < l.nb /\ t \in Nat
      /\ l.upper = l.lower + (l.nb * q + r) - 1
      /\ t * q \in Nat /\ l.nb * q \in Nat
  BY LoopFacts, TimesSucc
<1>2. t * q + q <= l.nb * q
  <2>1. (t + 1) * q <= l.nb * q
    BY <1>1, TimesMonotonic
  <2> QED
    BY <1>1, <2>1, TimesSucc
<1>3. /\ t < r =>
            /\ StaticLower(l, t) = l.lower + t * q + t
            /\ StaticUpper(l, t) = l.lower + t * q + t + q
      /\ t >= r =>
            /\ StaticLower(l, t) = l.lower + t * q + r
            /\ StaticUpper(l, t) = l.lower + t * q + r + q - 1
  BY PartFacts
<1> HIDE DEF q, r
<1> QED
  BY <1>1, <1>2, <1>3

-----------------------------------------------------------------------------
\* The program has only loops in steps of 1 without a chunk size.
OnlyStatic == \A l \in Loops : l.incr = 1 /\ l.sched = "static"

\* Thread t is through with a part that holds iteration i.
DidIt(t, i) == where[t] = "done" /\ InPart(Static(loop, t), i)

\* The inductive invariant: a thread past static_init holds its part, and an
\* iteration has been executed once if a thread whose part it is in is through.
SInv ==
    /\ loop \in Loops
    /\ where \in [Threads -> {"init", "run", "done"}]
    /\ DOMAIN part = Threads
    /\ \A t \in Threads : where[t] # "init" => part[t] = Static(loop, t)
    /\ DOMAIN count = Iterations(loop)
    /\ \A i \in Iterations(loop) :
          count[i] = IF \E t \in Threads : DidIt(t, i) THEN 1 ELSE 0

LEMMA IterationsRange ==
  ASSUME NEW l \in Loops, l.incr = 1
  PROVE  Iterations(l) = l.lower .. l.upper
<1>1. /\ l.lower \in Int /\ l.upper \in Int /\ loopSize(l) \in Nat
      /\ l.upper = l.lower + loopSize(l) - 1
  BY LoopFacts
<1>2. ASSUME NEW i \in l.lower .. l.upper PROVE i \in Iterations(l)
  <2>1. i - l.lower \in 0 .. loopSize(l) - 1 /\ i = l.lower + (i - l.lower) * l.incr
    BY <1>1
  <2> QED
    BY <2>1 DEF Iterations
<1>3. ASSUME NEW i \in Iterations(l) PROVE i \in l.lower .. l.upper
  <2>1. PICK n \in 0 .. loopSize(l) - 1 : i = l.lower + n * l.incr
    BY DEF Iterations
  <2> QED
    BY <1>1, <2>1
<1> QED
  BY <1>2, <1>3

\* The bounds of a part are integers.
LEMMA PartTypes ==
  ASSUME NEW t \in Threads, loop \in Loops, loop.incr = 1
  PROVE  StaticLower(loop, t) \in Int /\ StaticUpper(loop, t) \in Int
<1>1. /\ loop.lower \in Int /\ loop.nb \in Nat \ {0}
      /\ baseChunk(loop) \in Nat /\ leftOver(loop) \in Nat
  BY LoopFacts
<1>2. t \in Nat /\ t \in 0 .. loop.nb - 1
  BY <1>1 DEF Threads
<1>3. t * baseChunk(loop) \in Nat
  BY <1>1, <1>2, TimesSucc
<1> QED
  BY <1>1, <1>2, <1>3, PartFacts

\* Inside the loop, being in a thread's part is lying between its bounds.
LEMMA InPartStatic ==
  ASSUME NEW t \in Threads, NEW i \in Iterations(loop),
         loop \in Loops, loop.incr = 1
  PROVE  InPart(Static(loop, t), i)
             <=> StaticLower(loop, t) <= i /\ i <= StaticUpper(loop, t)
<1>1. i \in Int /\ i <= loop.upper
  BY IterationsRange, LoopFacts
<1>2. StaticLower(loop, t) \in Int
  BY PartTypes
<1>3. (i - StaticLower(loop, t)) % 1 = 0
  BY <1>1, <1>2
<1> QED
  BY <1>1, <1>3 DEF InPart, Static

\* Two threads are never in charge of the same iteration.
LEMMA OneThread ==
  ASSUME NEW t \in Threads, NEW u \in Threads, NEW i \in Iterations(loop),
         loop \in Loops, loop.incr = 1,
         InPart(Static(loop, t), i), InPart(Static(loop, u), i)
  PROVE  t = u
<1>1. /\ StaticLower(loop, t) <= i /\ i <= StaticUpper(loop, t)
      /\ StaticLower(loop, u) <= i /\ i <= StaticUpper(loop, u)
  BY InPartStatic
<1>2. /\ i \in Int /\ loop.nb \in Nat
      /\ t \in 0 .. loop.nb - 1 /\ u \in 0 .. loop.nb - 1
  <2>1. loop.lower \in Int /\ loop.upper \in Int /\ loop.nb \in Nat
    BY LoopFacts
  <2>2. i \in loop.lower .. loop.upper
    BY IterationsRange
  <2> QED
    BY <2>1, <2>2 DEF Threads
<1>3. ASSUME NEW a \in Threads, NEW b \in Threads,
             StaticUpper(loop, a) < StaticLower(loop, b)
      PROVE  ~(i <= StaticUpper(loop, a) /\ StaticLower(loop, b) <= i)
  <2>1. StaticUpper(loop, a) \in Int /\ StaticLower(loop, b) \in Int
    BY PartTypes
  <2> QED
    BY <1>2, <1>3, <2>1
<1>4. ~(t < u)
  BY <1>1, <1>2, <1>3, StaticPartsDisjoint
<1>5. ~(u < t)
  BY <1>1, <1>2, <1>3, StaticPartsDisjoint
<1> QED
  BY <1>2, <1>4, <1>5

LEMMA InitSInv == OnlyStatic /\ Init => SInv
<1> SUFFICES ASSUME OnlyStatic, Init PROVE SInv
  OBVIOUS
<1>1. \A t \in Threads : where[t] = "init"
  BY DEF Init
<1>2. \A i \in Iterations(loop) : ~ \E t \in Threads : DidIt(t, i)
  BY <1>1 DEF DidIt
<1> QED
  BY <1>1, <1>2 DEF Init, SInv

LEMMA StepSInv == OnlyStatic /\ SInv /\ [Next]_vars => SInv'
<1> SUFFICES ASSUME OnlyStatic, SInv, [Next]_vars PROVE SInv'
  OBVIOUS
<1>1. loop.incr = 1 /\ loop.sched = "static" /\ loop \in Loops
  BY DEF OnlyStatic, SInv
<1>2. ASSUME NEW t \in Threads, StaticInit(t) PROVE SInv'
  <2>1. loop' = loop /\ Threads' = Threads /\ count' = count
    BY <1>2 DEF StaticInit, Threads
  <2>2. where' = [where EXCEPT ![t] = "run"] /\ where[t] = "init"
    BY <1>2 DEF StaticInit
  <2>3. part' = [part EXCEPT ![t] = Static(loop, t)]
    BY <1>1, <1>2 DEF StaticInit
  <2>4. \A u \in Threads, i \in Iterations(loop) : DidIt(u, i)' <=> DidIt(u, i)
    BY <2>1, <2>2 DEF DidIt, SInv, InPart, Static, StaticLower, StaticUpper
  <2>5. \A u \in Threads : where'[u] # "init" => part'[u] = Static(loop, u)
    BY <2>2, <2>3 DEF SInv
  <2>6. where' \in [Threads -> {"init", "run", "done"}] /\ DOMAIN part' = Threads
    BY <2>2, <2>3 DEF SInv
  <2>7. \A u \in Threads : Static(loop, u)' = Static(loop, u)
    BY <2>1
  <2> QED
    BY <2>1, <2>4, <2>5, <2>6, <2>7 DEF SInv
<1>3. ASSUME NEW t \in Threads, Execute(t) PROVE SInv'
  <2>1. loop' = loop /\ Threads' = Threads /\ part' = part
    BY <1>1, <1>3 DEF Execute, Threads
  <2>2. where' = [where EXCEPT ![t] = "done"] /\ where[t] = "run"
    BY <1>1, <1>3 DEF Execute
  <2>3. part[t] = Static(loop, t)
    BY <2>2 DEF SInv
  <2>4. count' = [i \in Iterations(loop) |->
                    count[i] + (IF InPart(Static(loop, t), i) THEN 1 ELSE 0)]
    BY <1>3, <2>3 DEF Execute, SInv
  <2>5. \A u \in Threads, i \in Iterations(loop) :
           DidIt(u, i)' <=> DidIt(u, i) \/ (u = t /\ InPart(Static(loop, t), i))
    BY <2>1, <2>2 DEF DidIt, SInv, InPart
  <2>6. ASSUME NEW i \in Iterations(loop), InPart(Static(loop, t), i)
        PROVE  ~ \E u \in Threads : DidIt(u, i)
    BY <1>1, <2>2, <2>6, OneThread DEF DidIt
  <2>7. \A i \in Iterations(loop) :
           count'[i] = IF \E u \in Threads : DidIt(u, i)' THEN 1 ELSE 0
    <3> TAKE i \in Iterations(loop)
    <3>1. CASE InPart(Static(loop, t), i)
      <4>1. count[i] = 0
        BY <2>6, <3>1 DEF SInv
      <4>2. DidIt(t, i)'
        BY <2>5, <3>1
      <4> QED
        BY <2>4, <3>1, <4>1, <4>2
    <3>2. CASE ~InPart(Static(loop, t), i)
      <4>1. count[i] \in {0, 1} /\ count'[i] = count[i]
        BY <2>4, <3>2 DEF SInv
      <4>2. (\E u \in Threads : DidIt(u, i)') <=> (\E u \in Threads : DidIt(u, i))
        BY <2>5, <3>2
      <4> QED
        BY <4>1, <4>2 DEF SInv
    <3> QED
      BY <3>1, <3>2
  <2>8. where' \in [Threads -> {"init", "run", "done"}]
    BY <2>2 DEF SInv
  <2>9. \A u \in Threads : where'[u] # "init" => part'[u] = Static(loop, u)
    BY <2>1, <2>2, <2>3 DEF SInv
  <2>10. \A u \in Threads : Static(loop, u)' = Static(loop, u)
    BY <2>1
  <2>11. DOMAIN count' = Iterations(loop) /\ Iterations(loop)' = Iterations(loop)
    BY <2>1, <2>4
  <2> QED
    BY <2>1, <2>7, <2>8, <2>9, <2>10, <2>11 DEF SInv
<1>4. CASE UNCHANGED vars
  BY <1>4 DEF vars, SInv, Threads, DidIt, InPart
<1> QED
  BY <1>2, <1>3, <1>4 DEF Next, Finished

LEMMA SInvSuffices == OnlyStatic /\ SInv => EachIterationOnce
<1> SUFFICES ASSUME OnlyStatic, SInv PROVE EachIterationOnce
  OBVIOUS
<1>1. loop \in Loops /\ loop.incr = 1 /\ DOMAIN count = Iterations(loop)
  BY DEF OnlyStatic, SInv
<1>2. \A i \in Iterations(loop) : count[i] \in {0, 1}
  BY DEF SInv
<1>3. ASSUME AllDone, NEW i \in Iterations(loop) PROVE count[i] = 1
  <2>1. i \in loop.lower .. loop.upper
    BY <1>1, IterationsRange
  <2>2. PICK t \in Threads :
           StaticLower(loop, t) <= i /\ i <= StaticUpper(loop, t)
    BY <1>1, <2>1, StaticPartsCover DEF Threads
  <2>3. DidIt(t, i)
    BY <1>1, <1>3, <2>2, InPartStatic DEF DidIt, AllDone
  <2> QED
    BY <2>3 DEF SInv
<1> QED
  BY <1>1, <1>2, <1>3 DEF EachIterationOnce

(***************************************************************************)
(* A team that executes loops in steps of 1 with the schedule of           *)
(* kmp_sch_static executes every iteration exactly once, for any bounds    *)
(* and any number of threads.                                              *)
(***************************************************************************)
THEOREM StaticExecutesOnce ==
  ASSUME OnlyStatic
  PROVE  Spec => []EachIterationOnce
<1>1. Init => SInv
  BY InitSInv
<1>2. SInv /\ [Next]_vars => SInv'
  BY StepSInv
<1>3. SInv => EachIterationOnce
  BY SInvSuffices
<1> QED
  BY <1>1, <1>2, <1>3, PTL DEF Spec

\* The last iteration is in the part of exactly one thread, which ends there.
LEMMA LastPart == OnlyStatic /\ SInv => LastFlagRight
<1> SUFFICES ASSUME OnlyStatic, SInv, AllDone
             PROVE  \E t \in Threads : /\ {u \in Threads : part[u].last} = {t}
                                       /\ InPart(part[t], loop.upper)
  BY DEF LastFlagRight
<1>1. loop \in Loops /\ loop.incr = 1
  BY DEF OnlyStatic, SInv
<1>2. \A u \in Threads : part[u] = Static(loop, u)
  BY DEF SInv, AllDone
<1>3. \A u \in Threads :
         Static(loop, u).last = (StaticUpper(loop, u) = loop.upper /\ StaticLower(loop, u) <= loop.upper)
  BY Zenon DEF Static
<1>4. /\ loop.upper \in loop.lower .. loop.upper
      /\ loop.upper \in Iterations(loop) /\ loop.upper \in Int
  <2>1. loop.lower \in Int /\ loop.upper \in Int /\ loop.lower <= loop.upper
    BY <1>1, LoopsAssumption
  <2> QED
    BY <1>1, <2>1, IterationsRange
<1>5. PICK t \in Threads : StaticLower(loop, t) <= loop.upper /\ loop.upper <= StaticUpper(loop, t)
  BY <1>1, <1>4, StaticPartsCover DEF Threads
<1>6. InPart(Static(loop, t), loop.upper)
  BY <1>1, <1>4, <1>5, InPartStatic
<1>7. StaticUpper(loop, t) = loop.upper
  <2>1. StaticUpper(loop, t) <= loop.upper
    BY <1>1, StaticPartsInside DEF Threads
  <2>2. StaticUpper(loop, t) \in Int
    BY <1>1, PartTypes
  <2> QED
    BY <1>4, <1>5, <2>1, <2>2
<1>8. part[t].last = TRUE
  BY <1>2, <1>5, <1>7, <1>3
<1>9. ASSUME NEW u \in Threads, part[u].last PROVE u = t
  <2>1. StaticUpper(loop, u) = loop.upper /\ StaticLower(loop, u) <= loop.upper
    BY <1>2, <1>9, <1>3
  <2>2. InPart(Static(loop, u), loop.upper)
    BY <1>1, <1>4, <2>1, InPartStatic
  <2> QED
    BY <1>1, <1>4, <1>6, <2>2, OneThread
<1> QED
  BY <1>2, <1>6, <1>8, <1>9

(***************************************************************************)
(* The "last iteration" flag is set for exactly one thread of such a team, *)
(* the one whose part holds the last iteration.                            *)
(***************************************************************************)
THEOREM StaticLastFlag ==
  ASSUME OnlyStatic
  PROVE  Spec => []LastFlagRight
<1>1. Init => SInv
  BY InitSInv
<1>2. SInv /\ [Next]_vars => SInv'
  BY StepSInv
<1>3. SInv => LastFlagRight
  BY LastPart
<1> QED
  BY <1>1, <1>2, <1>3, PTL DEF Spec

-----------------------------------------------------------------------------
(* The fork and its argument area. *)

ForkPositions ==
    /\ mpc \in {"idle", "copy", "region", "push", "join"}
    /\ copied \in Nat /\ argc \in Argcs \cup {0}
    /\ DOMAIN mem = Fork!Words
    /\ busy \subseteq Fork!Cores
    /\ mpc # "join" => busy = {}

\* The words that have been copied are those of this fork.
WordsCopied ==
    /\ mpc = "copy" => copied <= argc /\ \A i \in 0 .. copied - 1 : mem[i] = tag
    /\ mpc \in {"region", "push", "join"} => \A i \in 0 .. argc : mem[i] = tag

AInv == ForkPositions /\ WordsCopied

LEMMA ArgcFacts == Argcs \cup {0} \subseteq 0 .. 12
BY ArgcsAssumption

LEMMA InitAInv == LoopInit => AInv
BY DEF LoopInit, Fork!Init, AInv, ForkPositions, WordsCopied

LEMMA StepAInv ==
  ASSUME 12 \notin Argcs, AInv, [LoopNext]_loopVars
  PROVE  AInv'
<1> USE DEF AInv
<1>1. CASE Fork!Call
  BY <1>1, ArgcFacts DEF Fork!Call, ForkPositions, WordsCopied
<1>2. CASE Fork!Copy
  <2>1. copied \in Fork!Words /\ copied <= argc /\ argc \in Nat
    BY <1>2, ArgcFacts DEF Fork!Copy, ForkPositions, WordsCopied, Fork!Words, Fork!KMP_FORK_MAX_NARGS
  <2>2. /\ mem' = [mem EXCEPT ![copied] = tag] /\ tag' = tag /\ argc' = argc
        /\ copied' = copied + 1 /\ busy' = busy /\ busy = {}
        /\ mpc' = IF copied = argc THEN "region" ELSE "copy"
    BY <1>2 DEF Fork!Copy, ForkPositions
  <2>3. \A i \in 0 .. copied : mem'[i] = tag'
    <3> TAKE i \in 0 .. copied
    <3>1. i \in Fork!Words
      BY <2>1 DEF Fork!Words, Fork!KMP_FORK_MAX_NARGS
    <3>2. i # copied => i \in 0 .. copied - 1
      BY <2>1 DEF Fork!Words, Fork!KMP_FORK_MAX_NARGS
    <3> QED
      BY <1>2, <2>1, <2>2, <3>1, <3>2 DEF Fork!Copy, ForkPositions, WordsCopied
  <2>4. ForkPositions'
    BY <2>1, <2>2 DEF ForkPositions
  <2>5. WordsCopied'
    BY <2>1, <2>2, <2>3 DEF WordsCopied, ForkPositions
  <2> QED
    BY <2>4, <2>5
<1>3. CASE Fork!Region
  <2>1. argc \in 0 .. 11
    BY ArgcFacts DEF ForkPositions
  <2>2. \A i \in 0 .. argc : i \in Fork!Words /\ i # 12
    BY <2>1 DEF Fork!Words, Fork!KMP_FORK_MAX_NARGS
  <2> QED
    BY <1>3, <2>2 DEF Fork!Region, ForkPositions, WordsCopied, Fork!KMP_FORK_MAX_NARGS
<1>4. CASE Fork!Dispatch
  BY <1>4 DEF Fork!Dispatch, ForkPositions, WordsCopied
<1>5. CASE Fork!Join
  BY <1>5 DEF Fork!Join, ForkPositions, WordsCopied
<1>6. ASSUME NEW c \in Threads, Fork!Microtask(c) PROVE AInv'
  BY <1>6 DEF Fork!Microtask, Fork!fork, ForkPositions, WordsCopied
<1>7. CASE UNCHANGED forkVars
  BY <1>7 DEF forkVars, ForkPositions, WordsCopied
<1> QED
  BY <1>1, <1>2, <1>3, <1>4, <1>5, <1>6, <1>7
     DEF LoopNext, Prepare, Dispatch, Join, Body, Return, loopVars

(***************************************************************************)
(* Whatever earlier regions left in kmpc_args, every core is called with   *)
(* the microtask and the arguments of this fork, for any number of cores   *)
(* and of arguments short of KMP_FORK_MAX_NARGS.                           *)
(***************************************************************************)
THEOREM ArgumentsArrive ==
  ASSUME 12 \notin Argcs
  PROVE  LoopSpec => []ArgsIntact
<1>1. LoopInit => AInv
  BY InitAInv
<1>2. AInv /\ [LoopNext]_loopVars => AInv'
  BY StepAInv
<1>3. AInv => ArgsIntact
  BY DEF AInv, ForkPositions, WordsCopied, ArgsIntact, Fork!ArgsIntact
<1> QED
  BY <1>1, <1>2, <1>3, PTL DEF LoopSpec

-----------------------------------------------------------------------------
(* The threads of a region. *)

\* The numbers of arguments whose case of __microtask_wrapper ends in a break.
AllBreak == \A n \in Argcs : Fork!Breaks(n)

\* A core has called the microtask once, unless it has not returned from the
\* wrapper.
RunsMatch ==
    /\ mpc \in {"idle", "copy", "region", "push", "join"}
    /\ busy \subseteq Fork!Cores
    /\ mpc \in {"copy", "region", "push"} => argc \in Argcs
    /\ mpc = "join" => /\ argc \in Argcs
                       /\ team = MaxThreads
                       /\ case = [c \in Fork!Cores |-> argc]
                       /\ runs = [c \in Fork!Cores |-> IF c \in busy THEN 0 ELSE 1]
    /\ mpc # "join" => /\ busy = {}
                       /\ team = 0
                       /\ runs = [c \in Fork!Cores |-> 0]

LEMMA InitRuns == LoopInit => RunsMatch
BY DEF LoopInit, Fork!Init, RunsMatch

\* What a step does to the event, as ForkJoin sees it.
LEMMA StepRuns ==
  ASSUME AllBreak, RunsMatch, [LoopNext]_loopVars
  PROVE  RunsMatch' /\ (Fork!Abs!Next \/ UNCHANGED <<team, runs>>)
<1>0. MaxThreads \in Nat /\ Fork!Abs!Cores = Fork!Cores
  BY MaxThreadsAssumption DEF Fork!Abs!Cores, Fork!Cores
<1>1. CASE Fork!Call
  BY <1>1 DEF Fork!Call, RunsMatch
<1>2. CASE Fork!Copy
  BY <1>2 DEF Fork!Copy, RunsMatch
<1>3. CASE Fork!Region
  BY <1>3 DEF Fork!Region, RunsMatch
<1>4. CASE Fork!Dispatch
  <2>1. RunsMatch'
    BY <1>4 DEF Fork!Dispatch, RunsMatch
  <2>2. Fork!Abs!Fork(MaxThreads)
    BY <1>0, <1>4 DEF Fork!Dispatch, RunsMatch, Fork!Abs!Fork
  <2> QED
    BY <1>0, <2>1, <2>2 DEF Fork!Abs!Next
<1>5. CASE Fork!Join
  <2>1. RunsMatch'
    BY <1>5 DEF Fork!Join, RunsMatch
  <2>2. Fork!Abs!Join
    BY <1>0, <1>5 DEF Fork!Join, RunsMatch, Fork!Abs!Join, Fork!Cores
  <2> QED
    BY <2>1, <2>2 DEF Fork!Abs!Next
<1>6. ASSUME NEW c \in Threads, Fork!Microtask(c)
      PROVE  RunsMatch' /\ Fork!Abs!Next
  <2>1. mpc = "join" /\ c \in busy /\ c \in Fork!Cores
    BY <1>6 DEF Fork!Microtask, RunsMatch
  <2>2. Fork!Breaks(case[c])
    BY <2>1 DEF RunsMatch, AllBreak
  <2>3. /\ runs' = [runs EXCEPT ![c] = @ + 1] /\ busy' = busy \ {c}
        /\ UNCHANGED <<mpc, argc, case, team>>
    BY <1>6, <2>2 DEF Fork!Microtask, Fork!fork
  <2>4. runs[c] = 0 /\ runs' = [runs EXCEPT ![c] = 1]
    <3>1. runs[c] = 0
      BY <2>1 DEF RunsMatch
    <3>2. runs[c] + 1 = 1
      BY <3>1
    <3> QED
      BY <2>3, <3>1, <3>2, Zenon
  <2>5. RunsMatch'
    BY <2>1, <2>3, <2>4 DEF RunsMatch
  <2>6. Fork!Abs!Run(c)
    BY <1>0, <2>1, <2>3, <2>4 DEF RunsMatch, Fork!Abs!Run, Fork!Cores
  <2> QED
    BY <1>0, <2>1, <2>5, <2>6 DEF Fork!Abs!Next
<1>7. CASE UNCHANGED forkVars
  BY <1>7 DEF forkVars, RunsMatch
<1> QED
  BY <1>1, <1>2, <1>3, <1>4, <1>5, <1>6, <1>7
     DEF LoopNext, Prepare, Dispatch, Join, Body, Return, loopVars

(***************************************************************************)
(* __kmpc_fork_call calls the microtask once in each thread and returns    *)
(* when they are through, for any number of cores and every number of      *)
(* arguments whose case ends in a break.                                   *)
(***************************************************************************)
THEOREM ForkCallsOnce ==
  ASSUME AllBreak
  PROVE  LoopSpec => ImplementsForkJoin
<1>1. LoopInit => RunsMatch /\ Fork!Abs!Init
  BY InitRuns DEF LoopInit, Fork!Init, Fork!Abs!Init, Fork!Cores, Fork!Abs!Cores
<1>2. RunsMatch /\ [LoopNext]_loopVars => RunsMatch'
  BY StepRuns
<1>3. RunsMatch /\ [LoopNext]_loopVars => [Fork!Abs!Next]_(Fork!Abs!vars)
  BY StepRuns DEF Fork!Abs!vars
<1> QED
  BY <1>1, <1>2, <1>3, PTL DEF LoopSpec, ImplementsForkJoin, Fork!ImplementsForkJoin, Fork!Abs!Spec

-----------------------------------------------------------------------------
(* The loop of a region. *)

\* A core that has left the wrapper has executed its part of the loop.
ThroughIsDone ==
    mpc = "join" => \A c \in Fork!Cores \ busy : c \in Threads => where[c] = "done"

LInv == SInv /\ RunsMatch /\ ThroughIsDone

LEMMA InitLInv == OnlyStatic /\ LoopInit => LInv
BY InitSInv, InitRuns DEF LoopInit, Fork!Init, LInv, ThroughIsDone

\* The loop that a dispatch sets up is one from which KmpSchedule may begin.
LEMMA InitSInvNext ==
  ASSUME OnlyStatic
  PROVE  Init' => SInv'
<1>1. Init => SInv
  BY InitSInv
<1> QED
  BY <1>1, PTL

\* A core that returns from the microtask leaves the wrapper.
LEMMA ReturnLeaves ==
  ASSUME AllBreak, RunsMatch, NEW c \in Threads, Return(c)
  PROVE  UNCHANGED vars /\ busy' = busy \ {c} /\ mpc' = mpc
<1>1. mpc = "join" /\ c \in Fork!Cores
  BY DEF Return, Fork!Microtask, RunsMatch
<1>2. Fork!Breaks(case[c])
  BY <1>1 DEF RunsMatch, AllBreak
<1>3. busy' = busy \ {c} /\ mpc' = mpc
  BY <1>2 DEF Return, Fork!Microtask, Fork!fork
<1>4. where' = where
  BY <1>3 DEF Return
<1> QED
  BY <1>3, <1>4 DEF Return, vars

LEMMA StepLInv == AllBreak /\ OnlyStatic /\ LInv /\ [LoopNext]_loopVars => LInv'
<1> SUFFICES ASSUME AllBreak, OnlyStatic, LInv, [LoopNext]_loopVars
             PROVE  SInv' /\ ThroughIsDone'
  BY StepRuns DEF LInv
<1> USE DEF LInv
<1>1. ASSUME UNCHANGED vars PROVE SInv'
  BY <1>1, StepSInv
<1>2. CASE Prepare
  BY <1>1, <1>2 DEF Prepare, Fork!Call, Fork!Copy, Fork!Region, ThroughIsDone
<1>3. CASE Dispatch
  <2>1. Init'
    BY <1>3 DEF Dispatch, Init, Threads
  <2>2. SInv'
    BY <2>1, InitSInvNext
  <2>3. ThroughIsDone'
    BY <1>3 DEF Dispatch, Fork!Dispatch, ThroughIsDone
  <2> QED
    BY <2>2, <2>3
<1>4. CASE Join
  BY <1>1, <1>4 DEF Join, Fork!Join, ThroughIsDone
<1>5. ASSUME NEW c \in Threads, Body(c) PROVE SInv' /\ ThroughIsDone'
  <2>1. SInv'
    BY <1>5, StepSInv DEF Body, Next
  <2>2. Threads' = Threads /\ \A t \in Threads : t # c => where'[t] = where[t]
    BY <1>5 DEF Body, StaticInit, Execute, SInv, Threads
  <2> QED
    BY <1>5, <2>1, <2>2 DEF Body, forkVars, ThroughIsDone
<1>6. ASSUME NEW c \in Threads, Return(c) PROVE SInv' /\ ThroughIsDone'
  <2>1. UNCHANGED vars /\ busy' = busy \ {c} /\ mpc' = mpc
    BY <1>6, ReturnLeaves
  <2>2. SInv' /\ Threads' = Threads /\ where' = where /\ where[c] = "done"
    BY <1>1, <1>6, <2>1 DEF Return, vars, Threads
  <2> QED
    BY <2>1, <2>2 DEF ThroughIsDone
<1>7. CASE UNCHANGED loopVars
  BY <1>1, <1>7 DEF loopVars, vars, forkVars, Threads, ThroughIsDone
<1> QED
  BY <1>2, <1>3, <1>4, <1>5, <1>6, <1>7 DEF LoopNext

(***************************************************************************)
(* When core 0 goes on behind a region, every iteration of its loop has    *)
(* been executed exactly once, for any number of cores, any sequence of    *)
(* normalised static loops and the numbers of arguments whose case of      *)
(* __microtask_wrapper ends in a break.                                    *)
(***************************************************************************)
THEOREM RegionsComplete ==
  ASSUME AllBreak, OnlyStatic
  PROVE  LoopSpec => LoopComplete
<1>1. LoopInit => LInv
  BY InitLInv
<1>2. LInv /\ [LoopNext]_loopVars => LInv'
  BY StepLInv
<1>3. ASSUME LInv, [LoopNext]_loopVars, mpc = "join", mpc' = "idle"
      PROVE  \A i \in DOMAIN count : count[i] = 1
  <2>1. busy = {}
    BY <1>3 DEF LoopNext, loopVars, forkVars, Prepare, Dispatch, Join, Body, Return,
                Fork!Call, Fork!Copy, Fork!Region, Fork!Dispatch, Fork!Join, Fork!Microtask, Fork!fork
  <2>2. Threads \subseteq Fork!Cores
    <3>1. loop \in Loops
      BY <1>3 DEF LInv, SInv
    <3> QED
      BY <3>1, LoopsAssumption, MaxThreadsAssumption DEF Threads, Fork!Cores
  <2>3. AllDone
    BY <1>3, <2>1, <2>2 DEF LInv, ThroughIsDone, AllDone
  <2> QED
    BY <1>3, <2>3, SInvSuffices DEF LInv, EachIterationOnce
<1>4. LInv /\ [LoopNext]_loopVars =>
        [(mpc = "join" /\ mpc' = "idle") => \A i \in DOMAIN count : count[i] = 1]_loopVars
  BY <1>3
<1> QED
  BY <1>1, <1>2, <1>4, PTL DEF LoopSpec, LoopComplete

(***************************************************************************)
(* In every region of such a program no iteration is executed twice, all   *)
(* are executed when the threads are through, and one thread has the       *)
(* last-iteration flag.                                                    *)
(***************************************************************************)
THEOREM RegionsSchedule ==
  ASSUME AllBreak, OnlyStatic
  PROVE  LoopSpec => [](EachIterationOnce /\ LastFlagRight)
<1>1. LoopInit => LInv
  BY InitLInv
<1>2. LInv /\ [LoopNext]_loopVars => LInv'
  BY StepLInv
<1>3. LInv => EachIterationOnce /\ LastFlagRight
  BY SInvSuffices, LastPart DEF LInv
<1> QED
  BY <1>1, <1>2, <1>3, PTL DEF LoopSpec
=============================================================================
