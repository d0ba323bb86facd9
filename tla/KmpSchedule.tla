----------------------------- MODULE KmpSchedule -----------------------------
(***************************************************************************)
(* Static loop scheduling of the OpenMP runtime:                           *)
(* __kmpc_for_static_init_4 (omp/kmp.c) computes, for the thread that      *)
(* calls it, which part of the loop it executes.                           *)
(*                                                                         *)
(* A loop is a record: lower and upper (inclusive) bound, incr, the kind   *)
(* of schedule with its chunk size, and the number nb of threads of the    *)
(* team.  The operators Static and Chunked are the two branches of the     *)
(* function for thread t.  Around them the module models a team that       *)
(* executes one loop the way the compiled loop does: each thread executes  *)
(* the part [lower, upper], clipped to the loop's upper bound, and, in a   *)
(* chunked schedule, moves the part by the stride until it leaves the      *)
(* loop.                                                                   *)
(***************************************************************************)
EXTENDS Integers

CONSTANTS
    Loops,       \* the loops of the program
    MaxThreads   \* bound: the largest team

ASSUME MaxThreadsAssumption == MaxThreads \in Nat

ASSUME LoopsAssumption ==
    \A l \in Loops :
        /\ l.nb \in 1 .. MaxThreads
        /\ l.incr \in Nat \ {0} /\ l.chunk \in Nat \ {0}
        /\ l.lower \in Int /\ l.upper \in Nat /\ l.lower <= l.upper
        /\ l.sched \in {"static", "static_chunked"}

VARIABLES
    loop,     \* the loop that is executed
    part,     \* part[t]: what static_init has told thread t
    where,    \* where[t]: "init", "run" or "done"
    count     \* history: count[i], how often iteration i has been executed

vars == <<loop, part, where, count>>

loopSize(l) == (l.upper - l.lower) \div l.incr + 1
Iterations(l) == {l.lower + k * l.incr : k \in 0 .. loopSize(l) - 1}

\* kmp_sch_static_chunked
Chunked(l, t) ==
    LET span == l.incr * l.chunk
        plower == l.lower + span * t
        pstride == span * l.nb
        beginLastChunk == l.upper - (l.upper % span)
    IN  [lower |-> plower, upper |-> plower + span - l.incr, stride |-> pstride,
         last |-> (beginLastChunk - plower) % pstride = 0]

\* kmp_sch_static: the threads before leftOver take one iteration more.
baseChunk(l) == loopSize(l) \div l.nb
leftOver(l) == loopSize(l) - baseChunk(l) * l.nb
chunkOf(l, t) == IF t < leftOver(l) THEN baseChunk(l) + 1 ELSE baseChunk(l)

\* As StaticLower, but the left-over iterations are not skipped.
StaticLowerNoLeftOver(l, t) == l.lower + t * chunkOf(l, t) * l.incr

StaticLower(l, t) ==
    l.lower + t * chunkOf(l, t) * l.incr
        + (IF t < leftOver(l) THEN 0 ELSE leftOver(l))

StaticUpper(l, t) ==
    StaticLower(l, t) + chunkOf(l, t) * l.incr - l.incr

\* As Static, but the flag does not ask whether the part is empty.
StaticLastOfEmpty(l, t) ==
    [lower |-> StaticLower(l, t), upper |-> StaticUpper(l, t), stride |-> loopSize(l),
     last |-> StaticUpper(l, t) = l.upper]

Static(l, t) ==
    LET plower == StaticLower(l, t)
        pupper == StaticUpper(l, t)
    IN  [lower |-> plower, upper |-> pupper, stride |-> loopSize(l),
         last |-> pupper = l.upper /\ plower <= l.upper]

-----------------------------------------------------------------------------
Threads == 0 .. loop.nb - 1
NoPart == [lower |-> 0, upper |-> -1, stride |-> 0, last |-> FALSE]

Init ==
    /\ loop \in Loops
    /\ part = [t \in Threads |-> NoPart]
    /\ where = [t \in Threads |-> "init"]
    /\ count = [i \in Iterations(loop) |-> 0]

\* Thread t calls __kmpc_for_static_init_4.
StaticInit(t) ==
    /\ where[t] = "init"
    /\ part' = [part EXCEPT ![t] =
                  IF loop.sched = "static_chunked" THEN Chunked(loop, t)
                  ELSE Static(loop, t)]
    /\ where' = [where EXCEPT ![t] = "run"]
    /\ UNCHANGED <<loop, count>>

InPart(p, i) ==
    /\ p.lower <= i /\ i <= p.upper /\ i <= loop.upper
    /\ (i - p.lower) % loop.incr = 0

\* The compiled loop of thread t executes its part.
Execute(t) ==
    /\ where[t] = "run"
    /\ count' = [i \in DOMAIN count |->
                   count[i] + (IF InPart(part[t], i) THEN 1 ELSE 0)]
    /\ LET next == part[t].lower + part[t].stride
       IN  IF loop.sched = "static_chunked" /\ next <= loop.upper
           THEN /\ part' = [part EXCEPT ![t].lower = next,
                                        ![t].upper = @ + part[t].stride]
                /\ UNCHANGED where
           ELSE /\ where' = [where EXCEPT ![t] = "done"]
                /\ UNCHANGED part
    /\ UNCHANGED loop

AllDone == \A t \in Threads : where[t] = "done"

Finished == AllDone /\ UNCHANGED vars

Next == Finished \/ \E t \in Threads : StaticInit(t) \/ Execute(t)

Spec == Init /\ [][Next]_vars

-----------------------------------------------------------------------------
\* The parts of the threads are the loop: when the team is through, every
\* iteration has been executed by exactly one thread, also when there are
\* fewer iterations than threads or the last chunk is cut short.
EachIterationOnce ==
    /\ \A i \in DOMAIN count : count[i] <= 1
    /\ AllDone => \A i \in DOMAIN count : count[i] = 1

\* The "last iteration" flag, which decides whose value a lastprivate variable
\* keeps, is set for exactly one thread, the one that executes that iteration.
LastFlagRight ==
    AllDone => \E t \in Threads :
                   /\ {u \in Threads : part[u].last} = {t}
                   /\ InPart(part[t], loop.upper)
=============================================================================
