------------------------------ MODULE SwBarrier ------------------------------
(***************************************************************************)
(* snrt_partial_barrier (sw/snRuntime/src/sync.h): the software barrier    *)
(* that __kmpc_barrier and the inter-cluster part of snrt_global_barrier   *)
(* use.  A hart remembers the iteration, counts itself in with an atomic   *)
(* add, and either spins until the iteration changes or, as the n-th one,  *)
(* resets the counter and bumps the iteration.                             *)
(*                                                                         *)
(* Each memory access is one step; pc[h] names the access hart h does      *)
(* next.  The iteration is a 32-bit counter in the code: it wraps at       *)
(* ItMod, which is a parameter here.                                       *)
(***************************************************************************)
EXTENDS Naturals, FiniteSets

CONSTANTS
    Harts,    \* the harts that call the barrier; n = Cardinality(Harts)
    ItMod     \* the iteration counter wraps at this value (2^32 in the code)

ASSUME HartsAssumption == IsFiniteSet(Harts) /\ Harts # {}
ASSUME ItModAssumption == ItMod \in Nat /\ ItMod >= 2

VARIABLES
    cnt,        \* barr->cnt
    iteration,  \* barr->iteration
    pc,         \* pc[h]: the next access of hart h
    prev_it     \* prev_it[h]: the local of hart h

vars == <<cnt, iteration, pc, prev_it>>

N == Cardinality(Harts)

Iterations == 0 .. ItMod - 1

PCs == {"out", "add", "reset", "bump", "spin", "ret"}

IncIt(i) == IF i = ItMod - 1 THEN 0 ELSE i + 1

Init ==
    /\ cnt = 0
    /\ iteration = 0
    /\ pc = [h \in Harts |-> "out"]
    /\ prev_it = [h \in Harts |-> 0]

\* uint32_t prev_it = barr->iteration;
Remember(h) ==
    /\ pc[h] = "out"
    /\ prev_it' = [prev_it EXCEPT ![h] = iteration]
    /\ pc' = [pc EXCEPT ![h] = "add"]
    /\ UNCHANGED <<cnt, iteration>>

\* As Add, but one hart too few completes the group.
AddOffByOne(h) ==
    /\ pc[h] = "add"
    /\ cnt' = cnt + 1
    /\ pc' = [pc EXCEPT ![h] = IF cnt + 1 = N - 1 THEN "reset" ELSE "spin"]
    /\ UNCHANGED <<iteration, prev_it>>

\* cnt = __atomic_add_fetch(&barr->cnt, 1); the n-th hart does not wait.
Add(h) ==
    /\ pc[h] = "add"
    /\ cnt' = cnt + 1
    /\ pc' = [pc EXCEPT ![h] = IF cnt + 1 = N THEN "reset" ELSE "spin"]
    /\ UNCHANGED <<iteration, prev_it>>

\* barr->cnt = 0;
Reset(h) ==
    /\ pc[h] = "reset"
    /\ cnt' = 0
    /\ pc' = [pc EXCEPT ![h] = "bump"]
    /\ UNCHANGED <<iteration, prev_it>>

\* __atomic_add_fetch(&barr->iteration, 1)
Bump(h) ==
    /\ pc[h] = "bump"
    /\ iteration' = IncIt(iteration)
    /\ pc' = [pc EXCEPT ![h] = "ret"]
    /\ UNCHANGED <<cnt, prev_it>>

\* As Spin, but on the counter: a late hart misses its going through zero.
SpinOnCount(h) ==
    /\ pc[h] = "spin"
    /\ cnt = 0
    /\ pc' = [pc EXCEPT ![h] = "ret"]
    /\ UNCHANGED <<cnt, iteration, prev_it>>

\* while (prev_it == barr->iteration) ;
Spin(h) ==
    /\ pc[h] = "spin"
    /\ prev_it[h] # iteration
    /\ pc' = [pc EXCEPT ![h] = "ret"]
    /\ UNCHANGED <<cnt, iteration, prev_it>>

Return(h) ==
    /\ pc[h] = "ret"
    /\ pc' = [pc EXCEPT ![h] = "out"]
    /\ UNCHANGED <<cnt, iteration, prev_it>>

Waiting(h) == Add(h) \/ Reset(h) \/ Bump(h) \/ Spin(h) \/ Return(h)

Next == \E h \in Harts : Remember(h) \/ Waiting(h)

Spec == Init /\ [][Next]_vars

\* A hart that is in the call keeps executing; it need never call again.
FairSpec == Spec /\ \A h \in Harts : WF_vars(Waiting(h))

-----------------------------------------------------------------------------
\* The values the barrier struct and the callers' locals can hold.  cnt never
\* passes n: nobody is counted twice.
TypeOK ==
    /\ cnt \in 0 .. N
    /\ iteration \in Iterations
    /\ pc \in [Harts -> PCs]
    /\ prev_it \in [Harts -> Iterations]

\* The harts whose add is still in cnt: everyone who added in this iteration,
\* until the last one resets.
Counted ==
    IF \E h \in Harts : pc[h] = "bump" THEN {}
    ELSE {h \in Harts : \/ pc[h] = "reset"
                        \/ pc[h] = "spin" /\ prev_it[h] = iteration}

\* cnt is exact: it counts the harts waiting in the current iteration and is
\* never polluted by the previous or the next one.
CountExact == cnt = Cardinality(Counted)

\* A hart about to add remembers the current iteration: the iteration cannot
\* move between its read and its add.
FreshPrev == \A h \in Harts : pc[h] = "add" => prev_it[h] = iteration

\* While one hart is closing the iteration all the others are spinning in it.
LastIsAlone ==
    \A h \in Harts : pc[h] \in {"reset", "bump"} =>
        \A g \in Harts \ {h} : pc[g] = "spin" /\ prev_it[g] = iteration

\* The counter, the iteration and the harts' positions fit together at every
\* access of snrt_partial_barrier; the inductive invariant of the proofs.
IInv == TypeOK /\ CountExact /\ FreshPrev /\ LastIsAlone

\* A hart is held from its first access until the iteration it remembers is
\* over.
Phase(h) ==
    IF \/ pc[h] \in {"out", "ret"}
       \/ pc[h] = "spin" /\ prev_it[h] # iteration
    THEN "out"
    ELSE "in"

Abs == INSTANCE Barrier WITH phase <- [h \in Harts |-> Phase(h)]

\* snrt_partial_barrier is a barrier: nobody returns before all n harts have
\* called it, for any number of successive uses and across the wrap of the
\* iteration counter.  The iteration bump is the release.
ImplementsBarrier == Abs!Spec

\* Once all n harts are held in snrt_partial_barrier every one of them returns:
\* no spinning hart misses its iteration change, even when the others are
\* already in the next barrier.
EveryoneReturns ==
    \A h \in Harts : (\A g \in Harts : Phase(g) = "in") ~> (pc[h] = "out")
=============================================================================
