---------------------------- MODULE GlobalBarrier ----------------------------
(***************************************************************************)
(* snrt_global_barrier (sw/snRuntime/src/sync.h) and the reduction built   *)
(* on it, snrt_global_all_to_all_reduction, with which every core hands in *)
(* its exit code (snrt_exit_default, sw/snRuntime/src/start.c).            *)
(*                                                                         *)
(* All the cores of a cluster meet in the hardware barrier, the DM cores   *)
(* of all clusters meet in a software barrier (the accesses of SwBarrier,  *)
(* written out once more in sync.h), and the cores of each cluster meet in *)
(* the same hardware barrier a second time.  HwBarrier shows that the      *)
(* hardware barrier releases a cluster when all its cores are stalled in   *)
(* it; that is one step here.                                              *)
(*                                                                         *)
(* How often a core reached and left the call are history variables:       *)
(* no action reads them, except to stop after MaxRounds calls.             *)
(***************************************************************************)
EXTENDS Naturals, FiniteSets, FiniteSetsExt

CONSTANTS
    Clusters,     \* the clusters, snrt_cluster_num() of them
    CoreIds,      \* the core indices within a cluster
    DmCore,       \* the index of the data-mover core
    ItMod,        \* _snrt_barrier.iteration wraps here (2^32 in the code)
    Value,        \* Value[x]: what core x hands to the reduction
    MaxRounds     \* bound: how often each core calls the reduction

ASSUME ShapeAssumption ==
    /\ IsFiniteSet(Clusters) /\ Clusters # {}
    /\ IsFiniteSet(CoreIds) /\ DmCore \in CoreIds
    /\ ItMod \in Nat /\ ItMod >= 2
    /\ MaxRounds \in Nat

Cores == Clusters \X CoreIds

ASSUME ValueAssumption == Value \in [Cores -> Nat]

DM(c) == <<c, DmCore>>

VARIABLES
    at,          \* at[x]: where core x stands in the call
    cnt,         \* _snrt_barrier.cnt
    iteration,   \* _snrt_barrier.iteration
    pc,          \* pc[c]: the next access of cluster c's DM core
    prev_it,     \* prev_it[c]: prev_barrier_iteration of that core
    reduction,   \* _reduction_result
    result,      \* result[x]: what the last call returned to core x
    arrived,     \* arrived[x]: history, how often core x reached the barrier
    returns      \* returns[x]: history, how often it has returned

sw == <<cnt, iteration, pc, prev_it>>
history == <<arrived, returns>>
vars == <<at, sw, reduction, result, history>>

SW == INSTANCE SwBarrier WITH Harts <- Clusters

Init ==
    /\ at = [x \in Cores |-> "out"]
    /\ SW!Init
    /\ reduction = 0
    /\ result = [x \in Cores |-> 0]
    /\ arrived = [x \in Cores |-> 0]
    /\ returns = [x \in Cores |-> 0]

\* __atomic_add_fetch(&_reduction_result, value): the core adds its value.
Contribute(x) ==
    /\ at[x] = "out"
    /\ arrived[x] < MaxRounds
    /\ reduction' = reduction + Value[x]
    /\ at' = [at EXCEPT ![x] = "added"]
    /\ UNCHANGED <<sw, result, history>>

\* snrt_global_barrier: the core reaches the first hardware barrier.
Arrive(x) ==
    /\ at[x] = "added"
    /\ at' = [at EXCEPT ![x] = "hw1"]
    /\ arrived' = [arrived EXCEPT ![x] = @ + 1]
    /\ UNCHANGED <<sw, reduction, result, returns>>

\* As HwRelease, but the second access finds the barrier still spent.
HwReleaseOnce(c) ==
    /\ \A k \in CoreIds : at[<<c, k>>] = "hw1"
    /\ at' = [x \in Cores |-> IF x[1] # c THEN at[x] ELSE "mid"]
    /\ UNCHANGED <<sw, reduction, result, history>>

\* Every core of the cluster is stalled in the hardware barrier, whichever of
\* the two CSR accesses brought it there: all of them go on.
HwRelease(c) ==
    /\ \A k \in CoreIds : at[<<c, k>>] \in {"hw1", "hw2"}
    /\ at' = [x \in Cores |->
                IF x[1] # c THEN at[x]
                ELSE IF at[x] = "hw1" THEN "mid" ELSE "done"]
    /\ UNCHANGED <<sw, reduction, result, history>>

\* if (snrt_is_dm_core()): the DM core runs the software barrier.  Its return
\* brings the core to the second hardware barrier.
DmSync(c) ==
    /\ at[DM(c)] = "mid"
    /\ \/ SW!Remember(c)
       \/ SW!Waiting(c)
    /\ at' = IF pc[c] = "ret" THEN [at EXCEPT ![DM(c)] = "hw2"] ELSE at
    /\ UNCHANGED <<reduction, result, history>>

\* As SecondHw, but for the DM core too: it skips the software barrier.
SecondHwAnyCore(x) ==
    /\ at[x] = "mid"
    /\ at' = [at EXCEPT ![x] = "hw2"]
    /\ UNCHANGED <<sw, reduction, result, history>>

\* The other cores go straight to the second hardware barrier.
SecondHw(x) ==
    /\ at[x] = "mid"
    /\ x[2] # DmCore
    /\ at' = [at EXCEPT ![x] = "hw2"]
    /\ UNCHANGED <<sw, reduction, result, history>>

\* As Return, but of a value read before the barrier.
ReturnStale(x) ==
    /\ at[x] = "done"
    /\ result' = [result EXCEPT ![x] = reduction - Value[x]]
    /\ returns' = [returns EXCEPT ![x] = @ + 1]
    /\ at' = [at EXCEPT ![x] = "out"]
    /\ UNCHANGED <<sw, reduction, arrived>>

\* return _reduction_result;
Return(x) ==
    /\ at[x] = "done"
    /\ result' = [result EXCEPT ![x] = reduction]
    /\ returns' = [returns EXCEPT ![x] = @ + 1]
    /\ at' = [at EXCEPT ![x] = "out"]
    /\ UNCHANGED <<sw, reduction, arrived>>

InCall(x) == Arrive(x) \/ SecondHw(x) \/ Return(x)

Next ==
    \/ \E x \in Cores : Contribute(x) \/ InCall(x)
    \/ \E c \in Clusters : HwRelease(c) \/ DmSync(c)

Spec == Init /\ [][Next]_vars

\* Cores that are in the call keep executing and the hardware barrier fires;
\* a core need not call again.
FairSpec ==
    /\ Spec
    /\ \A x \in Cores : WF_vars(InCall(x))
    /\ \A c \in Clusters : WF_vars(HwRelease(c)) /\ WF_vars(DmSync(c))

-----------------------------------------------------------------------------
\* How often core x has been let through the whole barrier.
Passed(x) == returns[x] + (IF at[x] = "done" THEN 1 ELSE 0)

\* snrt_global_barrier is a barrier for all the cores of all the clusters: no
\* core gets through its n-th call before every core has reached its n-th.
NoEarlyReturn == \A x, y \in Cores : Passed(x) <= arrived[y]

\* The cores of a cluster never meet in the hardware barrier at different
\* places of the call: nobody's first arrival pairs with another's second.
HwAligned ==
    \A c \in Clusters :
        (\A k \in CoreIds : at[<<c, k>>] \in {"hw1", "hw2"})
            => \A j, k \in CoreIds : at[<<c, j>>] = at[<<c, k>>]

\* The reduction misses nobody: what a core's n-th call returns contains the
\* n-th contribution of every core (the exit code snrt_exit_default stores
\* counts every core's).  It is never reset, so it keeps the earlier ones.
Total == MapThenSumSet(LAMBDA x : Value[x], Cores)
ResultComplete ==
    \A x \in Cores : result[x] >= returns[x] * Total

\* When every core has reached the barrier for the n-th time, every core
\* returns from its n-th call.
EveryoneReturns ==
    \A x \in Cores : \A n \in 1 .. MaxRounds :
        (\A y \in Cores : arrived[y] >= n) ~> (returns[x] >= n)
=============================================================================
