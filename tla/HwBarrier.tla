------------------------------ MODULE HwBarrier ------------------------------
(***************************************************************************)
(* The hardware barrier of a cluster: snitch_barrier.sv collects one       *)
(* arrival bit per core, snitch.sv raises the bit and stalls the core when *)
(* it executes an access to CSR_BARRIER (snrt_cluster_hw_barrier).         *)
(*                                                                         *)
(* One step is one clock cycle of the whole cluster.  A register that      *)
(* holds one bit per core is the set of the cores whose bit is set.        *)
(***************************************************************************)
EXTENDS Naturals

CONSTANT Cores            \* the cores of the cluster

VARIABLES
    arrival_q,    \* snitch_barrier: the cores whose arrival bit is set
    csr_stall_q   \* snitch: the cores stalled on the barrier CSR

vars == <<arrival_q, csr_stall_q>>

Init ==
    /\ arrival_q = {}
    /\ csr_stall_q = {}

\* assign barrier_o = &arrival_q;
barrier_o == arrival_q = Cores

\* A stalled core fetches nothing (inst_valid_o), so only the others can
\* execute the CSR access in this cycle.
CanIssue == Cores \ csr_stall_q

\* The arrival bits after the cycle: the release clears them all, whatever
\* arrives in the same cycle.
arrival_d(barrier_i) ==
    IF barrier_o THEN {} ELSE arrival_q \cup barrier_i

\* As csr_stall_d, but the last arrival releases the others at once.
csr_stall_d_Early(barrier_i) ==
    IF arrival_q \cup barrier_i = Cores THEN {} ELSE csr_stall_q \cup barrier_i

\* The stalls after the cycle: executing the CSR access stalls the core, the
\* barrier's output releases it.
csr_stall_d(barrier_i) ==
    (IF barrier_o THEN {} ELSE csr_stall_q) \cup barrier_i

\* One clock cycle in which the cores of barrier_i execute the CSR access.
Cycle(barrier_i) ==
    /\ arrival_q' = arrival_d(barrier_i)
    /\ csr_stall_q' = csr_stall_d(barrier_i)

Next == \E barrier_i \in SUBSET CanIssue : Cycle(barrier_i)

Spec == Init /\ [][Next]_vars

\* The clock runs: a cycle with something to do is not put off forever.
FairSpec == Spec /\ WF_vars(Next)

-----------------------------------------------------------------------------
TypeOK ==
    /\ arrival_q \subseteq Cores
    /\ csr_stall_q \subseteq Cores

\* No arrival is lost: a core is stalled exactly while its arrival bit is set,
\* although the release has priority over an arrival of the same cycle.
NoLostArrival == arrival_q = csr_stall_q

Phase(c) == IF c \in csr_stall_q THEN "in" ELSE "out"

Abs == INSTANCE Barrier
    WITH Harts <- Cores, phase <- [c \in Cores |-> Phase(c)]

\* snrt_cluster_hw_barrier is a barrier for all the cores of the cluster.
ImplementsBarrier == Abs!Spec
=============================================================================
