--------------------------- MODULE MCGlobalBarrier ---------------------------
(***************************************************************************)
(* GlobalBarrier for TLC, and beside it the hardware barrier that it       *)
(* takes for granted and the reduction across clusters that takes the      *)
(* global barrier for granted.  The three share no state, so each          *)
(* behaviour is one of one of them; the others stay as they begin.         *)
(***************************************************************************)
EXTENDS GlobalBarrier

CONSTANTS
    a, b,               \* two clusters
    ClusterCores,       \* the cores of one cluster, for the hardware barrier
    NClusters, NCompute, Len

VARIABLES
    part,                       \* the one that is looked at
    arrival_q, csr_stall_q,     \* HwBarrier
    dst, dma, level, stage      \* GlobalReduction

hwVars == <<arrival_q, csr_stall_q>>
reductionVars == <<dst, dma, level, stage>>
allVars == <<part, vars, hwVars, reductionVars>>

Hw == INSTANCE HwBarrier WITH Cores <- ClusterCores
Tree == INSTANCE GlobalReduction

\* Every core contributes a different power of two, so that a sum shows who
\* is in it.
MCValue == [x \in Cores |-> 2 ^ ((IF x[1] = a THEN 0 ELSE 2) + x[2])]

PartsInit ==
    /\ part \in {"global", "hardware", "reduction"}
    /\ Init /\ Hw!Init /\ Tree!Init

GlobalOnly == part = "global" /\ UNCHANGED <<part, hwVars, reductionVars>>

PartsNext ==
    \/ GlobalOnly /\ Next
    \/ part = "hardware" /\ Hw!Next /\ UNCHANGED <<part, vars, reductionVars>>
    \/ part = "reduction" /\ Tree!Next /\ UNCHANGED <<part, vars, hwVars>>

\* The fairness is the one of GlobalBarrier.
PartsSpec ==
    /\ PartsInit /\ [][PartsNext]_allVars
    /\ \A x \in Cores : WF_allVars(GlobalOnly /\ InCall(x))
    /\ \A c \in Clusters :
          WF_allVars(GlobalOnly /\ HwRelease(c)) /\ WF_allVars(GlobalOnly /\ DmSync(c))

-----------------------------------------------------------------------------
\* The hardware barrier is a barrier for all the cores of the cluster: no arrival is
\* dropped by the release, which has priority over it (HwBarrier).
ImplementsBarrier == Hw!ImplementsBarrier

\* Who returns from the reduction in cluster 0 finds every sum complete
\* (GlobalReduction).
SumComplete == Tree!SumComplete
=============================================================================
