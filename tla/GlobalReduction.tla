--------------------------- MODULE GlobalReduction ---------------------------
(***************************************************************************)
(* snrt_global_reduction_dma (sync.h): the clusters add up their source    *)
(* buffers along a binary tree.  In each level every second active cluster *)
(* sends a buffer to a receiver's destination buffer with its DMA, and the *)
(* compute cores of the receivers add their own.                           *)
(*                                                                         *)
(* A buffer element is known by what it is the sum of: [k |-> n] says that *)
(* the source element of cluster k is in it n times.  The DMA moves the    *)
(* elements one by one while the cores go on.  The barriers are taken at   *)
(* their abstract interface (modules Barrier, GlobalBarrier): a core that  *)
(* has arrived goes on when its group has; one group is the cluster, the   *)
(* other all cores.                                                        *)
(***************************************************************************)
EXTENDS Integers, FiniteSets

CONSTANTS
    NClusters,    \* snrt_cluster_num, at least 1
    NCompute,     \* compute cores per cluster, at least 1; the DM core is core NCompute
    Len           \* len: the elements of a buffer

ClusterIdxs == 0 .. NClusters - 1
Harts == ClusterIdxs \X (0 .. NCompute)
Elements == 0 .. Len - 1
IsDm(c) == c[2] = NCompute

\* Sums of source elements, as functions of the cluster.
Source(k) == [j \in ClusterIdxs |-> IF j = k THEN 1 ELSE 0]
Plus(a, b) == [j \in ClusterIdxs |-> a[j] + b[j]]
Nothing == [j \in ClusterIdxs |-> 0]

\* ceil(log2(snrt_cluster_num()))
num_levels == CHOOSE n \in 0 .. NClusters :
                  /\ 2 ^ n >= NClusters
                  /\ n = 0 \/ 2 ^ (n - 1) < NClusters

VARIABLES
    dst,      \* dst[k][i]: the destination buffers; src_buffer is never written
    dma,      \* dma[k]: the elements that cluster k's transfer has yet to move
    level,    \* level[c]: the core's loop counter
    stage     \* stage[c]: send, wait, global, reduce, cluster, done

vars == <<dst, dma, level, stage>>

\* The only cluster copies its source, otherwise the first level is next.
Init ==
    /\ dst = [k \in ClusterIdxs |-> [i \in Elements |-> Nothing]]
    /\ dma = [k \in ClusterIdxs |-> {}]
    /\ level = [c \in Harts |-> 0]
    /\ stage = [c \in Harts |-> "send"]

Goto(c, s) == stage' = [stage EXCEPT ![c] = s]

is_active(k, l) == k % (2 ^ l) = 0
is_sender(k, l) == k % (2 ^ (l + 1)) # 0
Sends(k, l) == is_active(k, l) /\ is_sender(k, l)
Receives(k, l) == is_active(k, l) /\ ~is_sender(k, l)

\* Where cluster k's transfer goes: SNRT_CLUSTER_OFFSET times 1 << level below.
Receiver(k) ==
    IF NClusters = 1 THEN k ELSE k - 2 ^ level[<<k, NCompute>>]

-----------------------------------------------------------------------------
\* As Send, but the DM core does not wait for its transfer.
SendNoWait(c) ==
    /\ stage[c] = "send"
    /\ IF IsDm(c) /\ (NClusters = 1 \/ Sends(c[1], level[c]))
       THEN dma' = [dma EXCEPT ![c[1]] = Elements]
       ELSE UNCHANGED dma
    /\ Goto(c, IF NClusters = 1 THEN "cluster" ELSE "global")
    /\ UNCHANGED <<dst, level>>

\* The DM core of a sender (or of the only cluster) starts a transfer of its
\* source buffer; everybody else goes to the barrier.
Send(c) ==
    /\ stage[c] = "send"
    /\ IF IsDm(c) /\ (NClusters = 1 \/ Sends(c[1], level[c]))
       THEN dma' = [dma EXCEPT ![c[1]] = Elements] /\ Goto(c, "wait")
       ELSE /\ UNCHANGED dma
            /\ Goto(c, IF NClusters = 1 THEN "cluster" ELSE "global")
    /\ UNCHANGED <<dst, level>>

\* The DMA moves an element.
Move(k) ==
    /\ \E i \in dma[k] :
         /\ dst' = [dst EXCEPT ![Receiver(k)][i] = Source(k)]
         /\ dma' = [dma EXCEPT ![k] = @ \ {i}]
    /\ UNCHANGED <<level, stage>>

\* snrt_dma_wait_all
WaitAll(c) ==
    /\ stage[c] = "wait"
    /\ dma[c[1]] = {}
    /\ Goto(c, IF NClusters = 1 THEN "cluster" ELSE "global")
    /\ UNCHANGED <<dst, dma, level>>

\* Which cores have arrived at, or are past, the global barrier of level l.
PastGlobal(d, l) ==
    \/ level[d] > l
    \/ level[d] = l /\ stage[d] \notin {"send", "wait"}

\* snrt_global_barrier: synchronize senders and receivers
GlobalBarrier(c) ==
    /\ stage[c] = "global"
    /\ \A d \in Harts : PastGlobal(d, level[c])
    /\ Goto(c, "reduce")
    /\ UNCHANGED <<dst, dma, level>>

\* The elements of compute core j: len / compute cores, from its offset on.
items_per_core == Len \div NCompute
Share(j) == j * items_per_core .. (j + 1) * items_per_core - 1

\* dst_buffer[abs_i] += src_buffer[abs_i] in the receivers' compute cores
Reduce(c) ==
    /\ stage[c] = "reduce"
    /\ IF Receives(c[1], level[c]) /\ ~IsDm(c)
       THEN dst' = [dst EXCEPT ![c[1]] = [i \in Elements |->
                      IF i \in Share(c[2]) THEN Plus(@[i], Source(c[1])) ELSE @[i]]]
       ELSE UNCHANGED dst
    /\ Goto(c, "cluster")
    /\ UNCHANGED <<dma, level>>

PastCluster(d, l) ==
    \/ level[d] > l
    \/ level[d] = l /\ stage[d] \in {"cluster", "done"}

\* snrt_cluster_hw_barrier: synchronize for the next level
ClusterBarrier(c) ==
    /\ stage[c] = "cluster"
    /\ \A d \in Harts : d[1] = c[1] => PastCluster(d, level[c])
    /\ IF level[c] + 1 < num_levels
       THEN level' = [level EXCEPT ![c] = @ + 1] /\ Goto(c, "send")
       ELSE UNCHANGED level /\ Goto(c, "done")
    /\ UNCHANGED <<dst, dma>>

Done == (\A c \in Harts : stage[c] = "done") /\ UNCHANGED vars

Core(c) ==
    \/ Send(c) \/ WaitAll(c) \/ GlobalBarrier(c) \/ Reduce(c) \/ ClusterBarrier(c)

Next ==
    \/ \E c \in Harts : Core(c)
    \/ \E k \in ClusterIdxs : Move(k)
    \/ Done

Spec == Init /\ [][Next]_vars

-----------------------------------------------------------------------------
\* "binary reduction tree": a core of cluster 0 that returns finds in every
\* element of the destination buffer each cluster's source element once.
SumComplete ==
    \A j \in 0 .. NCompute :
        stage[<<0, j>>] = "done" =>
            \A i \in Elements : dst[0][i] = [k \in ClusterIdxs |-> 1]
=============================================================================
