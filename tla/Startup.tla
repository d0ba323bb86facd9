------------------------------- MODULE Startup -------------------------------
(***************************************************************************)
(* What happens between reset and main (start.S, snrt_main in start.c):    *)
(* every core derives its stack and its thread-local storage from its      *)
(* index, then the DM core of each cluster initialises the thread-local    *)
(* storage of all cores, the cluster-local storage and the allocators, and *)
(* cluster 0's DM core zeroes bss, which all clusters share in L3.         *)
(*                                                                         *)
(* stage[c] names what core c does next.  The initialisation of a region   *)
(* is one step.  Of bss the model keeps the word the runtime itself has    *)
(* there, the next pointer of the L3 allocator: junk, then zero, then the  *)
(* start of the heap.  main allocates from L3.                             *)
(***************************************************************************)
EXTENDS Integers

CONSTANTS
    NClusters,         \* clusters that run the program
    NCores,            \* cores per cluster; the last one is the DM core
    StackSize,         \* 1 << SNRT_LOG2_STACK_SIZE, a multiple of 8
    TlsSize,           \* the size of .tdata and .tbss
    MaxL3              \* bound: how many blocks main allocates from L3

Clusters == 0 .. NClusters - 1
Harts == Clusters \X (0 .. NCores - 1)
ClusterOf(c) == c[1]
IsDm(c) == c[2] = NCores - 1
Dm(k) == <<k, NCores - 1>>

VARIABLES
    stage,      \* stage[c]: tls, tlsbar, bss, cls, libs, prebar, main
    tls,        \* the initialised thread-local storages, as <<cluster, address>>
    cls_ptr,    \* the cores whose _cls_ptr, a thread-local, is set
    cls,        \* the clusters whose cluster-local storage is initialised
    l1_alloc,   \* the clusters whose L1 allocator is initialised
    l3_next     \* the next pointer of the L3 allocator, in bss

vars == <<stage, tls, cls_ptr, cls, l1_alloc, l3_next>>

Junk == -1
L3Base == 1

Init ==
    /\ stage = [c \in Harts |-> "tls"]
    /\ tls = {} /\ cls_ptr = {} /\ cls = {} /\ l1_alloc = {}
    /\ l3_next = Junk

Goto(c, s) == stage' = [stage EXCEPT ![c] = s]

-----------------------------------------------------------------------------
\* start.S: where core i of a cluster has its thread-local storage, below the
\* top of its stack, relative to the end of the stacks of the cluster.
Top == NCores * (StackSize + 8) + TlsSize + 8
tp(i) == LET sp == Top - 8 - i * StackSize - i * 8 - TlsSize
         IN  sp - (sp % 8)

\* As tls_offset, but the stacks are not misaligned.
tls_offset_Aligned(i) == i * StackSize

\* snrt_init_tls: from the DM core's storage to that of the i-th core after it
tls_offset(i) == i * (StackSize + 8)

\* snrt_init_tls: the DM core initialises the storage of every core; zeroing
\* .tbss clears what a core may have put there.
InitTls(c) ==
    /\ stage[c] = "tls" /\ IsDm(c)
    /\ LET dst == {<<ClusterOf(c), tp(c[2]) + tls_offset(i)>> : i \in 0 .. NCores - 1}
       IN  /\ tls' = tls \cup dst
           /\ cls_ptr' = {d \in cls_ptr : <<ClusterOf(d), tp(d[2])>> \notin dst}
    /\ Goto(c, "tlsbar")
    /\ UNCHANGED <<cls, l1_alloc, l3_next>>

\* snrt_init_tls: the other cores go to the barrier.
SkipTls(c) ==
    /\ stage[c] = "tls" /\ ~IsDm(c)
    /\ Goto(c, "tlsbar")
    /\ UNCHANGED <<tls, cls_ptr, cls, l1_alloc, l3_next>>

\* snrt_cluster_hw_barrier: at the end of snrt_init_tls and before main
HwBarrier(k) ==
    /\ \E bar \in {"tlsbar", "prebar"} :
         /\ \A c \in Harts : ClusterOf(c) = k => stage[c] = bar
         /\ stage' = [c \in Harts |->
                        IF ClusterOf(c) # k THEN stage[c]
                        ELSE IF bar = "tlsbar" THEN "bss" ELSE "main"]
    /\ UNCHANGED <<tls, cls_ptr, cls, l1_alloc, l3_next>>

\* snrt_init_bss
InitBss(c) ==
    /\ stage[c] = "bss"
    /\ l3_next' = IF c = Dm(0) THEN 0 ELSE l3_next
    /\ Goto(c, "cls")
    /\ UNCHANGED <<tls, cls_ptr, cls, l1_alloc>>

\* snrt_init_cls
InitCls(c) ==
    /\ stage[c] = "cls"
    /\ cls_ptr' = cls_ptr \cup {c}
    /\ cls' = IF IsDm(c) THEN cls \cup {ClusterOf(c)} ELSE cls
    /\ Goto(c, "libs")
    /\ UNCHANGED <<tls, l1_alloc, l3_next>>

\* snrt_init_libs: snrt_alloc_init
InitLibs(c) ==
    /\ stage[c] = "libs"
    /\ IF IsDm(c)
       THEN l1_alloc' = l1_alloc \cup {ClusterOf(c)} /\ l3_next' = L3Base
       ELSE UNCHANGED <<l1_alloc, l3_next>>
    /\ Goto(c, "prebar")
    /\ UNCHANGED <<tls, cls_ptr, cls>>

\* main: snrt_l3alloc of a block
L3Alloc(c) ==
    /\ stage[c] = "main"
    /\ l3_next < L3Base + MaxL3
    /\ l3_next' = l3_next + 1
    /\ UNCHANGED <<stage, tls, cls_ptr, cls, l1_alloc>>

\* main goes on.
Main(c) == stage[c] = "main" /\ UNCHANGED vars

Next ==
    \/ \E c \in Harts :
         \/ InitTls(c) \/ SkipTls(c) \/ InitBss(c) \/ InitCls(c) \/ InitLibs(c)
         \/ L3Alloc(c) \/ Main(c)
    \/ \E k \in Clusters : HwBarrier(k)

Spec == Init /\ [][Next]_vars

-----------------------------------------------------------------------------
\* Whatever main uses has been initialised: "only one core needs to perform
\* the initialization" of each region.
MainInitialised ==
    \A c \in Harts :
        stage[c] = "main" =>
            /\ <<ClusterOf(c), tp(c[2])>> \in tls
            /\ c \in cls_ptr
            /\ ClusterOf(c) \in cls \cap l1_alloc
            /\ l3_next >= L3Base
=============================================================================
