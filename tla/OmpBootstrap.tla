----------------------------- MODULE OmpBootstrap -----------------------------
(***************************************************************************)
(* The start of an OpenMP session: snrt_omp_bootstrap (omp.c) runs         *)
(* dm_init, eu_init and omp_init on every core.  The DM core and core 0 of *)
(* a cluster allocate the shared structures from the cluster's L1, with an *)
(* allocator that is not atomic (alloc.h), and hand them to the other      *)
(* cores through global pointers that the others poll.                     *)
(*                                                                         *)
(* What a core does is a program of instructions <<kind, structure>>;      *)
(* pc[c] counts the instructions done.  "load" and "store" are the two     *)
(* accesses of snrt_l1alloc to the allocator's next pointer.  Addresses    *)
(* are offsets in L1; 0 is the null pointer, never handed out.  "The       *)
(* OpenMP runtime is single cluster only" (eu.h), and so is the model.     *)
(***************************************************************************)
EXTENDS Naturals, Sequences

CONSTANTS
    NCores,          \* the cores: 0 is the master, NCores - 1 the DM core
    Size             \* Size[o]: the size of structure o in bytes

\* dm_t, eu_t, the kmpc_args area, omp_t, the kmpc barrier, omp_prof_t
Objects == {"dm", "eu", "args", "omp", "bar", "prof"}

ASSUME CoresAssumption == NCores \in Nat /\ NCores >= 2
ASSUME ObjSizeAssumption == Size \in [Objects -> Nat \ {0}]

DmCore == NCores - 1
Harts == 0 .. NCores - 1

VARIABLES
    next,      \* the L1 allocator: the address of the next block
    ret,       \* ret[c]: the allocator's next pointer as core c has loaded it
    at,        \* at[c][o]: core c's pointer to structure o
    global,    \* global[o]: the exchanged pointer to structure o
    cleared,   \* the structures, by address, that have been initialised
    pc         \* pc[c]: how many instructions core c has done

vars == <<next, ret, at, global, cleared, pc>>

Null == 0
Pointers == {"dm", "eu", "omp"}    \* dm_p_global, eu_p_global, omp_p_global

MIN_CHUNK_SIZE == 8
ALIGN_UP(n) == ((n + MIN_CHUNK_SIZE - 1) \div MIN_CHUNK_SIZE) * MIN_CHUNK_SIZE

\* The allocator has been initialised by snrt_alloc_init; the global pointers
\* are zeroed with the rest of bss.
Init ==
    /\ next = MIN_CHUNK_SIZE
    /\ ret = [c \in Harts |-> 0]
    /\ at = [c \in Harts |-> [o \in Objects |-> Null]]
    /\ global = [o \in Pointers |-> Null]
    /\ cleared = {}
    /\ pc = [c \in Harts |-> 0]

-----------------------------------------------------------------------------
\* The programs.

alloc(o) == <<<<"load", o>>, <<"store", o>>>>
allocClear(o) == alloc(o) \o <<<<"clear", o>>>>
await(o) == <<<<"await", o>>>>
publish(o) == <<<<"publish", o>>>>
barrier == <<<<"arrive", "all">>, <<"leave", "all">>>>

\* As DmProgram, but the structure is handed out before it is cleared.
DmPublishesEarly ==
    alloc("dm") \o publish("dm") \o <<<<"clear", "dm">>>>
        \o await("eu") \o await("omp") \o barrier

\* The DM core: dm_init allocates, eu_init and omp_init wait.
DmProgram ==
    allocClear("dm") \o publish("dm")
        \o await("eu") \o await("omp") \o barrier

\* As MasterProgram, but eu_init comes before dm_init.
MasterEuFirst ==
    allocClear("eu") \o publish("eu") \o await("dm")
        \o alloc("args") \o allocClear("omp") \o allocClear("bar") \o publish("omp")
        \o alloc("prof") \o barrier

\* As MasterProgram, but the pointer to the OpenMP structure is not exchanged.
MasterKeepsOmp ==
    await("dm") \o allocClear("eu") \o publish("eu")
        \o alloc("args") \o allocClear("omp") \o allocClear("bar")
        \o alloc("prof") \o barrier

\* Core 0: dm_init waits, eu_init and omp_init allocate (with OPENMP_PROFILE,
\* also omp_prof_t, which is not exchanged).
MasterProgram ==
    await("dm") \o allocClear("eu") \o publish("eu")
        \o alloc("args") \o allocClear("omp") \o allocClear("bar") \o publish("omp")
        \o alloc("prof") \o barrier

\* The workers only wait.
WorkerProgram == await("dm") \o await("eu") \o await("omp") \o barrier

Program(c) ==
    IF c = 0 THEN MasterProgram
    ELSE IF c = DmCore THEN DmProgram
    ELSE WorkerProgram

Booted(c) == pc[c] = Len(Program(c))
AtInstr(c, kind) == ~Booted(c) /\ Program(c)[pc[c] + 1][1] = kind
Operand(c) == Program(c)[pc[c] + 1][2]
Advance(c) == pc' = [pc EXCEPT ![c] = @ + 1]

-----------------------------------------------------------------------------
\* snrt_l1alloc: ret = alloc->next
Load(c) ==
    /\ AtInstr(c, "load")
    /\ ret' = [ret EXCEPT ![c] = next]
    /\ Advance(c)
    /\ UNCHANGED <<next, at, global, cleared>>

\* snrt_l1alloc: alloc->next += ALIGN_UP(size), and the pointer is kept
Store(c) ==
    /\ AtInstr(c, "store")
    /\ next' = ret[c] + ALIGN_UP(Size[Operand(c)])
    /\ at' = [at EXCEPT ![c][Operand(c)] = ret[c]]
    /\ Advance(c)
    /\ UNCHANGED <<ret, global, cleared>>

\* snrt_memset, or the assignments to the fields of omp_t
Clear(c) ==
    /\ AtInstr(c, "clear")
    /\ cleared' = cleared \cup {at[c][Operand(c)]}
    /\ Advance(c)
    /\ UNCHANGED <<next, ret, at, global>>

\* xx_p_global = xx_p;
Publish(c) ==
    /\ AtInstr(c, "publish")
    /\ global' = [global EXCEPT ![Operand(c)] = at[c][Operand(c)]]
    /\ Advance(c)
    /\ UNCHANGED <<next, ret, at, cleared>>

\* while (!xx_p_global); xx_p = xx_p_global;
Await(c) ==
    /\ AtInstr(c, "await")
    /\ global[Operand(c)] # Null
    /\ at' = [at EXCEPT ![c][Operand(c)] = global[Operand(c)]]
    /\ Advance(c)
    /\ UNCHANGED <<next, ret, global, cleared>>

\* snrt_cluster_hw_barrier: arrive, and leave when the whole cluster has.
Arrive(c) ==
    /\ AtInstr(c, "arrive")
    /\ Advance(c)
    /\ UNCHANGED <<next, ret, at, global, cleared>>

Arrived(c) == Booted(c) \/ AtInstr(c, "leave")

Leave(c) ==
    /\ AtInstr(c, "leave")
    /\ \A d \in Harts : Arrived(d)
    /\ Advance(c)
    /\ UNCHANGED <<next, ret, at, global, cleared>>

Step(c) ==
    \/ Load(c) \/ Store(c) \/ Clear(c) \/ Publish(c) \/ Await(c)
    \/ Arrive(c) \/ Leave(c)

\* Everybody is through: the master returns to main, the workers enter the
\* event loop, the DM core enters dm_main.
Done ==
    /\ \A c \in Harts : Booted(c)
    /\ UNCHANGED vars

Next == Done \/ \E c \in Harts : Step(c)

Spec == Init /\ [][Next]_vars

-----------------------------------------------------------------------------
\* Core c has allocated structure o itself.
Allocated(c, o) ==
    \E i \in 1 .. pc[c] : Program(c)[i] = <<"store", o>>

\* The DM core and core 0 both allocate without a lock, yet no two structures
\* overlap: core 0 allocates only when the DM core has handed out its own.
AllocDisjoint ==
    \A c, d \in Harts, o, p \in Objects :
        (<<c, o>> # <<d, p>> /\ Allocated(c, o) /\ Allocated(d, p)) =>
            \/ at[c][o] + Size[o] <= at[d][p]
            \/ at[d][p] + Size[p] <= at[c][o]

\* A core that has got hold of a structure finds it initialised.
NoGarbage ==
    \A c \in Harts, o \in Pointers :
        (at[c][o] # Null /\ ~Allocated(c, o)) =>
            /\ at[c][o] \in cleared
            /\ o = "omp" => at[0]["bar"] \in cleared

\* Every core gets through the bootstrap: no two wait for each other.
EveryoneBoots == <>(\A c \in Harts : Booted(c))
=============================================================================
