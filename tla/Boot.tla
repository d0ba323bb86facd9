--------------------------------- MODULE Boot ---------------------------------
(***************************************************************************)
(* A cluster from reset to the OpenMP runtime: every core goes through the *)
(* start-up (Startup), then main calls snrt_omp_bootstrap (OmpBootstrap).  *)
(* The allocator that the bootstrap uses is the one that the DM core's     *)
(* snrt_init_libs has initialised.                                         *)
(***************************************************************************)
EXTENDS OmpBootstrap

CONSTANTS StackSize, TlsSize, MaxL3

\* The sizes of the structures on the 32-bit cores, in bytes; eu_t, omp_t and
\* omp_prof_t are not multiples of the allocator's chunk.
Sizes == [dm |-> 192, eu |-> 36, args |-> 48, omp |-> 108, bar |-> 8, prof |-> 4]

ASSUME BootAssumption ==
    /\ StackSize \in Nat \ {0} /\ StackSize % 8 = 0
    /\ TlsSize \in Nat \ {0}
    /\ MaxL3 \in Nat

VARIABLES stage, tls, cls_ptr, cls, l1_alloc, l3_next

Start == INSTANCE Startup WITH NClusters <- 1

startVars == <<stage, tls, cls_ptr, cls, l1_alloc, l3_next>>
bootVars == <<vars, startVars>>

Hart(c) == <<0, c>>
InMain(c) == stage[Hart(c)] = "main"

\* The allocator is junk that might pass for an initialised one.
BootInit == Init /\ Start!Init

StartUp(c) ==
    /\ \/ Start!InitTls(Hart(c))
       \/ Start!SkipTls(Hart(c))
       \/ Start!InitBss(Hart(c))
       \/ Start!InitCls(Hart(c))
       \/ Start!L3Alloc(Hart(c))
    /\ UNCHANGED vars

\* snrt_alloc_init also sets the L1 allocator's next pointer.
InitLibs(c) ==
    /\ Start!InitLibs(Hart(c))
    /\ next' = IF c = DmCore THEN MIN_CHUNK_SIZE ELSE next
    /\ UNCHANGED <<ret, at, global, cleared, pc>>

HwBarrier == Start!HwBarrier(0) /\ UNCHANGED vars

Bootstrap(c) == InMain(c) /\ Step(c) /\ UNCHANGED startVars

Booting(c) == StartUp(c) \/ InitLibs(c) \/ Bootstrap(c)

BootDone == Done /\ UNCHANGED startVars

BootNext == HwBarrier \/ BootDone \/ \E c \in Harts : Booting(c)

BootSpec == BootInit /\ [][BootNext]_bootVars

\* Every core keeps executing, and the clock runs.
FairBootSpec ==
    BootSpec /\ WF_bootVars(HwBarrier) /\ \A c \in Harts : WF_bootVars(Booting(c))

-----------------------------------------------------------------------------
\* Whatever main uses has been initialised.
MainInitialised == Start!MainInitialised
=============================================================================
