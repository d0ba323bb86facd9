# A TLA+ verification of the SNAX cluster

This directory models the parts of the SNAX / Snitch cluster whose correctness
depends on the order in which several actors take their steps: the start-up,
the barriers, the data mover, the OpenMP runtime and the reductions of the C
runtime (`src/sw/snRuntime`), the hardware they rest on (`src/hw`), and the
programs that drive the SimbaCore accelerator from two cores and a DMA engine
(`src/target/snitch_cluster/sw`). TLC checks the models on small instances; TLAPS
proves the central theorems for every value of the constants.

## The system

A *cluster* is a handful of Snitch RISC-V cores around a multi-banked L1
memory (TCDM). Core 0 .. n-1 are compute cores, the last core is the *DM core*
with a DMA engine. Compute cores may drive SNAX accelerators, which fetch their
operands from TCDM with *streamers*. The C runtime gives programs barriers,
mutexes, an allocator, a *data mover* service that runs on the DM core, and a
small OpenMP implementation whose workers sleep in an *event unit* loop.

### Inventory

| Component | State | Operations | Interaction | What is hard | What makes it correct |
|---|---|---|---|---|---|
| Software barrier (`sync.h`) | `cnt`, `iteration` | `snrt_partial_barrier` | atomic adds and polls of n harts | re-entry while others still spin; counter wrap | nobody returns early; everybody returns |
| Hardware barrier (`snitch_barrier.sv`, `snitch.sv`) | arrival bit and stall bit per core | CSR access, release | one clock, all cores | release and arrival in one cycle | no arrival is lost |
| Global barrier, exit reduction (`sync.h`, `start.c`) | `_snrt_barrier`, `_reduction_result` | `snrt_global_barrier`, `snrt_global_all_to_all_reduction`, `snrt_exit_default` | hardware barrier, DM cores' software barrier, hardware barrier | the same hardware barrier is used twice per call | barrier over all clusters; no contribution missing |
| Data mover (`dm.h`) | ring of tasks, fill count, `stat_q`/`stat_pvalid`, `dm_wfi` | `dm_main`; `dm_memcpy_async`, `dm_memcpy2d_async`, `dm_start`, `dm_wait`, `dm_wait_ready`, `dm_exit` | shared words in TCDM, cluster-local interrupt, DMA | sleep/wakeup, asynchronous interrupt clear, two-store answers | copies are started once and in order; `dm_wait` is not early; calls return |
| Event unit (`omp/eu.h`) | `workers_in_loop`, `workers_wfi`, `exit_flag`, event (`nthreads`, `fini_count`) | `eu_event_loop`; `eu_dispatch_push`, `eu_run_empty`, `eu_exit` | shared words, interrupts | late workers, exact equality tests on counters | each team member executes once; join waits for all; no lost wakeup |
| OpenMP front end (`omp/kmp.c`, `omp/omp.c`) | `omp_p`, `kmpc_args` | bootstrap, fork, static scheduling, barrier | event unit, software barrier, allocator | argument area size, switch fall-through, loop partition | every iteration executed once; microtask executed once per thread |
| Allocator (`alloc.h`) | `next` | `snrt_l1alloc`, `snrt_l3alloc` | called by several cores | not atomic | allocations disjoint |
| Start-up (`start.c`, `start.S`) | bss, cluster-local storage | initialisation, main, exit | barriers | one core initialises for all | nobody uses what is not initialised |
| DMA reduction (`sync.h`) | buffers per cluster | `snrt_global_reduction_dma` | DMA between clusters, global barrier | tree levels overlap | result is the sum |
| SNAX library (`snax-simbacore-lib.c`) | streamer, mode, start and delayed-start registers | configure, `start_simbacore_and_streamers`, `wait_simbacore_and_streamer`, `simba_dma_fill_zero`, `check_result_*` | registers, gauges and busy flags of the accelerator | registers outlive a launch; delayed starts depend on gauges | no reader overtakes its producer; nothing is left set |
| SimbaCore programs (`sw/apps`) | L1 and L3 buffers, ping-pong indices, ring cursors | `main` of 41 programs | core 0 drives the accelerator, the DM core the DMA engine; they meet at the hardware barrier | both engines run while the cores prepare the next step; rings are refilled under a running kernel; buffers overlap | every result is the one of the algorithm; both cores come to the end |
| Mutex (`sync.h`) | one word per mutex | `snrt_mutex_acquire`, `snrt_mutex_ttas_acquire`, `snrt_mutex_release` | atomic swaps through the amo shim | a release meets a spinning acquire | one owner at a time; it is taken again |
| Amo shim (`snitch_amo_shim.sv`) | state, operand, result, reservation | request, read, write back; LR, SC | in front of every TCDM bank; two masters of the bank | a DMA write beside the read and the write back; reservations known by core id only | an atomic takes effect in one step |
| FPU sequencer (`snitch_sequencer.sv`), trace script (`gen_trace.py`) | ring, loop configuration, loop position | offload, `FREP.I`, `FREP.O`, issue | ready/valid between core and FPU | ring full or empty inside a loop; a direct instruction passes the ring | the FPU gets the program with its loops unrolled |
| LSU and interconnects (`snitch_lsu.sv`, `reqrsp_demux.sv`, ...), shared muldiv | response queues, tags | request, response | handshakes | back-pressure | responses in order, none lost |
| SNAX CSR port (`snax_intf_translator.sv`, `snax_csr_mux_demux.sv`, `ReqRspManager`) | spill registers, id queue, response buffers, configuration | read, write, start | ready/valid, one chain from the core and back | answers wait while other requests pass; start while busy | each read gets its own value; each start its own configuration |
| Streamer (`Streamer.scala`, `Reader.scala`, `Writer.scala`, ...) | FSM, latched configuration, address counters, queues, credits | configure, start, delayed start, fetch, store | ready/valid; TCDM that answers channels independently | credit limit, configuration for the next job while one runs, disabled streamers | no request without room for its response; words in order; all stored at the end |
| xDMA (Chisel) | control and data paths | copy between clusters | AXI | chained copies | not modelled |
| Memory simulator, other accelerators, kernels, generators | - | - | - | numeric or performance | not modelled |

## Modules

| Module | Role |
|---|---|
| `Barrier` | abstract: a group of harts, each `out` or `in`; only a complete group is released |
| `SwBarrier` | `snrt_partial_barrier`; implements `Barrier` |
| `HwBarrier` | the hardware barrier, one step per clock cycle; implements `Barrier` |
| `GlobalBarrier` | composes the hardware barrier with an instance of `SwBarrier` whose harts are the clusters' DM cores; adds the reduction |
| `CopyQueue` | abstract: queued copies are started once in order; a wait returns when its caller's copies are complete |
| `DataMover`, `MCDataMover` | `dm.h`; implements `CopyQueue` for the uses the runs describe |
| `ForkJoin` | abstract: an event is executed once by each core of its team, then joined |
| `EventUnit` | `omp/eu.h`; implements `ForkJoin` |
| `EventUnitProofs` | TLAPS proofs about `EventUnit` |
| `DataMoverProofs` | TLAPS proofs that the DM core never sleeps over work and that `DataMover` implements `CopyQueue` |
| `Startup` | `start.S`, `start.c`: stacks, thread-local, cluster-local and global storage, allocators, up to main |
| `OmpBootstrap` | `dm_init`, `eu_init`, `omp_init` and the L1 allocator, access by access |
| `Boot` | composes `Startup` with `OmpBootstrap`: a cluster from reset to the OpenMP runtime |
| `BootProofs` | TLAPS proofs about `Boot` |
| `KmpFork` | `__kmpc_fork_call` and `__microtask_wrapper`; takes the event unit at its interface `ForkJoin` and implements that interface for microtasks |
| `KmpSchedule` | `__kmpc_for_static_init_4` and the compiled loop around it |
| `OmpLoop`, `MCOmpLoop` | composes `KmpFork` with `KmpSchedule`: one parallel loop after the other |
| `OmpLoopProofs` | TLAPS proofs about `KmpSchedule`, and about `OmpLoop` on top of them |
| `GlobalReduction` | `snrt_global_reduction_dma`, the DMA moving element by element, the barriers taken at their interface |
| `MCGlobalBarrier` | the instances of `GlobalBarrier`, of `HwBarrier` below it and of `GlobalReduction` above it |
| `GlobalBarrierProofs` | TLAPS proofs about the barriers: `SwBarrier`, and the three of `MCGlobalBarrier` on top of it |
| `AtomicMemory` | abstract: a row of memory whose reads, writes, atomics and LR/SC take effect in one step |
| `AmoShim` | `snitch_amo_shim.sv`, cycle by cycle; implements `AtomicMemory` |
| `TcdmAtomics`, `MCTcdmAtomics` | programs on top of `AmoShim`: the two acquire functions and the release of the mutex, access by access, and a counter incremented with LR/SC |
| `TcdmAtomicsProofs` | TLAPS proofs about `AmoShim`, and about `TcdmAtomics` on top of them |
| `Sequencer` | `snitch_sequencer.sv` between the core and the FPU |
| `SeqTrace`, `MCSequencer` | composes `Sequencer` with the part of `gen_trace.py` that replays it |
| `CsrPort` | the way of a CSR access from the core to the two `ReqRspManager`s and back |
| `OffloadProofs` | TLAPS proofs about the two ways on which a core hands work over, `Sequencer` and `CsrPort` |
| `StreamMovers` | one reader or writer of the streamer: address generator, requestor, queue, credits, repeater |
| `Streamer`, `MCStreamer` | composes movers with the streamer's FSM and configuration registers |
| `StreamerProofs` | TLAPS proofs about `Streamer` |
| `SimbacoreLib` | `snax-simbacore-lib.c` and the DMA calls as instructions of the two cores; a program is a sequence of them |
| `GemmApps`, `MambaApps`, `SucApps`, `MambaRings`, `FftApps`, `EinfftApps` | the `main` of the programs, with the golden results they check |
| `SnaxCluster`, `MCSnaxCluster` | the machine that runs them: both cores, the DMA engine and the units of the accelerator, all at the same time; `MCSnaxCluster` names the programs and gives them their numbers of tiles and slots |

**Grain.** In the software models one step is one access to a shared word,
together with the branch that uses it; `pc`-like variables name the next access.
Variables and actions keep the names of the C code. Steps that touch only words
no other hart accesses at that time are merged with their neighbour (for
example the fields of a task, or `queue_back`, which only the DM core uses).
Memory is sequentially consistent: a Snitch core issues its accesses to TCDM in
order. The one exception is the write that clears a cluster-local interrupt: it
travels to the cluster peripheral while the core goes on, as the comment in
`cluster_interrupts.h` warns, so it is issued in one step and lands in another.
Responses return in order (`reqrsp_demux.sv`), hence the core cannot branch on
a later load before the clear has landed; this is the guard `DmBranch` of
`DataMover` and `w \notin clearing` of `EventUnit`.

`Startup` takes the initialisation of a region (a copy or a memset by one core)
as one step, since nobody else has a pointer to it before the barrier or the
exchange that follows; a core's thread-local storage is known by its address,
computed from the stack layout of `start.S` for the core itself and from the
offset in `start.c` for the core that initialises it, so that the two must
agree. In `OmpBootstrap` what a core does is a list of instructions, of which
`load` and `store` are the two accesses of the allocator. `KmpFork` keeps the
words of the argument area and the word behind it, tagged with the fork that
wrote them. In `GlobalReduction` an element is known by what it is the sum of.

In the hardware modules one step is one clock cycle: what the registers hold is
state, what goes over wires is computed within the step, and who raises `valid`
or grants a request in the cycle is the choice of the step. A register that
nobody reads before it is written again is set to a fixed value, which the
hardware does not do, to keep the state space small. Some variables are there
for the properties only and no other variable depends on them: `linked` and `conflict`
(`AmoShim`: on which row each port's link stands, and that
`amo_conflict_o` has been high), `issued` (`Sequencer`), `orders`, `written` and `due`
(`CsrPort`: what the starts and reads should give), `stored` (`Streamer`).

The atomics are modelled at two grains. `AmoShim` shows that an atomic is one
step of a word, which is how `SwBarrier`, `DataMover` and the others take it. The
exception is a transfer of the DMA engine to the row of an atomic that is not
written back yet, which the shim cannot prevent and reports (`amo_conflict_o`); from
then on nothing is claimed. No program of the runtime lets the DMA engine write a word that it also
uses for atomics.

### Programs

`SnaxCluster` runs the programs of `sw/apps`. Both cores execute the same `main`
and skip what is for the other one (`if (snrt_is_dm_core())`, `if
(snrt_global_core_idx() == 0)`), so a program is one sequence of instructions,
built by the operators of `SimbacoreLib` from the loops of the source, of which
`OwnCode` takes the part of each core. A step is one instruction: an access to
the accelerator's registers, a transfer that is queued, a barrier, a test.
Transfers that the DM core queues one after the other, with nothing between
them, are one step: it waits for nothing in between, and the engine may begin
as late as it likes.

*Memory.* A buffer is a sequence of tiles. A tile holds a *content*: its own
name if it comes from `data.h` or was never written, else `<<kernel, inputs>>`,
the kernel that wrote it and the contents it read. The check functions compare
contents, so a result is right only if it was computed from the right inputs at
the right time, whatever the arithmetic. Byte addresses and strides inside a
tile are left out; that two buffers share bytes (the overlays of `main-tiled`,
`fft-3way-tiled` and others, by the offsets computed in `main`) is kept as
`overlay`: a write to one destroys the contents of the other. A kernel that
reads several tiles in one step has the `span` of its streamer. Loops of the
accelerator over more than one output tile of the same window are one step,
that is why the start counts of `data.h` are 1 here.

*The accelerator* (SimbaCore is a submodule, its sources are not in this
repository) and the DMA engine are external, modelled from how the programs use
them. `Units` says which units a mode connects, what they read and write, and
which of them waits for a delayed start. A unit reads a tile, at any later time
writes the result, and is never held up by memory. The DMA engine reads and
writes in issue order, which `fft-3way-tiled-async/src/fft.c:191` states.

*Time.* Units, engine and cores run at any speed relative to each other, with two
assumptions the code relies on. `InTime`: before a unit that walks over a ring can
meet the same slot again, the software has done what it had to do
(`docs/dataflow/09_async_tiling.md`: the refill "must always complete before
the streamer re-reads a slot"). What remains to be checked is that the right
refill is requested at the right visit; a refill requested one visit early or late is found.
`InLead`: a reader whose delayed start waited for its count does not catch up
with its producer, which is how `datagen.py` computes the counts; a reader that is
started earlier may run ahead.

*Checks.* `ResultsGolden` is what the programs check themselves. The programs
`suc-only` and the directions of `vmamba` and `vmamba-tiled` check less than
they compute; there the model adds a check of its own. The merge of the
directions in `vmamba` reads `y_invperm_K` of `data.h`, not what was computed, and so
does the model.

*The zeroed psum of `fft-tiled`.* A GEMM on isCore reads its output buffer (R13)
and adds to it; `simba_dma_fill_zero` comes before all of them, and in the model
isCore always adds. `fft-tiled/src/fft.c:78` zeroes the two psum buffers once,
"each tile's compute fully overwrites the data region", while
`docs/dataflow/05_fft.md:194` says "each gemm read-accumulates its psum via R13/W3, so each
needs a zeroed target" and hints that this may not hold for a GEMM with one
step in K, as this one. With three tiles (`fft_tiled_long`) the third tile
accumulates onto what the first left, and `PsumFresh` and `ResultsGolden` fail.
Whether isCore skips the psum then is decided in the submodule, so this is a
question and not a finding; the run has `fft_tiled` with two tiles.

## Runs

| Run | Module | Checks | Shows | Bounds |
|---|---|---|---|---|
| `sw_barrier` | `SwBarrier` | `ImplementsBarrier`, `EveryoneReturns` | the barrier is correct over any number of uses, also at the wrap | 3 harts; the iteration wraps at 2, the hardest case; the state space is finite without a bound on the uses |
| `global_barrier` | `MCGlobalBarrier` | `NoEarlyReturn`, `ResultComplete`, `EveryoneReturns`; `ImplementsBarrier`; `SumComplete` | the composition is a barrier for all cores and the exit code counts everybody; in the hardware barrier below it release and arrivals never collide; the DMA reduction above it is complete when cluster 0 returns | 2 clusters of 2 cores, 2 calls (a core can be at most one call ahead); 8 cores, every subset arriving in a cycle; 2 clusters of 2 compute cores, 4 elements, one call: with one level of the tree D9 cannot occur |
| `data_mover` | `MCDataMover` | `NoSleepOverWork`, `ImplementsCopyQueue`, `CallsReturn` | order, completeness, `dm_wait`, no lost wakeup, all calls return; one driver, or two harts that queue of which one waits | ring of 2, DMA depth 2; 3 copies of the driver: the ring wraps, full and empty occur; or one copy of each hart, so D1 cannot occur |
| `data_mover_overrun` | `MCDataMover` | `QueueNotOverrun` | D1 | 2 harts, 2 copies each, ring of 2 |
| `event_unit` | `EventUnit` | `WakeFindsSleepers`, `ImplementsForkJoin`, `RunReturns`, `AllExit` | fork/join with teams of every size, exit | 4 cores; any number of events |
| `boot` | `Boot` | `AllocDisjoint`, `NoGarbage`, `MainInitialised`, `EveryoneBoots` | from reset to the OpenMP runtime: storage, allocators and shared structures are initialised before use, and every core gets through | 1 cluster of 4 compute cores and the DM core, all structures of the bootstrap at their sizes; main allocates from L3 at most twice |
| `omp_loop` | `MCOmpLoop` | `ImplementsForkJoin`, `ArgsIntact`, `EachIterationOnce`, `LastFlagRight`, `LoopComplete` | parallel loops one after the other: each core is called once with its own arguments, each iteration is executed once before the region returns | 4 cores, loops of 1 to 9 iterations (fewer, as many, more than cores, with every remainder), chunks of 1 to 3, 0, 3 or 7 arguments (with 8 to 11 D6 occurs); any number of regions |
| `snax_cluster` | `MCSnaxCluster` | `ResultsGolden`, `TilesApart`, `Terminates` | 41 programs: results are golden, the DMA engine and the accelerator never disturb each other, delayed readers never overtake, psums are fresh, both cores come to the end | 45 instances of 2 to 4 tiles (all stages of the three-stage pipelines overlap, buffers are used again), rings of 2 slots for 4 windows (each slot is refilled), units one tile deep, DMA engine two |
| `tcdm_atomics` | `MCTcdmAtomics` | `ImplementsAtomicMemory`, `MutualExclusion`, `NoLostIncrement`, `SomebodyAcquires`, `NoLivelock` | every access is one step of the row; never two owners of the mutex, it is always taken again; no increment is lost, and one store succeeds again and again | one bank of two rows, two cores, the bus and the DMA engine, words of one bit (both signs; addition and counter wrap), any number of acquisitions and increments, both acquire functions |
| `sequencer` | `MCSequencer` | `IssuesProgram`, `EverythingIssued`, `TraceMatches` | the FPU gets the unrolled program, and all of it; the trace script attributes each issue to its instruction | programs of up to three blocks of all kinds, ring of 2, bodies of up to 2 instructions (a body that fills the ring), 1 or 3 repetitions, 0 or 2 stream tokens |
| `csr_port` | `CsrPort` | `AnswersRight`, `LaunchesAsOrdered`, `Answered` | answers and launches are right while the core has reads outstanding at one port only | 2 register ids, 2 values, spill registers of 2 |
| `streamer` | `MCStreamer` | `DataInOrder`, `AllStored`, `JobsEnd` | the accelerator gets each job's words in order, all results are stored, every job ends | 3 jobs of up to 4 words (a walk across rows, a reader that repeats, a reader switched off), 2 channels, queues of 1 and 2 (each becomes full and empty), the next job configured while one runs |

The three parts of `global_barrier` do not share state; the initial state chooses
one of them, and the others stand still. `TilesApart` is three statements:
`TransfersApart` (no transfer on a tile that a kernel still has to read or write, nor the
other way round), `ReadsFollowWrites` (a reader does not overtake the
unit that feeds it) and `PsumFresh`. What `CallsReturn` says of the data mover is that calls
return and that the copies of a caller that does not wait happen as well.

Deadlock is checked except in `global_barrier`, where every core stops after
its bounded number of calls, in `snax_cluster`, whose cores stop after `main`, and
in `data_mover_overrun`. Elsewhere a system
that is through stutters in a step of its own (`Done`, `Over`), which only the
final states enable.

**Fairness.** A core that is inside a runtime call keeps executing (weak
fairness per core), the clock runs, DMA transfers complete and interrupt writes
land, and the units of the accelerator go on (in `snax_cluster` also both cores, until
the end of `main`). Nothing obliges a program to make another call. Elsewhere than
in `TcdmAtomics` no strong fairness is assumed: a poll loop may be starved by a value
that is only sometimes right, so liveness is claimed only where one client drives
the data mover. `ClientSpec` has strong fairness of each request being granted: the arbiters in
front of the bank are round-robin (`rr_arb_tree` in `tcdm_mux.sv` and in the crossbar of
`snitch_tcdm_interconnect.sv`), so a master that goes on asking gets its turn though others
ask in the same cycles. In the
clocked models `Sequencer`, `CsrPort` and `Streamer` the clock always ticks, and weak
fairness is on one kind of cycle (`Prompt`, `PortPrompt` in `CsrPort`): the one in which everybody outside who can
take or give something does so (the FPU accepts, the core takes its response, the TCDM grants and
answers). Nothing else is required of the cycles in between.

## What disagrees with the code's own words

Shown by a run:

* **D1** `data_mover_overrun`: `dm_memcpy_async` tests `queue_fill` before it takes
  the mutex; two producers overrun the ring ("block only if DM queue is full").

Reached with other constants of the same modules (everything else as in the
module's `.cfg`, without fairness for an invariant); the passing runs stay clear of them,
and the property is in the module. Where it is one that a run checks, the run
shows that it holds in the other case:

* **D2** `DataMover`, `DataMoverExits`, one client that may call `dm_exit` (`Ops <- WaitExit`): `dm_main`
   sets `stat_pvalid` before it clears `stat_q`; a caller that returns in
   between and calls `dm_exit` has its request erased ("Send the data mover to
   exit()").
* **D3** `DataMover`, `ExitReturns`, the same client (or `Ops <- OnlyExit`): `dm_exit` waits for the DM core
   to sleep, but an awake DM core leaves `dm_main` without sleeping.
* **D4** `DataMover`, deadlock, two clients in `dm_wait` (`Ops <- Waiters`): the test "no request be
   pending" is made before the mutex is taken, and the second request is erased.
* **D5** `EventUnit`, `QueueEmptyAtExit`, `NCores = 2`: `eu_exit` runs the queue only
   when there is nothing in it ("make sure queue is empty").
* **D6** `OmpLoop`, `ImplementsForkJoin`, `Argcs = {8}`: cases 8 to 11 of
   `__microtask_wrapper` have no `break`; each thread executes the region five
   times ("call the microtask in the relevant number of threads"), so its loop is executed
   five times too: `EachIterationOnce` and `LoopComplete` are violated as well.
* **D7** `OmpLoop`, `ArgsIntact`, `Argcs = {12}`: the area has
   `KMP_FORK_MAX_NARGS` = 12 words, the fork writes 13; `parallelRegion` then
   writes `nbThreads` over the last argument.
* **D8** `OmpLoop`, `EachIterationOnce`, `Loops <- ByTwo`: the static schedule adds
   `leftOver`, not `leftOver * incr`, to the lower bound. Compilers normalise
   loops to steps of 1, which the theorems and `omp_loop` cover.
* **D9** `GlobalReduction`, `SumComplete`, `NClusters = 4`, `NCompute = 1`, `Len = 1`: in the
   upper levels of the tree a cluster sends its own buffer instead of the sum it
   has received, and the transfer replaces the receiver's sum ("Iterate levels in
   the binary reduction tree"). With two clusters there is one level only.
* **D10** `Startup`, `MainInitialised`, two clusters of two cores: only cluster 0's DM
   core zeroes bss, which all clusters share, and no barrier over all clusters
   precedes main ("Only one core needs to perform the initialization").
* **D11** `TcdmAtomics`, `NoLostIncrement`, `Loopers = {"core0", "bus"}`: the amo shim knows a
   reservation by the core's id only, and requests from the bus have the id of
   core 0: an exclusive access from the bus and an LR of core 0 take each other's
   reservation, and an increment is lost ("An SC may succeed only if no store from
   another hart (or other device) ...").
* **D12** `SeqTrace`, `NoCrash`: `gen_trace.py` takes one offloaded instruction per issue
   while the body is filled, but in an inner loop the sequencer repeats the first
   instruction before the second, and the script runs out of them ("Inner loops:
   replicate instructions during loop body consumption"). `TraceMatches` is about
   what it wrote until then.
* **D13** `CsrPort`, `AnswersRight`, `Mixed = TRUE`: an answer of the accelerator's port
   overtakes one of the streamers' port that waits, and leaves with its id ("we
   know that the responses will always be in order"). Software that uses a value
   before it reads from the other port is not concerned.
* **D14** `Streamer`, `DisabledAsksNothing`, `Jobs <- RepeatThenOff`, `Delayed = {}`: a reader with
   an inner stride of 0 is not disabled by a bound of 0 and fetches one word
   ("Disable all other streamers by setting bound to 0").
   `snax-simbacore-lib.c:269` and `einfft-tiled/src/main.c:22` work around it for R13.

D1, D2, D4 and D10 need particular interleavings; the repository's own tests use the
data mover from one hart. A chunked loop's last-iteration flag is computed from
the absolute upper bound and is right for loops that start at 0, the normalised
ones.

## Proofs

`GlobalBarrierProofs` proves about `SwBarrier`, for every finite non-empty set of callers and
every `ItMod >= 2` (it uses the instance `SW` of the global barrier, whose callers
are the clusters, any number of them):

* `SwBarrierInvariant`: `SW!Spec => []IInv`. `IInv` strengthens what one wants to
  know (nobody returns early) by three facts: `cnt` is the number of harts that
  wait in the current iteration (`CountExact`), a hart between its read of the
  iteration and its add has read the current one (`FreshPrev`), and while one
  hart closes the iteration all others spin in it (`LastIsAlone`). Without
  `FreshPrev` the add of a hart with a stale iteration would be counted into an
  iteration it does not wait for; without `LastIsAlone` the reset could wipe
  out a count.
* `SwBarrierCorrect`: `SW!Spec => SW!ImplementsBarrier`, by step simulation under `IInv`:
  the first access is `Enter`, the bump of the iteration is `Release`, every
  other step stutters.

`EventUnitProofs` proves, for any number of cores:

* `EventUnitInvariant`: `Spec => []EInv`. The master decides from three counters
  (`workers_in_loop`, `workers_wfi`, `fini_count`) what the workers do. `EInv` says
  which positions of the workers each of them counts (for instance
  `workers_wfi` is the number of workers between its increment and its
  decrement in `wfi_worker`), and what holds in between: while an event is open
  no worker that has finished it is awake again, a clear that has not landed
  belongs to a worker that has not decremented `workers_wfi` yet. Hence two
  equal counters mean that all workers are asleep.
* `EventUnitTypes` (`TypeOK`), `WakeupsFindSleepers` (`WakeFindsSleepers`) and
  `EventUnitCorrect` (`ImplementsForkJoin`, by step simulation) follow from it.

It proves about the global barrier, for any clusters, any cores and any `ItMod >= 2`:

* `GlobalBarrierInvariant`: `Spec => []GInv`. It counts how often each core has been
  released by the hardware barrier, from its position and its number of
  calls (`HwCount`), and how often each DM core has got through the software
  barrier (`SwCount`). Cores of a cluster differ in the first only as the
  arrivals allow, DM cores in the second only as `Barrier` allows; the
  invariant of the software barrier says what its counter and iteration mean meanwhile.
* `HwBarrierAligned` (`HwAligned`) and `NobodyReturnsEarly` (`NoEarlyReturn`)
  follow: between two calls of one core lie two hardware and, in every
  cluster, one software barrier.

and of the parts beside it, for any set of cores of the barrier unit and for the DMA reduction:

* `ArrivalsKept` (`NoLostArrival` of `HwBarrier`): the invariant is inductive: in the
  cycle of a release all cores are stalled, so none can issue the arrival that
  the release would drop (`ReleaseIsQuiet`).
* `HwBarrierCorrect`: `PartsSpec => ImplementsBarrier`: a cycle with arrivals is
  `Enter`, the cycle of the release is `Release`.
* `ExitCodesAreCounted`: `Spec => []ResultComplete`, for any contributions. `_reduction_result` is never
  reset: by `RInv`, on top of `GInv` and `NoEarlyReturn`, it is the sum of what the cores have handed in so far, each
  value as often as its core has begun a call (`HandedIn`); whoever gets through the barrier for the n-th time
  has everybody's n-th contribution in it (`EnoughHandedIn`).  A sum over a set does not depend on the order of its elements: that is
  induction on the size of the set, which is proved as the absence of a least counterexample
  (`WFMin` of `WellFoundedInduction`, a fact about sets and not about an operator).
* `ReductionCorrect`: `OneLevel /\ PartsSpec => []SumComplete`, for one or two clusters, any
  number of compute cores and any length they divide (`OneLevel`; with more clusters D9 is what
  happens): what a core of cluster 0, the root of the tree, finds when it returns. The other clusters' buffers
  hold nothing that the code promises. `TInv` says which of the elements are still to be moved, which are moved
  and not yet added, and which have been added by the compute core whose share they are in;
  the shares are a partition (`SharesPartition`).

`OmpLoopProofs` proves about the static schedule, for loops in steps of 1
from any lower to any non-negative upper bound, on a team of any size:

* `StaticPartsDisjoint` and `StaticPartsCover`: the parts are a partition. The
  argument is that thread t + 1's part begins where thread t's ends
  (monotonicity of `t * chunk`, the first `leftOver` threads having one
  iteration more), and that the last one ends at the upper bound.
* `StaticExecutesOnce`: `Spec => []EachIterationOnce` when all loops are such
  loops. The inductive invariant says that an iteration has been counted once if
  the thread whose part holds it is done, and not at all otherwise.
* `StaticLastFlag`: `Spec => []LastFlagRight` for the same loops: the upper bound lies
  in exactly one part, and its thread is the one whose own upper bound equals it.

and, for any team, about programs of parallel loops:

* `ArgumentsArrive` (`LoopSpec => []ArgsIntact`, for all numbers of arguments but 12) by the invariant `AInv`: the words of the argument area
  that the fork has copied carry its own tag, and from the push of the event
  until the join nobody writes the area.
* `ForkCallsOnce` (`ImplementsForkJoin`, under `AllBreak`: the program's numbers of arguments are
  those whose case ends in a `break`, 0 to 7 and 12; D6 is what happens otherwise) by step simulation: a core's pass through
  `__microtask_wrapper` is the interface's `Execute`, since with a `break` after
  its case it calls the microtask once (`RunsMatch`).
* `RegionsSchedule` (`EachIterationOnce`) and `RegionsComplete` (`LoopComplete`), under `AllBreak` and for
  loops of the static schedule (`OnlyStatic`): the
  schedule's invariant, joined with the fact that a core that is
  out of the wrapper has executed its part; so when the fork returns all parts are done. `RunsMatch`
  is part of the invariant: a core that returns from the microtask leaves the wrapper and does not
  execute its part again (`ReturnLeaves`).

`DataMoverProofs` proves, for rings of any size and any clients that call any functions:

* `NoWakeupIsLost` (`NoSleepOverWork`). The DM core goes to sleep after three tests (ring,
  requests, exit). `DInv` says what each test still means when it sleeps: after a branch no
  interrupt clear is in flight; copies that were queued after the test of the ring,
  and a request stored after its test, have an author who still has to wake the DM core, or
  the interrupt is already set.
* `DataMoverIsACopyQueue` (`ImplementsCopyQueue`) and `RingIsNotOverrun`, under `PlansFit`: one hart
  alone queues copies, or the ring holds all that are queued (D1 is what happens otherwise).
  They rest on the invariant `MInv`, in four layers: who is in which call and
  that the mutex excludes (`CallInv`); that `queue_front` is the slot behind the copies and free
  (`RingInv`), which makes each access one of `Slots` appending, dropping its head or leaving
  it alone; that the DM core works only on a request whose author still waits, without an older
  answer (`StatInv`); and that no copy is queued twice and a hart in `dm_wait` has no copy in the
  ring any more after it has seen `queue_fill` at 0, and none in the DMA engine once it is answered
  (`CopyInv`). Several harts may wait or ask at once: the requests go through the mutex.

`TcdmAtomicsProofs` proves, for any word width, rows and cores:

* `AluIsRight`: the comparison through an adder of one bit more gives the minimum and maximum of the
  signed and unsigned values.
* `RequestsAreAtomic` (`ImplementsAtomicMemory`): by step simulation under `SInv`, which says that a
  standing reservation is that of a core whose link stands. It assumes `CoresReserve`:
  LR and SC come from cores, whose ids differ; D11 is what happens otherwise.
* `MutexExcludes` (`MutualExclusion`) and `CounterLosesNothing` (`NoLostIncrement`), for any harts,
  other programs and transfers that do not write the two words (`ProgramsAssumption`), also
  after a conflict has been reported. The mutex and the counter are followed in `Pending`, the words as
  they will be once the atomic in the unit is through: an access changes only what
  it writes (`AcceptWord`, `DmaWord`, `QuietWord`). `PInv` says that whoever is between
  acquire and release has left a word other than 0 (`LockHeld`), and that a hart that is still
  linked has read what the counter holds (`CounterRead`); a store-conditional
  succeeds only for a linked one (`SuccessIsLinked`).
* `ProgramsSeeAtomicMemory`: each cycle of the programs is one of the shim, so
  `RequestsAreAtomic` holds for them.

`BootProofs` proves, for any number of cores from two on and any sizes of stacks, storage and
structures:

* `MainFindsItsData` (`MainInitialised`): the address at which the DM core initialises the i-th
  core's thread-local storage is the one that core computes, whatever the sizes
  (the stack size is a multiple of 8); all the rest is ordered by the two barriers.
* `BootstrapAllocates` (`AllocDisjoint`) and `BootstrapPublishes` (`NoGarbage`). `OInv` rests on
  one fact: core 0 begins only when the DM core has handed out its structure
  (`HandedOver`), so the two together execute one sequence of allocations and
  where the allocator stands is a function of their two positions (`NextAt`). Each structure
  then has a place of its own (`DmAt`, `EuAt`, ...), and a pointer that is handed out is to a structure
  that has been cleared.
* `BootRefinesBootstrap`: `BootSpec => Spec`; the start-up writes the allocator's pointer,
  but only before any core is in main.

`OffloadProofs` proves about the FPU sequencer and the trace script beside it, for any programs, any loops (any numbers of
instructions and repetitions, staggered or not), any depth of the ring and of the configuration buffer:

* `IssuesTheProgram` (`IssuesProgram`) from `RingHoldsTheRest` (`SInv`). There is a place in the program,
  the front, and a number of its issues (0 unless a loop stands there), such that all before have been issued:
  what has been issued, followed by the rest from there (`Rest`), is the unrolled program. `FrontAt` says
  how the hardware knows that place. The pointers are the numbers of plain instructions
  before the front and before the next offload, and at most `Depth` apart, so the extra bit
  tells full from empty (`PointersEqual`, `PointersApart`); the ring holds the instructions
  between the two (`SlotsFit`), the configuration buffer the loops between the two, each with the pointer
  to its body (`CfgsFit`), so that the oldest is taken for the right instruction (`Config`);
  the counters are the two digits of the number of issues (`CountersFit`, `TwoCounters`), the stagger count
  that number or the repetition modulo `stagger_max + 1`; and the tokens left are those from
  the front on. A direct instruction passes only a ring whose front is that instruction (`PassesLast`).
  A cycle is the two sides at once: the output side moves the front (`Output`), the input side what
  is behind it (`InputInstruction`, `InputConfiguration`, `InputNothing`), which may be the
  slot that has just been left.
* `Issues` and `Tokens` are recursive functions over the program; that they satisfy their equations is
  proved by induction over its length (`NatSetInduction`, again by a least counterexample).
* `TraceFollowsIssues` (`TraceMatches`). `ClockMoves` says, for each cycle that keeps `SInv`, what is issued and how the front moves
  (`Moves`); `TInv` says where the script is when the front is at the k-th issue of the loop at place
  i (`TraceAt`). It has consumed as many instructions of the body as it has written out
  issues, but no more than there are (`Worked`); what it replicated from them and has not written out are the entries
  of the loop from the k-th on (`Buffer`), since each entry is the k-th issue's instruction with its
  repetition (`LoopEntry`, `LoopEntryFacts`, `FillWorked`); the places offloaded behind what is consumed are left to it
  (`Places`). How often an instruction of the loop is among its first k issues is a function of k
  (`Reps`), and one that grows by one exactly where the script writes the next repetition (`RepsStep`).
  The script wants an instruction for each issue while the body is being consumed, where the hardware may still repeat an earlier one:
  it finds none only in an inner loop of several instructions and repetitions (`Ahead`, `MayStop`), which is
  D12. When all is issued nothing is left behind the front (`TraceEnds`). Programs with stream loops are
  excepted, as in `TraceMatches`: the script does not know of them.

and about the control register accesses, for any registers, any values and any behaviour of the core, the arbiter and the
accelerators:

* `JobsLaunchedAsOrdered` (`LaunchesAsOrdered`), whatever reads are outstanding. `LInv` says what each
  access on its way will find in the configuration of its port (`RegAt`), that the
  program has written what the last one will leave, and that the jobs ordered and not yet launched are
  the starts on their way, each with what it will find.
* `ReadsAnsweredRight` (`Mixed = FALSE /\ PortSpec => []AnswersRight`; with reads of both ports outstanding
  D13 is what happens). `CInv` adds where an answer can be: a read on its way, or one
  manager and the translator, which then hold the same read, or the spill register;
  a register has one of them at most (`OneRead`). All outstanding reads are of one
  port (`OnePort`), so a read that reaches a manager finds no answer waiting at the other
  (`OneAnswer`).

`StreamerProofs` proves, for any readers, delayed or not, any channels, any depths of the queues and any
jobs that fit the streamer (`JobsFit`):

* `ReadersOfferInOrder` (`DataInOrder`) and `JobsAreStored` (`AllStored`). Every mover's words are numbered
  by its generator: `Gen` is how many addresses it has generated, a number that its
  two loop counters and its state determine. What is still in its queue of addresses has not
  been granted (`Granted`), and what has been granted and is neither in flight nor in the queue of
  data has left the mover (`Gone`). `IInv` says that these queues, joined, are the
  stream from its `Gone`-th word without a gap (`AddrsOK`, `ReadersOK`: `Segment`), that the credits
  count exactly what is in flight or waits, hence a response always finds room, that what left the
  readers, times the repetitions, is what the accelerator has taken (`RepeatsOK`), that what it has
  taken is in its register, in the writer's queue or stored (`WriterOK`, `StoredOK`),
  and that the latched configuration is the one of the job under way (`CoreOK`). In `sIDLE` all queues
  are empty (`IdleOK`); that it is reached only then is `FinishFacts`: when no mover has an
  address left the writer has stored as many words as the job has, which is as many as the readers
  had to give.
* `JobsFit` is what the programs do: one writer, which every job uses; all movers in use walk over equally
  many words (otherwise the accelerator waits for ever or words are left over); and a mover that
  is not in use has a loop of length 0 after the repeater has taken its own away (D14 is what
  happens otherwise).

Assumptions: the named `ASSUME`s on the constants (a non-empty finite set of harts and
`ItMod >= 2` for the software barrier, clusters with a DM core for the global
barrier, at least one core for the event unit, two for the bootstrap, well-formed loops for the
schedule, programs that keep off the words of others for the atomics, and for the sequencer `ProgramFits`: the
body of an `frep` is behind it and holds plain instructions, a stream loop is an outer one over a single instruction
without staggering), and the hypotheses named above
(`PlansFit`, `CoresReserve`, `OneLevel`, `Mixed = FALSE`, `JobsFit`, `AllBreak`, `OnlyStatic`). TLC evaluates the
`ASSUME`s in each run.

Proved only, because the theorem covers all that a run would show: `CountExact` and
the other parts of the inductive invariants, `NoLostArrival`, `HwAligned` and the `TypeOK`s of `SwBarrier`, `HwBarrier` and `EventUnit`.

Only model-checked: all liveness (fairness is out of the prover's reach here);
the chunked schedule; the programs, which are data of the model
rather than parameters of a proof.

## What could follow

The order in which the modules were written is that of the table above: what every
program needs first (barriers, data mover, event unit, OpenMP, start-up), then the
programs, then the hardware below them. What a continuation would take up:

1. Hardware: the LSU's response queue and `reqrsp_demux.sv` (in-order responses, which the
   software models assume; the abstract specification is a queue per core),
   `snitch_shared_muldiv.sv` (tags), xDMA.
2. Proofs: the streamer with several writers, the loops of the schedule in chunks.

## Not modelled

Nested parallel regions (the code calls them an error and exits from one core),
lengths that the compute cores do not divide in `GlobalReduction` (the rest is
left out by the code), `__kmpc_barrier` beyond `SwBarrier`. The programs `nop`, `core-burner` and
`streamer-burner` (they keep units busy for power measurements and have no result);
`conv-downsample` and `main-full` have no program in the repository. Addresses and strides inside a
tile in the programs (`Streamer` has the strides of its own jobs). In the amo shim the bitwise
operations, which differ from the others in the ALU only. In the sequencer
stream loops with more than one body instruction, a direct instruction inside the body of
an `frep`, and the register-dependency tests of the core. In the CSR port the write strobes, the packing of
64-bit registers and clusters with several accelerators behind one multiplexer. In the
streamer movers that both read and write, switched-off channels and byte masks,
address remapping, extensions of the data path, clock crossing and the
performance counter; the accelerator takes and gives words as it likes.
The control paths of xDMA, the multiplexers and demultiplexers of `reqrsp_interface` and
`tcdm_interface`, the shared multiplier/divider. Numeric kernels, accelerator data paths, generators, the performance simulator
and the trace tools: no protocol state. The global-CLINT variants of data mover
and event unit are compiled out. `csr.h`, `team.h`, `perf_cnt.h` are register
accessors. Caches, virtual memory and the core pipeline are out of TLC's reach
as a whole.
