----------------------------- MODULE SnaxCluster -----------------------------
(***************************************************************************)
(* The SimbaCore cluster: the compute core (core 0), which programs the    *)
(* accelerator, the data-mover core, its DMA engine, and the units of the  *)
(* accelerator, which all run at the same time.                            *)
(*                                                                         *)
(* A tile holds a content: the name of the tile if nothing was written to  *)
(* it (the arrays of data.h hold their own names, an L1 tile that was      *)
(* never written holds garbage that is equal to nothing else), or          *)
(* <<kernel, inputs>>, the result of a kernel on the contents it read.     *)
(* check_result compares contents.                                         *)
(*                                                                         *)
(* The accelerator and the DMA engine are not in this repository; they are *)
(* modelled from how the programs use them.  The accelerator never waits   *)
(* for the DMA.                                                            *)
(***************************************************************************)
EXTENDS SimbacoreLib, FiniteSets

CONSTANTS
    Programs,     \* the programs by name (see Program in SimbacoreLib)
    Apps,         \* the names of the programs that are run
    PipeDepth,    \* tiles a unit has read and not yet written
    DmaDepth      \* tiles the DMA engine has read and not yet written

ASSUME ClusterAssumption ==
    /\ Apps \subseteq DOMAIN Programs
    /\ PipeDepth \in Nat \ {0}
    /\ DmaDepth \in Nat \ {0}

Cores == {"core0", "dm"}
UnitNames == {"os", "suc", "is", "simd"}

(***************************************************************************)
(* What the modes of SimbaCore connect.  A unit reads one tile from each   *)
(* of its readers and writes one tile to each of its writers: o.args are   *)
(* readers, or earlier outputs of the same unit (osCore to isCore, or the  *)
(* state to the SUC: wires between the cores, which memory does not see).  *)
(* A reader that is off contributes nothing.  after is the delayed start   *)
(* the unit waits for.                                                     *)
(***************************************************************************)
Out(w, k, args) == [w |-> w, k |-> k, args |-> args]
Unit(after, outs) == [after |-> after, outs |-> outs]

OsUnit == "os" :> Unit("none", <<Out("W0", "os", <<"R0", "R1">>)>>)
IsUnit(k) == "is" :> Unit("R11", <<Out("W3", k, <<"R13", "R11", "R12">>)>>)
\* osCore, convolution and isCore in one stream.
ConvUnit(k) == "os" :> Unit("none", <<Out("W1", "conv", <<"R0", "R1", "R3", "R4">>),
                                      Out("W3", k, <<"R13", "W1", "R12">>)>>)
SucIn == <<"R2", "R3", "R4", "R5", "R6", "R7", "R8", "R9", "R10">>
SucUnit == "suc" :> Unit("R10", <<Out("W2", "suc", SucIn)>>)
\* The SUC that starts from a state (load) and leaves one (save).
StateUnit(load, save) ==
    "suc" :> Unit("R10",
        <<Out(IF save THEN "W3" ELSE "wire", "state",
              (IF load THEN <<"R13">> ELSE <<>>) \o SucIn),
          Out("W2", "suc", SucIn \o <<IF save THEN "W3" ELSE "wire">>)>>)
SimdUnit(k) == "simd" :> Unit("none", <<Out("W3", k, <<"R7", "R13">>)>>)
SimdModes == {"SIMD_ADD_BF16", "SIMD_SUB_BF16", "SIMD_MUL_BF16", "SIMD_DIV_BF16",
    "SIMD_MUL_BF16_REQUANT", "SIMD_INPROD_BF16", "SIMD_RMS_BF16", "SIMD_SQRT_BF16",
    "SIMD_RSQRT_BF16", "SIMD_NOOP_BF16_REQUANT", "SIMD_NOOP_BF16_REQUANT_RELU",
    "SIMD_ADD_BF16_REQUANT", "SIMD_ADD_BF16_RELU_REQUANT", "SIMD_FMA_HOLD_BF16_RELU",
    "SIMD_FMA_STREAM_BF16", "SIMD_CMUL_FP8", "SIMD_ADD_FP8", "SIMD_SUB_FP8", "SIMD_MUL_FP8",
    "SIMD_MUL_FP8_REQUANT", "SIMD_INPROD_FP8", "SIMD_RMS_FP8", "SIMD_NOOP_FP8",
    "SIMD_NOOP_FP8_REQUANT", "SIMD_SOFTSHRINK_FP8", "SIMD_ADD_FP8_REQUANT",
    "SIMD_SUB_FP8_REQUANT"}

Units == [
    OSGEMM             |-> OsUnit,
    ISGEMM             |-> IsUnit("isq"),
    ISGEMM_NO_REQUANT  |-> IsUnit("is"),
    ISGEMM_SQ          |-> IsUnit("isq"),
    ISGEMM_SQ_NO_REQUANT |-> IsUnit("is"),
    ISGEMM_SQ_TRANSPOSE  |-> IsUnit("ist"),
    IS_OSGEMM          |-> OsUnit @@ IsUnit("isq"),
    IS_OSGEMM_NO_REQUANT |-> OsUnit @@ IsUnit("is"),
    PHASE1             |-> ConvUnit("isq"),
    PHASE1_NO_REQUANT  |-> ConvUnit("is"),
    PHASE2             |-> OsUnit @@ SucUnit @@ IsUnit("isq"),
    PHASE2_NO_REQUANT  |-> OsUnit @@ SucUnit @@ IsUnit("is"),
    PHASE2_NO_ISCORE   |-> OsUnit @@ SucUnit,
    PHASE2_NO_ISCORE_SAVE  |-> OsUnit @@ StateUnit(FALSE, TRUE),
    PHASE2_NO_ISCORE_CARRY |-> OsUnit @@ StateUnit(TRUE, TRUE),
    PHASE2_NO_ISCORE_LOAD  |-> OsUnit @@ StateUnit(TRUE, FALSE),
    SUC_ONLY           |-> SucUnit,
    SUC_STATE_SAVE     |-> StateUnit(FALSE, TRUE),
    SUC_STATE_CARRY    |-> StateUnit(TRUE, TRUE),
    SUC_STATE_LOAD     |-> StateUnit(TRUE, FALSE)]
    @@ [m \in SimdModes |-> SimdUnit(m)]

VARIABLES
    app,      \* the program
    shared,   \* its sets of buffers that share their bytes
    pc,       \* core -> index of its next instruction
    ins,      \* core -> that instruction
    mem,      \* contents of the tiles that were written
    queue,    \* tiles the DMA engine has to copy
    hold,     \* tiles it has read and not yet written
    csr,      \* the streamer and mode registers
    run,      \* the registers as the last launch took them
    rd, wr,   \* unit -> tiles read and written in this launch
    pipe,     \* unit -> results on their way to memory
    delayed,  \* the delayed-start registers that are 1
    started,  \* the delayed readers that have started in this launch
    lead,     \* those that started after their producer had written something
    since,    \* unit -> tiles it has read since the cluster was last quiet
    do,       \* the rings to serve (do_os, do_is, ...)
    cur,      \* core -> ring -> visits served (r_os, r_is, ...)
    errs      \* failed checks

vars == <<app, shared, pc, ins, mem, queue, hold, csr, run, rd, wr, pipe, delayed, started, lead, since, do, cur, errs>>
cores == <<app, shared, pc>>
dma == <<queue, hold>>
acc == <<run, rd, wr, pipe, started, lead, since>>
loop == <<do, cur>>

At(c, o) == ins[c].op = o
Done(c) == At(c, "end")
Advance(c) == pc' = [pc EXCEPT ![c] = @ + 1] /\ UNCHANGED <<app, shared>>
\* The last conjunct of every step of a core.
Fetch == ins' = [c \in Cores |-> Programs[app][c][pc'[c]]]

---------------------------------------------------------------------------
(* Memory. *)

Content(loc) == IF loc \in DOMAIN mem THEN mem[loc] ELSE loc

\* Buffers that share their bytes with buf: a write to buf destroys them.
Overlaid(buf) == UNION {g \in shared : buf \in g} \ {buf}
StoreAll(f) ==
    LET lost == UNION {Overlaid(l[1]) : l \in DOMAIN f}
    IN mem' = f @@ [l \in {k \in DOMAIN mem : k[1] \notin lost} |-> mem[l]]
Store(loc, v) == StoreAll(loc :> v)

---------------------------------------------------------------------------
(* The accelerator. *)

ActiveUnits == IF run.on THEN DOMAIN Units[run.mode] ELSE {}
Def(u) == Units[run.mode][u]
Writers(u) == {o.w : o \in Range(Def(u).outs)}
On(s) == s \in Streamers /\ run.cfg[s] # Off
\* Writers of one unit that are on walk over the same number of tiles.
Steps(u) == IF \E w \in Writers(u) : On(w)
            THEN Len(run.cfg[CHOOSE w \in Writers(u) : On(w)].pat)
            ELSE 1
UnitDone(u) == wr[u] = Steps(u)

\* A streamer that is on and that no unit of the mode uses never ends, unless
\* it is a delayed one that was never released.
UsedBy(u) == {s \in UNION {Range(o.args) \cup {o.w} : o \in Range(Def(u).outs)} : s \in Streamers}
Used == UNION {UsedBy(u) : u \in ActiveUnits}
Stray == {s \in Streamers : On(s)} \ (Used \cup ({"R10", "R11"} \ started))
Busy == run.on /\ (Stray # {} \/ \E u \in ActiveUnits : ~UnitDone(u))

\* In phase 1 isCore is in the stream of osCore.
Gauge(u) == IF u \in ActiveUnits THEN wr[u] ELSE wr["os"]

TileAt(s, n, j) == LET c == run.cfg[s] IN <<c.at[1], c.at[2] + c.pat[n] + j>>
Tile(s, n) == TileAt(s, n, 0)

\* The results of step n of unit u: output -> content.
Results(u, n) ==
    LET arg(a, done) == IF a \in DOMAIN done THEN <<done[a]>>
                        ELSE IF On(a) THEN [j \in 1 .. run.cfg[a].span |-> Content(TileAt(a, n, j - 1))]
                    ELSE <<>>
        step(done, o) ==
            (o.w :> (<<o.k>> \o FlattenSeq([i \in DOMAIN o.args |-> arg(o.args[i], done)])))
            @@ done
    IN FoldLeft(step, <<>>, Def(u).outs)

---------------------------------------------------------------------------
(* Time.  A core is blocked when it waits for the accelerator or for a     *)
(* core that does; the cluster is quiet when both are and the DMA engine   *)
(* has nothing to do.                                                      *)

Ready(r) == /\ cur["core0"][r.name] < r.n
            /\ Gauge(r.u) >= cur["core0"][r.name] + 1

Blocked(c) ==
    \/ Done(c)
    \/ At(c, "barrier")
    \/ At(c, "poll") /\ Gauge(ins[c].u) < ins[c].n
    \/ At(c, "ensure") /\ ins[c].r \notin delayed /\ Gauge(ins[c].u) < ins[c].n
    \/ At(c, "idle") /\ Busy
    \/ At(c, "pace") /\ ~\E r \in ins[c].rings : Ready(r)

BothAtBarrier == \A c \in Cores : At(c, "barrier")
Quiet == /\ queue = <<>> /\ hold = <<>>
         /\ \A c \in Cores : Blocked(c)
         /\ ~BothAtBarrier

(***************************************************************************)
(* The one assumption on speed: software and DMA get to rest before a unit *)
(* that walks over a ring can meet a slot again (09_async_tiling.md: the   *)
(* refill "must always complete before the streamer re-reads a slot";      *)
(* "relies on the DMA being faster than compute").  Without rings units    *)
(* and software run at any speed.                                          *)
(***************************************************************************)
Rings(u) == {s \in UsedBy(u) : On(s) /\ run.cfg[s].slots > 0}
InTime(u) == Quiet \/ \A s \in Rings(u) : since[u] < run.cfg[s].slots

(***************************************************************************)
(* A reader that starts when its producer has the lead of data.h (datagen: *)
(* get_safe_to_start_delay, from the throughputs of both, with a margin)   *)
(* never overtakes it.  One that starts earlier may.                       *)
(***************************************************************************)
Producer == [R10 |-> "os", R11 |-> "suc"]
InLead(u) == Def(u).after \in lead => rd[u] < wr[Producer[Def(u).after]]

---------------------------------------------------------------------------
Stopped == [on |-> FALSE]
Idle0 == [u \in UnitNames |-> 0]
RingNames == {"os", "suc", "is", "bc", "dt"}

Init ==
    /\ app \in Apps
    /\ pc = [c \in Cores |-> 1]
    /\ \E p \in {Programs[app]} : /\ shared = p.overlay
                                 /\ ins = [c \in Cores |-> p[c][1]]
    /\ mem = <<>>
    /\ queue = <<>> /\ hold = <<>>
    /\ csr = [cfg |-> [s \in Streamers |-> Off], mode |-> "OSGEMM"]
    /\ run = Stopped
    /\ rd = Idle0 /\ wr = Idle0 /\ since = Idle0
    /\ pipe = [u \in UnitNames |-> <<>>]
    /\ delayed = {} /\ started = {} /\ lead = {}
    /\ do = {}
    /\ cur = [c \in Cores |-> [r \in RingNames |-> 0]]
    /\ errs = {}

\* snrt_cluster_hw_barrier, at its abstract interface (module HwBarrier).
Barrier ==
    /\ BothAtBarrier
    /\ pc' = [c \in Cores |-> pc[c] + 1]
    /\ UNCHANGED <<app, shared, mem, dma, csr, acc, delayed, loop, errs>>

\* snrt_dma_start_1d, _2d: the transfer is queued and goes on by itself.
StartDma ==
    /\ At("dm", "dma")
    /\ queue' = queue \o ins["dm"].q
    /\ Advance("dm")
    /\ UNCHANGED <<mem, hold, csr, acc, delayed, loop, errs>>

\* (WaitDmaBegun: a wait that only looks at the transfers that were not begun.)
WaitDmaBegun ==
    /\ At("dm", "dma_wait")
    /\ queue = <<>>
    /\ Advance("dm")
    /\ UNCHANGED <<mem, dma, csr, acc, delayed, loop, errs>>
WaitDma ==
    /\ At("dm", "dma_wait")
    /\ queue = <<>> /\ hold = <<>>
    /\ Advance("dm")
    /\ UNCHANGED <<mem, dma, csr, acc, delayed, loop, errs>>

\* The engine reads and writes the tiles in the order of the queue; it may
\* read tiles before it has written earlier ones.
DmaRead ==
    /\ queue # <<>>
    /\ Len(hold) < DmaDepth
    /\ hold' = Append(hold, [to |-> Head(queue).to, val |-> Content(Head(queue).from)])
    /\ queue' = Tail(queue)
    /\ UNCHANGED <<cores, mem, csr, acc, delayed, loop, errs>>

DmaWrite ==
    /\ hold # <<>>
    /\ Store(Head(hold).to, Head(hold).val)
    /\ hold' = Tail(hold)
    /\ UNCHANGED <<cores, queue, csr, acc, delayed, loop, errs>>

\* Streamer, base-pointer and mode registers.  The accelerator takes them at
\* its start: they may be written for the next launch while it runs.
Configure ==
    /\ \/ /\ At("core0", "streamers")
          /\ csr' = [csr EXCEPT !.cfg = ins["core0"].cfg @@ @]
       \/ /\ At("core0", "base")
          /\ csr' = [csr EXCEPT !.cfg =
                [s \in Streamers |->
                    IF s \in DOMAIN ins["core0"].f /\ @[s] # Off
                    THEN [@[s] EXCEPT !.at = ins["core0"].f[s]] ELSE @[s]]]
       \/ /\ At("core0", "mode")
          /\ csr' = [csr EXCEPT !.mode = ins["core0"].mode]
    /\ Advance("core0")
    /\ UNCHANGED <<mem, dma, acc, delayed, loop, errs>>

\* _set_streamer_start, _set_simbacore_start.  A delayed start that is still
\* set starts its reader at once.
Launch ==
    /\ At("core0", "launch")
    /\ run' = [on |-> TRUE, cfg |-> csr.cfg, mode |-> csr.mode]
    /\ rd' = Idle0 /\ wr' = Idle0 /\ since' = Idle0
    /\ pipe' = [u \in UnitNames |-> <<>>]
    /\ started' = delayed /\ lead' = {}
    /\ Advance("core0")
    /\ UNCHANGED <<mem, dma, csr, delayed, loop, errs>>

\* while (read_csr(R10_DELAY_GAUGE) < ...); and the like.
PollGauge ==
    /\ At("core0", "poll") /\ ~Blocked("core0")
    /\ Advance("core0")
    /\ UNCHANGED <<mem, dma, csr, acc, delayed, loop, errs>>

\* write_csr(DELAYED_START_READER_..., 1).
ReleaseNow(R) ==
    /\ delayed' = delayed \cup R
    /\ started' = started \cup R
    /\ lead' = lead \cup {r \in R \ started : wr[Producer[r]] > 0}
ReleaseReader ==
    /\ \/ At("core0", "release")
       \/ At("core0", "ensure") /\ ~Blocked("core0")
    /\ ReleaseNow({ins["core0"].r})
    /\ Advance("core0")
    /\ UNCHANGED <<mem, dma, csr, run, rd, wr, pipe, since, loop, errs>>

\* A release inside the refill loop: only if the count is reached by now.
TryReleaseReader ==
    /\ At("core0", "try")
    /\ ReleaseNow({r \in {ins["core0"].r} : Gauge(ins["core0"].u) >= ins["core0"].n})
    /\ Advance("core0")
    /\ UNCHANGED <<mem, dma, csr, run, rd, wr, pipe, since, loop, errs>>

ClearStarts ==
    /\ At("core0", "clear")
    /\ delayed' = delayed \ ins["core0"].r
    /\ Advance("core0")
    /\ UNCHANGED <<mem, dma, csr, acc, loop, errs>>

WaitAccelerator ==
    /\ At("core0", "idle") /\ ~Busy
    /\ run' = Stopped
    /\ Advance("core0")
    /\ UNCHANGED <<mem, dma, csr, rd, wr, pipe, started, lead, since, delayed, loop, errs>>

CheckResult ==
    /\ At("core0", "check")
    /\ LET i == ins["core0"]
           bad == {t \in DOMAIN i.gold :
                      Content(<<i.loc[1], i.loc[2] + (t - 1)>>) # i.gold[t]}
       IN errs' = errs \cup {<<i.loc[1], t>> : t \in bad}
    /\ Advance("core0")
    /\ UNCHANGED <<mem, dma, csr, acc, delayed, loop>>

\* Core 0 computes a tile itself.
Compute ==
    /\ At("core0", "cpu")
    /\ LET i == ins["core0"]
       IN Store(i.out, <<i.k>> \o [j \in DOMAIN i.in |-> Content(i.in[j])])
    /\ Advance("core0")
    /\ UNCHANGED <<dma, csr, acc, delayed, loop, errs>>

(* The double-paced loop. *)
Pace ==
    /\ At("core0", "pace") /\ ~Blocked("core0")
    /\ do' = {r \in ins["core0"].rings : Ready(r)}
    /\ LET e == ins["core0"].early
       IN ReleaseNow(IF e.r = "none" THEN {} ELSE {r \in {e.r} : Gauge(e.u) >= e.n})
    /\ Advance("core0")
    /\ UNCHANGED <<mem, dma, csr, run, rd, wr, pipe, since, cur, errs>>

Serve ==
    /\ At("dm", "serve")
    /\ queue' = queue \o FlattenSeq([i \in 1 .. Cardinality(do) |->
            LET r == SetToSeq(do)[i] IN ins["dm"].q[r][cur["dm"][r.name]]])
    /\ Advance("dm")
    /\ UNCHANGED <<mem, hold, csr, acc, delayed, loop, errs>>

StepCursors(c) ==
    /\ At(c, "advance")
    /\ cur' = [cur EXCEPT ![c] = [n \in RingNames |->
            IF \E r \in do : r.name = n THEN @[n] + 1 ELSE @[n]]]
    /\ Advance(c)
    /\ UNCHANGED <<mem, dma, csr, acc, delayed, do, errs>>

Again(c) ==
    /\ At(c, "again")
    /\ IF \E r \in ins[c].rings : cur[c][r.name] < r.n
       THEN pc' = [pc EXCEPT ![c] = @ - 4] /\ UNCHANGED cur
       ELSE /\ pc' = [pc EXCEPT ![c] = @ + 1]
            /\ cur' = [cur EXCEPT ![c] = [n \in RingNames |-> 0]]
    /\ UNCHANGED <<app, shared, mem, dma, csr, acc, delayed, do, errs>>

(* The units. *)
Released(u) == Def(u).after = "none" \/ Def(u).after \in started

UnitRead(u) ==
    /\ u \in ActiveUnits /\ Released(u)
    /\ rd[u] < Steps(u)
    /\ rd[u] - wr[u] < PipeDepth
    /\ InTime(u) /\ InLead(u)
    /\ rd' = [rd EXCEPT ![u] = @ + 1]
    /\ since' = [since EXCEPT ![u] = IF Quiet THEN 1 ELSE @ + 1]
    /\ pipe' = [pipe EXCEPT ![u] = Append(@, Results(u, rd[u] + 1))]
    /\ UNCHANGED <<cores, mem, dma, csr, run, wr, delayed, started, lead, loop, errs>>

UnitWrite(u) ==
    /\ pipe[u] # <<>>
    /\ LET f == Head(pipe[u])
           outs == {w \in DOMAIN f : On(w)}
       IN StoreAll([l \in {Tile(w, wr[u] + 1) : w \in outs} |->
                       f[CHOOSE w \in outs : Tile(w, wr[u] + 1) = l]])
    /\ pipe' = [pipe EXCEPT ![u] = Tail(@)]
    /\ wr' = [wr EXCEPT ![u] = @ + 1]
    /\ UNCHANGED <<cores, dma, csr, run, rd, since, delayed, started, lead, loop, errs>>

Core0Step == StepCursors("core0") \/ Again("core0") \/ Configure \/ Launch \/ PollGauge
             \/ ReleaseReader \/ TryReleaseReader \/ ClearStarts \/ WaitAccelerator \/ CheckResult
             \/ Compute \/ Pace
DmStep == StepCursors("dm") \/ Again("dm") \/ StartDma \/ WaitDma \/ Serve
UnitStep == \E u \in UnitNames : UnitRead(u) \/ UnitWrite(u)

Next == \/ (Barrier \/ Core0Step \/ DmStep) /\ Fetch
        \/ (DmaRead \/ DmaWrite \/ UnitStep) /\ UNCHANGED ins

\* Some machine goes on as long as one can: every program is finite.
Fairness == WF_vars(Next)

Spec == Init /\ [][Next]_vars /\ Fairness

---------------------------------------------------------------------------
\* Every check of every program finds the golden result, whatever the order in
\* which the cores, the DMA engine and the units of the accelerator go on.
ResultsGolden == errs = {}

\* The tiles that streamer s of unit u walks over after n steps.  The slots of
\* a ring are left to InTime.
Ahead(s, u, n) ==
    IF ~On(s) \/ run.cfg[s].slots > 0 THEN {}
    ELSE {TileAt(s, k, j) : k \in n + 1 .. Steps(u), j \in 0 .. run.cfg[s].span - 1}
ToRead == UNION {UNION {Ahead(s, u, rd[u]) : s \in UsedBy(u) \ Writers(u)} : u \in ActiveUnits}
ToWrite == UNION {UNION {Ahead(w, u, wr[u]) : w \in Writers(u)} : u \in ActiveUnits}

\* Outside the rings no transfer in flight touches what the accelerator has
\* still to read or to write.
TransfersApart ==
    LET todo == ToWrite
        needed == ToRead \cup todo
    IN /\ \A t \in Range(queue) \cup Range(hold) : t.to \notin needed
       /\ \A t \in Range(queue) : t.from \notin todo

\* A unit that reads what another unit of the same launch writes (osCore feeds
\* the SUC, the SUC feeds isCore) reads no tile before it is written.
ReadsFollowWrites ==
    \A u, v \in ActiveUnits : u # v =>
        \A s \in UsedBy(u) \ Writers(u), w \in Writers(v) :
            On(s) /\ On(w) /\ run.cfg[s].at[1] = run.cfg[w].at[1] =>
                \A n \in 1 .. rd[u] : \A m \in wr[v] + 1 .. Steps(v) :
                    Tile(s, n) # Tile(w, m)

\* isCore accumulates onto what R13 reads.  At a launch that is zero, a bias or
\* a sum that goes on, and neither garbage nor a result that was requantised.
PsumFresh ==
    run.on /\ rd = Idle0 /\ On("R13") /\ "R11" \in UNION {UsedBy(u) : u \in ActiveUnits} =>
        LET c == Content(Tile("R13", 1))
        IN c # Tile("R13", 1) /\ c[1] \notin {"isq", "ist"}

\* Transfers and kernels keep out of each other's tiles: the ping-pong buffers, the
\* barriers, the delayed starts and the counts they wait for see to it, so that no
\* result depends on who is faster.
TilesApart == TransfersApart /\ ReadsFollowWrites /\ PsumFresh

\* Both cores come to the end of every program: no gauge is polled for a tile
\* that never comes, no core waits at a barrier alone.
Terminates == <>(\A c \in Cores : Done(c))

=============================================================================
