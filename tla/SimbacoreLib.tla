---------------------------- MODULE SimbacoreLib ----------------------------
(***************************************************************************)
(* snax-simbacore-lib.c as instructions of the two Snitch cores.  A        *)
(* program of the cluster is ONE sequence of instructions, because both    *)
(* cores run the same main(): a core skips the instructions of the other   *)
(* one (if (snrt_is_dm_core()), if (snrt_global_core_idx() == 0)) and      *)
(* meets it at the hardware barriers.                                      *)
(*                                                                         *)
(* Memory is divided into tiles.  <<buf, k>> is tile k of buffer buf; the  *)
(* tile sizes and the byte addresses inside a tile are left out.  A        *)
(* streamer walks over tiles: step s of a launch touches the tile          *)
(* at + pat[s].  Strides and bounds are known by that walk; a streamer     *)
(* whose bound is 0 has the walk Off.                                      *)
(***************************************************************************)
EXTENDS Integers, Sequences, TLC, SequencesExt

Streamers == {"R0", "R1", "R2", "R3", "R4", "R5", "R6", "R7", "R8", "R9",
              "R10", "R11", "R12", "R13", "W0", "W1", "W2", "W3"}
Off == <<>>

\* A streamer at tile k of buf: it stays there for n steps, walks over n tiles,
\* or walks over a ring of m slots, g steps on each.  slots: how many steps the
\* software has before a step of the ring meets a slot again (0: no ring).
\* span: how many tiles a step reads.
Stay(buf, k, n) == [at |-> <<buf, k>>, pat |-> [s \in 1 .. n |-> 0], slots |-> 0, span |-> 1]
Walk(buf, k, n) == [at |-> <<buf, k>>, pat |-> [s \in 1 .. n |-> s - 1], slots |-> 0, span |-> 1]
GroupRing(buf, m, g, n) ==
    [at |-> <<buf, 0>>, pat |-> [s \in 1 .. n |-> ((s - 1) \div g) % m],
     slots |-> (m - 1) * g, span |-> 1]
Ring(buf, m, n) == GroupRing(buf, m, 1, n)
One(buf, k) == Stay(buf, k, 1)
Span(buf, k, n) == [at |-> <<buf, k>>, pat |-> <<0>>, slots |-> 0, span |-> n]

\* The statement S is executed for i = 0 .. n-1.
Loop(n, S(_)) == FlattenSeq([i \in 1 .. n |-> S(i - 1)])

When(b, S) == IF b THEN S ELSE <<>>

---------------------------------------------------------------------------
(* Runtime calls. *)

snrt_cluster_hw_barrier == <<[op |-> "barrier"]>>

\* n tiles from src to dst, in the order of their addresses.
DmaN(dst, src, n) ==
    <<[op |-> "dma",
       q  |-> [t \in 1 .. n |-> [to   |-> <<dst[1], dst[2] + (t - 1)>>,
                                 from |-> <<src[1], src[2] + (t - 1)>>]]]>>
Dma(dst, src) == DmaN(dst, src, 1)
\* simba_dma_fill_zero: the source is the tile of zeros, which nobody writes.
Zero == <<"zero", 0>>
simba_dma_fill_zero(dst) == Dma(dst, Zero)
\* A list of transfers, one after the other.
Copies(S) == FlattenSeq(S)
snrt_dma_wait_all == <<[op |-> "dma_wait"]>>

(***************************************************************************)
(* The loop of the double-paced programs.  Each ring has a gauge and a     *)
(* cursor: core 0 polls all gauges until some ring is ready, publishes     *)
(* which (do_os, do_is), and the DM core serves those.  Both cores keep    *)
(* their own copy of the cursors.  F(name, r) are the copies of visit r.   *)
(***************************************************************************)
RingOf(name, u, n) == [name |-> name, u |-> u, n |-> n]
\* early: the reader that the polling loop releases, with its gauge and count.
NoEarly == [r |-> "none"]
PacedLoopWith(rings, early, F(_, _)) ==
    <<[op |-> "pace", rings |-> rings, early |-> early]>>
    \o snrt_cluster_hw_barrier
    \o <<[op |-> "serve",
          q |-> [r \in rings |-> [k \in 0 .. r.n - 1 |-> F(r.name, k)]]],
         [op |-> "advance"]>>
    \o snrt_cluster_hw_barrier
    \o <<[op |-> "again", rings |-> rings]>>
PacedLoop(rings, F(_, _)) == PacedLoopWith(rings, NoEarly, F)

---------------------------------------------------------------------------
(* Configuration.  The enabled streamers are the domain of f; every setter *)
(* of the library writes all others' bounds to 0.                          *)

\* (AllStreamersKept: a setter that forgets to disable the others.)
AllStreamersKept(f) == f
AllStreamers(f) == [s \in Streamers |-> IF s \in DOMAIN f THEN f[s] ELSE Off]

set_streamer_csr(f) == <<[op |-> "streamers", cfg |-> AllStreamers(f)]>>
set_osgemm_streamer_csr(A, B, D) == set_streamer_csr("R0" :> A @@ "R1" :> B @@ "W0" :> D)
set_isgemm_streamer_csr(A, B, CD) ==
    set_streamer_csr("R11" :> A @@ "R12" :> B @@ "R13" :> CD @@ "W3" :> CD)
set_simd_streamer_csr(A, B, C) == set_streamer_csr("R7" :> A @@ "R13" :> B @@ "W3" :> C)
set_simd_streamer_no_b(A, C) == set_streamer_csr("R7" :> A @@ "W3" :> C)

\* write_csr(T_BOUND_BASE_..., ...): one streamer goes on or off.
Bound(r, f) == <<[op |-> "streamers", cfg |-> r :> f]>>
\* write_csr(BASE_PTR_..., ...) for the streamers in the domain of f.
BasePtr(f) == <<[op |-> "base", f |-> f]>>

\* The mode; the dimensions are those of the walks.  set_simbacore_simd_mode
\* and write_csr(MODE, ...) write nothing else.
set_simbacore_csr(mode) == <<[op |-> "mode", mode |-> mode]>>

---------------------------------------------------------------------------
(* Start, gauges, end. *)

\* while (read_csr(gauge) < n);  The gauge of a unit counts its output tiles.
\* (PollEarly: the count is reached one tile too early.)
PollEarly(u, n) == <<[op |-> "poll", u |-> u, n |-> n - 1]>>
Poll(u, n) == <<[op |-> "poll", u |-> u, n |-> n]>>
Release(r) == <<[op |-> "release", r |-> r]>>
\* if (!released && read_csr(gauge) >= n) release; and the same with a wait.
TryRelease(u, n, r) == <<[op |-> "try", u |-> u, n |-> n, r |-> r]>>
EnsureRelease(u, n, r) == <<[op |-> "ensure", u |-> u, n |-> n, r |-> r]>>

\* _set_streamer_start(); _set_simbacore_start();
Start == <<[op |-> "launch"]>>

start_simbacore_and_streamers(R10_en, R10_start_cnt, R11_en, R11_start_cnt) ==
    Start
    \o When(R10_en, Poll("os", R10_start_cnt) \o Release("R10"))
    \o When(R11_en, Poll("suc", R11_start_cnt) \o Release("R11"))

\* The start registers and the delayed starts in R are cleared; a launch that
\* was taken goes on.
Clear(R) == <<[op |-> "clear", r |-> R]>>
ClearStart == Clear({"R10", "R11"})
\* while (read_csr(SIMBACORE_BUSY)); while (read_csr(STREAMER_BUSY_CSR));
WaitIdle == <<[op |-> "idle"]>>
wait_simbacore_and_streamer == ClearStart \o WaitIdle

\* check_result_*: the tiles at loc hold the golden contents.
\* (The comparison itself, with its tolerance of one LSB and -0 = +0, is
\* exact here.)
CheckTiles(loc, gold) == <<[op |-> "check", loc |-> loc, gold |-> gold]>>
CheckN(loc, n, G(_)) == CheckTiles(loc, [t \in 1 .. n |-> G(t - 1)])
Check(loc, gold) == CheckTiles(loc, <<gold>>)

\* Core 0 computes the tile out from the tiles in.
Cpu(k, in, out) == <<[op |-> "cpu", k |-> k, in |-> in, out |-> out]>>

\* Configure, launch and wait for a SIMD kernel, on a with b or on a alone.
RunSimd(mode) ==
    set_simbacore_csr(mode)
    \o start_simbacore_and_streamers(FALSE, 0, FALSE, 0)
    \o wait_simbacore_and_streamer
Simd(mode, a, b, c) == set_simd_streamer_csr(a, b, c) \o RunSimd(mode)
SimdNoB(mode, a, c) == set_simd_streamer_no_b(a, c) \o RunSimd(mode)

---------------------------------------------------------------------------
(* Programs. *)

\* The core that executes an instruction; "both" for the others.
OwnerOf == [barrier |-> "both", dma |-> "dm", dma_wait |-> "dm",
            streamers |-> "core0", base |-> "core0", mode |-> "core0",
            launch |-> "core0", poll |-> "core0", release |-> "core0",
            try |-> "core0", ensure |-> "core0",
            clear |-> "core0", idle |-> "core0", check |-> "core0",
            cpu |-> "core0", pace |-> "core0", serve |-> "dm",
            advance |-> "both", again |-> "both"]

\* What a core executes of the common code.  The DM core does not wait between
\* two transfers, so that it may as well queue a run of them in one step.
OwnCode(code, c) ==
    LET own == SelectSeq(code, LAMBDA i : OwnerOf[i.op] \in {c, "both"})
        \* The positions where a step begins.
        at == SelectSeq([i \in DOMAIN own |-> i],
                        LAMBDA i : i = 1 \/ own[i].op # "dma" \/ own[i - 1].op # "dma")
        last(k) == IF k = Len(at) THEN Len(own) ELSE at[k + 1] - 1
    IN [k \in DOMAIN at |->
           IF own[at[k]].op # "dma" THEN own[at[k]]
           ELSE [op |-> "dma",
                 q  |-> FlattenSeq([j \in 1 .. last(k) - at[k] + 1 |-> own[at[k] + j - 1].q])]]

\* overlay: the sets of buffers that share their bytes.
EndOfMain == <<[op |-> "end"]>>
Program(code, overlay) ==
    [core0   |-> OwnCode(code, "core0") \o EndOfMain,
     dm      |-> OwnCode(code, "dm") \o EndOfMain,
     overlay |-> overlay]
Plain(code) == Program(code, {})
\* Each buffer of S shares bytes with each of T.
Sharing(S, T) == {{p[1], p[2]} : p \in S \X T}

=============================================================================
