------------------------------- MODULE FftApps -------------------------------
(***************************************************************************)
(* The Fourier transforms: one GEMM with a DFT matrix per factor of the    *)
(* length, on isCore, with a twiddle product (SIMD_CMUL_FP8) and a         *)
(* reordering between two of them.  A GEMM accumulates onto its output     *)
(* (R13 and W3 are the same tile), which the programs fill with zeros      *)
(* before (05_fft.md: "each needs a zeroed target").                       *)
(*                                                                         *)
(* A reordering copies: the model does not tell the parts of a tile apart. *)
(* Where a GEMM reads a part of each of n tiles, the step reads all n, and *)
(* the tile of its weight says which part it is.                           *)
(***************************************************************************)
EXTENDS GemmApps

ist(c, w, in) == <<"ist", c, w, in>>
cmul(a, tw) == Kernel("SIMD_CMUL_FP8", <<a, tw>>)
noop(a) == Kernel("SIMD_NOOP_FP8", <<a>>)
W(j, k) == <<"M6_dft_weight" \o ToString(j), k>>
Tw(j, k) == <<"M6_twiddles" \o ToString(j), k>>

\* NextCfg is written while the kernel runs.
RunGemmThen(mode, NextCfg) ==
    set_simbacore_csr(mode)
    \o start_simbacore_and_streamers(FALSE, 0, TRUE, 0)
    \o NextCfg
    \o wait_simbacore_and_streamer
Gemm(w, in, p, mode) == set_isgemm_streamer_csr(w, in, p) \o RunGemmThen(mode, <<>>)
RunSimdThen(mode, NextCfg) ==
    set_simbacore_csr(mode)
    \o start_simbacore_and_streamers(FALSE, 0, FALSE, 0)
    \o NextCfg
    \o wait_simbacore_and_streamer

LoadWeights(n) == Loop(n, LAMBDA j : Dma(<<"weight", j + 1>>, W(j + 1, 0)))

---------------------------------------------------------------------------
(* Without tiling: everything in L1, checked stage by stage.  pack[j] is   *)
(* the kernel that reorders the output of stage j ("repack": core 0 does), *)
(* met the stages after which both cores meet.                             *)

DirectStage(j, pack, last) ==
    LET in == IF j = 1 THEN One("in", 0) ELSE One("packed", j - 1)
    IN IF last THEN Gemm(One("weight", j), in, One("partition", j), "ISGEMM_SQ")
       ELSE Gemm(One("weight", j), in, One("partition", j), "ISGEMM_SQ_TRANSPOSE")
            \o Simd("SIMD_CMUL_FP8", One("partition", j), One("twiddles", j), One("hadamard", j))
            \o (IF pack[j] = "repack" THEN Cpu("repack", <<<<"hadamard", j>>>>, <<"packed", j>>)
                ELSE SimdNoB(pack[j], One("hadamard", j), One("packed", j)))

\* Input of stage j.
GoldenPacked(pack, j) ==
    FoldLeft(LAMBDA in, i : <<pack[i], cmul(ist(Zero, W(i, 0), in), Tw(i, 0))>>,
             <<"M6_dft_in", 0>>, [i \in 1 .. j - 1 |-> i])

DirectFft(n, pack, met) == Plain(
    snrt_cluster_hw_barrier
    \o LoadWeights(n) \o Dma(<<"in", 0>>, <<"M6_dft_in", 0>>)
    \o Loop(n - 1, LAMBDA j : Dma(<<"twiddles", j + 1>>, Tw(j + 1, 0)))
    \o Loop(n, LAMBDA j : simba_dma_fill_zero(<<"partition", j + 1>>))
    \o snrt_dma_wait_all
    \o snrt_cluster_hw_barrier
    \o Loop(n, LAMBDA j : DirectStage(j + 1, pack, j + 1 = n)
                          \o When(j + 1 \in met, snrt_cluster_hw_barrier))
    \o Loop(n - 1, LAMBDA j :
           LET p == ist(Zero, W(j + 1, 0), GoldenPacked(pack, j + 1))
           IN Check(<<"partition", j + 1>>, p) \o Check(<<"hadamard", j + 1>>, cmul(p, Tw(j + 1, 0))))
    \o Check(<<"partition", n>>, isq(Zero, W(n, 0), GoldenPacked(pack, n)))
    \o snrt_cluster_hw_barrier)

fft == DirectFft(2, <<"SIMD_NOOP_FP8">>, {})
fft_3way == DirectFft(3, <<"SIMD_NOOP_FP8", "SIMD_NOOP_FP8">>, {2})
fft_4way == DirectFft(4, <<"SIMD_NOOP_FP8", "repack", "SIMD_NOOP_FP8">>, {})

---------------------------------------------------------------------------
(* fft-tiled: phase A per tile of the second factor, phase B accumulates   *)
(* over its k-tiles.                                                       *)

phaseA_gemm(buf) ==
    set_isgemm_streamer_csr(One("weight", 1), One("in_tile", buf), One("partition1_out_tile", buf))
\* The streamers of the next kernel are written while the current one runs;
\* R11 is released and cleared at once.
phaseA_compute(tile, nb_tiles) ==
    LET cbuf == tile % 2
    IN When(tile = 0, phaseA_gemm(0))
       \o set_simbacore_csr("ISGEMM_SQ_TRANSPOSE") \o Start \o Release("R11") \o Clear({})
       \o Clear({"R11"})
       \o set_simd_streamer_csr(One("partition1_out_tile", cbuf), One("twiddles", 1),
                                One("had_reord_a_tile", cbuf))
       \o WaitIdle
       \o set_simbacore_csr("SIMD_CMUL_FP8") \o Start \o Clear({})
       \o When(tile < nb_tiles - 1, phaseA_gemm((tile + 1) % 2))
       \o WaitIdle
       \o ClearStart
phaseA(nb_tiles) ==
    LET Iteration(i) ==
            When(i >= 2, Dma(<<"had_reord_l3", i - 2>>, <<"had_reord_a_tile", (i - 2) % 2>>))
            \o When(i < nb_tiles, Dma(<<"in_tile", i % 2>>, <<"M6_dft_in", i>>))
            \o snrt_dma_wait_all
            \o When(i \in 1 .. nb_tiles, phaseA_compute(i - 1, nb_tiles))
            \o snrt_cluster_hw_barrier
    IN Loop(nb_tiles + 2, Iteration)

\* A k-tile is a part of every tile of phase A.
phaseB(nb_tiles, nb_tiles_B) ==
    LET load == DmaN(<<"had_reord_b_ktile", 0>>, <<"had_reord_l3", 0>>, nb_tiles)
        Iteration(t) ==
            When(t > 0, load \o snrt_dma_wait_all)
            \o snrt_cluster_hw_barrier
            \o BasePtr("R11" :> <<"weight2", t>> @@ "R12" :> <<"had_reord_b_ktile", 0>>)
            \o RunGemmThen(IF t = nb_tiles_B - 1 THEN "ISGEMM_SQ" ELSE "ISGEMM_SQ_NO_REQUANT", <<>>)
            \o snrt_cluster_hw_barrier
    IN simba_dma_fill_zero(<<"partition2_out", 0>>) \o load
       \o set_isgemm_streamer_csr(One("weight2", 0), Span("had_reord_b_ktile", 0, nb_tiles),
                                  One("partition2_out", 0))
       \o set_simbacore_csr("ISGEMM_SQ")
       \o snrt_dma_wait_all
       \o snrt_cluster_hw_barrier
       \o Loop(nb_tiles_B, Iteration)

GoldenHadamard(tile) == cmul(ist(Zero, W(1, 0), <<"M6_dft_in", tile>>), Tw(1, 0))
\* The last GEMM over nb chunks of K, each a part of every h(i), i < n.
GoldenChunks(j, nb, n, h(_)) ==
    FoldLeft(LAMBDA c, kc : <<IF kc = nb THEN "isq" ELSE "is", c, W(j, kc - 1)>>
                            \o [i \in 1 .. n |-> h(i - 1)],
             Zero, [kc \in 1 .. nb |-> kc])

fft_tiled_layout == Sharing({"had_reord_b_ktile", "partition2_out"},
                            {"in_tile", "partition1_out_tile", "had_reord_a_tile"})
fft_tiled(nb_tiles, nb_tiles_B) == Program(
    snrt_cluster_hw_barrier
    \o Dma(<<"weight", 1>>, W(1, 0)) \o DmaN(<<"weight2", 0>>, W(2, 0), nb_tiles_B)
    \o Dma(<<"twiddles", 1>>, Tw(1, 0)) \o snrt_dma_wait_all
    \o snrt_cluster_hw_barrier
    \o Loop(2, LAMBDA b : simba_dma_fill_zero(<<"partition1_out_tile", b>>)
                          \o simba_dma_fill_zero(<<"had_reord_a_tile", b>>))
    \o snrt_dma_wait_all
    \o snrt_cluster_hw_barrier
    \o phaseA(nb_tiles) \o phaseB(nb_tiles, nb_tiles_B)
    \o CheckN(<<"had_reord_l3", 0>>, nb_tiles, GoldenHadamard)
    \o Check(<<"partition2_out", 0>>, GoldenChunks(2, nb_tiles_B, nb_tiles, GoldenHadamard))
    \o snrt_cluster_hw_barrier,
    fft_tiled_layout)

-----------------------------------------------------------------------------
(***************************************************************************)
(* The Fourier transforms of three and four factors in slices (s) of the   *)
(* model dimension and tiles (lt) of the last factor.  One psum buffer     *)
(* serves several GEMMs: the DM core zeroes it again between two of them   *)
(* and gathers the next inputs behind the computation.  Buffers of the     *)
(* last stage lie over those of the first ones.                            *)
(***************************************************************************)
gather_in_tile(s, lt, nb_l3) == Dma(<<"in", 0>>, <<"M6_dft_in", s * nb_l3 + lt>>)
gather_tw1(lt) == Dma(<<"tw1", 0>>, Tw(1, lt))
gather_tw2(lt) == Dma(<<"tw2", 0>>, Tw(2, lt))
\* simba_dma_fill_zero and the wait for it.
Zeroed(p) == simba_dma_fill_zero(<<p, 0>>) \o snrt_dma_wait_all

LoadWeights3(nb_l3) ==
    Dma(<<"weight1", 0>>, W(1, 0)) \o Dma(<<"weight2", 0>>, W(2, 0))
    \o DmaN(<<"weight3", 0>>, W(3, 0), nb_l3)
    \o snrt_dma_wait_all
    \o snrt_cluster_hw_barrier

\* The last GEMM, one launch per chunk kc of K, from all tiles of h2.
Partition3(h2, p3, nb_l3) ==
    Loop(nb_l3, LAMBDA kc :
        Gemm(One("weight3", kc), Span(h2, 0, nb_l3), In(p3),
             IF kc + 1 = nb_l3 THEN "ISGEMM_SQ" ELSE "ISGEMM_SQ_NO_REQUANT"))

\* The second Hadamard product of a tile; h reorders.
GoldenH2(s, lt, nb_l3, h(_)) ==
    h(cmul(ist(Zero, W(2, 0),
               h(cmul(ist(Zero, W(1, 0), <<"M6_dft_in", s * nb_l3 + lt>>), Tw(1, lt)))),
           Tw(2, lt)))
GoldenOut(s, nb_l3, h(_)) ==
    GoldenChunks(3, nb_l3, nb_l3, LAMBDA lt : GoldenH2(s, lt, nb_l3, h))
Same(x) == x

---------------------------------------------------------------------------
(* fft-3way-L8: H1 and H2 for the reorderings, the psum zeroed while SIMD  *)
(* works.  pad: the last factor is shorter than a tile, inputs are padded. *)

L8_tile(s, lt, nb_l3) ==
    set_isgemm_streamer_csr(In("weight1"), In("in"), In("P"))
    \o RunGemmThen("ISGEMM_SQ_TRANSPOSE", set_simd_streamer_csr(In("P"), In("tw1"), In("H1")))
    \o RunSimdThen("SIMD_CMUL_FP8", set_simd_streamer_no_b(In("H1"), In("H2")))
    \o snrt_cluster_hw_barrier
    \o simba_dma_fill_zero(<<"P", 0>>)
    \o When(lt + 1 < nb_l3, gather_in_tile(s, lt + 1, nb_l3) \o gather_tw1(lt + 1))
    \o snrt_dma_wait_all
    \o RunSimdThen("SIMD_NOOP_FP8", <<>>)
    \o snrt_cluster_hw_barrier
    \o set_isgemm_streamer_csr(In("weight2"), In("H2"), In("P"))
    \o RunGemmThen("ISGEMM_SQ_TRANSPOSE", set_simd_streamer_csr(In("P"), In("tw2"), In("H1")))
    \o RunSimdThen("SIMD_CMUL_FP8", set_simd_streamer_no_b(In("H1"), In("H2")))
    \o snrt_cluster_hw_barrier
    \o When(lt + 1 < nb_l3, gather_tw2(lt + 1) \o simba_dma_fill_zero(<<"P", 0>>))
    \o snrt_dma_wait_all
    \o RunSimdThen("SIMD_NOOP_FP8", <<>>)
    \o snrt_cluster_hw_barrier
    \o Dma(<<"H2_full", lt>>, <<"H2", 0>>) \o snrt_dma_wait_all
    \o snrt_cluster_hw_barrier
L8_slice(s, nb_l3, pad) ==
    When(pad, Copies([i \in 1 .. 3 |-> simba_dma_fill_zero(<<<<"in", "tw1", "tw2">>[i], 0>>)])
              \o snrt_dma_wait_all)
    \o gather_in_tile(s, 0, nb_l3) \o gather_tw1(0) \o gather_tw2(0) \o Zeroed("P")
    \o snrt_cluster_hw_barrier
    \o Loop(nb_l3, LAMBDA lt : L8_tile(s, lt, nb_l3))
    \o Zeroed("P3")
    \o snrt_cluster_hw_barrier
    \o Partition3("H2_full", "P3", nb_l3)
    \o snrt_cluster_hw_barrier
    \o Dma(<<"output_l3", s>>, <<"P3", 0>>) \o snrt_dma_wait_all
    \o snrt_cluster_hw_barrier

fft_3way_L8(nb_d, nb_l3, pad) == Program(
    snrt_cluster_hw_barrier
    \o LoadWeights3(nb_l3)
    \o Loop(nb_d, LAMBDA s : L8_slice(s, nb_l3, pad))
    \o CheckN(<<"output_l3", 0>>, nb_d, LAMBDA s : GoldenOut(s, nb_l3, noop))
    \o snrt_cluster_hw_barrier,
    Sharing({"P3"}, {"in", "tw1", "tw2", "P", "H1", "H2"}))

---------------------------------------------------------------------------
(* fft-3way-tiled: no reordering (the twiddle product writes in order); H2 *)
(* is ping-pong and copied out a tile later.  With one tile per slice two  *)
(* psum buffers change roles from slice to slice.                          *)

CopyH2(lt, to) == Dma(<<to, lt>>, <<"H2s", lt % 2>>)

tiled_gemm1(p, h2) ==
    set_isgemm_streamer_csr(In("weight1"), In("in"), In(p))
    \o RunGemmThen("ISGEMM_SQ_TRANSPOSE", set_simd_streamer_csr(In(p), In("tw1"), h2))
    \o RunSimdThen("SIMD_CMUL_FP8", <<>>)
tiled_gemm2(h2, p, out) ==
    set_isgemm_streamer_csr(In("weight2"), h2, In(p))
    \o RunGemmThen("ISGEMM_SQ_TRANSPOSE", set_simd_streamer_csr(In(p), In("tw2"), out))
    \o RunSimdThen("SIMD_CMUL_FP8", <<>>)

tiled_tile(s, lt, nb_l3, g1, g2, p3) ==
    LET single == nb_l3 = 1
        H2c == One("H2s", lt % 2)
    IN tiled_gemm1(g1, H2c)
       \o When(single, Zeroed(g2))
       \o When(~single /\ lt > 0, CopyH2(lt - 1, "H2_full") \o gather_tw2(lt) \o snrt_dma_wait_all)
       \o snrt_cluster_hw_barrier
       \o When(~single, Zeroed("P") \o snrt_cluster_hw_barrier)
       \o tiled_gemm2(H2c, g2, IF single THEN In("H2_full") ELSE H2c)
       \o When(single, Zeroed(p3))
       \o When(~single /\ lt + 1 < nb_l3,
               gather_in_tile(s, lt + 1, nb_l3) \o gather_tw1(lt + 1) \o snrt_dma_wait_all)
       \o snrt_cluster_hw_barrier
       \o When(~single, When(lt + 1 < nb_l3, Zeroed("P")) \o snrt_cluster_hw_barrier)

tiled_slice(s, nb_d, nb_l3) ==
    LET single == nb_l3 = 1
        odd == s % 2 = 1
        g1 == IF single /\ odd THEN "P3" ELSE "P"
        g2 == IF single /\ ~odd THEN "P3" ELSE "P"
        p3 == IF single THEN g1 ELSE "P3"
    IN When(s = 0 \/ ~single,
            gather_in_tile(s, 0, nb_l3) \o gather_tw1(0) \o gather_tw2(0) \o Zeroed(g1))
       \o snrt_cluster_hw_barrier
       \o Loop(nb_l3, LAMBDA lt : tiled_tile(s, lt, nb_l3, g1, g2, p3))
       \o When(~single, CopyH2(nb_l3 - 1, "H2_full") \o snrt_dma_wait_all \o Zeroed(p3))
       \o snrt_cluster_hw_barrier
       \o When(single /\ s + 1 < nb_d, gather_in_tile(s + 1, 0, nb_l3) \o Zeroed(g2))
       \o Partition3("H2_full", p3, nb_l3)
       \o snrt_cluster_hw_barrier
       \o Dma(<<"output_l3", s>>, <<p3, 0>>) \o snrt_dma_wait_all
       \o snrt_cluster_hw_barrier

fft_3way_tiled(nb_d, nb_l3) == Program(
    snrt_cluster_hw_barrier
    \o LoadWeights3(nb_l3)
    \o Loop(nb_d, LAMBDA s : tiled_slice(s, nb_d, nb_l3))
    \o CheckN(<<"output_l3", 0>>, nb_d, LAMBDA s : GoldenOut(s, nb_l3, Same))
    \o snrt_cluster_hw_barrier,
    IF nb_l3 = 1 THEN {} ELSE Sharing({"P3"}, {"in", "tw1", "tw2", "P", "H2s"}))

---------------------------------------------------------------------------
(* fft-3way-tiled-async: H2 goes to L3; the last GEMM in nb_nt slices of   *)
(* N.  The first gather reads in L3 what the transfer before it writes     *)
(* ("The DMA engine runs transfers in issue order").                       *)

async_tile(s, lt, nb_l3) ==
    LET H2c == One("H2s", lt % 2)
    IN tiled_gemm1("P", H2c)
       \o When(lt > 0, CopyH2(lt - 1, "h2_l3") \o gather_tw2(lt) \o snrt_dma_wait_all)
       \o snrt_cluster_hw_barrier
       \o Zeroed("P")
       \o snrt_cluster_hw_barrier
       \o When(lt + 1 < nb_l3,
               gather_in_tile(s, lt + 1, nb_l3) \o gather_tw1(lt + 1) \o snrt_dma_wait_all)
       \o tiled_gemm2(H2c, "P", H2c)
       \o snrt_cluster_hw_barrier
       \o When(lt + 1 < nb_l3, Zeroed("P"))
       \o snrt_cluster_hw_barrier
async_ntile(s, nt, nb_l3, nb_nt) ==
    When(nt = 0, CopyH2(nb_l3 - 1, "h2_l3"))
    \o DmaN(<<"h2ntile", 0>>, <<"h2_l3", 0>>, nb_l3)
    \o Zeroed("P3")
    \o snrt_cluster_hw_barrier
    \o Partition3("h2ntile", "P3", nb_l3)
    \o snrt_cluster_hw_barrier
    \o Dma(<<"output_l3", s * nb_nt + nt>>, <<"P3", 0>>) \o snrt_dma_wait_all
    \o snrt_cluster_hw_barrier

fft_3way_tiled_async(nb_d, nb_l3, nb_nt) == Program(
    snrt_cluster_hw_barrier
    \o LoadWeights3(nb_l3)
    \o Loop(nb_d, LAMBDA s :
           gather_in_tile(s, 0, nb_l3) \o gather_tw1(0) \o gather_tw2(0) \o Zeroed("P")
           \o snrt_cluster_hw_barrier
           \o Loop(nb_l3, LAMBDA lt : async_tile(s, lt, nb_l3))
           \o Loop(nb_nt, LAMBDA nt : async_ntile(s, nt, nb_l3, nb_nt)))
    \o CheckN(<<"output_l3", 0>>, nb_d * nb_nt, LAMBDA o : GoldenOut(o \div nb_nt, nb_l3, Same))
    \o snrt_cluster_hw_barrier,
    Sharing({"h2ntile", "P3"}, {"in", "tw1", "tw2", "P", "H2s"}))

---------------------------------------------------------------------------
(* fft-4way-tiled-async: stages 1 and 2 per tile of L3 x L4, stages 3 and  *)
(* 4 per slice of N.  The reorderings are done by the DMA engine or by the *)
(* SIMD unit, whichever can for the lengths: dma2, dma3, dma4.             *)

Reorder(by_dma, to, from) ==
    IF by_dma THEN snrt_cluster_hw_barrier \o Dma(to, <<from, 0>>) \o snrt_dma_wait_all
    ELSE SimdNoB("SIMD_NOOP_FP8", In(from), One(to[1], to[2]))

fft4_tile(lt, dma2, dma3) ==
    gather_in_tile(0, lt, 1) \o gather_tw1(lt) \o gather_tw2(lt) \o Zeroed("P")
    \o snrt_cluster_hw_barrier
    \o Gemm(In("weight1"), In("in"), In("P"), "ISGEMM_SQ_TRANSPOSE")
    \o Simd("SIMD_CMUL_FP8", In("P"), In("tw1"), In("H1"))
    \o Reorder(dma2, <<"H2", 0>>, "H1")
    \o snrt_cluster_hw_barrier
    \o Zeroed("P")
    \o snrt_cluster_hw_barrier
    \o Gemm(In("weight2"), In("H2"), In("P"), "ISGEMM_SQ_TRANSPOSE")
    \o Simd("SIMD_CMUL_FP8", In("P"), In("tw2"), In("H1"))
    \o snrt_cluster_hw_barrier
    \o (IF dma3 THEN Dma(<<"packed3", lt>>, <<"H1", 0>>) \o snrt_dma_wait_all
        ELSE SimdNoB("SIMD_NOOP_FP8", In("H1"), One("packed3", lt)))
    \o snrt_cluster_hw_barrier

fft4_chunk(c, nb_12, dma4) ==
    Zeroed("P3")
    \o snrt_cluster_hw_barrier
    \o Gemm(In("weight3"), Span("packed3", 0, nb_12), In("P3"), "ISGEMM_SQ_TRANSPOSE")
    \o snrt_cluster_hw_barrier
    \o Simd("SIMD_CMUL_FP8", In("P3"), In("tw3"), In("H3"))
    \o Zeroed("P4")
    \o snrt_cluster_hw_barrier
    \o (IF dma4 THEN Dma(<<"packed4", 0>>, <<"H3", 0>>) \o snrt_dma_wait_all
        ELSE SimdNoB("SIMD_NOOP_FP8", In("H3"), In("packed4")))
    \o snrt_cluster_hw_barrier
    \o Gemm(In("weight4"), In("packed4"), In("P4"), "ISGEMM_SQ")
    \o snrt_cluster_hw_barrier
    \o Dma(<<"output_l3", c>>, <<"P4", 0>>) \o snrt_dma_wait_all
    \o snrt_cluster_hw_barrier

GoldenOut4(nb_12, dma2, dma3, dma4) ==
    LET pack(dma, x) == IF dma THEN x ELSE noop(x)
        h2(lt) == pack(dma3, cmul(ist(Zero, W(2, 0),
                      pack(dma2, cmul(ist(Zero, W(1, 0), <<"M6_dft_in", lt>>), Tw(1, lt)))), Tw(2, lt)))
        p3 == <<"ist", Zero, W(3, 0)>> \o [i \in 1 .. nb_12 |-> h2(i - 1)]
    IN isq(Zero, W(4, 0), pack(dma4, cmul(p3, Tw(3, 0))))

fft_4way_tiled_async(nb_12, nb_nt, dma2, dma3, dma4) == Program(
    snrt_cluster_hw_barrier
    \o Loop(4, LAMBDA j : Dma(<<"weight" \o ToString(j + 1), 0>>, W(j + 1, 0)))
    \o Dma(<<"tw3", 0>>, Tw(3, 0)) \o snrt_dma_wait_all
    \o snrt_cluster_hw_barrier
    \o Loop(nb_12, LAMBDA lt : fft4_tile(lt, dma2, dma3))
    \o Loop(nb_nt, LAMBDA c : fft4_chunk(c, nb_12, dma4))
    \o CheckN(<<"output_l3", 0>>, nb_nt, LAMBDA c : GoldenOut4(nb_12, dma2, dma3, dma4))
    \o snrt_cluster_hw_barrier,
    Sharing({"P3", "H3", "packed4", "P4"}, {"in", "tw1", "tw2", "P", "H1", "H2"}))
=============================================================================
