------------------------------ MODULE MambaApps ------------------------------
(***************************************************************************)
(* The programs of a Mamba layer that tile the inner dimension.            *)
(*                                                                         *)
(* Phase 1: oscore_in (x) weights -> convolution -> isCore, whose psum     *)
(* accumulates over the tiles.  Phase 2: osCore makes z, the SUC y from z  *)
(* and from the results of phase 1, isCore the output from y.              *)
(*                                                                         *)
(* One launch works on one tile, one window of the sequence after the      *)
(* other.  The counts M2_R10_start_cnt and M2_R11_start_cnt of data.h are  *)
(* the lead of a producer over its consumer; here a lead of one window.    *)
(* Names: M1_x and M2_x are the arrays of data.h.                          *)
(***************************************************************************)
EXTENDS GemmApps

conv(oin, ow, cw, cb) == <<"conv", oin, ow, cw, cb>>
suc(dt, w1, db, w2, A, BC, D, x, z) == <<"suc", dt, w1, db, w2, A, BC, D, x, z>>

\* The results of the layer for tile i (of the inner dimension) and window w.
M1(name, i) == <<"M1_" \o name, i>>
M2(name, i) == <<"M2_" \o name, i>>
GoldenConvAt(i, w) == conv(M1("oscore_in", w), M1("oscore_weight", i), M1("conv_weight", i), M1("conv_bias", i))
GoldenConv(i) == GoldenConvAt(i, 0)
GoldenZ(i) == os(M2("oscore_in", 0), M2("oscore_weight", i))

\* isCore over n tiles of the input a(i), the last one requantised.
SumIs(bias, a, w, n) ==
    LET sum[k \in 0 .. n] == IF k = 0 THEN bias ELSE is(sum[k - 1], a[k - 1], <<w, k - 1>>)
    IN sum[n]
FullIs(bias, a, w, n) == isq(SumIs(bias, a, w, n - 1), a[n - 1], <<w, n - 1>>)
GoldenIscoreP1(n) == FullIs(M1("iscore_bias", 0), [i \in 0 .. n |-> GoldenConv(i)],
                            "M1_iscore_weight", n)
GoldenP2(bias, y, n) == FullIs(bias, y, "M2_iscore_weight", n)

\* main/src/helper.c.
set_streamer_phase1(oscore_in, oscore_weight, conv_weight, conv_bias, iscore_weight, iscore_out, conv_out) ==
    set_streamer_csr("R0" :> oscore_in @@ "R1" :> oscore_weight @@ "R3" :> conv_weight
        @@ "R4" :> conv_bias @@ "R12" :> iscore_weight @@ "R13" :> iscore_out
        @@ "W1" :> conv_out @@ "W3" :> iscore_out)
set_streamer_phase2(oscore_in, oscore_weight, z, dt_in, dt_weight_1, dt_weight_2, dt_bias, x, A, BC, D, y, iscore_weight, iscore_out) ==
    set_streamer_csr("R0" :> oscore_in @@ "R1" :> oscore_weight @@ "R2" :> dt_in
        @@ "R3" :> dt_weight_1 @@ "R4" :> dt_bias @@ "R5" :> dt_weight_2 @@ "R6" :> A
        @@ "R7" :> BC @@ "R8" :> D @@ "R9" :> x @@ "R10" :> z @@ "R11" :> y
        @@ "R12" :> iscore_weight @@ "R13" :> iscore_out
        @@ "W0" :> z @@ "W2" :> y @@ "W3" :> iscore_out)

\* dt and BC are two parts of the result of phase 1; ptr_x is the convolution's.
main == Plain(
    Copies(<<Dma(<<"oscore_in", 0>>, M1("oscore_in", 0)),
             Dma(<<"oscore_weight_P1", 0>>, M1("oscore_weight", 0)),
             Dma(<<"conv_weight", 0>>, M1("conv_weight", 0)),
             Dma(<<"conv_bias", 0>>, M1("conv_bias", 0)),
             Dma(<<"iscore_weight_P1", 0>>, M1("iscore_weight", 0)),
             Dma(<<"iscore_out_P1", 0>>, M1("iscore_bias", 0))>>)
    \o snrt_dma_wait_all
    \o snrt_cluster_hw_barrier
    \o set_streamer_phase1(One("oscore_in", 0), One("oscore_weight_P1", 0), One("conv_weight", 0),
                           One("conv_bias", 0), One("iscore_weight_P1", 0),
                           One("iscore_out_P1", 0), One("conv_out", 0))
    \o set_simbacore_csr("PHASE1")
    \o start_simbacore_and_streamers(FALSE, 0, FALSE, 0)
    \o wait_simbacore_and_streamer
    \o Copies(<<Dma(<<"oscore_weight_P2", 0>>, M2("oscore_weight", 0)),
                Dma(<<"dt_weight_1", 0>>, M2("dt_weight_1", 0)),
                Dma(<<"dt_weight_2", 0>>, M2("dt_weight_2", 0)),
                Dma(<<"dt_bias", 0>>, M2("dt_bias", 0)),
                Dma(<<"A", 0>>, M2("suc_A", 0)),
                Dma(<<"D", 0>>, M2("suc_D", 0)),
                Dma(<<"iscore_weight_P2", 0>>, M2("iscore_weight", 0)),
                Dma(<<"iscore_out_P2", 0>>, M2("iscore_bias", 0))>>)
    \o snrt_dma_wait_all
    \o snrt_cluster_hw_barrier
    \o set_streamer_phase2(One("oscore_in", 0), One("oscore_weight_P2", 0), One("z", 0),
                           One("iscore_out_P1", 0), One("dt_weight_1", 0), One("dt_weight_2", 0),
                           One("dt_bias", 0), One("conv_out", 0), One("A", 0),
                           One("iscore_out_P1", 0), One("D", 0), One("y", 0),
                           One("iscore_weight_P2", 0), One("iscore_out_P2", 0))
    \o set_simbacore_csr("PHASE2")
    \o start_simbacore_and_streamers(TRUE, 1, TRUE, 1)
    \o wait_simbacore_and_streamer
    \o LET dt_BC == GoldenIscoreP1(1)
           z == os(M1("oscore_in", 0), M2("oscore_weight", 0))
           y == suc(dt_BC, M2("dt_weight_1", 0), M2("dt_bias", 0), M2("dt_weight_2", 0),
                    M2("suc_A", 0), dt_BC, M2("suc_D", 0), GoldenConv(0), z)
       IN Check(<<"z", 0>>, z) \o Check(<<"y", 0>>, y)
          \o Check(<<"iscore_out_P2", 0>>, GoldenP2(M2("iscore_bias", 0), 0 :> y, 1))
    \o snrt_cluster_hw_barrier)

---------------------------------------------------------------------------
(* The software pipeline over the tiles of the inner dimension: iteration i *)
(* loads tile i, computes tile i-1 and copies out tile i-2; buffers are    *)
(* ping-pong.  A tile is nb_l windows along the sequence, one step each.   *)

LoadTile(pairs, i) ==
    Copies([j \in DOMAIN pairs |-> Dma(<<pairs[j][1], i % 2>>, <<pairs[j][2], i>>)])
SpillTile(dst, src, i, nb_l) == DmaN(<<dst, i * nb_l>>, <<src, (i % 2) * nb_l>>, nb_l)

P1Weights == <<<<"oscore_weight_P1", "M1_oscore_weight">>, <<"conv_weight", "M1_conv_weight">>,
               <<"conv_bias", "M1_conv_bias">>, <<"iscore_weight_P1", "M1_iscore_weight">>>>
P2Weights == <<<<"oscore_weight_P2", "M2_oscore_weight">>, <<"dt_weight_1", "M2_dt_weight_1">>,
               <<"dt_weight_2", "M2_dt_weight_2">>, <<"dt_bias", "M2_dt_bias">>,
               <<"A", "M2_suc_A">>, <<"D", "M2_suc_D">>,
               <<"iscore_weight_P2", "M2_iscore_weight">>>>

P1NextTile(t, nb_l) ==
    BasePtr("R1" :> <<"oscore_weight_P1", t % 2>> @@ "R3" :> <<"conv_weight", t % 2>>
            @@ "R4" :> <<"conv_bias", t % 2>> @@ "R12" :> <<"iscore_weight_P1", t % 2>>
            @@ "W1" :> <<"conv_out_tile", (t % 2) * nb_l>>)
P2NextTile(t, nb_l) ==
    LET big == (t % 2) * nb_l
    IN BasePtr("R1" :> <<"oscore_weight_P2", t % 2>> @@ "R3" :> <<"dt_weight_1", t % 2>>
               @@ "R4" :> <<"dt_bias", t % 2>> @@ "R5" :> <<"dt_weight_2", t % 2>>
               @@ "R6" :> <<"A", t % 2>> @@ "R8" :> <<"D", t % 2>>
               @@ "R9" :> <<"x_tile", big>> @@ "R10" :> <<"z_tile", big>>
               @@ "R11" :> <<"y_tile", big>> @@ "R12" :> <<"iscore_weight_P2", t % 2>>
               @@ "W0" :> <<"z_tile", big>> @@ "W2" :> <<"y_tile", big>>)

\* load[i]: the copies that load tile i.
Phase1TilesFrom(load, nb_tiles) ==
    LET Compute(t) ==
            When(t = nb_tiles - 1, set_simbacore_csr("PHASE1"))
            \o Start \o Clear({})
            \o When(t < nb_tiles - 1, P1NextTile(t + 1, 1))
            \o WaitIdle
        Iteration(i) ==
            When(i < nb_tiles, load[i])
            \o When(i \in 1 .. nb_tiles, Compute(i - 1))
            \o When(i >= 2, SpillTile("conv_out_l3", "conv_out_tile", i - 2, 1))
            \o snrt_dma_wait_all
            \o snrt_cluster_hw_barrier
    IN Loop(nb_tiles + 2, Iteration)
Phase1Tiles(nb_tiles) ==
    Phase1TilesFrom([i \in 0 .. nb_tiles - 1 |-> LoadTile(P1Weights, i)], nb_tiles)

\* x_src: where x comes from, data.h or the convolution's copy in L3.
Phase2TilesFrom(load, nb_tiles, nb_l, x_src) ==
    LET Compute(t) ==
            When(t = nb_tiles - 1, set_simbacore_csr("PHASE2"))
            \o start_simbacore_and_streamers(TRUE, 1, TRUE, 1)
            \o ClearStart
            \o When(t < nb_tiles - 1, P2NextTile(t + 1, nb_l))
            \o WaitIdle
        Iteration(i) ==
            When(i < nb_tiles,
                 load[i]
                 \o DmaN(<<"x_tile", (i % 2) * nb_l>>, <<x_src, i * nb_l>>, nb_l))
            \o When(i \in 1 .. nb_tiles, Compute(i - 1))
            \o When(i >= 2, SpillTile("z_l3", "z_tile", i - 2, nb_l)
                            \o SpillTile("y_l3", "y_tile", i - 2, nb_l))
            \o snrt_dma_wait_all
            \o snrt_cluster_hw_barrier
    IN Loop(nb_tiles + 2, Iteration)
Phase2Tiles(nb_tiles, nb_l, x_src) ==
    Phase2TilesFrom([i \in 0 .. nb_tiles - 1 |-> LoadTile(P2Weights, i)], nb_tiles, nb_l, x_src)

P1Streamers(nb_l, oscore_in, iscore_out) ==
    set_streamer_phase1(oscore_in, Stay("oscore_weight_P1", 0, nb_l),
        Stay("conv_weight", 0, nb_l), Stay("conv_bias", 0, nb_l),
        Stay("iscore_weight_P1", 0, nb_l), iscore_out, Walk("conv_out_tile", 0, nb_l))
P2Streamers(nb_l, oscore_in, dt_BC, iscore_out) ==
    set_streamer_phase2(oscore_in, Stay("oscore_weight_P2", 0, nb_l),
        Walk("z_tile", 0, nb_l), Walk(dt_BC, 0, nb_l), Stay("dt_weight_1", 0, nb_l),
        Stay("dt_weight_2", 0, nb_l), Stay("dt_bias", 0, nb_l), Walk("x_tile", 0, nb_l),
        Stay("A", 0, nb_l), Walk(dt_BC, 0, nb_l), Stay("D", 0, nb_l), Walk("y_tile", 0, nb_l),
        Stay("iscore_weight_P2", 0, nb_l), Walk(iscore_out, 0, nb_l))

\* y of tile i from the dt and BC of a window.
GoldenY(dt_BC, x, z, i) ==
    suc(dt_BC, M2("dt_weight_1", i), M2("dt_bias", i), M2("dt_weight_2", i), M2("suc_A", i),
        dt_BC, M2("suc_D", i), x, z)

P1_tiled_D(nb_tiles) == Plain(
    snrt_cluster_hw_barrier
    \o P1Streamers(1, One("oscore_in", 0), One("iscore_out_P1", 0))
    \o set_simbacore_csr("PHASE1_NO_REQUANT")
    \o Dma(<<"oscore_in", 0>>, M1("oscore_in", 0)) \o Dma(<<"iscore_out_P1", 0>>, M1("iscore_bias", 0))
    \o snrt_dma_wait_all
    \o snrt_cluster_hw_barrier
    \o Phase1Tiles(nb_tiles)
    \o CheckN(<<"conv_out_l3", 0>>, nb_tiles, GoldenConv)
    \o Check(<<"iscore_out_P1", 0>>, GoldenIscoreP1(nb_tiles))
    \o snrt_cluster_hw_barrier)

P2_tiled_D_setup ==
    snrt_cluster_hw_barrier
    \o P2Streamers(1, One("oscore_in", 0), "dt_in", "iscore_out_P2")
    \o set_simbacore_csr("PHASE2_NO_REQUANT")
    \o Dma(<<"oscore_in", 0>>, M2("oscore_in", 0)) \o Dma(<<"dt_in", 0>>, M2("dt_BC", 0))
    \o Dma(<<"iscore_out_P2", 0>>, M2("iscore_bias", 0))
    \o snrt_dma_wait_all
    \o snrt_cluster_hw_barrier
P2_tiled_D(nb_tiles) == Plain(
    P2_tiled_D_setup
    \o Phase2Tiles(nb_tiles, 1, "M2_suc_x")
    \o LET y(i) == GoldenY(M2("dt_BC", 0), M2("suc_x", i), GoldenZ(i), i)
       IN CheckN(<<"z_l3", 0>>, nb_tiles, GoldenZ) \o CheckN(<<"y_l3", 0>>, nb_tiles, y)
          \o Check(<<"iscore_out_P2", 0>>,
                   GoldenP2(M2("iscore_bias", 0), [i \in 0 .. nb_tiles |-> y(i)], nb_tiles))
    \o snrt_cluster_hw_barrier)

---------------------------------------------------------------------------
(* Both phases.  The ping-pong buffers of phase 2 lie where those of phase *)
(* 1 were; phase 2 reads dt and BC where phase 1 left its result.          *)

P1Buffers == {"oscore_weight_P1", "conv_weight", "conv_bias", "iscore_weight_P1", "conv_out_tile"}
P2Buffers == {"oscore_weight_P2", "dt_weight_1", "dt_weight_2", "dt_bias", "A", "D",
              "iscore_weight_P2", "x_tile", "z_tile", "y_tile"}
main_tiled_layout == Sharing(P1Buffers, P2Buffers)

main_tiled_phase1_setup ==
    P1Streamers(1, One("oscore_in", 0), One("iscore_out_P1", 0))
    \o set_simbacore_csr("PHASE1_NO_REQUANT")
    \o Dma(<<"oscore_in", 0>>, M1("oscore_in", 0)) \o Dma(<<"iscore_out_P1", 0>>, M1("iscore_bias", 0))
    \o snrt_dma_wait_all
    \o snrt_cluster_hw_barrier

main_tiled_phase2_setup ==
    Dma(<<"iscore_out_P2", 0>>, M2("iscore_bias", 0)) \o snrt_dma_wait_all
    \o snrt_cluster_hw_barrier
    \o P2Streamers(1, One("oscore_in", 0), "iscore_out_P1", "iscore_out_P2")
    \o set_simbacore_csr("PHASE2_NO_REQUANT")
    \o snrt_cluster_hw_barrier

main_tiled_checks(nb_tiles) ==
    LET dt_BC == GoldenIscoreP1(nb_tiles)
        z(i) == os(M1("oscore_in", 0), M2("oscore_weight", i))
        y(i) == GoldenY(dt_BC, GoldenConv(i), z(i), i)
    IN CheckN(<<"conv_out_l3", 0>>, nb_tiles, GoldenConv)
       \o Check(<<"iscore_out_P1", 0>>, dt_BC)
       \o CheckN(<<"z_l3", 0>>, nb_tiles, z) \o CheckN(<<"y_l3", 0>>, nb_tiles, y)
       \o Check(<<"iscore_out_P2", 0>>,
                GoldenP2(M2("iscore_bias", 0), [i \in 0 .. nb_tiles |-> y(i)], nb_tiles))

main_tiled(nb_tiles) == Program(
    snrt_cluster_hw_barrier \o snrt_cluster_hw_barrier
    \o main_tiled_phase1_setup
    \o Phase1Tiles(nb_tiles)
    \o main_tiled_phase2_setup
    \o Phase2Tiles(nb_tiles, 1, "conv_out_l3")
    \o main_tiled_checks(nb_tiles)
    \o snrt_cluster_hw_barrier,
    main_tiled_layout)

-----------------------------------------------------------------------------
(***************************************************************************)
(* Visual Mamba: the two phases of a Mamba layer for each of the K         *)
(* directions of the scan, which share all weights but the SUC's           *)
(* projections; then the merge of the directions and RMSNorm.              *)
(*                                                                         *)
(* The programs merge the directions' results of data.h (y_invperm_K, the  *)
(* scan order undone), not those they have just computed.  The check at    *)
(* the end of a direction is the model's own.                              *)
(***************************************************************************)
V(name, i) == <<"M2_" \o name, i>>
Oscore_in_K(k) == V("oscore_in_K", k)

P1Vmamba == <<<<"oscore_weight_P1", "M2_oscore_weight">>, <<"conv_weight", "M2_conv_weight">>,
              <<"conv_bias", "M2_conv_bias">>>>
P2Vmamba == <<<<"oscore_weight_P2", "M2_oscore_weight_P2">>, <<"dt_weight_1", "M2_dt_weight_1">>,
              <<"dt_weight_2", "M2_dt_weight_2">>, <<"dt_bias", "M2_dt_bias">>,
              <<"A", "M2_suc_A">>, <<"D", "M2_suc_D">>,
              <<"iscore_weight_P2", "M2_iscore_weight_P2">>>>

\* Direction k with n tiles of the inner dimension.
GoldenDirection(k, n) ==
    LET cv(i) == conv(Oscore_in_K(k), V("oscore_weight", i), V("conv_weight", i), V("conv_bias", i))
        dt_BC == FoldLeft(LAMBDA c, i : <<IF i = n THEN "isq" ELSE "is", c, cv(i - 1),
                                          V("iscore_weight_K", k * n + (i - 1))>>,
                          V("iscore_bias", 0), [i \in 1 .. n |-> i])
        z(i) == os(Oscore_in_K(k), V("oscore_weight_P2", i))
        y(i) == GoldenY(dt_BC, cv(i), z(i), i)
    IN FullIs(V("iscore_bias_P2", 0), [i \in 0 .. n |-> y(i)], "M2_iscore_weight_P2", n)

\* The sum of the directions.
MergeDirections(K, a, b) ==
    Dma(<<a, 0>>, V("y_invperm_K", 0)) \o snrt_dma_wait_all
    \o snrt_cluster_hw_barrier
    \o LET add(j) == Dma(<<b, 0>>, V("y_invperm_K", j + 1)) \o snrt_dma_wait_all
                     \o snrt_cluster_hw_barrier
                     \o Simd("SIMD_ADD_FP8", In(a), In(b), In(a))
                     \o snrt_cluster_hw_barrier
       IN Loop(K - 1, add)
GoldenMerged(K) ==
    FoldLeft(LAMBDA s, k : Kernel("SIMD_ADD_FP8", <<s, V("y_invperm_K", k)>>),
             V("y_invperm_K", 0), [k \in 1 .. K - 1 |-> k])

\* fp8 to bf16, RMSNorm, and back.
Normalise(merge_a) ==
    Dma(<<"rms_w", 0>>, V("norm_weight", 0)) \o snrt_dma_wait_all
    \o snrt_cluster_hw_barrier
    \o SimdNoB("SIMD_NOOP_FP8_REQUANT", In(merge_a), In("rms_x"))
    \o ScaleByRms("rms_x", "rms_vec", "rms_c") \o ScaleByWeight("rms_x", "rms_w")
    \o SimdNoB("SIMD_NOOP_BF16_REQUANT", In("rms_x"), In(merge_a))
GoldenNorm(K) ==
    Kernel("SIMD_NOOP_BF16_REQUANT",
           <<GoldenRms(Kernel("SIMD_NOOP_FP8_REQUANT", <<GoldenMerged(K)>>), V("norm_weight", 0))>>)

---------------------------------------------------------------------------
\* vmamba: all weights stay in L1.
test_ss2d_direction(k) ==
    Copies(<<Dma(<<"oscore_in", 0>>, Oscore_in_K(k)),
             Dma(<<"iscore_weight_P1", 0>>, V("iscore_weight_K", k)),
             Dma(<<"iscore_out_P1", 0>>, V("iscore_bias", 0))>>)
    \o snrt_dma_wait_all
    \o snrt_cluster_hw_barrier
    \o set_streamer_phase1(In("oscore_in"), In("oscore_weight_P1"), In("conv_weight"),
                           In("conv_bias"), In("iscore_weight_P1"), In("iscore_out_P1"), In("conv_out"))
    \o set_simbacore_csr("PHASE1")
    \o start_simbacore_and_streamers(FALSE, 0, FALSE, 0)
    \o wait_simbacore_and_streamer
    \o Dma(<<"iscore_out_P2", 0>>, V("iscore_bias_P2", 0)) \o snrt_dma_wait_all
    \o snrt_cluster_hw_barrier
    \o set_streamer_phase2(In("oscore_in"), In("oscore_weight_P2"), In("z"), In("iscore_out_P1"),
                           In("dt_weight_1"), In("dt_weight_2"), In("dt_bias"), In("conv_out"),
                           In("A"), In("iscore_out_P1"), In("D"), In("y"),
                           In("iscore_weight_P2"), In("iscore_out_P2"))
    \o set_simbacore_csr("PHASE2")
    \o start_simbacore_and_streamers(TRUE, 1, TRUE, 1)
    \o wait_simbacore_and_streamer
    \o Check(<<"iscore_out_P2", 0>>, GoldenDirection(k, 1))
    \o snrt_cluster_hw_barrier

vmamba(K) == Plain(
    snrt_cluster_hw_barrier
    \o LoadTile(P1Vmamba \o P2Vmamba, 0)
    \o snrt_dma_wait_all
    \o snrt_cluster_hw_barrier
    \o Loop(K, test_ss2d_direction)
    \o MergeDirections(K, "conv_out", "y")
    \o Check(<<"conv_out", 0>>, GoldenMerged(K))
    \o snrt_cluster_hw_barrier
    \o Normalise("conv_out")
    \o Check(<<"conv_out", 0>>, GoldenNorm(K))
    \o snrt_cluster_hw_barrier \o snrt_cluster_hw_barrier)

---------------------------------------------------------------------------
(* vmamba-tiled: the software pipelines of main-tiled for each direction.  *)

MergeBuffers == {"oscore_in", "iscore_out_P1", "iscore_out_P2"} \cup P1Buffers \cup P2Buffers
vmamba_tiled_layout ==
    main_tiled_layout \cup Sharing({"merge_a", "merge_b", "rms_x", "rms_c", "rms_w", "rms_vec"},
                                   MergeBuffers)
    \cup {{"merge_b", "rms_x"}}

test_ss2d_tiled_direction(k, nb_tiles) ==
    Dma(<<"oscore_in", 0>>, Oscore_in_K(k)) \o Dma(<<"iscore_out_P1", 0>>, V("iscore_bias", 0))
    \o snrt_dma_wait_all
    \o snrt_cluster_hw_barrier
    \o P1Streamers(1, One("oscore_in", 0), One("iscore_out_P1", 0))
    \o set_simbacore_csr("PHASE1_NO_REQUANT")
    \o snrt_cluster_hw_barrier
    \o LET load_P1 == [i \in 0 .. nb_tiles - 1 |->
               LoadTile(P1Vmamba, i)
               \o Dma(<<"iscore_weight_P1", i % 2>>, V("iscore_weight_K", k * nb_tiles + i))]
       IN Phase1TilesFrom(load_P1, nb_tiles)
    \o Dma(<<"iscore_out_P2", 0>>, V("iscore_bias_P2", 0)) \o snrt_dma_wait_all
    \o snrt_cluster_hw_barrier
    \o P2Streamers(1, One("oscore_in", 0), "iscore_out_P1", "iscore_out_P2")
    \o set_simbacore_csr("PHASE2_NO_REQUANT")
    \o snrt_cluster_hw_barrier
    \o LET load_P2 == [i \in 0 .. nb_tiles - 1 |-> LoadTile(P2Vmamba, i)]
       IN Phase2TilesFrom(load_P2, nb_tiles, 1, "conv_out_l3")
    \o Check(<<"iscore_out_P2", 0>>, GoldenDirection(k, nb_tiles))
    \o snrt_cluster_hw_barrier

vmamba_tiled(K, nb_tiles) == Program(
    snrt_cluster_hw_barrier \o snrt_cluster_hw_barrier
    \o LET direction(k) == test_ss2d_tiled_direction(k, nb_tiles)
       IN Loop(K, direction)
    \o MergeDirections(K, "merge_a", "merge_b")
    \o snrt_cluster_hw_barrier
    \o Normalise("merge_a")
    \o Check(<<"merge_a", 0>>, GoldenNorm(K))
    \o snrt_cluster_hw_barrier \o snrt_cluster_hw_barrier,
    vmamba_tiled_layout)
=============================================================================
