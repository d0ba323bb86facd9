----------------------------- MODULE MambaRings -----------------------------
(***************************************************************************)
(* The programs of the Mamba layer that keep only some windows of the      *)
(* sequence in L1 and exchange them while the accelerator runs, and        *)
(* p2-carry, whose windows are launches of their own.  Tile i of the inner *)
(* dimension and window w of the sequence have the index i * nb_l + w.     *)
(***************************************************************************)
EXTENDS SucApps

\* Results of the first phase over all tiles, for window w.
GoldenPsumP1(w, nb_tiles) ==
    SumIs(M1("iscore_bias", w), [i \in 0 .. nb_tiles |-> GoldenConvAt(i, w)], "M1_iscore_weight", nb_tiles)
GoldenBCP1(w, nb_tiles) ==
    FullIs(M1("iscore_bias", w), [i \in 0 .. nb_tiles |-> GoldenConvAt(i, w)], "M1_iscore_weight", nb_tiles)

\* The checks of both programs; dt_BC(w) is what phase 2 reads as dt and BC.
RingChecks(nb_tiles, nb_l, dt_BC(_)) ==
    LET tile(k) == k \div nb_l
        win(k) == k % nb_l
        z(k) == os(M1("oscore_in", win(k)), M2("oscore_weight", tile(k)))
        y(k) == GoldenY(dt_BC(win(k)), GoldenConvAt(tile(k), win(k)), z(k), tile(k))
        n == nb_tiles * nb_l
    IN CheckN(<<"conv_out_l3", 0>>, n, LAMBDA k : GoldenConvAt(tile(k), win(k)))
       \o CheckN(<<"z_l3", 0>>, n, z) \o CheckN(<<"y_l3", 0>>, n, y)
       \o CheckN(<<"iscore_out_P2", 0>>, nb_l,
                 LAMBDA w : GoldenP2(M2("iscore_bias", w),
                                     [i \in 0 .. nb_tiles |-> y(i * nb_l + w)], nb_tiles))

---------------------------------------------------------------------------
(* main-tiled-iscore: the psum of phase 1 is a ring, its home is L3. *)

iscore_out_ring_loop(nb_l, nb_slots) ==
    LET Visit(r) ==
            Poll("is", r + 1)
            \o snrt_cluster_hw_barrier
            \o Dma(<<"iscore_out_P1_l3", r>>, <<"iscore_out_P1_ring", r % nb_slots>>)
            \o Dma(<<"iscore_out_P1_ring", r % nb_slots>>,
                   <<"iscore_out_P1_l3", (r + nb_slots) % nb_l>>)
    IN Loop(nb_l, Visit) \o snrt_dma_wait_all \o snrt_cluster_hw_barrier

main_tiled_iscore_phase1(nb_tiles, nb_l, nb_slots) ==
    LET Compute(t) ==
            Start \o Clear({})
            \o iscore_out_ring_loop(nb_l, nb_slots)
            \o When(t < nb_tiles - 1, P1NextTile(t + 1, nb_l))
            \o WaitIdle
        Iteration(i) ==
            When(i \in 1 .. nb_tiles, Compute(i - 1))
            \o When(i < nb_tiles, LoadTile(P1Weights, i))
            \o When(i >= 2, SpillTile("conv_out_l3", "conv_out_tile", i - 2, nb_l))
            \o snrt_dma_wait_all
            \o snrt_cluster_hw_barrier
    IN P1Streamers(nb_l, Walk("oscore_in", 0, nb_l), Ring("iscore_out_P1_ring", nb_slots, nb_l))
       \o set_simbacore_csr("PHASE1_NO_REQUANT")
       \o DmaN(<<"oscore_in", 0>>, M1("oscore_in", 0), nb_l)
       \o DmaN(<<"iscore_out_P1_l3", 0>>, M1("iscore_bias", 0), nb_l)
       \o snrt_dma_wait_all
       \o DmaN(<<"iscore_out_P1_ring", 0>>, <<"iscore_out_P1_l3", 0>>, nb_slots)
       \o snrt_dma_wait_all
       \o snrt_cluster_hw_barrier
       \o Loop(nb_tiles + 2, Iteration)

\* The region of dt_in is that of the ring; dt and BC of phase 2 are the golden
\* ones of data.h, because phase 1 is never requantised.
main_tiled_iscore_phase2(nb_tiles, nb_l) ==
    DmaN(<<"dt_in", 0>>, M1("iscore_out", 0), nb_l)
    \o DmaN(<<"iscore_out_P2", 0>>, M2("iscore_bias", 0), nb_l)
    \o snrt_dma_wait_all
    \o snrt_cluster_hw_barrier
    \o P2Streamers(nb_l, Walk("oscore_in", 0, nb_l), "dt_in", "iscore_out_P2")
    \o set_simbacore_csr("PHASE2_NO_REQUANT")
    \o snrt_cluster_hw_barrier
    \o Phase2Tiles(nb_tiles, nb_l, "conv_out_l3")

main_tiled_iscore(nb_tiles, nb_l, nb_slots) == Program(
    snrt_cluster_hw_barrier
    \o main_tiled_iscore_phase1(nb_tiles, nb_l, nb_slots)
    \o main_tiled_iscore_phase2(nb_tiles, nb_l)
    \o CheckN(<<"iscore_out_P1_l3", 0>>, nb_l, LAMBDA w : GoldenPsumP1(w, nb_tiles))
    \o RingChecks(nb_tiles, nb_l, LAMBDA w : M1("iscore_out", w))
    \o snrt_cluster_hw_barrier,
    main_tiled_layout \cup {{"dt_in", "iscore_out_P1_ring"}})

---------------------------------------------------------------------------
(***************************************************************************)
(* main-tiled-oscore: the input of osCore is a ring in both phases.  In    *)
(* phase 2 the loop that refills it also releases R10, as soon as its own  *)
(* count says so, and R11, when it finds the SUC far enough; what it does  *)
(* not find it waits for at the end.                                       *)
(***************************************************************************)
oscore_in_refill_loop(src, nb_l, nb_slots, R10_en, R10_start_cnt, R11_en, R11_start_cnt) ==
    LET Visit(r) ==
            Poll("os", r + 1)
            \o When(R10_en /\ r + 1 = R10_start_cnt, Release("R10"))
            \o When(R11_en, TryRelease("suc", R11_start_cnt, "R11"))
            \o snrt_cluster_hw_barrier
            \o Dma(<<"oscore_in", r % nb_slots>>, <<src, (r + nb_slots) % nb_l>>)
    IN Loop(nb_l, Visit)
       \o snrt_dma_wait_all
       \o snrt_cluster_hw_barrier
       \o When(R10_en, EnsureRelease("os", R10_start_cnt, "R10"))
       \o When(R11_en, EnsureRelease("suc", R11_start_cnt, "R11"))

main_tiled_oscore_phase1(nb_tiles, nb_l, nb_slots) ==
    LET Compute(t) ==
            When(t = nb_tiles - 1, set_simbacore_csr("PHASE1"))
            \o Start \o Clear({})
            \o When(t < nb_tiles - 1, P1NextTile(t + 1, nb_l))
            \o oscore_in_refill_loop("M1_oscore_in", nb_l, nb_slots, FALSE, 0, FALSE, 0)
            \o WaitIdle
        Iteration(i) ==
            When(i \in 1 .. nb_tiles, Compute(i - 1))
            \o When(i < nb_tiles, LoadTile(P1Weights, i))
            \o When(i >= 2, SpillTile("conv_out_l3", "conv_out_tile", i - 2, nb_l))
            \o snrt_dma_wait_all
            \o snrt_cluster_hw_barrier
    IN P1Streamers(nb_l, Ring("oscore_in", nb_slots, nb_l), Walk("iscore_out_P1", 0, nb_l))
       \o set_simbacore_csr("PHASE1_NO_REQUANT")
       \o DmaN(<<"oscore_in", 0>>, M1("oscore_in", 0), nb_slots)
       \o DmaN(<<"iscore_out_P1", 0>>, M1("iscore_bias", 0), nb_l)
       \o snrt_dma_wait_all
       \o snrt_cluster_hw_barrier
       \o Loop(nb_tiles + 2, Iteration)

\* The launch of phase 2 does not wait for the counts: the ring would not be
\* refilled meanwhile.
oscore_start == Start \o Clear({})

main_tiled_oscore_phase2(nb_tiles, nb_l, nb_slots) ==
    LET Compute(t) ==
            When(t = nb_tiles - 1, set_simbacore_csr("PHASE2"))
            \o oscore_start
            \o oscore_in_refill_loop("M1_oscore_in", nb_l, nb_slots, TRUE, 1, TRUE, 1)
            \o ClearStart
            \o When(t < nb_tiles - 1, P2NextTile(t + 1, nb_l))
            \o WaitIdle
        Iteration(i) ==
            When(i \in 1 .. nb_tiles, Compute(i - 1))
            \o When(i < nb_tiles,
                    LoadTile(P2Weights, i)
                    \o DmaN(<<"x_tile", (i % 2) * nb_l>>, <<"conv_out_l3", i * nb_l>>, nb_l))
            \o When(i >= 2, SpillTile("z_l3", "z_tile", i - 2, nb_l)
                            \o SpillTile("y_l3", "y_tile", i - 2, nb_l))
            \o snrt_dma_wait_all
            \o snrt_cluster_hw_barrier
    IN DmaN(<<"iscore_out_P2", 0>>, M2("iscore_bias", 0), nb_l)
       \o snrt_dma_wait_all
       \o snrt_cluster_hw_barrier
       \o P2Streamers(nb_l, Ring("oscore_in", nb_slots, nb_l), "iscore_out_P1", "iscore_out_P2")
       \o set_simbacore_csr("PHASE2_NO_REQUANT")
       \o snrt_cluster_hw_barrier
       \o Loop(nb_tiles + 2, Iteration)

\* M2_oscore_in has the content of M1_oscore_in (both are the input of the
\* layer) and has its name here: the last visits of phase 1 load the first
\* windows of phase 2 from M1_oscore_in.
main_tiled_oscore(nb_tiles, nb_l, nb_slots) == Program(
    snrt_cluster_hw_barrier
    \o main_tiled_oscore_phase1(nb_tiles, nb_l, nb_slots)
    \o main_tiled_oscore_phase2(nb_tiles, nb_l, nb_slots)
    \o CheckN(<<"iscore_out_P1", 0>>, nb_l, LAMBDA w : GoldenBCP1(w, nb_tiles))
    \o RingChecks(nb_tiles, nb_l, LAMBDA w : GoldenBCP1(w, nb_tiles))
    \o snrt_cluster_hw_barrier,
    main_tiled_layout)

---------------------------------------------------------------------------
(***************************************************************************)
(* P2-async-OS-no-IS: osCore and the SUC; the input of osCore and BC are   *)
(* rings, double-paced, and the polling loop also releases R10.            *)
(***************************************************************************)
set_streamer_phase2_noIS_lTile(nb_l, nb_slots) ==
    set_streamer_csr("R0" :> Ring("oscore_in", nb_slots, nb_l) @@ "R1" :> Stay("oscore_weight", 0, nb_l)
        @@ "W0" :> Walk("z", 0, nb_l)
        @@ set_streamer_suc(Walk("dt_packed", 0, nb_l), Stay("dt_weight_1", 0, nb_l),
               Stay("dt_bias", 0, nb_l), Stay("dt_weight_2", 0, nb_l), Stay("A", 0, nb_l),
               Ring("BC_ring", nb_slots, nb_l), Stay("D", 0, nb_l), Walk("x", 0, nb_l),
               Walk("z", 0, nb_l), Walk("y", 0, nb_l)))

refill_loop(nb_l, nb_slots, R10_start_cnt) ==
    LET Visit(name, r) ==
            IF name = "os"
            THEN Dma(<<"oscore_in", r % nb_slots>>, M2("oscore_in", (r + nb_slots) % nb_l))[1].q
            ELSE Dma(<<"BC_ring", r % nb_slots>>, M2("BC", (r + nb_slots) % nb_l))[1].q
    IN PacedLoopWith({RingOf("os", "os", nb_l), RingOf("bc", "suc", nb_l)},
                     [r |-> "R10", u |-> "os", n |-> R10_start_cnt], Visit)
       \o snrt_dma_wait_all
       \o snrt_cluster_hw_barrier
       \o EnsureRelease("os", R10_start_cnt, "R10")

P2AsyncWeights == <<<<"oscore_weight", "M2_oscore_weight">>>> \o SucWeights

P2_async_OS_no_IS(nb_tiles, nb_l, nb_slots) ==
    LET Tile(t) ==
            Copies([j \in DOMAIN P2AsyncWeights |->
                       Dma(<<P2AsyncWeights[j][1], 0>>, <<P2AsyncWeights[j][2], t>>)])
            \o DmaN(<<"x", 0>>, M2("suc_x", t * nb_l), nb_l)
            \o snrt_dma_wait_all
            \o snrt_cluster_hw_barrier
            \o Start \o Clear({})
            \o snrt_cluster_hw_barrier
            \o refill_loop(nb_l, nb_slots, 1)
            \o WaitIdle \o Clear({"R10"})
            \o snrt_cluster_hw_barrier
            \o DmaN(<<"z_l3", t * nb_l>>, <<"z", 0>>, nb_l) \o DmaN(<<"y_l3", t * nb_l>>, <<"y", 0>>, nb_l)
            \o snrt_dma_wait_all
            \o snrt_cluster_hw_barrier
        z(k) == os(M2("oscore_in", k % nb_l), M2("oscore_weight", k \div nb_l))
    IN Plain(
        snrt_cluster_hw_barrier
        \o set_streamer_phase2_noIS_lTile(nb_l, nb_slots)
        \o set_simbacore_csr("PHASE2_NO_ISCORE")
        \o Loop(nb_slots, LAMBDA s : Dma(<<"oscore_in", s>>, M2("oscore_in", s))
                                     \o Dma(<<"BC_ring", s>>, M2("BC", s)))
        \o DmaN(<<"dt_packed", 0>>, M2("dt", 0), nb_l)
        \o snrt_dma_wait_all
        \o snrt_cluster_hw_barrier
        \o Loop(nb_tiles, Tile)
        \o CheckN(<<"z_l3", 0>>, nb_tiles * nb_l, z)
        \o CheckN(<<"y_l3", 0>>, nb_tiles * nb_l,
                  LAMBDA k : GoldenSuc(M2("dt", k % nb_l), M2("BC", k % nb_l), M2("suc_x", k), z(k),
                                       k \div nb_l))
        \o snrt_cluster_hw_barrier)

---------------------------------------------------------------------------
(***************************************************************************)
(* p2-carry: one launch per window lt, of nk tiles of the inner dimension, *)
(* each with its state; then the output projection over y, tile by tile of *)
(* the inner dimension (kt), with all windows in one launch.  Tile k of    *)
(* window lt is k * nlt + lt in L3.                                        *)
(***************************************************************************)
p2_carry_weights == <<<<"dt_weight_1", "M2_dt_weight_1">>, <<"dt_weight_2", "M2_dt_weight_2">>,
    <<"dt_bias", "M2_dt_bias">>, <<"A", "M2_suc_A">>, <<"D", "M2_suc_D">>,
    <<"os_weight", "M2_oscore_weight">>>>
gather_dt_bc(lt, s) == Dma(<<"dt", s>>, M2("dt", lt)) \o Dma(<<"BC", s>>, M2("BC", lt))
gather_conv_tile(lt, dst, src, nk, nlt) ==
    Loop(nk, LAMBDA k : Dma(<<dst[1], dst[2] + k>>, <<src, k * nlt + lt>>))
spill_conv_tile(lt, src, dst, nk, nlt) ==
    Loop(nk, LAMBDA k : Dma(<<dst, k * nlt + lt>>, <<src[1], src[2] + k>>))

set_streamer_p2_carry(c, nk, load_en, save_en) ==
    set_streamer_csr("R0" :> Stay("oi", c, nk) @@ "R1" :> Walk("os_weight", 0, nk)
        @@ "W0" :> Walk("z", c * nk, nk)
        @@ set_streamer_suc(Stay("dt", c, nk), Walk("dt_weight_1", 0, nk), Walk("dt_bias", 0, nk),
               Walk("dt_weight_2", 0, nk), Walk("A", 0, nk), Stay("BC", c, nk), Walk("D", 0, nk),
               Walk("x", c * nk, nk), Walk("z", c * nk, nk), Walk("y", c * nk, nk))
        @@ (IF load_en THEN "R13" :> Walk("state", 0, nk) ELSE <<>>)
        @@ (IF save_en THEN "W3" :> Walk("state", 0, nk) ELSE <<>>))

p2_carry_mode(lt, nlt) ==
    IF nlt = 1 THEN "PHASE2_NO_ISCORE" ELSE
    IF lt = 0 THEN "PHASE2_NO_ISCORE_SAVE" ELSE
    IF lt = nlt - 1 THEN "PHASE2_NO_ISCORE_LOAD" ELSE "PHASE2_NO_ISCORE_CARRY"

p2_carry_windows(nk, nlt) ==
    LET spill(lt) == spill_conv_tile(lt, <<"z", (lt % 2) * nk>>, "z_l3", nk, nlt)
                     \o spill_conv_tile(lt, <<"y", (lt % 2) * nk>>, "y_l3", nk, nlt)
        Window(lt) ==
            set_streamer_p2_carry(lt % 2, nk, lt # 0, lt # nlt - 1)
            \o set_simbacore_csr(p2_carry_mode(lt, nlt))
            \o start_simbacore_and_streamers(TRUE, 1, FALSE, 0)
            \o When(lt + 1 < nlt,
                    gather_dt_bc(lt + 1, (lt + 1) % 2)
                    \o gather_conv_tile(lt + 1, <<"x", ((lt + 1) % 2) * nk>>, "M2_suc_x", nk, nlt)
                    \o Dma(<<"oi", (lt + 1) % 2>>, M2("oscore_in", lt + 1)))
            \o When(lt >= 1, spill(lt - 1))
            \o snrt_dma_wait_all
            \o wait_simbacore_and_streamer
            \o snrt_cluster_hw_barrier
    IN Loop(nlt, Window) \o spill(nlt - 1) \o snrt_dma_wait_all \o snrt_cluster_hw_barrier

p2_carry_outproj(nk, nlt) ==
    LET KTile(kt) ==
            DmaN(<<"y_kt", 0>>, <<"y_l3", kt * nlt>>, nlt) \o Dma(<<"w_kt", 0>>, M2("iscore_weight", kt))
            \o snrt_dma_wait_all
            \o snrt_cluster_hw_barrier
            \o set_isgemm_streamer_csr(Walk("y_kt", 0, nlt), Stay("w_kt", 0, nlt), Walk("out", 0, nlt))
            \o set_simbacore_csr(IF kt = nk - 1 THEN "ISGEMM" ELSE "ISGEMM_NO_REQUANT")
            \o start_simbacore_and_streamers(FALSE, 0, TRUE, 0)
            \o wait_simbacore_and_streamer
            \o snrt_cluster_hw_barrier
    IN DmaN(<<"out", 0>>, M2("iscore_bias", 0), nlt) \o snrt_dma_wait_all
       \o snrt_cluster_hw_barrier
       \o Loop(nk, KTile)
       \o DmaN(<<"out_l3", 0>>, <<"out", 0>>, nlt) \o snrt_dma_wait_all
       \o snrt_cluster_hw_barrier

\* Golden results, tile k of window lt.
GoldenZCarry(k, lt) == os(M2("oscore_in", lt), M2("oscore_weight", k))
SucInputsCarry(k, lt, nlt) ==
    <<M2("dt", lt), M2("dt_weight_1", k), M2("dt_bias", k), M2("dt_weight_2", k), M2("suc_A", k),
      M2("BC", lt), M2("suc_D", k), M2("suc_x", k * nlt + lt), GoldenZCarry(k, lt)>>
GoldenStateCarry(k, lt, nlt) ==
    LET state[t \in 0 .. lt] ==
            <<"state">> \o (IF t = 0 THEN <<>> ELSE <<state[t - 1]>>) \o SucInputsCarry(k, t, nlt)
    IN state[lt]
GoldenYCarry(k, lt, nlt) ==
    <<"suc">> \o SucInputsCarry(k, lt, nlt) \o <<GoldenStateCarry(k, lt, nlt)>>

p2_carry(nk, nlt) == Program(
    snrt_cluster_hw_barrier
    \o Copies([j \in DOMAIN p2_carry_weights |->
                  DmaN(<<p2_carry_weights[j][1], 0>>, <<p2_carry_weights[j][2], 0>>, nk)])
    \o gather_dt_bc(0, 0) \o gather_conv_tile(0, <<"x", 0>>, "M2_suc_x", nk, nlt)
    \o Dma(<<"oi", 0>>, M2("oscore_in", 0))
    \o snrt_dma_wait_all
    \o snrt_cluster_hw_barrier
    \o p2_carry_windows(nk, nlt)
    \o p2_carry_outproj(nk, nlt)
    \o CheckN(<<"z_l3", 0>>, nk * nlt, LAMBDA j : GoldenZCarry(j \div nlt, j % nlt))
    \o CheckN(<<"y_l3", 0>>, nk * nlt, LAMBDA j : GoldenYCarry(j \div nlt, j % nlt, nlt))
    \o CheckN(<<"out_l3", 0>>, nlt,
              LAMBDA lt : GoldenP2(M2("iscore_bias", lt), [k \in 0 .. nk |-> GoldenYCarry(k, lt, nlt)], nk))
    \o snrt_cluster_hw_barrier,
    Sharing({"dt_weight_1", "dt_weight_2", "dt_bias", "A", "D", "os_weight", "state",
             "oi", "dt", "BC", "x", "z", "y"}, {"out", "y_kt", "w_kt"}))

=============================================================================
