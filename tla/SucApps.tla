------------------------------ MODULE SucApps ------------------------------
(***************************************************************************)
(* The programs that run the SUC alone: z and x come from data.h (z is     *)
(* M2_oscore_expected), only y is computed.                                *)
(***************************************************************************)
EXTENDS MambaApps

SucWeights == <<<<"dt_weight_1", "M2_dt_weight_1">>, <<"dt_weight_2", "M2_dt_weight_2">>,
                <<"dt_bias", "M2_dt_bias">>, <<"A", "M2_suc_A">>, <<"D", "M2_suc_D">>>>

\* y without a state, from one window of dt, BC, x and z and the weights of tile i.
GoldenSuc(dt, BC, x, z, i) ==
    suc(dt, M2("dt_weight_1", i), M2("dt_bias", i), M2("dt_weight_2", i), M2("suc_A", i),
        BC, M2("suc_D", i), x, z)

set_streamer_suc(dt, w1, bias, w2, A, BC, D, x, z, y) ==
    "R2" :> dt @@ "R3" :> w1 @@ "R4" :> bias @@ "R5" :> w2 @@ "R6" :> A @@ "R7" :> BC
    @@ "R8" :> D @@ "R9" :> x @@ "R10" :> z @@ "W2" :> y
\* SUC-tiled and suc-only also configure R11, which is never released.
set_streamer_suc_only(dt, w1, bias, w2, A, BC, D, x, z, y) ==
    set_streamer_csr(set_streamer_suc(dt, w1, bias, w2, A, BC, D, x, z, y) @@ "R11" :> y)

\* suc-only checks nothing; the check here is what the launch is for.
suc_only == Plain(
    snrt_cluster_hw_barrier
    \o Dma(<<"z", 0>>, M2("oscore_expected", 0)) \o Dma(<<"dt_BC", 0>>, M2("dt_BC", 0))
    \o Copies([j \in DOMAIN SucWeights |-> Dma(<<SucWeights[j][1], 0>>, <<SucWeights[j][2], 0>>)])
    \o Dma(<<"x", 0>>, M2("suc_x", 0))
    \o snrt_dma_wait_all
    \o snrt_cluster_hw_barrier
    \o set_streamer_suc_only(One("dt_BC", 0), One("dt_weight_1", 0), One("dt_bias", 0),
                             One("dt_weight_2", 0), One("A", 0), One("dt_BC", 0), One("D", 0),
                             One("x", 0), One("z", 0), One("y", 0))
    \o set_simbacore_csr("SUC_ONLY")
    \o start_simbacore_and_streamers(TRUE, 0, FALSE, 0)
    \o wait_simbacore_and_streamer
    \o Check(<<"y", 0>>, GoldenSuc(M2("dt_BC", 0), M2("dt_BC", 0), M2("suc_x", 0),
                                   M2("oscore_expected", 0), 0))
    \o snrt_cluster_hw_barrier)

SucNextTile(t) ==
    BasePtr("R3" :> <<"dt_weight_1", t % 2>> @@ "R4" :> <<"dt_bias", t % 2>>
            @@ "R5" :> <<"dt_weight_2", t % 2>> @@ "R6" :> <<"A", t % 2>>
            @@ "R8" :> <<"D", t % 2>> @@ "R9" :> <<"x_tile", t % 2>>
            @@ "R10" :> <<"z_tile", t % 2>> @@ "R11" :> <<"y_tile", t % 2>>
            @@ "W2" :> <<"y_tile", t % 2>>)

SUC_tiled_loop(nb_tiles) ==
    LET loads == SucWeights \o <<<<"x_tile", "M2_suc_x">>, <<"z_tile", "M2_oscore_expected">>>>
        Compute(t) ==
            start_simbacore_and_streamers(TRUE, 0, FALSE, 0)
            \o Clear({"R10"})
            \o When(t # nb_tiles - 1, SucNextTile(t + 1))
            \o WaitIdle
        Iteration(i) ==
            When(i < nb_tiles, LoadTile(loads, i))
            \o When(i \in 1 .. nb_tiles, Compute(i - 1))
            \o When(i >= 2, SpillTile("y_l3", "y_tile", i - 2, 1))
            \o snrt_dma_wait_all
            \o snrt_cluster_hw_barrier
    IN Loop(nb_tiles + 2, Iteration)

SUC_tiled(nb_tiles) == Plain(
    snrt_cluster_hw_barrier
    \o set_streamer_suc_only(One("dt_BC", 0), One("dt_weight_1", 0), One("dt_bias", 0),
                             One("dt_weight_2", 0), One("A", 0), One("dt_BC", 0), One("D", 0),
                             One("x_tile", 0), One("z_tile", 0), One("y_tile", 0))
    \o set_simbacore_csr("SUC_ONLY")
    \o Dma(<<"dt_BC", 0>>, M2("dt_BC", 0)) \o snrt_dma_wait_all
    \o snrt_cluster_hw_barrier
    \o SUC_tiled_loop(nb_tiles)
    \o CheckN(<<"y_l3", 0>>, nb_tiles,
              LAMBDA i : GoldenSuc(M2("dt_BC", 0), M2("dt_BC", 0), M2("suc_x", i),
                                   M2("oscore_expected", i), i))
    \o snrt_cluster_hw_barrier)

---------------------------------------------------------------------------
(***************************************************************************)
(* suc-async: BC, x, z and y are rings over the windows of the sequence;   *)
(* a tile of the inner dimension has nb_bc blocks, and visit r of a tile   *)
(* is window r % nb_l of block r \div nb_l.  suc-async-dt: dt is a ring    *)
(* too, one slot for dt_group visits.                                      *)
(***************************************************************************)

\* Tile of x, z and y in L3 of visit r (xzy_l3_offset, without the strides).
XzyTile(tile, visits, r) == tile * visits + r

\* One visit: x and z of nb_slots visits later, y out, BC around the ring.
suc_ring_visit(r, tile, visits, nb_l, nb_slots) ==
    LET slot == r % nb_slots
    IN When(r + nb_slots < visits,
            Dma(<<"x_ring", slot>>, M2("suc_x", XzyTile(tile, visits, r + nb_slots)))
            \o Dma(<<"z_ring", slot>>, M2("oscore_expected", XzyTile(tile, visits, r + nb_slots))))
       \o Dma(<<"y_l3", XzyTile(tile, visits, r)>>, <<"y_ring", slot>>)
       \o Dma(<<"BC_ring", slot>>, M2("BC", (r + nb_slots) % nb_l))

\* more[r]: what suc-async-dt adds to visit r.
suc_ring_loop(tile, visits, nb_l, nb_slots, more) ==
    LET Visit(r) == Poll("suc", r + 1) \o snrt_cluster_hw_barrier
                    \o suc_ring_visit(r, tile, visits, nb_l, nb_slots) \o more[r]
    IN Loop(visits, Visit) \o snrt_dma_wait_all \o snrt_cluster_hw_barrier

suc_async_tile(tile, visits, nb_l, nb_slots, more) ==
    Copies([j \in DOMAIN SucWeights |-> Dma(<<SucWeights[j][1], 0>>, <<SucWeights[j][2], tile>>)])
    \o DmaN(<<"x_ring", 0>>, M2("suc_x", XzyTile(tile, visits, 0)), nb_slots)
    \o DmaN(<<"z_ring", 0>>, M2("oscore_expected", XzyTile(tile, visits, 0)), nb_slots)
    \o snrt_dma_wait_all
    \o snrt_cluster_hw_barrier
    \o start_simbacore_and_streamers(TRUE, 0, FALSE, 0)
    \o snrt_cluster_hw_barrier
    \o suc_ring_loop(tile, visits, nb_l, nb_slots, more)
    \o wait_simbacore_and_streamer
    \o snrt_cluster_hw_barrier

\* The golden y of all tiles, in the order of their L3 tiles.
suc_async_check(nb_tiles, visits, nb_l) ==
    CheckN(<<"y_l3", 0>>, nb_tiles * visits,
           LAMBDA k : GoldenSuc(M2("dt", k % nb_l), M2("BC", k % nb_l), M2("suc_x", k),
                                M2("oscore_expected", k), k \div visits))

set_streamer_suc_async(dt, visits, nb_slots) ==
    set_streamer_csr(set_streamer_suc(dt, Stay("dt_weight_1", 0, visits),
        Stay("dt_bias", 0, visits), Stay("dt_weight_2", 0, visits), Stay("A", 0, visits),
        Ring("BC_ring", nb_slots, visits), Stay("D", 0, visits),
        Ring("x_ring", nb_slots, visits), Ring("z_ring", nb_slots, visits),
        Ring("y_ring", nb_slots, visits)))

suc_async(nb_tiles, nb_bc, nb_l, nb_slots) ==
    LET visits == nb_bc * nb_l
        none == [r \in 0 .. visits - 1 |-> <<>>]
        dt == [Ring("dt_packed", nb_l, visits) EXCEPT !.slots = 0]
    IN Plain(
        snrt_cluster_hw_barrier
        \o set_streamer_suc_async(dt, visits, nb_slots)
        \o set_simbacore_csr("SUC_ONLY")
        \o DmaN(<<"dt_packed", 0>>, M2("dt", 0), nb_l) \o DmaN(<<"BC_ring", 0>>, M2("BC", 0), nb_slots)
        \o snrt_dma_wait_all
        \o snrt_cluster_hw_barrier
        \o Loop(nb_tiles, LAMBDA t : suc_async_tile(t, visits, nb_l, nb_slots, none))
        \o suc_async_check(nb_tiles, visits, nb_l)
        \o snrt_cluster_hw_barrier)

suc_async_dt(nb_tiles, nb_bc, nb_l, nb_slots, nb_dt_slots, dt_group) ==
    LET visits == nb_bc * nb_l
        nb_dt_tiles == nb_l \div dt_group
        slotOf(g) == (g % nb_dt_slots) * dt_group
        \* The windows of dt group g are the dt_group tiles of its slot.
        dtAt == [s \in 1 .. visits |->
                    slotOf((s - 1) \div dt_group) + ((s - 1) % dt_group)]
        dt == [GroupRing("dt_ring", nb_dt_slots, dt_group, visits) EXCEPT !.pat = dtAt]
        refill == [r \in 0 .. visits - 1 |->
            LET dr == (r + 1) \div dt_group + nb_dt_slots - 1
            IN When((r + 1) % dt_group = 0,
                    DmaN(<<"dt_ring", slotOf(dr)>>, M2("dt", (dr % nb_dt_tiles) * dt_group), dt_group))]
    IN Plain(
        snrt_cluster_hw_barrier
        \o set_streamer_suc_async(dt, visits, nb_slots)
        \o set_simbacore_csr("SUC_ONLY")
        \o DmaN(<<"dt_ring", 0>>, M2("dt", 0), nb_dt_slots * dt_group)
        \o DmaN(<<"BC_ring", 0>>, M2("BC", 0), nb_slots)
        \o snrt_dma_wait_all
        \o snrt_cluster_hw_barrier
        \o Loop(nb_tiles, LAMBDA t : suc_async_tile(t, visits, nb_l, nb_slots, refill))
        \o suc_async_check(nb_tiles, visits, nb_l)
        \o snrt_cluster_hw_barrier)

---------------------------------------------------------------------------
(***************************************************************************)
(* suc-carry: the sequence is cut into windows that are launches of their  *)
(* own; the state of the SUC goes from one to the next through ptr_state.  *)
(* The first launch does not load it, the last one does not save it.       *)
(***************************************************************************)
gather_tile(lt, s) ==
    Dma(<<"dt", s>>, M2("dt", lt)) \o Dma(<<"BC", s>>, M2("BC", lt))
    \o Dma(<<"x", s>>, M2("suc_x", lt)) \o Dma(<<"z", s>>, M2("oscore_expected", lt))
spill_tile(lt, s) == Dma(<<"y_l3", lt>>, <<"y", s>>)

SucInputs(lt) ==
    <<M2("dt", lt), M2("dt_weight_1", 0), M2("dt_bias", 0), M2("dt_weight_2", 0), M2("suc_A", 0),
      M2("BC", lt), M2("suc_D", 0), M2("suc_x", lt), M2("oscore_expected", lt)>>
GoldenState(lt) ==
    LET state[t \in 0 .. lt] ==
            <<"state">> \o (IF t = 0 THEN <<>> ELSE <<state[t - 1]>>) \o SucInputs(t)
    IN state[lt]
GoldenCarry(lt) == <<"suc">> \o SucInputs(lt) \o <<GoldenState(lt)>>

set_streamer_suc_carry(load_en, save_en) ==
    set_streamer_csr(set_streamer_suc(One("dt", 0), One("dt_weight_1", 0), One("dt_bias", 0),
            One("dt_weight_2", 0), One("A", 0), One("BC", 0), One("D", 0), One("x", 0),
            One("z", 0), One("y", 0))
        @@ (IF load_en THEN "R13" :> One("state", 0) ELSE <<>>)
        @@ (IF save_en THEN "W3" :> One("state", 0) ELSE <<>>))

CarryMode(lt, n) == IF lt = 0 THEN "SUC_STATE_SAVE"
                    ELSE IF lt = n - 1 THEN "SUC_STATE_LOAD" ELSE "SUC_STATE_CARRY"

suc_carry_launch(lt, n) ==
    set_simbacore_csr(CarryMode(lt, n))
    \o Start \o Release("R10") \o Clear({"R10"})
    \o When(lt + 1 < n,
            BasePtr("R2" :> <<"dt", (lt + 1) % 2>> @@ "R7" :> <<"BC", (lt + 1) % 2>>
                    @@ "R9" :> <<"x", (lt + 1) % 2>> @@ "R10" :> <<"z", (lt + 1) % 2>>
                    @@ "W2" :> <<"y", (lt + 1) % 2>>)
            \o When(lt = 0, Bound("R13", One("state", 0)))
            \o When(lt + 2 = n, Bound("W3", Off)))

suc_carry(n) ==
    LET Window(lt) ==
            suc_carry_launch(lt, n)
            \o When(lt + 1 < n, gather_tile(lt + 1, (lt + 1) % 2))
            \o When(lt >= 1, spill_tile(lt - 1, (lt - 1) % 2))
            \o snrt_dma_wait_all
            \o WaitIdle
            \o snrt_cluster_hw_barrier
    IN Plain(
        snrt_cluster_hw_barrier
        \o Copies([j \in DOMAIN SucWeights |-> Dma(<<SucWeights[j][1], 0>>, <<SucWeights[j][2], 0>>)])
        \o gather_tile(0, 0)
        \o snrt_dma_wait_all
        \o snrt_cluster_hw_barrier
        \o set_streamer_suc_carry(TRUE, n > 1) \o Bound("R13", Off)
        \o set_simbacore_csr("SUC_STATE_SAVE")
        \o Loop(n, Window)
        \o spill_tile(n - 1, (n - 1) % 2) \o snrt_dma_wait_all
        \o snrt_cluster_hw_barrier
        \o CheckN(<<"y_l3", 0>>, n, GoldenCarry)
        \o snrt_cluster_hw_barrier)

=============================================================================
