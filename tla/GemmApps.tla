------------------------------ MODULE GemmApps ------------------------------
(***************************************************************************)
(* The programs that run one GEMM kernel or the two GEMM cores together.   *)
(* Names of buffers are those of the source; M3_A etc. are the arrays of   *)
(* data.h in L3.                                                           *)
(***************************************************************************)
EXTENDS SimbacoreLib

\* What osCore and isCore compute.
os(a, b) == <<"os", a, b>>
is(c, a, b) == <<"is", c, a, b>>
isq(c, a, b) == <<"isq", c, a, b>>

osgemm == Plain(
    snrt_cluster_hw_barrier
    \o Dma(<<"ptr_a", 0>>, <<"M3_A", 0>>) \o Dma(<<"ptr_b", 0>>, <<"M3_B", 0>>)
    \o snrt_dma_wait_all
    \o snrt_cluster_hw_barrier
    \o set_osgemm_streamer_csr(One("ptr_a", 0), One("ptr_b", 0), One("ptr_d", 0))
    \o set_simbacore_csr("OSGEMM")
    \o start_simbacore_and_streamers(FALSE, 0, FALSE, 0)
    \o wait_simbacore_and_streamer
    \o Check(<<"ptr_d", 0>>, os(<<"M3_A", 0>>, <<"M3_B", 0>>))
    \o snrt_cluster_hw_barrier)

\* Three-stage pipeline: load B-tile i, compute tile i-1, copy out D-tile i-2.
osgemm_tiled(nb_tiles) ==
    LET Iteration(i) ==
            When(i < nb_tiles, Dma(<<"ptr_b", i % 2>>, <<"M3_B", i>>))
            \o When(i >= 1 /\ i < nb_tiles + 1,
                    BasePtr("R1" :> <<"ptr_b", (i - 1) % 2>> @@ "W0" :> <<"ptr_d", (i - 1) % 2>>)
                    \o start_simbacore_and_streamers(FALSE, 0, FALSE, 0)
                    \o wait_simbacore_and_streamer)
            \o When(i >= 2, Dma(<<"ptr_d_out", i - 2>>, <<"ptr_d", (i - 2) % 2>>))
            \o snrt_dma_wait_all
            \o snrt_cluster_hw_barrier
    IN Plain(
        snrt_cluster_hw_barrier
        \o Dma(<<"ptr_a", 0>>, <<"M3_A", 0>>) \o snrt_dma_wait_all
        \o set_osgemm_streamer_csr(One("ptr_a", 0), One("ptr_b", 0), One("ptr_d", 0))
        \o set_simbacore_csr("OSGEMM")
        \o snrt_cluster_hw_barrier
        \o Loop(nb_tiles + 2, Iteration)
        \o CheckN(<<"ptr_d_out", 0>>, nb_tiles, LAMBDA t : os(<<"M3_A", 0>>, <<"M3_B", t>>))
        \o snrt_cluster_hw_barrier)

\* A is a ring of nb_slots slots in L1, refilled while osCore runs.
osgemm_tiled_async(nb_tiles, nb_l, nb_slots) ==
    LET Refill(r) ==
            Poll("os", r + 1)
            \o snrt_cluster_hw_barrier
            \o Dma(<<"ptr_a", r % nb_slots>>, <<"M3_A", (r + nb_slots) % nb_l>>)
        DInnerTile(t) ==
            Dma(<<"ptr_b", 0>>, <<"M3_B", t>>) \o snrt_dma_wait_all
            \o snrt_cluster_hw_barrier
            \o BasePtr("R1" :> <<"ptr_b", 0>> @@ "W0" :> <<"ptr_d", t * nb_l>>)
            \o start_simbacore_and_streamers(FALSE, 0, FALSE, 0)
            \o Loop(nb_l, Refill)
            \o snrt_dma_wait_all
            \o snrt_cluster_hw_barrier
            \o wait_simbacore_and_streamer
            \o snrt_cluster_hw_barrier
    IN Plain(
        set_osgemm_streamer_csr(Ring("ptr_a", nb_slots, nb_l), Stay("ptr_b", 0, nb_l),
                                Walk("ptr_d", 0, nb_l))
        \o set_simbacore_csr("OSGEMM")
        \o DmaN(<<"ptr_a", 0>>, <<"M3_A", 0>>, nb_slots) \o snrt_dma_wait_all
        \o snrt_cluster_hw_barrier
        \o Loop(nb_tiles, DInnerTile)
        \o CheckN(<<"ptr_d", 0>>, nb_tiles * nb_l,
                  LAMBDA k : os(<<"M3_A", k % nb_l>>, <<"M3_B", k \div nb_l>>))
        \o snrt_cluster_hw_barrier)

\* One isCore launch; the bias is the first psum and is overwritten in place.
test_isgemm(mode, k) ==
    snrt_cluster_hw_barrier
    \o Dma(<<"ptr_a", 0>>, <<"M4_A", 0>>) \o Dma(<<"ptr_b", 0>>, <<"M4_B", 0>>)
    \o Dma(<<"ptr_cd", 0>>, <<"M4_C", 0>>)
    \o snrt_dma_wait_all
    \o snrt_cluster_hw_barrier
    \o set_isgemm_streamer_csr(One("ptr_a", 0), One("ptr_b", 0), One("ptr_cd", 0))
    \o set_simbacore_csr(mode)
    \o start_simbacore_and_streamers(FALSE, 0, TRUE, 0)
    \o wait_simbacore_and_streamer
    \o Check(<<"ptr_cd", 0>>, <<k, <<"M4_C", 0>>, <<"M4_A", 0>>, <<"M4_B", 0>>>>)
    \o snrt_cluster_hw_barrier

isgemm == Plain(test_isgemm("ISGEMM", "isq") \o test_isgemm("ISGEMM_NO_REQUANT", "is"))

\* The psum after the K-tiles 0 .. n-1 of the inputs A(t), B(t).
PsumIs(C, a, b, n) ==
    LET psum[k \in 0 .. n] == IF k = 0 THEN C ELSE is(psum[k - 1], <<a, k - 1>>, <<b, k - 1>>)
    IN psum[n]
\* The last K-tile requantises.
IsGolden(C, a, b, n) == isq(PsumIs(C, a, b, n - 1), <<a, n - 1>>, <<b, n - 1>>)

\* K-tiles ping-pong, the psum stays in L1; only the last tile requantises.
isgemm_tiled(nb_tiles) ==
    LET mode(t) == IF t = nb_tiles - 1 THEN "ISGEMM" ELSE "ISGEMM_NO_REQUANT"
        Iteration(i) ==
            When(i < nb_tiles, Dma(<<"ptr_a", i % 2>>, <<"M4_A", i>>)
                               \o Dma(<<"ptr_b", i % 2>>, <<"M4_B", i>>))
            \o When(i >= 1 /\ i < nb_tiles + 1,
                    BasePtr("R11" :> <<"ptr_a", (i - 1) % 2>> @@ "R12" :> <<"ptr_b", (i - 1) % 2>>)
                    \o set_simbacore_csr(mode(i - 1))
                    \o start_simbacore_and_streamers(FALSE, 0, TRUE, 0)
                    \o wait_simbacore_and_streamer)
            \o snrt_dma_wait_all
            \o snrt_cluster_hw_barrier
    IN Plain(
        snrt_cluster_hw_barrier
        \o Dma(<<"ptr_cd", 0>>, <<"M4_C", 0>>) \o snrt_dma_wait_all
        \o set_isgemm_streamer_csr(One("ptr_a", 0), One("ptr_b", 0), One("ptr_cd", 0))
        \o set_simbacore_csr("ISGEMM")
        \o snrt_cluster_hw_barrier
        \o Loop(nb_tiles + 1, Iteration)
        \o Check(<<"ptr_cd", 0>>, IsGolden(<<"M4_C", 0>>, "M4_A", "M4_B", nb_tiles))
        \o snrt_cluster_hw_barrier)

\* The psum is a ring: a visit spills a slot to L3 and reloads the next tile.
isgemm_tiled_async(nb_k, nb_l, nb_slots) ==
    LET Visit(r) ==
            Poll("is", r + 1)
            \o snrt_cluster_hw_barrier
            \o Dma(<<"ptr_psum_l3", r>>, <<"ptr_ring", r % nb_slots>>)
            \o Dma(<<"ptr_ring", r % nb_slots>>, <<"ptr_psum_l3", (r + nb_slots) % nb_l>>)
        KStep(k) ==
            Dma(<<"ptr_a", k % 2>>, <<"M4_A", k>>) \o Dma(<<"ptr_b", k % 2>>, <<"M4_B", k>>)
            \o snrt_dma_wait_all
            \o snrt_cluster_hw_barrier
            \o BasePtr("R11" :> <<"ptr_a", k % 2>> @@ "R12" :> <<"ptr_b", k % 2>>)
            \o start_simbacore_and_streamers(FALSE, 0, TRUE, 0)
            \o Loop(nb_l, Visit)
            \o snrt_dma_wait_all
            \o snrt_cluster_hw_barrier
            \o wait_simbacore_and_streamer
            \o snrt_cluster_hw_barrier
    IN Plain(
        snrt_cluster_hw_barrier
        \o set_isgemm_streamer_csr(Stay("ptr_a", 0, nb_l), Stay("ptr_b", 0, nb_l),
                                   Ring("ptr_ring", nb_slots, nb_l))
        \o set_simbacore_csr("ISGEMM_NO_REQUANT")
        \o DmaN(<<"ptr_psum_l3", 0>>, <<"M4_C", 0>>, nb_l) \o snrt_dma_wait_all
        \o DmaN(<<"ptr_ring", 0>>, <<"ptr_psum_l3", 0>>, nb_slots) \o snrt_dma_wait_all
        \o snrt_cluster_hw_barrier
        \o Loop(nb_k, KStep)
        \o CheckN(<<"ptr_psum_l3", 0>>, nb_l,
                  LAMBDA l : PsumIs(<<"M4_C", l>>, "M4_A", "M4_B", nb_k))
        \o snrt_cluster_hw_barrier)

---------------------------------------------------------------------------
(* Both GEMM cores at the same time. *)

set_is_os_streamers(A, B, D, a, b, cd) ==
    set_streamer_csr("R0" :> A @@ "R1" :> B @@ "W0" :> D
                     @@ "R11" :> a @@ "R12" :> b @@ "R13" :> cd @@ "W3" :> cd)

is_osgemm == Plain(
    snrt_cluster_hw_barrier
    \o Dma(<<"ptr_a_os", 0>>, <<"M3_A", 0>>) \o Dma(<<"ptr_b_os", 0>>, <<"M3_B", 0>>)
    \o Dma(<<"ptr_a_is", 0>>, <<"M4_A", 0>>) \o Dma(<<"ptr_b_is", 0>>, <<"M4_B", 0>>)
    \o Dma(<<"ptr_cd_is", 0>>, <<"M4_C", 0>>)
    \o snrt_dma_wait_all
    \o snrt_cluster_hw_barrier
    \o set_is_os_streamers(One("ptr_a_os", 0), One("ptr_b_os", 0), One("ptr_d_os", 0),
                           One("ptr_a_is", 0), One("ptr_b_is", 0), One("ptr_cd_is", 0))
    \o set_simbacore_csr("IS_OSGEMM")
    \o start_simbacore_and_streamers(FALSE, 0, TRUE, 0)
    \o wait_simbacore_and_streamer
    \o Check(<<"ptr_d_os", 0>>, os(<<"M3_A", 0>>, <<"M3_B", 0>>))
    \o Check(<<"ptr_cd_is", 0>>, isq(<<"M4_C", 0>>, <<"M4_A", 0>>, <<"M4_B", 0>>))
    \o snrt_cluster_hw_barrier)

(***************************************************************************)
(* is-osgemm-tiled and double-gemm-conflict-free: the base pointers of     *)
(* tile t+1 are written while tile t runs.  The two programs differ in the *)
(* placement of the buffers (a swizzle of the addresses, interleaved bank  *)
(* halves) and in that the second copies the psum to L3 for the check.     *)
(***************************************************************************)
TiledBothCores(nb_tiles, End) ==
    LET mode(t) == IF t = nb_tiles - 1 THEN "IS_OSGEMM" ELSE "IS_OSGEMM_NO_REQUANT"
        Next(t) == "R1" :> <<"ptr_b_os", t % 2>> @@ "W0" :> <<"ptr_d_os", t % 2>>
                   @@ "R11" :> <<"ptr_a_is", t % 2>> @@ "R12" :> <<"ptr_b_is", t % 2>>
        Compute(t) ==
            set_simbacore_csr(mode(t))
            \o start_simbacore_and_streamers(FALSE, 0, TRUE, 0)
            \o ClearStart
            \o When(t < nb_tiles - 1, BasePtr(Next(t + 1)))
            \o WaitIdle
        Iteration(i) ==
            When(i < nb_tiles, Dma(<<"ptr_b_os", i % 2>>, <<"M3_B", i>>)
                               \o Dma(<<"ptr_a_is", i % 2>>, <<"M4_A", i>>)
                               \o Dma(<<"ptr_b_is", i % 2>>, <<"M4_B", i>>))
            \o When(i >= 1 /\ i < nb_tiles + 1, Compute(i - 1))
            \o When(i >= 2, Dma(<<"l3_d_os", i - 2>>, <<"ptr_d_os", i % 2>>))
            \o snrt_dma_wait_all
            \o snrt_cluster_hw_barrier
    IN Plain(
        snrt_cluster_hw_barrier \o snrt_cluster_hw_barrier
        \o Dma(<<"ptr_a_os", 0>>, <<"M3_A", 0>>) \o Dma(<<"ptr_cd_is", 0>>, <<"M4_C", 0>>)
        \o snrt_dma_wait_all
        \o set_is_os_streamers(One("ptr_a_os", 0), One("ptr_b_os", 0), One("ptr_d_os", 0),
                               One("ptr_a_is", 0), One("ptr_b_is", 0), One("ptr_cd_is", 0))
        \o set_simbacore_csr("IS_OSGEMM_NO_REQUANT")
        \o snrt_cluster_hw_barrier
        \o Loop(nb_tiles + 2, Iteration)
        \o End
        \o snrt_cluster_hw_barrier)

GoldenOs(n) == CheckN(<<"l3_d_os", 0>>, n, LAMBDA t : os(<<"M3_A", 0>>, <<"M3_B", t>>))
GoldenIs(n) == IsGolden(<<"M4_C", 0>>, "M4_A", "M4_B", n)

is_osgemm_tiled(nb_tiles) ==
    TiledBothCores(nb_tiles, GoldenOs(nb_tiles) \o Check(<<"ptr_cd_is", 0>>, GoldenIs(nb_tiles)))

double_gemm_conflict_free(nb_tiles) ==
    TiledBothCores(nb_tiles,
        Dma(<<"l3_cd_is", 0>>, <<"ptr_cd_is", 0>>) \o snrt_dma_wait_all
        \o snrt_cluster_hw_barrier
        \o GoldenOs(nb_tiles) \o Check(<<"l3_cd_is", 0>>, GoldenIs(nb_tiles)))

\* The A ring of osCore and the psum ring of isCore, each paced by its own gauge.
is_osgemm_tiled_async(nb_inv, nb_l, nb_slots) ==
    LET Visit(name, r) ==
            IF name = "os"
            THEN Dma(<<"ptr_a_os", r % nb_slots>>, <<"M3_A", (r + nb_slots) % nb_l>>)[1].q
            ELSE Dma(<<"ptr_psum_l3", r>>, <<"ptr_ring", r % nb_slots>>)[1].q
                 \o Dma(<<"ptr_ring", r % nb_slots>>, <<"ptr_psum_l3", (r + nb_slots) % nb_l>>)[1].q
        Invocation(v) ==
            Dma(<<"ptr_b_os", 0>>, <<"M3_B", v>>) \o Dma(<<"ptr_a_is", 0>>, <<"M4_A", v>>)
            \o Dma(<<"ptr_b_is", 0>>, <<"M4_B", v>>)
            \o snrt_dma_wait_all
            \o snrt_cluster_hw_barrier
            \o BasePtr("R1" :> <<"ptr_b_os", 0>> @@ "W0" :> <<"ptr_d_os", v * nb_l>>
                       @@ "R11" :> <<"ptr_a_is", 0>> @@ "R12" :> <<"ptr_b_is", 0>>)
            \o start_simbacore_and_streamers(FALSE, 0, TRUE, 0)
            \o PacedLoop({RingOf("os", "os", nb_l), RingOf("is", "is", nb_l)}, Visit)
            \o snrt_dma_wait_all
            \o snrt_cluster_hw_barrier
            \o wait_simbacore_and_streamer
            \o snrt_cluster_hw_barrier
    IN Plain(
        snrt_cluster_hw_barrier
        \o set_is_os_streamers(Ring("ptr_a_os", nb_slots, nb_l), Stay("ptr_b_os", 0, nb_l),
                               Walk("ptr_d_os", 0, nb_l), Stay("ptr_a_is", 0, nb_l),
                               Stay("ptr_b_is", 0, nb_l), Ring("ptr_ring", nb_slots, nb_l))
        \o set_simbacore_csr("IS_OSGEMM_NO_REQUANT")
        \o DmaN(<<"ptr_a_os", 0>>, <<"M3_A", 0>>, nb_slots)
        \o DmaN(<<"ptr_psum_l3", 0>>, <<"M4_C", 0>>, nb_l)
        \o snrt_dma_wait_all
        \o DmaN(<<"ptr_ring", 0>>, <<"ptr_psum_l3", 0>>, nb_slots)
        \o snrt_dma_wait_all
        \o snrt_cluster_hw_barrier
        \o Loop(nb_inv, Invocation)
        \o CheckN(<<"ptr_d_os", 0>>, nb_inv * nb_l,
                  LAMBDA k : os(<<"M3_A", k % nb_l>>, <<"M3_B", k \div nb_l>>))
        \o CheckN(<<"ptr_psum_l3", 0>>, nb_l,
                  LAMBDA l : PsumIs(<<"M4_C", l>>, "M4_A", "M4_B", nb_inv))
        \o snrt_cluster_hw_barrier)

-----------------------------------------------------------------------------
(***************************************************************************)
(* The programs that use the SIMD unit alone: one kernel after the other,  *)
(* often in place.  A vector or a matrix is one tile.                      *)
(***************************************************************************)
Kernel(mode, args) == <<mode>> \o args

\* A kernel with the streamers as they are, its output at out.
SimdTo(mode, out) == BasePtr("W3" :> <<out, 0>>) \o RunSimd(mode)
In(buf) == One(buf, 0)

test_simd_fp8 ==
    snrt_cluster_hw_barrier
    \o Dma(<<"a8", 0>>, <<"M8_in_a_fp8", 0>>) \o Dma(<<"b8", 0>>, <<"M8_in_b_fp8", 0>>)
    \o snrt_dma_wait_all
    \o snrt_cluster_hw_barrier
    \o Simd("SIMD_CMUL_FP8", In("a8"), In("b8"), In("cmul8"))
    \o SimdTo("SIMD_ADD_FP8", "add8") \o SimdTo("SIMD_SUB_FP8", "sub8")
    \o SimdTo("SIMD_MUL_FP8", "mul8")
    \o Simd("SIMD_MUL_FP8_REQUANT", In("a8"), In("b8"), In("mul_requant8"))
    \o Simd("SIMD_INPROD_FP8", In("a8"), In("b8"), In("inprod8"))
    \o SimdNoB("SIMD_RMS_FP8", In("a8"), In("rms8"))
    \o SimdNoB("SIMD_NOOP_FP8_REQUANT", In("a8"), In("noop8"))
    \o Simd("SIMD_SOFTSHRINK_FP8", In("a8"), In("b8"), In("softshrink8"))
    \o LET a == <<"M8_in_a_fp8", 0>>
           ab(mode, out) == Check(<<out, 0>>, Kernel(mode, <<a, <<"M8_in_b_fp8", 0>>>>))
           a_(mode, out) == Check(<<out, 0>>, Kernel(mode, <<a>>))
       IN ab("SIMD_CMUL_FP8", "cmul8") \o ab("SIMD_ADD_FP8", "add8")
          \o ab("SIMD_SUB_FP8", "sub8") \o ab("SIMD_MUL_FP8", "mul8")
          \o ab("SIMD_INPROD_FP8", "inprod8") \o a_("SIMD_RMS_FP8", "rms8")
          \o ab("SIMD_MUL_FP8_REQUANT", "mul_requant8") \o a_("SIMD_NOOP_FP8_REQUANT", "noop8")
          \o ab("SIMD_SOFTSHRINK_FP8", "softshrink8")
    \o snrt_cluster_hw_barrier

test_simd_bf16 ==
    snrt_cluster_hw_barrier
    \o Dma(<<"a", 0>>, <<"M8_in_a_bf16", 0>>) \o Dma(<<"b", 0>>, <<"M8_in_b_bf16", 0>>)
    \o snrt_dma_wait_all
    \o snrt_cluster_hw_barrier
    \o set_simd_streamer_csr(In("a"), In("b"), In("cmul"))
    \o set_simbacore_csr("SIMD_ADD_BF16")
    \o SimdTo("SIMD_ADD_BF16", "add") \o SimdTo("SIMD_SUB_BF16", "sub")
    \o SimdTo("SIMD_MUL_BF16", "mul") \o SimdTo("SIMD_DIV_BF16", "div")
    \o Simd("SIMD_MUL_BF16_REQUANT", In("a"), In("b"), In("mul_requant"))
    \o Simd("SIMD_INPROD_BF16", In("a"), In("b"), In("inprod"))
    \o SimdNoB("SIMD_RMS_BF16", In("a"), In("rms"))
    \o SimdNoB("SIMD_SQRT_BF16", In("a"), In("sqrt"))
    \o SimdNoB("SIMD_NOOP_BF16_REQUANT", In("a"), In("noop"))
    \o LET a == <<"M8_in_a_bf16", 0>>
           ab(mode, out) == Check(<<out, 0>>, Kernel(mode, <<a, <<"M8_in_b_bf16", 0>>>>))
           a_(mode, out) == Check(<<out, 0>>, Kernel(mode, <<a>>))
       IN ab("SIMD_ADD_BF16", "add") \o ab("SIMD_SUB_BF16", "sub") \o ab("SIMD_MUL_BF16", "mul")
          \o ab("SIMD_INPROD_BF16", "inprod") \o a_("SIMD_RMS_BF16", "rms")
          \o ab("SIMD_DIV_BF16", "div") \o a_("SIMD_SQRT_BF16", "sqrt")
          \o ab("SIMD_MUL_BF16_REQUANT", "mul_requant")
          \o a_("SIMD_NOOP_BF16_REQUANT", "noop")
    \o snrt_cluster_hw_barrier

\* Both tests lay their buffers out from the same address.
Fp8Buffers == {"a8", "b8", "cmul8", "add8", "sub8", "mul8", "mul_requant8", "inprod8", "rms8",
               "noop8", "softshrink8"}
Bf16Buffers == {"a", "b", "cmul", "add", "sub", "mul", "div", "mul_requant", "inprod", "rms",
                "sqrt", "noop"}
simd == Program(test_simd_fp8 \o test_simd_bf16, Sharing(Fp8Buffers, Bf16Buffers))

---------------------------------------------------------------------------
(* RMSNorm: rms = 1 / sqrt(mean of the squares); x * rms * weight.         *)

\* From the sums of squares to x * rms, in place; core 0 writes 1 / n.
ScaleByRms(x, rms, const) ==
    SimdNoB("SIMD_RMS_BF16", In(x), In(rms))
    \o Cpu("1/n", <<>>, <<const, 0>>)
    \o Simd("SIMD_MUL_BF16", In(rms), In(const), In(rms))
    \o SimdNoB("SIMD_RSQRT_BF16", In(rms), In(rms))
    \o Simd("SIMD_MUL_BF16", In(x), In(rms), In(x))
\* And by the weights, still in the mode of the last multiplication.
ScaleByWeight(x, weight) ==
    set_simd_streamer_csr(In(x), In(weight), In(x))
    \o start_simbacore_and_streamers(FALSE, 0, FALSE, 0)
    \o wait_simbacore_and_streamer
GoldenRms(x, weight) ==
    LET mean == Kernel("SIMD_MUL_BF16", <<Kernel("SIMD_RMS_BF16", <<x>>), <<"1/n">>>>)
        rms == Kernel("SIMD_RSQRT_BF16", <<mean>>)
    IN Kernel("SIMD_MUL_BF16", <<Kernel("SIMD_MUL_BF16", <<x, rms>>), weight>>)

rmsnorm == Plain(
    snrt_cluster_hw_barrier
    \o Dma(<<"x", 0>>, <<"M12_x", 0>>) \o Dma(<<"weight", 0>>, <<"M12_weight", 0>>)
    \o snrt_dma_wait_all
    \o snrt_cluster_hw_barrier
    \o ScaleByRms("x", "rms", "constant") \o ScaleByWeight("x", "weight")
    \o Check(<<"x", 0>>, GoldenRms(<<"M12_x", 0>>, <<"M12_weight", 0>>))
    \o snrt_cluster_hw_barrier)

simd_start(mode) == set_simbacore_csr(mode) \o Start \o Clear({})
simd_wait == WaitIdle

\* The streamers of the next kernel are written while the last one runs.  y is
\* a slot of two tiles, the weights and y.
normalize_tile(x, y, rms, x_next) ==
    simd_start("SIMD_RMS_BF16")
    \o set_simd_streamer_no_b(rms, rms) \o simd_wait
    \o simd_start("SIMD_RSQRT_BF16")
    \o set_simd_streamer_csr(x, rms, x) \o simd_wait
    \o simd_start("SIMD_MUL_BF16")
    \o set_simd_streamer_csr(x, y, x) \o simd_wait
    \o simd_start("SIMD_FMA_STREAM_BF16")
    \o set_simd_streamer_no_b(x_next, rms) \o simd_wait

rmsnorm_tiled(nb_tiles) == Plain(
    DmaN(<<"y", 0>>, <<"M12_weight", 0>>, 1) \o DmaN(<<"y", 2>>, <<"M12_weight", 0>>, 1)
    \o Dma(<<"x", 0>>, <<"M12_x", 0>>) \o Dma(<<"y", 1>>, <<"M12_y", 0>>)
    \o snrt_dma_wait_all
    \o snrt_cluster_hw_barrier
    \o set_simd_streamer_no_b(One("x", 0), In("rms"))
    \o LET tile(n) ==
               LET s == n % 2
                   other == 1 - s
               IN When(n >= 1, Dma(<<"l3_out", n - 1>>, <<"x", other>>))
                  \o When(n + 1 < nb_tiles, Dma(<<"x", other>>, <<"M12_x", n + 1>>)
                                            \o Dma(<<"y", 2 * other + 1>>, <<"M12_y", n + 1>>))
                  \o normalize_tile(One("x", s), Span("y", 2 * s, 2), In("rms"), One("x", other))
                  \o snrt_cluster_hw_barrier
                  \o snrt_dma_wait_all
                  \o snrt_cluster_hw_barrier
       IN Loop(nb_tiles, tile)
    \o Dma(<<"l3_out", nb_tiles - 1>>, <<"x", (nb_tiles - 1) % 2>>)
    \o snrt_dma_wait_all
    \o snrt_cluster_hw_barrier
    \o LET out(n) ==
               LET x == <<"M12_x", n>>
                   rms == Kernel("SIMD_RSQRT_BF16", <<Kernel("SIMD_RMS_BF16", <<x>>)>>)
               IN Kernel("SIMD_FMA_STREAM_BF16", <<Kernel("SIMD_MUL_BF16", <<x, rms>>),
                                                   <<"M12_weight", 0>>, <<"M12_y", n>>>>)
       IN CheckN(<<"l3_out", 0>>, nb_tiles, out)
    \o snrt_cluster_hw_barrier)

\* batchnorm.c, whose setup comes before the transfers.
batchnorm == Plain(
    set_simd_streamer_csr(In("x"), In("scaleshift"), In("out"))
    \o Dma(<<"x", 0>>, <<"M10_x", 0>>) \o Dma(<<"scaleshift", 0>>, <<"M10_scaleshift", 0>>)
    \o snrt_dma_wait_all
    \o snrt_cluster_hw_barrier
    \o simd_start("SIMD_FMA_HOLD_BF16_RELU") \o simd_wait
    \o Check(<<"out", 0>>,
             Kernel("SIMD_FMA_HOLD_BF16_RELU", <<<<"M10_x", 0>>, <<"M10_scaleshift", 0>>>>))
    \o snrt_cluster_hw_barrier)
=============================================================================
