----------------------------- MODULE EinfftApps -----------------------------
(***************************************************************************)
(* The block-diagonal complex layers of EinFFT: for every branch           *)
(*   out_re = narrow(x_re W_re - x_im W_im + b_re)                         *)
(*   out_im = narrow(x_re W_im + x_im W_re + b_im)                         *)
(* with a ReLU in layer 0.  rr, ii, ri and ir are the four products.       *)
(***************************************************************************)
EXTENDS GemmApps

L3(layer, name, b) == <<"M3_" \o ToString(layer + 1) \o "_" \o name, b>>
ReluAdd(layer) == IF layer = 0 THEN "SIMD_ADD_BF16_RELU_REQUANT" ELSE "SIMD_ADD_BF16_REQUANT"
Narrow(layer) == IF layer = 0 THEN "SIMD_NOOP_BF16_REQUANT_RELU" ELSE "SIMD_NOOP_BF16_REQUANT"

\* The golden outputs, from the tiles of x and of the weights and biases.
FromProducts(layer, binop, p, q, bias) == Kernel(ReluAdd(layer), <<Kernel(binop, <<p, q>>), bias>>)
GoldenRe(layer, x, y, k) ==
    FromProducts(layer, "SIMD_SUB_FP8_REQUANT",
                 os(x, L3(layer, "weight_real", k)), os(y, L3(layer, "weight_imag", k)),
                 L3(layer, "bias_real", k))
GoldenIm(layer, x, y, k) ==
    FromProducts(layer, "SIMD_ADD_FP8_REQUANT",
                 os(x, L3(layer, "weight_imag", k)), os(y, L3(layer, "weight_real", k)),
                 L3(layer, "bias_imag", k))
\* nb tiles of each branch.
CheckLayers(out_re, out_im, nB, nb, re(_, _), im(_, _)) ==
    Loop(2, LAMBDA layer :
        CheckN(<<out_re[layer + 1], 0>>, nB * nb, LAMBDA k : re(layer, k))
        \o CheckN(<<out_im[layer + 1], 0>>, nB * nb, LAMBDA k : im(layer, k)))
OutRe == <<"l1_re", "l2_re">>
OutIm == <<"l1_im", "l2_im">>

---------------------------------------------------------------------------
(* einfft: four products, then two kernels for each side. *)

\* Same mode and dimensions, other operands.
Product(f) ==
    BasePtr(f) \o start_simbacore_and_streamers(FALSE, 0, FALSE, 0) \o wait_simbacore_and_streamer
FourProducts(x_re, x_im) ==
    set_osgemm_streamer_csr(One(x_re[1], x_re[2]), In("W_re"), In("rr"))
    \o RunSimd("OSGEMM")
    \o Product("R0" :> x_im @@ "W0" :> <<"ir", 0>>)
    \o Product("R1" :> <<"W_im", 0>> @@ "W0" :> <<"ii", 0>>)
    \o Product("R0" :> x_re @@ "W0" :> <<"ri", 0>>)

Side(layer, binop, pos, neg, bias, out) ==
    Simd(binop, In(pos), In(neg), In("bf16_a")) \o Simd(ReluAdd(layer), In("bf16_a"), bias, out)

einfft(nB) ==
    LET x(layer, part) == (IF layer = 0 THEN "x_" ELSE "x_2_") \o part
        preload(layer) ==
            DmaN(<<x(layer, "real"), 0>>, L3(layer, "x_real", 0), nB)
            \o DmaN(<<x(layer, "imag"), 0>>, L3(layer, "x_imag", 0), nB)
        bias(layer, part) == "bias_" \o ToString(layer) \o part
        biases(layer) ==
            DmaN(<<bias(layer, "re"), 0>>, L3(layer, "bias_real", 0), nB)
            \o DmaN(<<bias(layer, "im"), 0>>, L3(layer, "bias_imag", 0), nB)
        Branch(layer, b) ==
            Dma(<<"W_re", 0>>, L3(layer, "weight_real", b))
            \o Dma(<<"W_im", 0>>, L3(layer, "weight_imag", b))
            \o snrt_dma_wait_all
            \o snrt_cluster_hw_barrier
            \o FourProducts(<<x(layer, "real"), b>>, <<x(layer, "imag"), b>>)
            \o Side(layer, "SIMD_SUB_FP8_REQUANT", "rr", "ii", One(bias(layer, "re"), b),
                    One(OutRe[layer + 1], b))
            \o Side(layer, "SIMD_ADD_FP8_REQUANT", "ri", "ir", One(bias(layer, "im"), b),
                    One(OutIm[layer + 1], b))
            \o snrt_cluster_hw_barrier
        re(layer, b) == GoldenRe(layer, L3(layer, "x_real", b), L3(layer, "x_imag", b), b)
        im(layer, b) == GoldenIm(layer, L3(layer, "x_real", b), L3(layer, "x_imag", b), b)
    IN Plain(
        snrt_cluster_hw_barrier
        \o Loop(2, preload) \o Loop(2, biases)
        \o snrt_dma_wait_all
        \o snrt_cluster_hw_barrier
        \o Loop(2, LAMBDA layer : Loop(nB, LAMBDA b : Branch(layer, b)))
        \o CheckLayers(OutRe, OutIm, nB, 1, re, im)
        \o snrt_cluster_hw_barrier)

---------------------------------------------------------------------------
(* einfft-tiled: the weights of a branch come in nb tiles, real and        *)
(* imaginary next to each other in one ping-pong buffer, so that one       *)
(* launch makes two products.                                              *)

Pulse == Start \o Clear({})

tiled_products(cbuf) ==
    set_osgemm_streamer_csr(Stay("x_re", 0, 2), Walk("W_pp", 2 * cbuf, 2), Walk("outA", 0, 2))
    \o set_simbacore_csr("OSGEMM")
    \o Pulse
    \o BasePtr("R0" :> <<"x_im", 0>> @@ "W0" :> <<"outB", 0>>)
    \o WaitIdle
    \o Pulse
    \o set_simd_streamer_csr(One("outA", 0), One("outB", 1), In("bf16_a"))
    \o WaitIdle

\* The streamers of the first side were written while the products ran.
tiled_side(layer, Cfg, binop, bias, out) ==
    Cfg \o set_simbacore_csr(binop) \o Pulse \o WaitIdle
    \o set_simd_streamer_csr(In("bf16_a"), bias, out)
    \o set_simbacore_csr(ReluAdd(layer)) \o Pulse \o WaitIdle

r13_safe_disable == Bound("R13", Off)

tiled_compute(layer, tile, nb, bbuf) ==
    LET buf == tile % 2
    IN tiled_products(buf)
       \o tiled_side(layer, <<>>, "SIMD_SUB_FP8_REQUANT",
                     One("b_re", bbuf * nb + tile), One("out_re", buf))
       \o tiled_side(layer, set_simd_streamer_csr(One("outA", 1), One("outB", 0), In("bf16_a")),
                     "SIMD_ADD_FP8_REQUANT", One("b_im", bbuf * nb + tile), One("out_im", buf))
       \o r13_safe_disable

tiled_load(layer, b, i, nb) ==
    When(i < nb, Dma(<<"W_pp", 2 * (i % 2)>>, L3(layer, "weight_real", b * nb + i))
                 \o Dma(<<"W_pp", 2 * (i % 2) + 1>>, L3(layer, "weight_imag", b * nb + i)))
    \o When(i = 0,
            Dma(<<"x_re", 0>>, L3(layer, "x_real", b)) \o Dma(<<"x_im", 0>>, L3(layer, "x_imag", b))
            \o DmaN(<<"b_re", (b % 2) * nb>>, L3(layer, "bias_real", b * nb), nb)
            \o DmaN(<<"b_im", (b % 2) * nb>>, L3(layer, "bias_imag", b * nb), nb))
tiled_spill(layer, b, st, nb) ==
    Dma(<<OutRe[layer + 1], b * nb + st>>, <<"out_re", st % 2>>)
    \o Dma(<<OutIm[layer + 1], b * nb + st>>, <<"out_im", st % 2>>)

einfft_tiled(nB, nb_tiles) ==
    LET Iteration(layer, b, i) ==
            tiled_load(layer, b, i, nb_tiles)
            \o When(i >= 2, tiled_spill(layer, b, i - 2, nb_tiles))
            \o snrt_dma_wait_all
            \o When(i >= 1, tiled_compute(layer, i - 1, nb_tiles, b % 2))
            \o snrt_cluster_hw_barrier
        Branch(layer, b) ==
            Loop(nb_tiles + 1, LAMBDA i : Iteration(layer, b, i))
            \o tiled_spill(layer, b, nb_tiles - 1, nb_tiles)
            \o snrt_dma_wait_all
            \o snrt_cluster_hw_barrier
        x(layer, part, k) == L3(layer, part, k \div nb_tiles)
        re(layer, k) == GoldenRe(layer, x(layer, "x_real", k), x(layer, "x_imag", k), k)
        im(layer, k) == GoldenIm(layer, x(layer, "x_real", k), x(layer, "x_imag", k), k)
    IN Plain(
        snrt_cluster_hw_barrier
        \o Loop(2, LAMBDA layer : Loop(nB, LAMBDA b : Branch(layer, b)))
        \o CheckLayers(OutRe, OutIm, nB, nb_tiles, re, im)
        \o snrt_cluster_hw_barrier)

---------------------------------------------------------------------------
(* The two cores together: osCore makes rr and ii for the real side while  *)
(* isCore accumulates ri and ir for the other onto the bias in P.          *)

run_iosgemm ==
    set_simbacore_csr("IS_OSGEMM_NO_REQUANT")
    \o start_simbacore_and_streamers(FALSE, 0, TRUE, 0)
    \o ClearStart \o WaitIdle

Inputs == <<"x_re", "x_im", "x_re_cv", "x_im_cv", "w_re", "w_im", "w_re_is", "w_im_is", "b_re", "P">>
Arrays == <<"x_real", "x_imag", "x_real_conv", "x_imag_conv", "weight_real", "weight_imag",
            "weight_real_is", "weight_imag_is", "bias_real", "bias_imag_full">>
iosgemm_load(layer, b, buf) ==
    Loop(Len(Inputs), LAMBDA j : Dma(<<Inputs[j + 1], buf>>, L3(layer, Arrays[j + 1], b)))
iosgemm_spill(layer, b, buf) ==
    Dma(<<OutRe[layer + 1], b>>, <<"out_re", buf>>) \o Dma(<<OutIm[layer + 1], b>>, <<"out_im", buf>>)

iosgemm_products(buf) ==
    set_simbacore_csr("IS_OSGEMM_NO_REQUANT")
    \o set_streamer_csr(
           "R0" :> One("x_re", buf) @@ "R1" :> One("w_re", buf) @@ "W0" :> In("rr")
           @@ "R11" :> One("x_re_cv", buf) @@ "R12" :> One("w_im_is", buf)
           @@ "R13" :> One("P", buf) @@ "W3" :> One("P", buf))
    \o run_iosgemm
    \o BasePtr("R0" :> <<"x_im", buf>> @@ "R1" :> <<"w_im", buf>> @@ "W0" :> <<"ii", 0>>
               @@ "R11" :> <<"x_im_cv", buf>> @@ "R12" :> <<"w_re_is", buf>>)
    \o run_iosgemm
iosgemm_fuse(layer, buf) ==
    set_simbacore_csr("SIMD_SUB_FP8_REQUANT")
    \o set_simd_streamer_csr(In("rr"), In("ii"), In("bf16_a"))
    \o Pulse \o WaitIdle
    \o set_simd_streamer_csr(In("bf16_a"), One("b_re", buf), One("out_re", buf))
    \o set_simbacore_csr(ReluAdd(layer)) \o Pulse \o WaitIdle
    \o set_simbacore_csr("SIMD_NOOP_BF16_REQUANT")
    \o set_simd_streamer_no_b(One("P", buf), One("out_im", buf))
    \o set_simbacore_csr(Narrow(layer)) \o Pulse \o WaitIdle

GoldenP(layer, b) ==
    LET arr(name) == L3(layer, name, b)
        ri == is(arr("bias_imag_full"), arr("x_real_conv"), arr("weight_imag_is"))
    IN Kernel(Narrow(layer), <<is(ri, arr("x_imag_conv"), arr("weight_real_is"))>>)
CheckFolded(nB) ==
    CheckLayers(OutRe, OutIm, nB, 1,
        LAMBDA layer, b : GoldenRe(layer, L3(layer, "x_real", b), L3(layer, "x_imag", b), b),
        GoldenP)

einfft_tiled_is_osgemm(nB) ==
    LET Branch(layer, b) ==
            iosgemm_load(layer, b, 0) \o snrt_dma_wait_all
            \o snrt_cluster_hw_barrier
            \o iosgemm_products(0) \o iosgemm_fuse(layer, 0)
            \o snrt_cluster_hw_barrier
            \o iosgemm_spill(layer, b, 0) \o snrt_dma_wait_all
            \o snrt_cluster_hw_barrier
    IN Plain(
        snrt_cluster_hw_barrier
        \o Loop(2, LAMBDA layer : Loop(nB, LAMBDA b : Branch(layer, b)))
        \o CheckFolded(nB)
        \o snrt_cluster_hw_barrier)

\* Three-stage pipeline over both layers: load i, compute i-1, spill i-2.
einfft_double_conflictfree(nB) ==
    LET iters == 2 * nB
        Iteration(i) ==
            When(i < iters, iosgemm_load(i \div nB, i % nB, i % 2))
            \o When(i >= 1 /\ i < iters + 1,
                    iosgemm_products((i - 1) % 2) \o iosgemm_fuse((i - 1) \div nB, (i - 1) % 2))
            \o When(i >= 2, iosgemm_spill((i - 2) \div nB, (i - 2) % nB, (i - 2) % 2))
            \o snrt_dma_wait_all
            \o snrt_cluster_hw_barrier
    IN Plain(
        snrt_cluster_hw_barrier
        \o Loop(iters + 2, Iteration)
        \o CheckFolded(nB)
        \o snrt_cluster_hw_barrier)

=============================================================================
