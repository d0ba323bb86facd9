---------------------------- MODULE MCSnaxCluster ----------------------------
(***************************************************************************)
(* SnaxCluster with the programs of target/snitch_cluster/sw/apps, with    *)
(* the numbers of tiles and slots they are checked with, for TLC.          *)
(***************************************************************************)
EXTENDS SnaxCluster, MambaRings, FftApps, EinfftApps

SnaxPrograms == [
    osgemm             |-> osgemm,
    osgemm_tiled       |-> osgemm_tiled(4),
    osgemm_tiled_async |-> osgemm_tiled_async(2, 4, 2),
    isgemm             |-> isgemm,
    isgemm_tiled       |-> isgemm_tiled(4),
    isgemm_tiled_async |-> isgemm_tiled_async(2, 4, 2),
    is_osgemm          |-> is_osgemm,
    is_osgemm_tiled    |-> is_osgemm_tiled(3),
    double_gemm_conflict_free |-> double_gemm_conflict_free(3),
    is_osgemm_tiled_async |-> is_osgemm_tiled_async(2, 4, 2),
    main       |-> main,
    P1_tiled_D |-> P1_tiled_D(3),
    P2_tiled_D |-> P2_tiled_D(3),
    main_tiled |-> main_tiled(3),
    suc_only   |-> suc_only,
    SUC_tiled  |-> SUC_tiled(3),
    suc_async  |-> suc_async(2, 2, 4, 2),
    suc_async_dt |-> suc_async_dt(2, 2, 4, 2, 2, 1),
    suc_async_dt2 |-> suc_async_dt(2, 2, 8, 2, 2, 2),
    suc_carry  |-> suc_carry(4),
    main_tiled_iscore |-> main_tiled_iscore(2, 4, 2),
    main_tiled_oscore |-> main_tiled_oscore(2, 4, 2),
    P2_async_OS_no_IS |-> P2_async_OS_no_IS(2, 4, 2),
    p2_carry   |-> p2_carry(2, 3),
    vmamba       |-> vmamba(3),
    vmamba_tiled |-> vmamba_tiled(2, 3),
    simd          |-> simd,
    rmsnorm       |-> rmsnorm,
    rmsnorm_tiled |-> rmsnorm_tiled(3),
    batchnorm     |-> batchnorm,
    fft           |-> fft,
    fft_3way      |-> fft_3way,
    fft_4way      |-> fft_4way,
    fft_tiled     |-> fft_tiled(2, 2),
    fft_tiled_long |-> fft_tiled(3, 2),
    fft_3way_L8     |-> fft_3way_L8(2, 2, FALSE),
    fft_3way_L8_pad |-> fft_3way_L8(2, 1, TRUE),
    fft_3way_tiled        |-> fft_3way_tiled(2, 2),
    fft_3way_tiled_single |-> fft_3way_tiled(3, 1),
    fft_3way_tiled_async  |-> fft_3way_tiled_async(2, 2, 2),
    fft_4way_tiled_async      |-> fft_4way_tiled_async(2, 2, TRUE, TRUE, TRUE),
    fft_4way_tiled_async_simd |-> fft_4way_tiled_async(2, 2, FALSE, FALSE, FALSE),
    einfft       |-> einfft(2),
    einfft_tiled |-> einfft_tiled(2, 3),
    einfft_tiled_is_osgemm     |-> einfft_tiled_is_osgemm(2),
    einfft_double_conflictfree |-> einfft_double_conflictfree(2)]

\* TLC evaluates SnaxPrograms once, and this each time it looks a program up.
AppPrograms == SnaxPrograms
=============================================================================
