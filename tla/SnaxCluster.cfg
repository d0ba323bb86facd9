\* Every program of MCSnaxCluster but fft_tiled_long, whose third tile reads what the
\* first one left (README, "Programs").  Reduced numbers of tiles and slots; the
\* units read one tile ahead of what they write, the DMA engine two.
CONSTANTS
 Programs <- AppPrograms
 Apps = {"P1_tiled_D", "P2_async_OS_no_IS", "P2_tiled_D", "SUC_tiled", "batchnorm",
         "double_gemm_conflict_free", "einfft", "einfft_double_conflictfree",
         "einfft_tiled", "einfft_tiled_is_osgemm", "fft", "fft_3way", "fft_3way_L8",
         "fft_3way_L8_pad", "fft_3way_tiled", "fft_3way_tiled_async",
         "fft_3way_tiled_single", "fft_4way", "fft_4way_tiled_async",
         "fft_4way_tiled_async_simd", "fft_tiled", "is_osgemm", "is_osgemm_tiled",
         "is_osgemm_tiled_async", "isgemm", "isgemm_tiled", "isgemm_tiled_async",
         "main", "main_tiled", "main_tiled_iscore", "main_tiled_oscore", "osgemm",
         "osgemm_tiled", "osgemm_tiled_async", "p2_carry", "rmsnorm",
         "rmsnorm_tiled", "simd", "suc_async", "suc_async_dt", "suc_async_dt2",
         "suc_carry", "suc_only", "vmamba", "vmamba_tiled"}
 PipeDepth = 1
 DmaDepth = 2
SPECIFICATION Spec
INVARIANTS ResultsGolden TilesApart
PROPERTY Terminates
\* Both cores stop after main().
CHECK_DEADLOCK FALSE
