------------------------------ MODULE MCOmpLoop ------------------------------
(***************************************************************************)
(* Instances of OmpLoop for TLC: the loops that are executed.              *)
(***************************************************************************)
EXTENDS OmpLoop

CONSTANTS MaxUpper, MaxChunk     \* bounds of the loops

LoopsOf(lowers, incrs, scheds) ==
    [lower : lowers, upper : 0 .. MaxUpper, incr : incrs, sched : scheds,
     chunk : 1 .. MaxChunk, nb : {MaxThreads}]

\* Normalised loops, as compilers emit them: from 0 in steps of 1.
Normalised == LoopsOf({0}, {1}, {"static", "static_chunked"})

\* Loops in steps of 2 without a chunk size.
ByTwo == LoopsOf({0}, {2}, {"static"})
=============================================================================
