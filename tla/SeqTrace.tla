------------------------------ MODULE SeqTrace ------------------------------
(***************************************************************************)
(* gen_trace.py beside the FPU sequencer: from the lines that the core and *)
(* the FPU write in a cycle, in this order, it works out again which       *)
(* instruction of which repetition the FPU has been issued.                *)
(***************************************************************************)
EXTENDS Sequencer, FiniteSets

VARIABLES
    fpss_pcs,   \* offloaded and not yet consumed, the oldest first
    loop,       \* fseq_info['curr_cfg']: the frep being worked on
    traced,     \* the instructions and annotations written out
    crashed     \* a pop from an empty deque

traceVars == <<vars, fpss_pcs, loop, traced, crashed>>

\* No frep is being worked on.
NoLoop == [frep |-> 0]

\* A place in the program with its repetition and its index in the body.
Entry(p, rep, idx) == [op |-> p, rep |-> rep, idx |-> idx]
Regular(p) == Entry(p, 0, -1)

Cfg(l) == program[l.frep]

\* The next instruction of the body is consumed and replicated: in an inner loop
\* at once, in an outer loop the whole body after its last instruction.
Fill(l, p) ==
    LET n     == Cfg(l).max_inst + 1
        rpt   == Cfg(l).max_rpt
        outer == Append(l.outer_buf, p)
        more  == IF ~Cfg(l).is_outer THEN [r \in 1 .. rpt + 1 |-> Entry(p, r - 1, l.inst_iter)]
                 ELSE <<Entry(p, 0, l.inst_iter)>> \o
                      (IF l.inst_iter < Cfg(l).max_inst THEN <<>>
                       ELSE [j \in 1 .. n * rpt |-> Entry(outer[((j - 1) % n) + 1], ((j - 1) \div n) + 1, (j - 1) % n)])
    IN  [l EXCEPT !.inst_iter = @ + 1, !.fpss_buf = @ \o more, !.outer_buf = outer]

\* Mutant: the last repetition ends the loop with its first instruction.
EndsWithRepetition(l, e) == e.rep = Cfg(l).max_rpt

\* The last instruction of the last repetition.
Ends(l, e) == e.rep = Cfg(l).max_rpt /\ e.idx = Cfg(l).max_inst

\* An entry is pulled from the loop's buffer.
Pull(l, pcs) ==
    /\ fpss_pcs' = pcs
    /\ traced' = Append(traced, Head(l.fpss_buf))
    /\ loop' = IF Ends(l, Head(l.fpss_buf)) THEN NoLoop ELSE [l EXCEPT !.fpss_buf = Tail(@)]
    /\ UNCHANGED crashed

\* The FPU has been issued an instruction while pcs are offloaded.
emul_seq(pcs) ==
    LET begins == loop = NoLoop /\ pcs # <<>> /\ program[Head(pcs)].kind = "frep"
        rest   == IF begins THEN Tail(pcs) ELSE pcs
        l      == IF begins
                  THEN [frep |-> Head(pcs), inst_iter |-> 0, fpss_buf |-> <<>>, outer_buf |-> <<>>]
                  ELSE loop
        fills  == l # NoLoop /\ l.inst_iter <= Cfg(l).max_inst
    IN  \/ /\ l # NoLoop /\ ~fills
           /\ Pull(l, rest)
        \/ /\ fills /\ rest # <<>>
           /\ Pull(Fill(l, Head(rest)), Tail(rest))
        \/ /\ l = NoLoop /\ rest # <<>>
           /\ fpss_pcs' = Tail(rest)
           /\ traced' = Append(traced, Regular(Head(rest)))
           /\ UNCHANGED <<loop, crashed>>
        \/ /\ rest = <<>> /\ (fills \/ l = NoLoop)
           /\ crashed' = TRUE
           /\ UNCHANGED <<fpss_pcs, loop, traced>>

\* The lines of a cycle: an offload of the core, then an issue of the FPU.
annotate_insn ==
    LET pcs == IF pc' # pc THEN Append(fpss_pcs, pc) ELSE fpss_pcs
    IN  IF issued' = issued
        THEN fpss_pcs' = pcs /\ UNCHANGED <<loop, traced, crashed>>
        ELSE emul_seq(pcs)

TraceInit == Init /\ fpss_pcs = <<>> /\ loop = NoLoop /\ traced = <<>> /\ crashed = FALSE

\* After a crash the simulation has long been going on.
Trace ==
    \/ ~crashed /\ annotate_insn
    \/ crashed /\ UNCHANGED <<fpss_pcs, loop, traced, crashed>>

TraceNext == Next /\ Trace

TraceSpec == TraceInit /\ [][TraceNext]_traceVars /\ WF_traceVars(Prompt /\ Trace)

-----------------------------------------------------------------------------
\* The script gets to the end of every trace: a pop always finds something ("We
\* are only called on FPSS issues, not on FSEQ issues -> we must consume FReps in
\* same call").
NoCrash == ~crashed

\* The trace shows what the FPU was issued: the same instructions, each with the
\* number of its earlier repetitions ("Iterate loop body instruction consumed",
\* "Pull our instruction from the loop buffer"), and in the end nothing is left
\* over ("Check for any loose ends and warn before exiting").  Only an inner loop
\* that repeats several instructions can stop the script.  It does not know of
\* stream loops.
TraceMatches ==
    \/ \E i \in DOMAIN program : program[i].kind = "frep" /\ program[i].is_streamctl
    \/ /\ crashed
       /\ \E i \in 1 .. pc - 1 : /\ program[i].kind = "frep" /\ ~program[i].is_outer
                                 /\ program[i].max_inst > 0 /\ program[i].max_rpt > 0
    \/ /\ ~crashed
       /\ Len(traced) = Len(issued)
       /\ \A j \in 1 .. Len(traced) :
              /\ traced[j].op = issued[j].op
              /\ traced[j].rep = Cardinality({i \in 1 .. j - 1 : issued[i].op = issued[j].op})
       /\ issued = Issues(program) /\ ~Programmed => fpss_pcs = <<>> /\ loop = NoLoop
=============================================================================
