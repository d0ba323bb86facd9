----------------------------- MODULE Sequencer -----------------------------
(***************************************************************************)
(* The FPU sequencer (snitch_sequencer.sv): instructions pass through a    *)
(* ring, from which a preceding FREP.I or FREP.O has them issued           *)
(* repeatedly; instructions that synchronise with the integer pipeline go  *)
(* around it.  One step is one clock cycle.                                *)
(***************************************************************************)
EXTENDS Integers, Sequences

CONSTANTS
    Programs,   \* the sequences of instructions the core may offload
    Depth,      \* of the ring, a power of two from 2 on
    CfgDepth    \* of seq_cfg_buffer

VARIABLES
    program, pc,        \* the core: what it offloads, and what is next
    inp_qvalid_i,       \* it has put that on the input
    stream, streamctl_valid_i,  \* the SSR stream controller: its tokens, and whether one is there
    mem, rd_pointer, wr_pointer,
    cfgs,               \* seq_cfg_buffer
    inst_cnt, rpt_cnt, stagger_cnt,
    issued              \* history: what has been issued, by place in the program

core == <<program, pc, inp_qvalid_i>>
counters == <<inst_cnt, rpt_cnt, stagger_cnt>>
vars == <<core, stream, streamctl_valid_i, mem, rd_pointer, wr_pointer, cfgs, counters, issued>>

\* An instruction of a program has a kind: "frep", "direct" (it synchronises with
\* the integer pipeline) or "plain".  An frep has the fields of seq_cfg_t, the
\* stagger mask as a BOOLEAN, and tokens: how often its stream lets it go on.

\* The frep at place i: its body of plain instructions is behind it.  A stream loop
\* has a body of one instruction, whose operands are not staggered.
FrepFits(p, i) ==
    /\ {p[i].is_streamctl, p[i].is_outer, p[i].stagger_mask} \subseteq BOOLEAN
    /\ {p[i].max_inst, p[i].max_rpt, p[i].stagger_max} \subseteq Nat
    /\ i + p[i].max_inst + 1 <= Len(p)
    /\ \A j \in i + 1 .. i + p[i].max_inst + 1 : p[j].kind = "plain"
    /\ p[i].is_streamctl =>
           p[i].is_outer /\ p[i].max_inst = 0 /\ ~p[i].stagger_mask /\ p[i].tokens \in Nat

ProgramFits(p) ==
    /\ Len(p) \in Nat /\ DOMAIN p = 1 .. Len(p)
    /\ \A i \in 1 .. Len(p) : /\ p[i].kind \in {"plain", "direct", "frep"}
                              /\ p[i].kind = "frep" => FrepFits(p, i)

ASSUME SequencerAssumption ==
    Depth \in Nat \ {0} /\ CfgDepth \in Nat /\ \A p \in Programs : ProgramFits(p)

Programmed == pc <= Len(program)
Instr == program[pc]

-----------------------------------------------------------------------------
(* The stream controller hands out one token per issue, then the end. *)

Tokens(p) ==
    LET T[i \in 0 .. Len(p)] ==
            IF i = 0 THEN <<>>
            ELSE IF p[i].kind = "frep" /\ p[i].is_streamctl
                 THEN T[i - 1] \o [k \in 1 .. p[i].tokens + 1 |-> k = p[i].tokens + 1]
                 ELSE T[i - 1]
    IN  T[Len(p)]

streamctl_done_i == streamctl_valid_i /\ Head(stream)

-----------------------------------------------------------------------------
(* The ring.  Its pointers have one bit more than its addresses.           *)

Move(pointer, n) == (pointer + n) % (2 * Depth)

rb_rd_pointer == Move(rd_pointer, inst_cnt)
rb_rd_data == mem[rb_rd_pointer % Depth]
rb_contains_instructions == rd_pointer # wr_pointer
rb_empty == rb_rd_pointer = wr_pointer

\* Mutant: the room behind the instruction being issued is free.
rb_full_NoBase == wr_pointer = Move(rb_rd_pointer, Depth)

rb_full == wr_pointer = Move(rd_pointer, Depth)

NoCfg == [is_streamctl |-> FALSE, is_outer |-> FALSE, max_inst |-> 0, max_rpt |-> 0,
          stagger_max |-> 0, stagger_mask |-> FALSE, base_pointer |-> 0]

\* The oldest configuration belongs to the instruction at its base pointer.
seq_cfg_buffer_valid == cfgs # <<>> /\ Head(cfgs).base_pointer = rd_pointer

\* Without one, an instruction is a loop of one instruction and one repetition.
\* (The other fields are those of the next configuration; stagger_cnt is 0.)
curr_cfg ==
    IF seq_cfg_buffer_valid THEN Head(cfgs)
    ELSE [(IF cfgs # <<>> THEN Head(cfgs) ELSE NoCfg) EXCEPT !.max_inst = 0, !.max_rpt = 0]

Streamed == seq_cfg_buffer_valid /\ curr_cfg.is_outer /\ curr_cfg.is_streamctl

seq_out_valid == ~rb_empty /\ (Streamed => streamctl_valid_i /\ ~streamctl_done_i)
seq_done == ~rb_empty /\ Streamed /\ streamctl_done_i
inst_last == inst_cnt = curr_cfg.max_inst
rpt_last == rpt_cnt = curr_cfg.max_rpt
seq_last == inst_last /\ rpt_last /\ ~(seq_cfg_buffer_valid /\ curr_cfg.is_streamctl)

oup_qvalid_o ==
    IF rb_contains_instructions THEN seq_out_valid ELSE inp_qvalid_i /\ Instr.kind = "direct"

\* What is at the output: a place in the program, and what is added to its operands.
oup ==
    IF rb_contains_instructions
    THEN [op |-> rb_rd_data, stagger |-> IF curr_cfg.stagger_mask THEN stagger_cnt ELSE 0]
    ELSE [op |-> pc, stagger |-> 0]

-----------------------------------------------------------------------------
(* A clock cycle: the input and the output side go on at the same time. *)

\* seq_next, if the FPU is ready
SeqNext(oup_qready_i) == seq_out_valid /\ rb_contains_instructions /\ oup_qready_i

\* The core takes the next instruction to the input when it likes.
Accepted ==
    /\ pc' = pc + 1
    /\ inp_qvalid_i' \in (IF pc < Len(program) THEN BOOLEAN ELSE {FALSE})

NotAccepted ==
    /\ pc' = pc
    /\ inp_qvalid_i' \in (IF inp_qvalid_i THEN {TRUE} ELSE IF Programmed THEN BOOLEAN ELSE {FALSE})

Popped(cfg_pop) == IF cfg_pop THEN Tail(cfgs) ELSE cfgs

\* An instruction goes into the ring.
PushInstruction(cfg_pop) ==
    /\ inp_qvalid_i /\ Instr.kind = "plain" /\ ~rb_full
    /\ mem' = [mem EXCEPT ![wr_pointer % Depth] = pc]
    /\ wr_pointer' = Move(wr_pointer, 1)
    /\ cfgs' = Popped(cfg_pop)
    /\ Accepted

\* An frep goes into the configuration buffer.
PushConfiguration(cfg_pop) ==
    /\ inp_qvalid_i /\ Instr.kind = "frep" /\ Len(cfgs) < CfgDepth
    /\ cfgs' = Append(Popped(cfg_pop),
                 [f \in DOMAIN NoCfg |-> IF f = "base_pointer" THEN wr_pointer ELSE Instr[f]])
    /\ UNCHANGED <<mem, wr_pointer>>
    /\ Accepted

\* A direct instruction goes to the output, past an empty ring.
PassDirect(cfg_pop, oup_qready_i) ==
    /\ inp_qvalid_i /\ Instr.kind = "direct" /\ ~rb_contains_instructions /\ oup_qready_i
    /\ cfgs' = Popped(cfg_pop)
    /\ UNCHANGED <<mem, wr_pointer>>
    /\ Accepted

InputWaits(cfg_pop, oup_qready_i) ==
    /\ inp_qvalid_i =>
           \/ Instr.kind = "plain" /\ rb_full
           \/ Instr.kind = "frep" /\ Len(cfgs) = CfgDepth
           \/ Instr.kind = "direct" /\ (rb_contains_instructions \/ ~oup_qready_i)
    /\ cfgs' = Popped(cfg_pop)
    /\ UNCHANGED <<mem, wr_pointer>>
    /\ NotAccepted

\* Mutant: the stagger count is not reset with the other counters.
ResetNoStagger == inst_cnt' = 0 /\ rpt_cnt' = 0 /\ UNCHANGED stagger_cnt

Reset == inst_cnt' = 0 /\ rpt_cnt' = 0 /\ stagger_cnt' = 0

NextStagger == stagger_cnt' = IF stagger_cnt = curr_cfg.stagger_max THEN 0 ELSE stagger_cnt + 1

\* FREP.O: the next instruction, after the last one the next repetition.
CountOuter ==
    IF inst_last
    THEN IF rpt_last THEN Reset ELSE inst_cnt' = 0 /\ rpt_cnt' = rpt_cnt + 1 /\ NextStagger
    ELSE inst_cnt' = inst_cnt + 1 /\ UNCHANGED <<rpt_cnt, stagger_cnt>>

\* FREP.I: the next repetition, after the last one the next instruction.
CountInner ==
    IF rpt_last
    THEN IF inst_last THEN Reset ELSE rpt_cnt' = 0 /\ inst_cnt' = inst_cnt + 1 /\ NextStagger
    ELSE rpt_cnt' = rpt_cnt + 1 /\ UNCHANGED inst_cnt /\ NextStagger

Count(seq_next) ==
    IF seq_done THEN Reset
    ELSE IF seq_next THEN IF curr_cfg.is_outer THEN CountOuter ELSE CountInner
    ELSE UNCHANGED counters

\* The tokens come when they like; one that is there stays until it is taken.
Control(streamctl_ready_o) ==
    LET left == IF streamctl_valid_i /\ streamctl_ready_o THEN Tail(stream) ELSE stream
    IN  /\ stream' = left
        /\ streamctl_valid_i' \in
               (IF left = <<>> THEN {FALSE}
                ELSE IF streamctl_valid_i /\ ~streamctl_ready_o THEN {TRUE} ELSE BOOLEAN)

Clock(oup_qready_i) ==
    LET seq_next == SeqNext(oup_qready_i)
        leave    == (seq_last /\ seq_next) \/ seq_done
        cfg_pop  == (seq_last /\ seq_next /\ seq_cfg_buffer_valid) \/ seq_done
    IN  /\ \/ PushInstruction(cfg_pop)
           \/ PushConfiguration(cfg_pop)
           \/ PassDirect(cfg_pop, oup_qready_i)
           \/ InputWaits(cfg_pop, oup_qready_i)
        /\ rd_pointer' = IF leave THEN Move(rd_pointer, curr_cfg.max_inst + 1) ELSE rd_pointer
        /\ Count(seq_next)
        /\ Control(Streamed /\ (seq_next \/ seq_done))
        /\ issued' = IF oup_qvalid_o /\ oup_qready_i THEN Append(issued, oup) ELSE issued
        /\ UNCHANGED program

Init ==
    /\ program \in Programs /\ pc = 1
    /\ inp_qvalid_i = FALSE
    /\ stream = Tokens(program) /\ streamctl_valid_i = FALSE
    /\ mem = [a \in 0 .. Depth - 1 |-> 0] /\ rd_pointer = 0 /\ wr_pointer = 0
    /\ cfgs = <<>>
    /\ inst_cnt = 0 /\ rpt_cnt = 0 /\ stagger_cnt = 0
    /\ issued = <<>>

Next == \E oup_qready_i \in BOOLEAN : Clock(oup_qready_i)

\* The core offers what it has, the stream controller has its tokens, and the
\* FPU is ready.
Prompt ==
    /\ Clock(TRUE)
    /\ Programmed => inp_qvalid_i \/ inp_qvalid_i'
    /\ stream # <<>> => streamctl_valid_i \/ streamctl_valid_i'

Spec == Init /\ [][Next]_vars /\ WF_vars(Prompt)

-----------------------------------------------------------------------------
(* What is promised. *)

\* The issues of the frep at place i, with its body behind it.
Loop(p, i) ==
    LET n    == p[i].max_inst + 1
        rpts == IF p[i].is_streamctl THEN p[i].tokens ELSE p[i].max_rpt + 1
        Issue(k, s) == [op |-> i + k, stagger |-> IF p[i].stagger_mask THEN s % (p[i].stagger_max + 1) ELSE 0]
    IN  [j \in 1 .. n * rpts |->
            IF p[i].is_outer THEN Issue(((j - 1) % n) + 1, (j - 1) \div n)
                             ELSE Issue(((j - 1) \div rpts) + 1, j - 1)]

\* All issues of a program.
Issues(p) ==
    LET I[i \in 1 .. Len(p) + 1] ==
            IF i > Len(p) THEN <<>>
            ELSE IF p[i].kind = "frep" THEN Loop(p, i) \o I[i + p[i].max_inst + 2]
            ELSE <<[op |-> i, stagger |-> 0]>> \o I[i + 1]
    IN  I[1]

\* "FREP.I and FREP.O repeat the max_inst + 1 instructions following the FREP
\* instruction for max_rpt + 1 times": what the FPU gets is a prefix of the
\* program with its loops unrolled, whatever is in the ring behind them and
\* whenever the core, the FPU and the stream controller hold things up.
IssuesProgram ==
    LET all == Issues(program)
    IN  Len(issued) <= Len(all) /\ issued = SubSeq(all, 1, Len(issued))

\* No loop ends too early or holds up the ring for good: everything is issued,
\* and nothing is left in the ring and the configuration buffer.
EverythingIssued ==
    <>[](/\ issued = Issues(program)
         /\ ~rb_contains_instructions /\ cfgs = <<>> /\ stream = <<>>)
=============================================================================
