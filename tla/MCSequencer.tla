---------------------------- MODULE MCSequencer ----------------------------
(***************************************************************************)
(* An instance of SeqTrace: all programs of up to MaxBlocks blocks, with   *)
(* loop bodies up to the depth of the ring.                                *)
(***************************************************************************)
EXTENDS SeqTrace

CONSTANT MaxBlocks

Plain == [kind |-> "plain"]
Direct == [kind |-> "direct"]
Frep(outer, n, rpt, stagger) ==
    [kind |-> "frep", is_streamctl |-> FALSE, is_outer |-> outer, max_inst |-> n - 1, max_rpt |-> rpt,
     stagger_max |-> stagger, stagger_mask |-> stagger > 0]

\* A stream loop has a body of one instruction, which takes one token.
FrepStream(t) ==
    [kind |-> "frep", is_streamctl |-> TRUE, is_outer |-> TRUE, max_inst |-> 0, max_rpt |-> 0,
     stagger_max |-> 0, stagger_mask |-> FALSE, tokens |-> t]

Repetitions == {[rpt |-> 0, stagger |-> 0], [rpt |-> 2, stagger |-> 0], [rpt |-> 2, stagger |-> 1]}

Freps == {Frep(outer, n, r.rpt, r.stagger) : outer \in BOOLEAN, n \in 1 .. Depth, r \in Repetitions}

Blocks ==
    {<<Plain>>, <<Direct>>} \cup {<<l>> \o [k \in 1 .. l.max_inst + 1 |-> Plain] : l \in Freps}
    \cup {<<FrepStream(t), Plain>> : t \in {0, 2}}

ShortPrograms ==
    LET P[n \in 0 .. MaxBlocks] ==
            IF n = 0 THEN {<<>>} ELSE P[n - 1] \cup {p \o b : p \in P[n - 1], b \in Blocks}
    IN  P[MaxBlocks]
=============================================================================
