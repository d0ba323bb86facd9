--------------------------- MODULE MCTcdmAtomics ---------------------------
(***************************************************************************)
(* An instance of TcdmAtomics: one bank of two rows, words of one bit.     *)
(***************************************************************************)
EXTENDS TcdmAtomics

\* Two cores with their ids; the bus has no user field (reqrsp_to_tcdm.sv sets
\* it to 0), and that of the DMA engine is not looked at.
Ids == [p \in {"core0", "core1", "bus", "dma"} |-> IF p = "core1" THEN 1 ELSE 0]

\* Atomics on the word beside the mutex.
Neighbours ==
    {[port |-> "bus", op |-> op, row |-> Lock, strb |-> {1}, data |-> [h \in Halves |-> 1]] :
        op \in FetchOps}

OwnRequests ==
    {Request(h, op, Lock, v) : h \in Harts, op \in {"Load", "AMOSwap"}, v \in Words}
    \cup {Request(h, op, Counter, v) : h \in Loopers, op \in {"AMOLR", "AMOSC"}, v \in Words}

AllRequests == OwnRequests \cup Neighbours

\* The DMA engine reads both rows and writes the word beside the mutex.
DmaTransfers ==
    {[port |-> "dma", op |-> "Load", row |-> r, strb |-> {}, data |-> [h \in Halves |-> 0]] : r \in Rows}
    \cup {[port |-> "dma", op |-> "Store", row |-> Lock, strb |-> {1}, data |-> [h \in Halves |-> v]] :
            v \in Words}
=============================================================================
