---------------------------- MODULE TcdmAtomics ----------------------------
(***************************************************************************)
(* The programs that rest on the shim of a bank: harts take and release a  *)
(* mutex with the functions of sync.h, and cores increment a counter with  *)
(* LR/SC, access by access, while other atomics and the DMA engine use the *)
(* same rows.                                                              *)
(***************************************************************************)
EXTENDS AmoShim

CONSTANTS
    Lock,       \* the row of the mutex, its low word
    Counter,    \* the row of the counter, its low word
    Harts,      \* ports that use the mutex
    Loopers,    \* ports that increment the counter
    Others      \* the other requests of the narrow side

VARIABLES
    pc,         \* where a hart is
    old,        \* the value of the counter that a hart has read
    increments  \* history: successful increments, modulo the range of a word

clients == <<pc, old, increments>>
allVars == <<vars, clients>>

Request(h, op, row, v) ==
    [port |-> h, op |-> op, row |-> row, strb |-> IF op = "Load" THEN {} ELSE {0},
     data |-> [i \in Halves |-> v]]

\* The other programs and the DMA engine write neither the mutex nor the counter,
\* and nobody else sends load-reserveds from the ports of those that increment it.
ASSUME ProgramsAssumption ==
    /\ Harts \cup Loopers \subseteq Ports
    /\ {Lock, Counter} \subseteq Rows /\ Lock # Counter /\ NoRow \notin Rows
    /\ Others \subseteq Requests
    /\ \A h \in Harts, op \in {"Load", "AMOSwap"}, v \in Words : Request(h, op, Lock, v) \in Requests
    /\ \A h \in Loopers, op \in {"AMOLR", "AMOSC"}, v \in Words : Request(h, op, Counter, v) \in Requests
    /\ \A q \in Others \cup Transfers :
          (q.row \in {Lock, Counter} /\ 0 \in q.strb) => q.op \in {"Load", "AMOLR"}
    /\ \A q \in Others : q.op = "AMOLR" => q.port \notin Loopers

Goto(h, l) == pc' = [pc EXCEPT ![h] = l]

\* The answer of the bank, on which the hart branches.
Answer == mem_rdata'[0]

-----------------------------------------------------------------------------
(* snrt_mutex_acquire, snrt_mutex_ttas_acquire and snrt_mutex_release. *)

\* One of the two functions is called, or the loop on the counter is entered.
Call(h) ==
    /\ pc[h] = "out"
    /\ \/ h \in Harts /\ Goto(h, "test")
       \/ h \in Harts /\ Goto(h, "swap")
       \/ h \in Loopers /\ Goto(h, "lr")
    /\ UNCHANGED <<vars, old, increments>>

\* Mutant: who finds the mutex free has it.
TestOnly(h) ==
    /\ pc[h] = "test"
    /\ Accept(Request(h, "Load", Lock, 0))
    /\ Goto(h, IF Answer # 0 THEN "test" ELSE "in")
    /\ UNCHANGED <<old, increments>>

\* lw t0, 0(%0); bnez t0, 1b
Test(h) ==
    /\ pc[h] = "test"
    /\ Accept(Request(h, "Load", Lock, 0))
    /\ Goto(h, IF Answer # 0 THEN "test" ELSE "swap")
    /\ UNCHANGED <<old, increments>>

\* amoswap.w.aq t0,t0,(%0); bnez t0,1b: in a retry, t0 is the 1 it has read.
Swap(h) ==
    /\ pc[h] = "swap"
    /\ Accept(Request(h, "AMOSwap", Lock, 1))
    /\ Goto(h, IF Answer # 0 THEN "swap" ELSE "in")
    /\ UNCHANGED <<old, increments>>

\* Mutant: the register that is swapped in holds a 1.
ReleaseOne(h) ==
    /\ pc[h] = "in"
    /\ Accept(Request(h, "AMOSwap", Lock, 1))
    /\ Goto(h, "out")
    /\ UNCHANGED <<old, increments>>

\* amoswap.w.rl x0,x0,(%0)
Release(h) ==
    /\ pc[h] = "in"
    /\ Accept(Request(h, "AMOSwap", Lock, 0))
    /\ Goto(h, "out")
    /\ UNCHANGED <<old, increments>>

-----------------------------------------------------------------------------
(* The pair of LR and SC, repeated until the store succeeds. *)

LR(h) ==
    /\ pc[h] = "lr"
    /\ Accept(Request(h, "AMOLR", Counter, 0))
    /\ old' = [old EXCEPT ![h] = Answer]
    /\ Goto(h, "sc")
    /\ UNCHANGED increments

\* The hart branches on the answer, which is there a cycle later.
SC(h) ==
    /\ pc[h] = "sc"
    /\ Accept(Request(h, "AMOSC", Counter, (old[h] + 1) % (2 * Sign)))
    /\ old' = [old EXCEPT ![h] = 0]
    /\ IF sc_successful_q' THEN Goto(h, "out") /\ increments' = (increments + 1) % (2 * Sign)
                           ELSE Goto(h, "lr") /\ UNCHANGED increments

-----------------------------------------------------------------------------
Step(h) == Test(h) \/ Swap(h) \/ Release(h) \/ LR(h) \/ SC(h)

\* The shim goes on by itself; other programs and the DMA engine do what they want.
Shim == (DoAMO \/ WriteBackAMO) /\ UNCHANGED clients
Elsewhere == ((\E q \in Others : Accept(q)) \/ (\E q \in Transfers : Dma(q)) \/ NoValid) /\ UNCHANGED clients

ClientInit ==
    /\ Init
    /\ pc = [h \in Harts \cup Loopers |-> "out"]
    /\ old = [h \in Harts \cup Loopers |-> 0]
    /\ increments = 0

ClientNext == Shim \/ Elsewhere \/ \E h \in Harts \cup Loopers : Call(h) \/ Step(h)

\* The DMA engine leaves the bank to the shim again and again.  The shim is idle
\* only now and then, but the interconnect serves its inputs in turn
\* (rr_arb_tree of stream_xbar), so a waiting hart is not passed over forever.
ClientSpec ==
    /\ ClientInit /\ [][ClientNext]_allVars
    /\ WF_allVars(Shim)
    /\ \A h \in Harts \cup Loopers : SF_allVars(Step(h))

-----------------------------------------------------------------------------
\* Never are two harts between acquire and release, whichever of the two
\* functions each of them has called.
MutualExclusion == \A g, h \in Harts : pc[g] = "in" /\ pc[h] = "in" => g = h

\* No increment is lost: the store of a hart succeeds only if the counter still
\* has the value the hart has read ("An SC may succeed only if no store from
\* another hart (or other device) to the reservation set can be observed to have
\* occurred between the LR and the SC").
NoLostIncrement == mem[Counter][0] = increments

\* While somebody wants the mutex, it is always acquired again.  (That each hart
\* gets it is not promised: the functions keep no order.)
SomebodyAcquires ==
    (\E h \in Harts : pc[h] \in {"test", "swap"}) ~> (\E h \in Harts : pc[h] = "in")

\* Harts that compete for the reservation do not hold each other up: one of them
\* succeeds ("We prevent a live-lock by don't throwing away the reservation of a
\* hart").
NoLivelock == (\E h \in Loopers : pc[h] \in {"lr", "sc"}) ~> sc_successful_q
=============================================================================
