------------------------------- MODULE AmoShim -------------------------------
(***************************************************************************)
(* The shim in front of a bank of the TCDM (snitch_amo_shim.sv), which     *)
(* turns an atomic into a read, a cycle in the ALU and a write-back, while *)
(* the DMA engine goes past it.  One step is one clock cycle.              *)
(***************************************************************************)
EXTENDS Integers

CONSTANTS
    Requests,   \* the requests of the narrow side: cores and bus
    Transfers,  \* the accesses of the DMA engine, loads and stores
    Ports, Rows, Sign,
    CoreId,     \* core_id_i of a port
    CorePorts   \* the ports with is_core_i

VARIABLES
    mem,            \* the SRAM
    mem_rdata,      \* its output register
    state,          \* state_q
    amo,            \* amo_op_q, addr_q, idx_q and operand_b_q, while they matter
    amo_result,     \* amo_result_q, while it matters
    reservation,    \* reservation_q, or none
    sc_q, sc_successful_q,
    taken,          \* the request accepted in the last cycle
    linked,         \* history: the row a port has reserved and nobody has written
    conflict        \* history: amo_conflict_o has been high

vars == <<mem, mem_rdata, state, amo, amo_result, reservation, sc_q, sc_successful_q,
          taken, linked, conflict>>

memory == <<mem, mem_rdata>>
unit == <<state, amo, amo_result>>

NoRow == "none"
NoRequest == [op |-> "none"]
NoAmo == [op |-> "none"]
NoReservation == [valid |-> FALSE]

Halves == {0, 1}
Words == 0 .. 2 * Sign - 1
FetchOps == {"AMOSwap", "AMOAdd", "AMOMax", "AMOMin", "AMOMaxu", "AMOMinu"}

ASSUME SignAssumption == Sign \in Nat \ {0}

\* What the assertions of the shim say of its inputs.
ASSUME RequestsAssumption ==
    \A q \in Requests \cup Transfers :
        /\ q.port \in Ports /\ q.row \in Rows
        /\ q.strb \subseteq Halves /\ q.data \in [Halves -> Words]
        /\ q.op \in FetchOps \cup {"Load", "Store", "AMOLR", "AMOSC"}
        /\ q \in Transfers => q.op \in {"Load", "Store"}
        /\ q.op \in FetchOps \cup {"AMOSC"} => q.strb \in {{0}, {1}}

-----------------------------------------------------------------------------
(* The ALU, with an adder that is one bit wider than a word. *)

SignExtend(H, x) == IF x < H THEN x ELSE x + 2 * H

Negate(H, x) == (4 * H - x) % (4 * H)

\* adder_sum[32]
SignBit(H, x) == x % (4 * H) >= 2 * H

Alu(H, op, a, b) ==
    LET diff  == SignExtend(H, a) + Negate(H, SignExtend(H, b))
        udiff == a + Negate(H, b)
    IN  CASE op = "AMOSwap" -> b
          [] op = "AMOAdd"  -> (SignExtend(H, a) + SignExtend(H, b)) % (2 * H)
          [] op = "AMOMax"  -> IF SignBit(H, diff) THEN b ELSE a
          [] op = "AMOMin"  -> IF SignBit(H, diff) THEN a ELSE b
          [] op = "AMOMaxu" -> IF SignBit(H, udiff) THEN b ELSE a
          [] op = "AMOMinu" -> IF SignBit(H, udiff) THEN a ELSE b

-----------------------------------------------------------------------------
Merge(row, strb, data) == [h \in Halves |-> IF h \in strb THEN data[h] ELSE row[h]]

Written(row, strb, data) == [mem EXCEPT ![row] = Merge(@, strb, data)]

\* The row is read, or written: the output register only follows reads.
Access(row, write, strb, data) ==
    IF write THEN mem' = Written(row, strb, data) /\ UNCHANGED mem_rdata
             ELSE mem_rdata' = mem[row] /\ UNCHANGED mem

\* Somebody else than the holder writes the row that is reserved.
Intrudes(q) ==
    /\ reservation.valid
    /\ q.port \notin CorePorts \/ CoreId[q.port] # reservation.core
    /\ q.row = reservation.addr
    /\ q.op \in FetchOps \cup {"Store"}

\* Mutant: any store-conditional claims the reservation.
ClaimsAny(q) == reservation.valid /\ q.op = "AMOSC"

\* The store-conditional of the hart whose core id holds the reservation.
Claims(q) ==
    /\ reservation.valid
    /\ q.op = "AMOSC"
    /\ CoreId[q.port] = reservation.core

ScSucceeds(q) == Claims(q) /\ reservation.addr = q.row

\* Mutant: the last AMOLR takes the reservation from whoever holds it.
PlacesLast(q) == q.op = "AMOLR"

\* A reservation is placed where there is none, or in place of one's own.
Places(q) ==
    /\ q.op = "AMOLR"
    /\ ~reservation.valid \/ reservation.core = CoreId[q.port]

Reserve(q) ==
    reservation' = IF Intrudes(q) \/ Claims(q) THEN NoReservation
                   ELSE IF Places(q) THEN [valid |-> TRUE, addr |-> q.row, core |-> CoreId[q.port]]
                   ELSE reservation

\* Who has read with AMOLR what nobody else has written since.
Link(q) ==
    LET writes == q.op \in FetchOps \cup {"Store"} \/ ScSucceeds(q)
    IN  linked' = [p \in Ports |->
            IF p = q.port
            THEN IF q.op = "AMOLR" THEN q.row ELSE IF q.op = "AMOSC" THEN NoRow ELSE linked[p]
            ELSE IF writes /\ linked[p] = q.row THEN NoRow ELSE linked[p]]

Take(q) ==
    /\ taken' = q
    /\ sc_q' = (q.op = "AMOSC")
    /\ sc_successful_q' = ScSucceeds(q)
    /\ Reserve(q)
    /\ Link(q)

TakeNothing ==
    /\ taken' = NoRequest /\ sc_q' = FALSE /\ sc_successful_q' = FALSE
    /\ UNCHANGED <<reservation, linked>>

-----------------------------------------------------------------------------
(* The cycles without the DMA engine. *)

LoadAmo(q) ==
    amo' = [op |-> q.op, addr |-> q.row, idx |-> IF 1 \in q.strb THEN 1 ELSE 0,
            operand_b |-> IF 0 \in q.strb THEN q.data[0] ELSE q.data[1]]

\* Idle: a request goes through to the SRAM; an atomic reads its operand.
Accept(q) ==
    /\ state = "Idle"
    /\ Access(q.row, q.op = "Store" \/ ScSucceeds(q), q.strb, q.data)
    /\ Take(q)
    /\ IF q.op \in FetchOps
       THEN state' = "DoAMO" /\ LoadAmo(q) /\ UNCHANGED amo_result
       ELSE UNCHANGED unit
    /\ UNCHANGED conflict

Compute ==
    /\ state = "DoAMO"
    /\ state' = "WriteBackAMO"
    /\ amo_result' = Alu(Sign, amo.op, mem_rdata[amo.idx], amo.operand_b)
    /\ UNCHANGED amo

\* The narrow side is not ready and the SRAM is not accessed.
DoAMO ==
    /\ Compute
    /\ TakeNothing
    /\ UNCHANGED <<mem, mem_rdata, conflict>>

WriteBackAMO ==
    /\ state = "WriteBackAMO"
    /\ Access(amo.addr, TRUE, {amo.idx}, [h \in Halves |-> amo_result])
    /\ state' = "Idle" /\ amo' = NoAmo /\ amo_result' = 0
    /\ TakeNothing
    /\ UNCHANGED conflict

NoValid ==
    /\ state = "Idle"
    /\ TakeNothing
    /\ UNCHANGED <<memory, unit, conflict>>

-----------------------------------------------------------------------------
\* Mutant: a write-back that waits is not compared.
AmoConflictInAlu(q) == state = "DoAMO" /\ amo.addr = q.row

\* addr_q is that of the atomic while the unit is not idle.
AmoConflict(q) == state # "Idle" /\ amo.addr = q.row

\* The DMA engine has priority: a write-back waits, the ALU does not.
Dma(q) ==
    /\ Access(q.row, q.op = "Store", q.strb, q.data)
    /\ Take(q)
    /\ IF state = "DoAMO" THEN Compute ELSE UNCHANGED unit
    /\ conflict' = (conflict \/ AmoConflict(q))

Init ==
    /\ mem = [r \in Rows |-> [h \in Halves |-> 0]]
    /\ mem_rdata = [h \in Halves |-> 0]
    /\ state = "Idle" /\ amo = NoAmo /\ amo_result = 0
    /\ reservation = NoReservation
    /\ sc_q = FALSE /\ sc_successful_q = FALSE
    /\ taken = NoRequest
    /\ linked = [p \in Ports |-> NoRow]
    /\ conflict = FALSE

Next ==
    \/ \E q \in Requests : Accept(q)
    \/ \E q \in Transfers : Dma(q)
    \/ DoAMO
    \/ WriteBackAMO
    \/ NoValid

Spec == Init /\ [][Next]_vars

-----------------------------------------------------------------------------
rdata_o == IF sc_q THEN [h \in Halves |-> IF sc_successful_q THEN 0 ELSE 1] ELSE mem_rdata

\* What the rows will hold once the atomic in the unit is through.
Pending ==
    IF state = "Idle" THEN mem
    ELSE Written(amo.addr, {amo.idx}, [h \in Halves |->
             IF state = "WriteBackAMO" THEN amo_result
             ELSE Alu(Sign, amo.op, mem_rdata[amo.idx], amo.operand_b)])

Event ==
    IF taken = NoRequest THEN NoRequest
    ELSE [request |-> taken,
          answer |-> IF taken.op = "Store" THEN [h \in Halves |-> 0] ELSE rdata_o]

Abs == INSTANCE AtomicMemory WITH
    word <- Pending, link <- linked, event <- Event, fault <- conflict

\* Until amo_conflict_o reports that a DMA transfer met an atomic, every request
\* takes effect in one step: nobody sees memory between the read and the
\* write-back of an atomic, nothing is written outside its half of the row,
\* and a store-conditional succeeds only if its load-reserved still stands
\* ("only if no store from another hart (or other device) to the reservation
\* set can be observed to have occurred between the LR and the SC").
ImplementsAtomicMemory == Abs!Spec
=============================================================================
