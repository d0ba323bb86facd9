--------------------------- MODULE TcdmAtomicsProofs ---------------------------
(***************************************************************************)
(* Proofs about the shim of a TCDM bank and the programs that rest on it:  *)
(* the comparison in the ALU; that every request is one step, for any      *)
(* rows, words, requests, cores; that the mutex excludes and the counter   *)
(* loses no increment, for any harts and whatever else uses the rows.      *)
(***************************************************************************)
EXTENDS TcdmAtomics, TLAPS

-----------------------------------------------------------------------------
(* The ALU. *)

LEMMA Remainder ==
  ASSUME NEW d \in Nat \ {0}, NEW x \in 0 .. 2 * d - 1
  PROVE  x % d = IF x < d THEN x ELSE x - d
BY SMT

(***************************************************************************)
(* The sign of the 33-bit difference of the extended operands decides all  *)
(* four comparisons right, and swap and addition are those of words, for   *)
(* words of any size.                                                      *)
(***************************************************************************)
THEOREM AluIsRight ==
  ASSUME NEW H \in Nat \ {0}, NEW a \in 0 .. 2 * H - 1, NEW b \in 0 .. 2 * H - 1,
         NEW op \in FetchOps
  PROVE  Alu(H, op, a, b) = Abs!Apply(H, op, a, b)
<1> DEFINE x == SignExtend(H, a)
           y == SignExtend(H, b)
<1>1. x \in 0 .. 4 * H - 1 /\ y \in 0 .. 4 * H - 1
  BY DEF SignExtend
<1>2. \A z \in 0 .. 4 * H - 1 : Negate(H, z) = IF z = 0 THEN 0 ELSE 4 * H - z
  <2> TAKE z \in 0 .. 4 * H - 1
  <2>1. 4 * H - z \in 0 .. 2 * (4 * H) - 1 /\ 4 * H \in Nat \ {0}
    OBVIOUS
  <2> QED
    <3>1. (4 * H - z) % (4 * H) = IF 4 * H - z < 4 * H THEN 4 * H - z ELSE 4 * H - z - 4 * H
      BY <2>1, Remainder
    <3> QED
      BY <3>1 DEF Negate
<1>3. \A z \in 0 .. 8 * H - 1 : SignBit(H, z) <=> (IF z < 4 * H THEN z ELSE z - 4 * H) >= 2 * H
  <2> TAKE z \in 0 .. 8 * H - 1
  <2>1. z \in 0 .. 2 * (4 * H) - 1 /\ 4 * H \in Nat \ {0}
    OBVIOUS
  <2> QED
    BY <2>1, Remainder DEF SignBit
<1>4. SignBit(H, x + Negate(H, y)) <=> Abs!Signed(H, a) < Abs!Signed(H, b)
  BY <1>1, <1>2, <1>3 DEF SignExtend, Abs!Signed
<1>5. SignBit(H, a + Negate(H, b)) <=> a < b
  BY <1>2, <1>3
<1>6. op = "AMOAdd" => Alu(H, op, a, b) = Abs!Apply(H, op, a, b)
  <2>1. (x + y) % (2 * H) = IF a + b < 2 * H THEN a + b ELSE a + b - 2 * H
    <3>1. PICK k \in 0 .. 2 : x + y = a + b + k * (2 * H)
      <4>1. x = a \/ x = a + 2 * H
        BY DEF SignExtend
      <4>2. y = b \/ y = b + 2 * H
        BY DEF SignExtend
      <4> QED
        BY <4>1, <4>2
    <3> QED
      BY <3>1
  <2> QED
    BY <2>1 DEF Alu, Abs!Apply
<1> QED
  BY <1>4, <1>5, <1>6 DEF Alu, Abs!Apply, FetchOps, Abs!Signed

-----------------------------------------------------------------------------
(* The bank. *)

\* Exclusive accesses come from cores only, whose ids differ.
CoresReserve ==
    /\ \A q \in Requests : q.op \in {"AMOLR", "AMOSC"} => q.port \in CorePorts
    /\ \A q \in Transfers : q.port \notin CorePorts
    /\ \A c, d \in CorePorts : CoreId[c] = CoreId[d] => c = d

RequestsOK ==
    \A q \in Requests \cup Transfers :
        /\ q.port \in Ports /\ q.row \in Rows
        /\ q.strb \subseteq Halves /\ q.data \in [Halves -> Words]
        /\ q.op \in FetchOps \cup {"Load", "Store", "AMOLR", "AMOSC"}
        /\ q \in Transfers => q.op \in {"Load", "Store"}
        /\ q.op \in FetchOps \cup {"AMOSC"} => q.strb \in {{0}, {1}}

\* What the registers hold.
Registers ==
    /\ mem \in [Rows -> [Halves -> Words]] /\ mem_rdata \in [Halves -> Words]
    /\ state \in {"Idle", "DoAMO", "WriteBackAMO"}
    /\ state # "Idle" => /\ amo.op \in FetchOps /\ amo.addr \in Rows
                         /\ amo.idx \in Halves /\ amo.operand_b \in Words
    /\ amo_result \in Words
    /\ conflict \in BOOLEAN
    /\ linked \in [Ports -> Rows \cup {NoRow}]

\* The reservation is that of a core which is still linked.
Reserved ==
    reservation.valid =>
        \E p \in CorePorts \cap Ports :
            CoreId[p] = reservation.core /\ linked[p] = reservation.addr

SInv == Registers /\ Reserved

LEMMA WordFacts ==
  /\ Sign \in Nat \ {0}
  /\ Words = 0 .. 2 * Sign - 1 /\ 0 \in Words
  /\ \A op \in FetchOps, a, b \in Words :
        /\ Alu(Sign, op, a, b) = Abs!Apply(Sign, op, a, b)
        /\ Alu(Sign, op, a, b) \in Words
<1>1. Sign \in Nat \ {0} /\ Words = 0 .. 2 * Sign - 1 /\ 0 \in Words
  BY SignAssumption DEF Words
<1>2. ASSUME NEW op \in FetchOps, NEW a \in Words, NEW b \in Words
      PROVE  /\ Alu(Sign, op, a, b) = Abs!Apply(Sign, op, a, b)
             /\ Alu(Sign, op, a, b) \in Words
  <2>1. Alu(Sign, op, a, b) = Abs!Apply(Sign, op, a, b)
    BY <1>1, AluIsRight
  <2>2. Abs!Apply(Sign, op, a, b) \in Words
    BY <1>1 DEF Abs!Apply, FetchOps
  <2> QED
    BY <2>1, <2>2
<1> QED
  BY <1>1, <1>2

LEMMA MergeType ==
  ASSUME NEW row \in [Halves -> Words], NEW strb, NEW data \in [Halves -> Words]
  PROVE  Merge(row, strb, data) \in [Halves -> Words]
BY DEF Merge

LEMMA AccessKeeps ==
  ASSUME Registers, NEW r \in Rows, NEW w, NEW s, NEW d \in [Halves -> Words],
         Access(r, w, s, d)
  PROVE  mem' \in [Rows -> [Halves -> Words]] /\ mem_rdata' \in [Halves -> Words]
BY MergeType DEF Registers, Access, Written

\* What accepting a request does to reservation and links.
LEMMA TakeKeeps ==
  ASSUME RequestsOK, CoresReserve, SInv, NEW q \in Requests \cup Transfers, Take(q)
  PROVE  Reserved' /\ linked' \in [Ports -> Rows \cup {NoRow}]
<1>1. linked' \in [Ports -> Rows \cup {NoRow}]
  BY DEF Take, Link, SInv, Registers, RequestsOK
<1>2. ASSUME reservation'.valid PROVE Reserved'
  <2>1. CASE Places(q)
    <3>1. q \in Requests /\ q.port \in CorePorts \cap Ports /\ q.op = "AMOLR"
      BY <2>1 DEF Places, RequestsOK, CoresReserve
    <3>2. reservation' = [valid |-> TRUE, addr |-> q.row, core |-> CoreId[q.port]]
      BY <1>2, <2>1, <3>1 DEF Take, Reserve, Claims, Intrudes, FetchOps, NoReservation
    <3>3. linked'[q.port] = q.row
      BY <3>1 DEF Take, Link
    <3> QED
      BY <3>1, <3>2, <3>3 DEF Reserved
  <2>2. CASE ~Places(q)
    <3>1. reservation' = reservation /\ ~Intrudes(q) /\ ~Claims(q)
      BY <1>2, <2>2 DEF Take, Reserve, NoReservation
    <3>2. PICK p \in CorePorts \cap Ports :
            CoreId[p] = reservation.core /\ linked[p] = reservation.addr
      BY <1>2, <3>1 DEF SInv, Reserved
    <3>3. linked'[p] = linked[p]
      <4>1. CASE p = q.port
        <5>1. q.op # "AMOSC" /\ q.op # "AMOLR"
          BY <1>2, <2>2, <3>1, <3>2, <4>1 DEF Claims, Places
        <5> QED
          BY <4>1, <5>1 DEF Take, Link
      <4>2. CASE p # q.port
        <5>1. ~ScSucceeds(q)
          BY <3>1 DEF ScSucceeds
        <5>2. q.op \in FetchOps \cup {"Store"} => q.row # reservation.addr
          <6>1. q.port \in CorePorts => CoreId[q.port] # reservation.core
            BY <3>2, <4>2 DEF CoresReserve
          <6> QED
            BY <1>2, <3>1, <6>1 DEF Intrudes
        <5> QED
          BY <3>2, <4>2, <5>1, <5>2 DEF Take, Link
      <4> QED
        BY <4>1, <4>2
    <3> QED
      BY <3>1, <3>2, <3>3 DEF Reserved
  <2> QED
    BY <2>1, <2>2
<1> QED
  BY <1>1, <1>2 DEF Reserved

LEMMA TakeNothingKeeps ==
  ASSUME SInv, TakeNothing
  PROVE  Reserved' /\ linked' \in [Ports -> Rows \cup {NoRow}]
BY DEF TakeNothing, SInv, Registers, Reserved

LEMMA ComputeKeeps ==
  ASSUME SInv, Compute
  PROVE  /\ state' = "WriteBackAMO" /\ amo' = amo
         /\ amo_result' = Alu(Sign, amo.op, mem_rdata[amo.idx], amo.operand_b)
         /\ amo.op \in FetchOps /\ amo.addr \in Rows
         /\ amo.idx \in Halves /\ amo.operand_b \in Words
         /\ amo_result' \in Words
<1>1. /\ state' = "WriteBackAMO" /\ amo' = amo
      /\ amo_result' = Alu(Sign, amo.op, mem_rdata[amo.idx], amo.operand_b)
  BY DEF Compute
<1>2. /\ amo.op \in FetchOps /\ amo.addr \in Rows
      /\ amo.idx \in Halves /\ amo.operand_b \in Words
  BY DEF Compute, SInv, Registers
<1>3. mem_rdata[amo.idx] \in Words
  BY <1>2 DEF SInv, Registers
<1>4. amo_result' \in Words
  BY <1>1, <1>2, <1>3, WordFacts
<1> QED
  BY <1>1, <1>2, <1>4

LEMMA LoadAmoType ==
  ASSUME RequestsOK, NEW q \in Requests \cup Transfers, q.op \in FetchOps, LoadAmo(q)
  PROVE  /\ amo'.op = q.op /\ amo'.addr = q.row /\ amo'.addr \in Rows
         /\ q.strb = {amo'.idx} /\ amo'.idx \in Halves
         /\ amo'.operand_b = q.data[amo'.idx] /\ amo'.operand_b \in Words
<1>1. q.strb \in {{0}, {1}} /\ q.data \in [Halves -> Words] /\ q.row \in Rows
  BY DEF RequestsOK
<1> QED
  BY <1>1 DEF LoadAmo, Halves

LEMMA StepSInv ==
  ASSUME RequestsOK, CoresReserve, SInv, [Next]_vars
  PROVE  SInv'
<1>1. ASSUME NEW q \in Requests, Accept(q) PROVE SInv'
  <2>1. Reserved' /\ linked' \in [Ports -> Rows \cup {NoRow}]
    BY <1>1, TakeKeeps DEF Accept
  <2>2. mem' \in [Rows -> [Halves -> Words]] /\ mem_rdata' \in [Halves -> Words]
    BY <1>1, AccessKeeps DEF Accept, RequestsOK, SInv
  <2>3. CASE q.op \in FetchOps
    BY <1>1, <2>1, <2>2, <2>3, LoadAmoType DEF Accept, SInv, Registers
  <2>4. CASE q.op \notin FetchOps
    BY <1>1, <2>1, <2>2, <2>4 DEF Accept, unit, SInv, Registers
  <2> QED
    BY <2>3, <2>4
<1>2. ASSUME NEW q \in Transfers, Dma(q) PROVE SInv'
  <2>1. Reserved' /\ linked' \in [Ports -> Rows \cup {NoRow}]
    BY <1>2, TakeKeeps DEF Dma
  <2>2. mem' \in [Rows -> [Halves -> Words]] /\ mem_rdata' \in [Halves -> Words]
    BY <1>2, AccessKeeps DEF Dma, RequestsOK, SInv
  <2>3. conflict' \in BOOLEAN
    BY <1>2 DEF Dma
  <2>4. CASE state = "DoAMO"
    BY <1>2, <2>1, <2>2, <2>3, <2>4, ComputeKeeps DEF Dma, SInv, Registers
  <2>5. CASE state # "DoAMO"
    BY <1>2, <2>1, <2>2, <2>3, <2>5 DEF Dma, unit, SInv, Registers
  <2> QED
    BY <2>4, <2>5
<1>3. CASE DoAMO
  <2>1. Reserved' /\ linked' \in [Ports -> Rows \cup {NoRow}]
    BY <1>3, TakeNothingKeeps DEF DoAMO
  <2> QED
    BY <1>3, <2>1, ComputeKeeps DEF DoAMO, SInv, Registers
<1>4. CASE WriteBackAMO
  <2>1. Reserved' /\ linked' \in [Ports -> Rows \cup {NoRow}]
    BY <1>4, TakeNothingKeeps DEF WriteBackAMO
  <2>2. [h \in Halves |-> amo_result] \in [Halves -> Words] /\ amo.addr \in Rows
    BY <1>4 DEF WriteBackAMO, SInv, Registers
  <2>3. mem' \in [Rows -> [Halves -> Words]] /\ mem_rdata' \in [Halves -> Words]
    BY <1>4, <2>2, AccessKeeps DEF WriteBackAMO, SInv
  <2> QED
    BY <1>4, <2>1, <2>3, WordFacts DEF WriteBackAMO, SInv, Registers
<1>5. CASE NoValid
  <2>1. Reserved' /\ linked' \in [Ports -> Rows \cup {NoRow}]
    BY <1>5, TakeNothingKeeps DEF NoValid
  <2> QED
    BY <1>5, <2>1 DEF NoValid, memory, unit, SInv, Registers
<1>6. CASE UNCHANGED vars
  BY <1>6 DEF vars, SInv, Registers, Reserved
<1> QED
  BY <1>1, <1>2, <1>3, <1>4, <1>5, <1>6 DEF Next

LEMMA InitSInv == Init => SInv
<1> SUFFICES ASSUME Init PROVE SInv
  OBVIOUS
<1>1. [h \in Halves |-> 0] \in [Halves -> Words]
  BY WordFacts
<1>2. mem \in [Rows -> [Halves -> Words]] /\ mem_rdata \in [Halves -> Words]
  BY <1>1 DEF Init
<1>3. ~reservation.valid
  BY DEF Init, NoReservation
<1>4. linked \in [Ports -> Rows \cup {NoRow}]
  BY DEF Init
<1>5. state = "Idle" /\ amo_result \in Words /\ conflict \in BOOLEAN
  BY WordFacts DEF Init
<1> QED
  BY <1>2, <1>3, <1>4, <1>5 DEF SInv, Registers, Reserved

-----------------------------------------------------------------------------
(* Every cycle is a step of AtomicMemory. *)

LEMMA AbsNames ==
  /\ Abs!Halves = Halves /\ Abs!Words = Words /\ Abs!FetchOps = FetchOps
  /\ Abs!NoEvent = NoRequest
  /\ \A row, strb, data : Abs!Merge(row, strb, data) = Merge(row, strb, data)
BY DEF Abs!Halves, Abs!Words, Abs!FetchOps, Abs!NoEvent, Abs!Merge,
       Halves, Words, FetchOps, NoRequest, Merge

LEMMA EventOf ==
  ASSUME RequestsOK, NEW q \in Requests \cup Transfers, Take(q)
  PROVE  /\ Event' = [request |-> q,
                      answer |-> IF q.op = "Store" THEN [h \in Halves |-> 0] ELSE rdata_o']
         /\ Event' # Abs!NoEvent /\ Event'.request = q
         /\ rdata_o' = IF q.op = "AMOSC"
                       THEN [h \in Halves |-> IF ScSucceeds(q) THEN 0 ELSE 1]
                       ELSE mem_rdata'
<1>1. q # NoRequest
  BY DEF RequestsOK, NoRequest, FetchOps
<1>2. taken' = q /\ sc_q' = (q.op = "AMOSC") /\ sc_successful_q' = ScSucceeds(q)
  BY DEF Take
<1>3. Event' = [request |-> q,
                answer |-> IF q.op = "Store" THEN [h \in Halves |-> 0] ELSE rdata_o']
  BY <1>1, <1>2 DEF Event
<1>4. Event' # Abs!NoEvent
  BY <1>3 DEF Abs!NoEvent
<1>5. rdata_o' = IF q.op = "AMOSC"
                 THEN [h \in Halves |-> IF ScSucceeds(q) THEN 0 ELSE 1]
                 ELSE mem_rdata'
  BY <1>2 DEF rdata_o
<1> QED
  BY <1>3, <1>4, <1>5

LEMMA QuietEvent == TakeNothing => Event' = Abs!NoEvent /\ linked' = linked
BY DEF TakeNothing, Event, Abs!NoEvent, NoRequest

LEMMA LinkCases ==
  ASSUME RequestsOK, SInv, NEW q \in Requests \cup Transfers, Take(q)
  PROVE  /\ q.op = "Load" => linked' = linked
         /\ q.op \in FetchOps \cup {"Store"} => linked' = Abs!Unlink(q)
         /\ q.op = "AMOLR" => linked' = [linked EXCEPT ![q.port] = q.row]
         /\ q.op = "AMOSC" /\ ScSucceeds(q) =>
                linked' = [Abs!Unlink(q) EXCEPT ![q.port] = NoRow]
         /\ q.op = "AMOSC" /\ ~ScSucceeds(q) => linked' = [linked EXCEPT ![q.port] = NoRow]
<1>1. linked \in [Ports -> Rows \cup {NoRow}] /\ q.port \in Ports
  BY DEF SInv, Registers, RequestsOK
<1>2. ScSucceeds(q) => q.op = "AMOSC"
  BY DEF ScSucceeds, Claims
<1>3. Link(q)
  BY DEF Take
<1> QED
  BY <1>1, <1>2, <1>3 DEF Link, Abs!Unlink, Abs!NoRow, NoRow, FetchOps

\* Only the port that is linked to the row succeeds.
LEMMA SuccessIsLinked ==
  ASSUME RequestsOK, CoresReserve, SInv, NEW q \in Requests, ScSucceeds(q)
  PROVE  linked[q.port] = q.row
<1>1. q.port \in CorePorts /\ CoreId[q.port] = reservation.core
      /\ reservation.valid /\ reservation.addr = q.row
  BY DEF ScSucceeds, Claims, CoresReserve
<1>2. PICK p \in CorePorts \cap Ports :
        CoreId[p] = reservation.core /\ linked[p] = reservation.addr
  BY <1>1 DEF SInv, Reserved
<1> QED
  BY <1>1, <1>2 DEF CoresReserve

\* A request served at once, by the SRAM alone.
LEMMA PlainStep ==
  ASSUME RequestsOK, CoresReserve, SInv, NEW q \in Requests \cup Transfers,
         q.op \notin FetchOps, q.op = "AMOSC" => q \in Requests,
         state = "Idle", state' = "Idle", Take(q),
         Access(q.row, q.op = "Store" \/ ScSucceeds(q), q.strb, q.data)
  PROVE  Abs!Serve(q)
<1> USE AbsNames
<1>1. Pending = mem /\ Pending' = mem'
  BY DEF Pending
<1>2. q.op \in {"Load", "Store", "AMOLR", "AMOSC"}
  BY DEF RequestsOK
<1>3. ScSucceeds(q) => q.op = "AMOSC"
  BY DEF ScSucceeds, Claims
<1>4. CASE q.op = "Load"
  <2>1. mem' = mem /\ mem_rdata' = mem[q.row]
    BY <1>3, <1>4 DEF Access
  <2>2. Event' = [request |-> q, answer |-> mem[q.row]]
    BY <1>4, <2>1, EventOf
  <2>3. linked' = linked
    BY <1>4, LinkCases
  <2> QED
    BY <1>1, <1>4, <2>1, <2>2, <2>3 DEF Abs!Serve, Abs!Load
<1>5. CASE q.op = "Store"
  <2>1. mem' = [mem EXCEPT ![q.row] = Merge(mem[q.row], q.strb, q.data)]
    BY <1>5 DEF Access, Written
  <2>2. Event' = [request |-> q, answer |-> Abs!NoAnswer]
    BY <1>5, EventOf DEF Abs!NoAnswer
  <2>3. linked' = Abs!Unlink(q)
    BY <1>5, LinkCases
  <2> QED
    BY <1>1, <1>5, <2>1, <2>2, <2>3 DEF Abs!Serve, Abs!Store
<1>6. CASE q.op = "AMOLR"
  <2>1. mem' = mem /\ mem_rdata' = mem[q.row]
    BY <1>3, <1>6 DEF Access
  <2>2. Event' = [request |-> q, answer |-> mem[q.row]]
    BY <1>6, <2>1, EventOf
  <2>3. linked' = [linked EXCEPT ![q.port] = q.row]
    BY <1>6, LinkCases
  <2> QED
    BY <1>1, <1>6, <2>1, <2>2, <2>3 DEF Abs!Serve, Abs!LoadReserved
<1>7. CASE q.op = "AMOSC" /\ ScSucceeds(q)
  <2>1. mem' = [mem EXCEPT ![q.row] = Merge(mem[q.row], q.strb, q.data)]
    BY <1>7 DEF Access, Written
  <2>2. Event' = [request |-> q, answer |-> [h \in Halves |-> 0]]
    BY <1>7, EventOf
  <2>3. linked' = [Abs!Unlink(q) EXCEPT ![q.port] = Abs!NoRow]
    BY <1>7, LinkCases DEF Abs!NoRow, NoRow
  <2>4. linked[q.port] = q.row
    BY <1>7, SuccessIsLinked
  <2> QED
    BY <1>1, <1>7, <2>1, <2>2, <2>3, <2>4 DEF Abs!Serve, Abs!StoreConditional
<1>8. CASE q.op = "AMOSC" /\ ~ScSucceeds(q)
  <2>1. mem' = mem
    BY <1>8 DEF Access
  <2>2. Event' = [request |-> q, answer |-> [h \in Halves |-> 1]]
    BY <1>8, EventOf
  <2>3. linked' = [linked EXCEPT ![q.port] = Abs!NoRow]
    BY <1>8, LinkCases DEF Abs!NoRow, NoRow
  <2> QED
    BY <1>1, <1>8, <2>1, <2>2, <2>3 DEF Abs!Serve, Abs!StoreConditional
<1> QED
  BY <1>2, <1>4, <1>5, <1>6, <1>7, <1>8

\* An atomic takes effect when it is accepted.
LEMMA AtomicStep ==
  ASSUME RequestsOK, SInv, NEW q \in Requests, q.op \in FetchOps, Accept(q)
  PROVE  Abs!Serve(q)
<1> USE AbsNames
<1>1. state = "Idle" /\ state' = "DoAMO" /\ LoadAmo(q) /\ Take(q)
  BY DEF Accept
<1>2. ~ScSucceeds(q) /\ q.op # "Store"
  BY DEF ScSucceeds, Claims, FetchOps
<1>3. mem' = mem /\ mem_rdata' = mem[q.row]
  BY <1>2 DEF Accept, Access
<1>4. Event' = [request |-> q, answer |-> mem[q.row]]
  BY <1>1, <1>2, <1>3, EventOf DEF FetchOps
<1>5. linked' = Abs!Unlink(q)
  BY <1>1, LinkCases
<1>6. Pending = mem
  BY <1>1 DEF Pending
<1>7. Pending' = [mem EXCEPT ![q.row] =
                    [h \in Halves |-> IF h \in q.strb
                                      THEN Abs!Apply(Sign, q.op, mem[q.row][h], q.data[h])
                                      ELSE mem[q.row][h]]]
  <2>1. /\ amo'.op = q.op /\ amo'.addr = q.row /\ q.row \in Rows
        /\ q.strb = {amo'.idx} /\ amo'.idx \in Halves
        /\ amo'.operand_b = q.data[amo'.idx] /\ amo'.operand_b \in Words
    BY <1>1, LoadAmoType
  <2> DEFINE v == Alu(Sign, q.op, mem[q.row][amo'.idx], q.data[amo'.idx])
  <2>2. Pending' = [mem EXCEPT ![q.row] = Merge(mem[q.row], q.strb, [h \in Halves |-> v])]
    BY <1>1, <1>3, <2>1 DEF Pending, Written
  <2>3. mem[q.row][amo'.idx] \in Words
    BY <2>1 DEF SInv, Registers
  <2>4. v = Abs!Apply(Sign, q.op, mem[q.row][amo'.idx], q.data[amo'.idx])
    BY <2>1, <2>3, WordFacts
  <2> HIDE DEF v
  <2>5. Merge(mem[q.row], q.strb, [h \in Halves |-> v]) =
          [h \in Halves |-> IF h \in q.strb
                            THEN Abs!Apply(Sign, q.op, mem[q.row][h], q.data[h])
                            ELSE mem[q.row][h]]
    BY <2>1, <2>4 DEF Merge
  <2> QED
    BY <2>2, <2>5
<1> QED
  BY <1>4, <1>5, <1>6, <1>7 DEF Abs!Serve, Abs!FetchAndOp

\* What the atomic in the unit is going to write.
Result == IF state = "WriteBackAMO" THEN amo_result
          ELSE Alu(Sign, amo.op, mem_rdata[amo.idx], amo.operand_b)

LEMMA PendingBusy ==
  state # "Idle" => Pending = Written(amo.addr, {amo.idx}, [h \in Halves |-> Result])
BY DEF Pending, Result

\* The DMA engine passes an atomic that is on another row.
LEMMA PassingStep ==
  ASSUME RequestsOK, CoresReserve, SInv, NEW q \in Transfers, Dma(q),
         state # "Idle", amo.addr # q.row
  PROVE  Abs!Serve(q)
<1> USE AbsNames
<1>1. /\ state' = "WriteBackAMO" /\ amo' = amo /\ amo_result' = Result
      /\ amo.addr \in Rows /\ amo.idx \in Halves
  <2>1. CASE state = "DoAMO"
    BY <2>1, ComputeKeeps DEF Dma, Result
  <2>2. CASE state = "WriteBackAMO"
    BY <2>2 DEF Dma, unit, Result, SInv, Registers
  <2> QED
    BY <2>1, <2>2 DEF SInv, Registers
<1>2. Take(q) /\ q.op \in {"Load", "Store"} /\ q.row \in Rows
  BY DEF Dma, RequestsOK
<1> DEFINE new(row) == Merge(row, {amo.idx}, [h \in Halves |-> Result])
<1>3. Pending = [mem EXCEPT ![amo.addr] = new(mem[amo.addr])]
  BY PendingBusy DEF Written
<1>4. Pending' = [mem' EXCEPT ![amo.addr] = new(mem'[amo.addr])]
  BY <1>1 DEF Pending, Written
<1> HIDE DEF new
<1>5. mem \in [Rows -> [Halves -> Words]]
  BY DEF SInv, Registers
<1>6. Pending[q.row] = mem[q.row]
  BY <1>2, <1>3, <1>5
<1>7. CASE q.op = "Load"
  <2>1. mem' = mem /\ mem_rdata' = mem[q.row]
    BY <1>7 DEF Dma, Access
  <2>2. Event' = [request |-> q, answer |-> Pending[q.row]]
    BY <1>2, <1>6, <1>7, <2>1, EventOf
  <2>3. linked' = linked
    BY <1>2, <1>7, LinkCases
  <2> QED
    BY <1>3, <1>4, <1>7, <2>1, <2>2, <2>3 DEF Abs!Serve, Abs!Load
<1>8. CASE q.op = "Store"
  <2>1. mem' = [mem EXCEPT ![q.row] = Merge(mem[q.row], q.strb, q.data)]
    BY <1>8 DEF Dma, Access, Written
  <2>2. Event' = [request |-> q, answer |-> Abs!NoAnswer]
    BY <1>2, <1>8, EventOf DEF Abs!NoAnswer
  <2>3. linked' = Abs!Unlink(q)
    BY <1>2, <1>8, LinkCases
  <2>4. mem'[amo.addr] = mem[amo.addr]
    BY <1>1, <1>5, <2>1
  <2>5. Pending' = [Pending EXCEPT ![q.row] = Merge(Pending[q.row], q.strb, q.data)]
    BY <1>1, <1>2, <1>3, <1>4, <1>5, <1>6, <2>1, <2>4
  <2> QED
    BY <1>8, <2>2, <2>3, <2>5 DEF Abs!Serve, Abs!Store
<1> QED
  BY <1>2, <1>7, <1>8

LEMMA StepSimulates ==
  ASSUME RequestsOK, CoresReserve, SInv, [Next]_vars
  PROVE  Abs!Next \/ UNCHANGED <<Pending, linked, Event, conflict>>
<1>1. CASE conflict'
  BY <1>1 DEF Abs!Next
<1>2. ASSUME ~conflict', NEW q \in Requests, Accept(q) PROVE Abs!Next
  <2>1. Take(q) /\ Event' # Abs!NoEvent /\ Event'.request = q
    BY <1>2, EventOf DEF Accept
  <2>2. Abs!Serve(q)
    <3>1. CASE q.op \in FetchOps
      BY <1>2, <3>1, AtomicStep
    <3>2. CASE q.op \notin FetchOps
      BY <1>2, <3>2, PlainStep DEF Accept, unit
    <3> QED
      BY <3>1, <3>2
  <2> QED
    BY <1>2, <2>1, <2>2 DEF Abs!Next
<1>3. ASSUME ~conflict', NEW q \in Transfers, Dma(q) PROVE Abs!Next
  <2>1. Take(q) /\ Event' # Abs!NoEvent /\ Event'.request = q
    BY <1>3, EventOf DEF Dma
  <2>2. q.op \in {"Load", "Store"}
    BY DEF RequestsOK
  <2>3. Abs!Serve(q)
    <3>1. CASE state = "Idle"
      <4>1. state' = "Idle"
        BY <1>3, <3>1 DEF Dma, unit
      <4>2. ~ScSucceeds(q) /\ q.op \notin FetchOps
        BY <2>2 DEF ScSucceeds, Claims, FetchOps
      <4>3. Access(q.row, q.op = "Store" \/ ScSucceeds(q), q.strb, q.data)
        BY <1>3, <4>2 DEF Dma, Access
      <4> QED
        BY <2>1, <2>2, <3>1, <4>1, <4>2, <4>3, PlainStep
    <3>2. CASE state # "Idle"
      <4>1. amo.addr # q.row
        BY <1>3, <3>2 DEF Dma, AmoConflict
      <4> QED
        BY <1>3, <3>2, <4>1, PassingStep
    <3> QED
      BY <3>1, <3>2
  <2> QED
    BY <1>3, <2>1, <2>3 DEF Abs!Next
<1>4. ASSUME ~conflict', DoAMO PROVE Abs!Next
  <2>1. Event' = Abs!NoEvent /\ linked' = linked
    BY <1>4, QuietEvent DEF DoAMO
  <2>2. Pending' = Pending
    BY <1>4 DEF DoAMO, Compute, Pending, Written
  <2> QED
    BY <1>4, <2>1, <2>2 DEF Abs!Next, Abs!Rest
<1>5. ASSUME ~conflict', WriteBackAMO PROVE Abs!Next
  <2>1. Event' = Abs!NoEvent /\ linked' = linked
    BY <1>5, QuietEvent DEF WriteBackAMO
  <2>2. Pending' = Pending
    BY <1>5 DEF WriteBackAMO, Access, Pending, Written
  <2> QED
    BY <1>5, <2>1, <2>2 DEF Abs!Next, Abs!Rest
<1>6. ASSUME ~conflict', NoValid PROVE Abs!Next
  <2>1. Event' = Abs!NoEvent /\ linked' = linked
    BY <1>6, QuietEvent DEF NoValid
  <2>2. Pending' = Pending
    BY <1>6 DEF NoValid, memory, unit, Pending, Written
  <2> QED
    BY <1>6, <2>1, <2>2 DEF Abs!Next, Abs!Rest
<1>7. CASE UNCHANGED vars
  <2>1. Pending' = Pending /\ Event' = Event /\ UNCHANGED <<linked, conflict>>
    BY <1>7 DEF vars, Pending, Written, Event, rdata_o
  <2> QED
    BY <2>1
<1> QED
  BY <1>1, <1>2, <1>3, <1>4, <1>5, <1>6, <1>7 DEF Next

LEMMA InitSimulates == Init => Abs!Init
<1> SUFFICES ASSUME Init PROVE Abs!Init
  OBVIOUS
<1>1. Pending = mem /\ Event = Abs!NoEvent
  BY DEF Init, Pending, Event, Abs!NoEvent, NoRequest
<1>2. mem \in [Rows -> [Halves -> Words]]
  BY InitSInv DEF SInv, Registers
<1>3. linked = [p \in Ports |-> Abs!NoRow] /\ conflict = FALSE
  BY DEF Init, Abs!NoRow, NoRow
<1> QED
  BY <1>1, <1>2, <1>3, AbsNames DEF Abs!Init

(***************************************************************************)
(* As long as the DMA engine keeps away from the row of an atomic in the   *)
(* unit, and otherwise until the conflict is reported, every request takes *)
(* effect in one step, for any rows, words, requests and transfers, if     *)
(* only cores with different ids use LR and SC.                            *)
(***************************************************************************)
THEOREM RequestsAreAtomic ==
  ASSUME CoresReserve
  PROVE  Spec => ImplementsAtomicMemory
<1>1. RequestsOK
  BY RequestsAssumption DEF RequestsOK
<1>2. Init => SInv /\ Abs!Init
  BY InitSInv, InitSimulates
<1>3. SInv /\ [Next]_vars => SInv'
  BY <1>1, StepSInv
<1>4. SInv /\ [Next]_vars => [Abs!Next]_<<Pending, linked, Event, conflict>>
  BY <1>1, StepSimulates
<1> QED
  BY <1>2, <1>3, <1>4, PTL DEF Spec, ImplementsAtomicMemory, Abs!Spec

-----------------------------------------------------------------------------
(* The programs.  What they rest on is the word that a row will hold once  *)
(* the atomic in the unit is through.                                      *)

Touches(q, r, i) == q.row = r /\ i \in q.strb /\ q.op \in FetchOps \cup {"Store", "AMOSC"}

UnitAt(r, i) == state # "Idle" /\ amo.addr = r /\ amo.idx = i

\* Where the harts are.
Labels == {"out", "test", "swap", "in", "lr", "sc"}

ClientTypes ==
    /\ pc \in [Harts \cup Loopers -> Labels] /\ old \in [Harts \cup Loopers -> Words]
    /\ increments \in Words
    /\ \A h \in Harts \cup Loopers :
          /\ pc[h] \in {"test", "swap", "in"} => h \in Harts
          /\ pc[h] \in {"lr", "sc"} => h \in Loopers

\* Whoever is in has left a word other than 0 in the mutex.
LockHeld == (\E h \in Harts : pc[h] = "in") => Pending[Lock][0] # 0

\* No atomic is at the counter, and who is still linked to it has read what it holds.
CounterRead ==
    /\ ~UnitAt(Counter, 0)
    /\ \A h \in Loopers : (pc[h] = "sc" /\ linked[h] = Counter) => old[h] = mem[Counter][0]

PInv == ClientTypes /\ MutualExclusion /\ LockHeld /\ NoLostIncrement /\ CounterRead

\* One word in one access.
LEMMA MergeWord ==
  ASSUME NEW row \in [Halves -> Words], NEW strb, NEW data, NEW i \in Halves
  PROVE  Merge(row, strb, data)[i] = IF i \in strb THEN data[i] ELSE row[i]
BY DEF Merge

LEMMA WrittenWord ==
  ASSUME Registers, NEW a \in Rows, NEW strb, NEW data, NEW r \in Rows, NEW i \in Halves
  PROVE  Written(a, strb, data)[r][i] = IF r = a /\ i \in strb THEN data[i] ELSE mem[r][i]
BY MergeWord DEF Written, Registers

LEMMA PendingWord ==
  ASSUME Registers, NEW r \in Rows, NEW i \in Halves
  PROVE  Pending[r][i] = IF UnitAt(r, i) THEN Result ELSE mem[r][i]
<1>1. CASE state = "Idle"
  BY <1>1 DEF Pending, UnitAt
<1>2. CASE state # "Idle"
  <2>1. amo.addr \in Rows /\ Pending = Written(amo.addr, {amo.idx}, [h \in Halves |-> Result])
    BY <1>2, PendingBusy DEF Registers
  <2> QED
    BY <1>2, <2>1, WrittenWord DEF UnitAt
<1> QED
  BY <1>1, <1>2

\* The same at the end of a cycle.
LEMMA PendingWordNext ==
  ASSUME Registers', NEW r \in Rows, NEW i \in Halves
  PROVE  Pending'[r][i] = IF UnitAt(r, i)' THEN Result' ELSE mem'[r][i]
<1>1. CASE state' = "Idle"
  BY <1>1 DEF Pending, UnitAt
<1>2. CASE state' # "Idle"
  <2>1. /\ mem' \in [Rows -> [Halves -> Words]] /\ amo'.addr \in Rows
        /\ Pending' = [mem' EXCEPT ![amo'.addr] = Merge(@, {amo'.idx}, [h \in Halves |-> Result'])]
    BY <1>2 DEF Registers, Pending, Written, Result
  <2> QED
    BY <1>2, <2>1, MergeWord DEF UnitAt
<1> QED
  BY <1>1, <1>2

\* A request that is accepted changes the words that it touches, and brings the
\* unit to no other.
LEMMA AcceptWord ==
  ASSUME RequestsOK, CoresReserve, SInv, NEW q \in Requests, Accept(q),
         NEW r \in Rows, NEW i \in Halves, ~Touches(q, r, i)
  PROVE  /\ mem'[r][i] = mem[r][i] /\ Pending'[r][i] = Pending[r][i]
         /\ ~UnitAt(r, i)'
<1>1. state = "Idle" /\ SInv' /\ q.row \in Rows
  BY StepSInv DEF Accept, Next, RequestsOK
<1>2. mem'[r][i] = mem[r][i]
  <2>1. CASE q.op = "Store" \/ ScSucceeds(q)
    <3>1. q.op \in {"Store", "AMOSC"}
      BY <2>1 DEF ScSucceeds, Claims
    <3>2. mem' = Written(q.row, q.strb, q.data)
      BY <2>1 DEF Accept, Access
    <3>3. ~(r = q.row /\ i \in q.strb)
      BY <3>1 DEF Touches
    <3> QED
      BY <1>1, <3>2, <3>3, WrittenWord DEF SInv
  <2>2. CASE ~(q.op = "Store" \/ ScSucceeds(q))
    BY <2>2 DEF Accept, Access
  <2> QED
    BY <2>1, <2>2
<1>3. ~UnitAt(r, i)'
  <2>1. CASE q.op \in FetchOps
    <3>1. amo'.addr = q.row /\ q.strb = {amo'.idx}
      BY <2>1, LoadAmoType DEF Accept
    <3> QED
      BY <2>1, <3>1 DEF Touches, UnitAt
  <2>2. CASE q.op \notin FetchOps
    BY <1>1, <2>2 DEF Accept, unit, UnitAt
  <2> QED
    BY <2>1, <2>2
<1>4. Pending[r][i] = mem[r][i]
  BY <1>1 DEF Pending
<1>5. Pending'[r][i] = mem'[r][i]
  BY <1>1, <1>3, PendingWordNext DEF SInv
<1> QED
  BY <1>2, <1>3, <1>4, <1>5

\* The DMA engine, which goes past the unit, changes the words that it touches.
LEMMA DmaWord ==
  ASSUME RequestsOK, CoresReserve, SInv, NEW q \in Transfers, Dma(q),
         NEW r \in Rows, NEW i \in Halves, ~Touches(q, r, i)
  PROVE  /\ mem'[r][i] = mem[r][i] /\ Pending'[r][i] = Pending[r][i]
         /\ ~UnitAt(r, i) => ~UnitAt(r, i)'
<1>1. SInv' /\ q.row \in Rows
  BY StepSInv DEF Next, RequestsOK
<1>2. mem'[r][i] = mem[r][i]
  <2>1. CASE q.op = "Store"
    <3>1. mem' = Written(q.row, q.strb, q.data) /\ ~(r = q.row /\ i \in q.strb)
      BY <2>1 DEF Dma, Access, Touches
    <3> QED
      BY <1>1, <3>1, WrittenWord DEF SInv
  <2>2. CASE q.op # "Store"
    BY <2>2 DEF Dma, Access
  <2> QED
    BY <2>1, <2>2
<1>3. (UnitAt(r, i)' <=> UnitAt(r, i)) /\ (UnitAt(r, i) => Result' = Result)
  <2>1. CASE state = "DoAMO"
    BY <2>1, ComputeKeeps DEF Dma, UnitAt, Result
  <2>2. CASE state # "DoAMO"
    BY <2>2 DEF Dma, unit, UnitAt, Result, SInv, Registers
  <2> QED
    BY <2>1, <2>2
<1> QED
  BY <1>1, <1>2, <1>3, PendingWord, PendingWordNext DEF SInv

\* The cycles in which nothing is accepted change nothing that counts.
LEMMA QuietWord ==
  ASSUME RequestsOK, CoresReserve, SInv, DoAMO \/ WriteBackAMO \/ NoValid,
         NEW r \in Rows, NEW i \in Halves
  PROVE  /\ Pending'[r][i] = Pending[r][i] /\ linked' = linked
         /\ ~UnitAt(r, i) => mem'[r][i] = mem[r][i] /\ ~UnitAt(r, i)'
<1>1. SInv'
  BY StepSInv DEF Next
<1>2. CASE DoAMO
  <2>1. /\ mem' = mem /\ (UnitAt(r, i)' <=> UnitAt(r, i)) /\ linked' = linked
        /\ UnitAt(r, i) => Result' = Result
    BY <1>2, ComputeKeeps DEF DoAMO, TakeNothing, UnitAt, Result, Compute
  <2> QED
    BY <1>1, <2>1, PendingWord, PendingWordNext DEF SInv
<1>3. CASE WriteBackAMO
  <2>1. /\ state' = "Idle" /\ linked' = linked /\ Result = amo_result /\ amo.addr \in Rows
        /\ mem' = Written(amo.addr, {amo.idx}, [h \in Halves |-> Result])
    BY <1>3 DEF WriteBackAMO, TakeNothing, Access, Result, SInv, Registers
  <2>2. mem'[r][i] = IF UnitAt(r, i) THEN Result ELSE mem[r][i]
    BY <1>3, <2>1, WrittenWord DEF UnitAt, SInv, WriteBackAMO
  <2> QED
    BY <1>1, <2>1, <2>2, PendingWord, PendingWordNext DEF SInv, UnitAt
<1>4. CASE NoValid
  <2>1. mem' = mem /\ Pending' = Pending /\ (UnitAt(r, i)' <=> UnitAt(r, i)) /\ linked' = linked
    BY <1>4 DEF NoValid, memory, unit, TakeNothing, UnitAt, Pending, Written
  <2> QED
    BY <2>1
<1> QED
  BY <1>2, <1>3, <1>4

\* A hart gets what the mutex holds, and leaves what it swaps in.
LEMMA SwapWord ==
  ASSUME RequestsOK, CoresReserve, SInv, NEW q \in Requests, Accept(q), q.op = "AMOSwap",
         NEW i \in Halves, q.strb = {i}
  PROVE  mem_rdata'[i] = Pending[q.row][i] /\ Pending'[q.row][i] = q.data[i]
<1>1. state = "Idle" /\ q.row \in Rows /\ q.op \in FetchOps /\ ~ScSucceeds(q) /\ SInv'
  BY StepSInv DEF Accept, Next, RequestsOK, FetchOps, ScSucceeds, Claims
<1>2. mem_rdata' = mem[q.row] /\ Pending = mem
  BY <1>1 DEF Accept, Access, Pending
<1>3. /\ state' = "DoAMO" /\ amo'.op = "AMOSwap" /\ amo'.addr = q.row /\ amo'.idx = i
      /\ amo'.operand_b = q.data[i]
  BY <1>1, LoadAmoType DEF Accept
<1>4. Pending'[q.row][i] = Result' /\ Result' = q.data[i]
  BY <1>1, <1>3, PendingWordNext DEF UnitAt, SInv, Result, Alu
<1> QED
  BY <1>2, <1>4

\* A hart becomes linked by its own load-reserved only.
LEMMA LinkedBefore ==
  ASSUME RequestsOK, SInv, NEW q \in Requests \cup Transfers, Take(q), NoRow \notin Rows,
         NEW h \in Ports, linked'[h] \in Rows
  PROVE  \/ linked[h] = linked'[h] /\ (ScSucceeds(q) => (q.port # h /\ q.row # linked'[h]))
         \/ q.op = "AMOLR" /\ q.port = h
<1>1. Link(q) /\ NoRow # linked'[h]
  BY DEF Take
<1>2. ScSucceeds(q) => q.op = "AMOSC"
  BY DEF ScSucceeds, Claims
<1> QED
  BY <1>1, <1>2 DEF Link, FetchOps

-----------------------------------------------------------------------------
(* The invariant of the programs. *)

CInv == SInv /\ PInv

LEMMA RequestFields ==
  ASSUME NEW h, NEW op, NEW row, NEW v
  PROVE  /\ Request(h, op, row, v).port = h /\ Request(h, op, row, v).op = op
         /\ Request(h, op, row, v).row = row /\ Request(h, op, row, v).data[0] = v
         /\ Request(h, op, row, v).strb = IF op = "Load" THEN {} ELSE {0}
BY DEF Request, Halves

LEMMA ProgramFacts ==
  /\ Lock \in Rows /\ Counter \in Rows /\ Lock # Counter /\ NoRow \notin Rows /\ 0 \in Halves
  /\ \A h \in Harts \cup Loopers : h \in Ports
  /\ 0 \in Words /\ 1 \in Words /\ \A v \in Words : (v + 1) % (2 * Sign) \in Words
  /\ \A q \in Others : q \in Requests
  /\ \A q \in Others \cup Transfers : ~Touches(q, Lock, 0) /\ ~Touches(q, Counter, 0)
<1>1. 0 \in Words /\ 1 \in Words /\ \A v \in Words : (v + 1) % (2 * Sign) \in Words
  BY WordFacts
<1>2. \A q \in Others \cup Transfers : ~Touches(q, Lock, 0) /\ ~Touches(q, Counter, 0)
  BY ProgramsAssumption DEF Touches, FetchOps
<1> QED
  BY <1>1, <1>2, ProgramsAssumption DEF Halves

\* Every step of the programs is a cycle of the shim.
LEMMA ProgramStep ==
  ASSUME ClientTypes, [ClientNext]_allVars
  PROVE  [Next]_vars
<1>1. CASE Shim \/ Elsewhere
  BY <1>1, ProgramFacts DEF Shim, Elsewhere, Next
<1>2. ASSUME NEW h \in Harts \cup Loopers, Call(h) \/ Step(h)
      PROVE  [Next]_vars
  <2>1. Call(h) => UNCHANGED vars
    BY DEF Call
  <2>2. pc[h] \in {"test", "swap", "in"} => h \in Harts
    BY DEF ClientTypes
  <2>3. pc[h] \in {"lr", "sc"} => h \in Loopers
    BY DEF ClientTypes
  <2>4. CASE Test(h)
    BY <2>2, <2>4, ProgramFacts, ProgramsAssumption DEF Test, Next
  <2>5. CASE Swap(h)
    BY <2>2, <2>5, ProgramFacts, ProgramsAssumption DEF Swap, Next
  <2>6. CASE Release(h)
    BY <2>2, <2>6, ProgramFacts, ProgramsAssumption DEF Release, Next
  <2>7. CASE LR(h)
    BY <2>3, <2>7, ProgramFacts, ProgramsAssumption DEF LR, Next
  <2>8. CASE SC(h)
    <3>1. (old[h] + 1) % (2 * Sign) \in Words
      BY ProgramFacts DEF ClientTypes
    <3> QED
      BY <2>3, <2>8, <3>1, ProgramsAssumption DEF SC, Next
  <2> QED
    BY <1>2, <2>1, <2>4, <2>5, <2>6, <2>7, <2>8 DEF Step
<1>3. CASE UNCHANGED allVars
  BY <1>3 DEF allVars, vars
<1> QED
  BY <1>1, <1>2, <1>3 DEF ClientNext

\* The shim, the others and the DMA engine leave both words alone.
LEMMA OthersKeep ==
  ASSUME RequestsOK, CoresReserve, CInv, Shim \/ Elsewhere
  PROVE  PInv'
<1> USE ProgramFacts
<1>1. UNCHANGED <<pc, old, increments>> /\ SInv
  BY DEF Shim, Elsewhere, clients, CInv
<1>2. /\ Pending'[Lock][0] = Pending[Lock][0] /\ mem'[Counter][0] = mem[Counter][0]
      /\ ~UnitAt(Counter, 0)'
      /\ \A h \in Loopers : linked'[h] = Counter => linked[h] = Counter
  <2>1. ~UnitAt(Counter, 0)
    BY DEF CInv, PInv, CounterRead
  <2>2. ASSUME NEW q \in Others, Accept(q)
        PROVE  /\ Pending'[Lock][0] = Pending[Lock][0] /\ mem'[Counter][0] = mem[Counter][0]
               /\ ~UnitAt(Counter, 0)'
               /\ \A h \in Loopers : linked'[h] = Counter => linked[h] = Counter
    <3>1. q \in Requests /\ ~Touches(q, Lock, 0) /\ ~Touches(q, Counter, 0) /\ Take(q)
      BY <2>2 DEF Accept
    <3>2. \A h \in Loopers : linked'[h] = Counter => linked[h] = Counter
      BY <1>1, <3>1, LinkedBefore, ProgramsAssumption
    <3> QED
      BY <1>1, <2>2, <3>1, <3>2, AcceptWord
  <2>3. ASSUME NEW q \in Transfers, Dma(q)
        PROVE  /\ Pending'[Lock][0] = Pending[Lock][0] /\ mem'[Counter][0] = mem[Counter][0]
               /\ ~UnitAt(Counter, 0)'
               /\ \A h \in Loopers : linked'[h] = Counter => linked[h] = Counter
    <3>1. ~Touches(q, Lock, 0) /\ ~Touches(q, Counter, 0) /\ Take(q) /\ q.op # "AMOLR"
      BY <2>3 DEF Dma, RequestsOK
    <3>2. \A h \in Loopers : linked'[h] = Counter => linked[h] = Counter
      BY <1>1, <3>1, LinkedBefore
    <3> QED
      BY <1>1, <2>1, <2>3, <3>1, <3>2, DmaWord
  <2>4. CASE DoAMO \/ WriteBackAMO \/ NoValid
    BY <1>1, <2>1, <2>4, QuietWord
  <2> QED
    BY <2>2, <2>3, <2>4 DEF Shim, Elsewhere
<1>3. ClientTypes' /\ MutualExclusion'
  BY <1>1 DEF CInv, PInv, ClientTypes, MutualExclusion
<1>4. LockHeld' /\ NoLostIncrement'
  BY <1>1, <1>2 DEF CInv, PInv, LockHeld, NoLostIncrement
<1>5. CounterRead'
  BY <1>1, <1>2 DEF CInv, PInv, CounterRead
<1> QED
  BY <1>3, <1>4, <1>5 DEF PInv

\* What an access to the mutex leaves of the counter.
LEMMA CounterKept ==
  ASSUME RequestsOK, CoresReserve, CInv, NEW h \in Harts, NEW op \in {"Load", "AMOSwap"}, NEW v \in Words,
         Accept(Request(h, op, Lock, v))
  PROVE  /\ mem'[Counter][0] = mem[Counter][0] /\ ~UnitAt(Counter, 0)'
         /\ \A g \in Loopers : linked'[g] = Counter => linked[g] = Counter
<1> DEFINE q == Request(h, op, Lock, v)
<1>1. q \in Requests /\ q.row = Lock /\ q.op \in {"Load", "AMOSwap"} /\ SInv
  BY ProgramsAssumption, RequestFields DEF CInv
<1> HIDE DEF q
<1>2. Accept(q) /\ Take(q) /\ ~Touches(q, Counter, 0)
  BY <1>1, ProgramFacts DEF Accept, Touches, q
<1>3. \A g \in Loopers : linked'[g] = Counter => linked[g] = Counter
  BY <1>1, <1>2, ProgramFacts, LinkedBefore
<1> QED
  BY <1>1, <1>2, <1>3, ProgramFacts, AcceptWord

LEMMA CallKeeps ==
  ASSUME CInv, NEW h \in Harts \cup Loopers, Call(h)
  PROVE  PInv'
<1>1. UNCHANGED <<vars, old, increments>> /\ UNCHANGED <<mem, state, amo, amo_result, mem_rdata, linked>>
  BY DEF Call, vars
<1>2. Pending' = Pending /\ UnitAt(Counter, 0)' = UnitAt(Counter, 0)
  BY <1>1 DEF Pending, Written, UnitAt
<1>3. \E l \in {"test", "swap", "lr"} :
         /\ pc' = [pc EXCEPT ![h] = l]
         /\ l \in {"test", "swap"} => h \in Harts
         /\ l = "lr" => h \in Loopers
  BY DEF Call, Goto
<1>4. ClientTypes' /\ MutualExclusion'
  BY <1>1, <1>3 DEF CInv, PInv, ClientTypes, MutualExclusion, Labels
<1>5. LockHeld' /\ NoLostIncrement'
  BY <1>1, <1>2, <1>3 DEF CInv, PInv, ClientTypes, LockHeld, NoLostIncrement
<1>6. CounterRead'
  BY <1>1, <1>2, <1>3 DEF CInv, PInv, ClientTypes, CounterRead
<1> QED
  BY <1>4, <1>5, <1>6 DEF PInv

\* A hart at the mutex does nothing to the counter.
LEMMA MutexKeepsCounter ==
  ASSUME RequestsOK, CoresReserve, CInv, NEW h \in Harts \cup Loopers, pc[h] \in {"test", "swap", "in"},
         NEW op \in {"Load", "AMOSwap"}, NEW v \in Words, Accept(Request(h, op, Lock, v)),
         NEW l \in {"test", "swap", "in", "out"}, Goto(h, l), UNCHANGED <<old, increments>>
  PROVE  h \in Harts /\ ClientTypes' /\ NoLostIncrement' /\ CounterRead'
<1>1. h \in Harts
  BY DEF CInv, PInv, ClientTypes
<1>2. pc' = [pc EXCEPT ![h] = l]
  BY DEF Goto
<1>3. ClientTypes'
  BY <1>1, <1>2 DEF CInv, PInv, ClientTypes, Labels
<1>4. NoLostIncrement' /\ CounterRead'
  BY <1>1, <1>2, CounterKept DEF CInv, PInv, ClientTypes, NoLostIncrement, CounterRead
<1> QED
  BY <1>1, <1>3, <1>4

LEMMA TestKeeps ==
  ASSUME RequestsOK, CoresReserve, CInv, NEW h \in Harts \cup Loopers, Test(h)
  PROVE  PInv'
<1> DEFINE q == Request(h, "Load", Lock, 0)
<1>1. PICK l \in {"test", "swap"} : Goto(h, l)
  BY DEF Test
<1>2. h \in Harts /\ ClientTypes' /\ NoLostIncrement' /\ CounterRead'
  BY <1>1, ProgramFacts, MutexKeepsCounter DEF Test
<1>3. q \in Requests /\ q.op = "Load" /\ Accept(q) /\ SInv
  BY <1>2, ProgramFacts, ProgramsAssumption, RequestFields DEF Test, CInv
<1> HIDE DEF q
<1>4. Pending'[Lock][0] = Pending[Lock][0]
  BY <1>3, ProgramFacts, AcceptWord DEF Touches, FetchOps
<1>5. \A g \in Harts : pc'[g] = "in" => pc[g] = "in"
  BY <1>1 DEF Goto, CInv, PInv, ClientTypes
<1> QED
  BY <1>2, <1>4, <1>5 DEF CInv, PInv, MutualExclusion, LockHeld

\* Who swaps a 1 for a 0 is the first one in.
LEMMA SwapKeeps ==
  ASSUME RequestsOK, CoresReserve, CInv, NEW h \in Harts \cup Loopers, Swap(h)
  PROVE  PInv'
<1> DEFINE q == Request(h, "AMOSwap", Lock, 1)
           l == IF Answer # 0 THEN "swap" ELSE "in"
<1>1. Goto(h, l) /\ l \in {"swap", "in"}
  BY DEF Swap
<1>2. h \in Harts /\ ClientTypes' /\ NoLostIncrement' /\ CounterRead'
  BY <1>1, ProgramFacts, MutexKeepsCounter DEF Swap
<1>3. /\ q \in Requests /\ q.op = "AMOSwap" /\ q.strb = {0} /\ q.row = Lock /\ q.data[0] = 1
      /\ Accept(q) /\ SInv
  BY <1>2, ProgramFacts, ProgramsAssumption, RequestFields DEF Swap, CInv
<1> HIDE DEF q
<1>4. Answer = Pending[Lock][0] /\ Pending'[Lock][0] = 1
  BY <1>3, ProgramFacts, SwapWord DEF Answer
<1>5. \A g \in Harts : pc'[g] = "in" => (pc[g] = "in" \/ (g = h /\ Pending[Lock][0] = 0))
  BY <1>1, <1>4 DEF Goto, CInv, PInv, ClientTypes
<1>6. MutualExclusion'
  BY <1>5 DEF CInv, PInv, MutualExclusion, LockHeld
<1> QED
  BY <1>2, <1>4, <1>6 DEF PInv, LockHeld

LEMMA ReleaseKeeps ==
  ASSUME RequestsOK, CoresReserve, CInv, NEW h \in Harts \cup Loopers, Release(h)
  PROVE  PInv'
<1>1. Goto(h, "out")
  BY DEF Release
<1>2. h \in Harts /\ ClientTypes' /\ NoLostIncrement' /\ CounterRead'
  BY <1>1, ProgramFacts, MutexKeepsCounter DEF Release
<1>3. \A g \in Harts : pc'[g] # "in"
  <2>1. \A g \in Harts : pc[g] = "in" => g = h
    BY <1>2 DEF Release, CInv, PInv, MutualExclusion
  <2> QED
    BY <1>1, <2>1 DEF Goto, CInv, PInv, ClientTypes
<1> QED
  BY <1>2, <1>3 DEF PInv, MutualExclusion, LockHeld

\* An access to the counter leaves the mutex as it is.
LEMMA MutexKept ==
  ASSUME RequestsOK, CoresReserve, CInv, NEW h \in Harts \cup Loopers, pc[h] \in {"lr", "sc"},
         NEW op \in {"AMOLR", "AMOSC"}, NEW v \in Words, Accept(Request(h, op, Counter, v)),
         NEW l \in {"lr", "sc", "out"}, Goto(h, l)
  PROVE  /\ h \in Loopers /\ MutualExclusion' /\ LockHeld'
         /\ \A g \in Harts \cup Loopers : pc'[g] = IF g = h THEN l ELSE pc[g]
         /\ pc' \in [Harts \cup Loopers -> Labels]
<1> DEFINE q == Request(h, op, Counter, v)
<1>1. h \in Loopers /\ pc \in [Harts \cup Loopers -> Labels]
  BY DEF CInv, PInv, ClientTypes
<1>2. q \in Requests /\ q.row = Counter /\ Accept(q) /\ SInv
  BY <1>1, ProgramsAssumption, RequestFields DEF CInv
<1> HIDE DEF q
<1>3. Pending'[Lock][0] = Pending[Lock][0]
  BY <1>2, ProgramFacts, AcceptWord DEF Touches
<1>4. /\ \A g \in Harts \cup Loopers : pc'[g] = IF g = h THEN l ELSE pc[g]
      /\ pc' \in [Harts \cup Loopers -> Labels]
  BY <1>1 DEF Goto, Labels
<1> QED
  BY <1>1, <1>3, <1>4 DEF CInv, PInv, MutualExclusion, LockHeld

LEMMA LRKeeps ==
  ASSUME RequestsOK, CoresReserve, CInv, NEW h \in Harts \cup Loopers, LR(h)
  PROVE  PInv'
<1> DEFINE q == Request(h, "AMOLR", Counter, 0)
<1> USE ProgramFacts
<1>1. /\ h \in Loopers /\ MutualExclusion' /\ LockHeld'
      /\ \A g \in Harts \cup Loopers : pc'[g] = IF g = h THEN "sc" ELSE pc[g]
      /\ pc' \in [Harts \cup Loopers -> Labels]
  BY MutexKept DEF LR
<1>2. q \in Requests /\ q.op = "AMOLR" /\ q.row = Counter /\ q.port = h /\ Accept(q) /\ SInv
  BY <1>1, ProgramsAssumption, RequestFields DEF LR, CInv
<1> HIDE DEF q
<1>3. mem'[Counter][0] = mem[Counter][0] /\ ~UnitAt(Counter, 0)'
  BY <1>2, AcceptWord DEF Touches, FetchOps
<1>4. Answer = mem[Counter][0] /\ mem[Counter][0] \in Words
  <2>1. mem_rdata' = mem[Counter]
    BY <1>2 DEF Accept, Access, ScSucceeds, Claims
  <2> QED
    BY <1>2, <2>1 DEF Answer, SInv, Registers
<1>5. \A g \in Loopers : (g # h /\ linked'[g] = Counter) => linked[g] = Counter
  BY <1>2, LinkedBefore DEF Accept
<1>6. old' = [old EXCEPT ![h] = Answer] /\ UNCHANGED increments
  BY DEF LR
<1>7. ClientTypes'
  BY <1>1, <1>4, <1>6 DEF CInv, PInv, ClientTypes
<1>8. NoLostIncrement' /\ CounterRead'
  BY <1>1, <1>3, <1>4, <1>5, <1>6 DEF CInv, PInv, ClientTypes, NoLostIncrement, CounterRead
<1> QED
  BY <1>1, <1>7, <1>8 DEF PInv

\* The store succeeds only if the counter is as the hart has read it, and then
\* nobody else is linked any more.
LEMMA SCKeeps ==
  ASSUME RequestsOK, CoresReserve, CInv, NEW h \in Harts \cup Loopers, SC(h)
  PROVE  PInv'
<1> DEFINE v == (old[h] + 1) % (2 * Sign)
           q == Request(h, "AMOSC", Counter, v)
           l == IF sc_successful_q' THEN "out" ELSE "lr"
<1> USE ProgramFacts
<1>1. v \in Words /\ Goto(h, l)
  BY DEF CInv, PInv, ClientTypes, SC
<1>2. /\ h \in Loopers /\ MutualExclusion' /\ LockHeld'
      /\ \A g \in Harts \cup Loopers : pc'[g] = IF g = h THEN l ELSE pc[g]
      /\ pc' \in [Harts \cup Loopers -> Labels]
  BY <1>1, MutexKept DEF SC
<1>3. /\ q \in Requests /\ q.op = "AMOSC" /\ q.row = Counter /\ q.port = h /\ q.strb = {0} /\ q.data[0] = v
      /\ Accept(q) /\ SInv /\ Take(q)
  BY <1>1, <1>2, ProgramsAssumption, RequestFields DEF SC, CInv, Accept
<1>4. /\ old' = [old EXCEPT ![h] = 0]
      /\ IF sc_successful_q' THEN increments' = (increments + 1) % (2 * Sign) ELSE UNCHANGED increments
  BY DEF SC
<1> HIDE DEF q
<1>5. sc_successful_q' <=> ScSucceeds(q)
  BY <1>3 DEF Take
<1>6. ~UnitAt(Counter, 0)'
  BY <1>3 DEF Accept, unit, UnitAt, FetchOps
<1>7. \A g \in Loopers : linked'[g] = Counter => (linked[g] = Counter /\ ~ScSucceeds(q))
  BY <1>3, LinkedBefore
<1>8. old[h] \in Words /\ increments \in Words /\ increments = mem[Counter][0] /\ pc[h] = "sc"
  BY DEF CInv, PInv, ClientTypes, NoLostIncrement, SC
<1> HIDE DEF v
<1>9. CASE ScSucceeds(q)
  <2>1. old[h] = mem[Counter][0]
    <3>1. linked[h] = Counter
      BY <1>3, <1>9, SuccessIsLinked
    <3> QED
      BY <1>2, <1>8, <3>1 DEF CInv, PInv, CounterRead
  <2>2. mem'[Counter][0] = v
    <3>1. mem' = Written(q.row, q.strb, q.data)
      BY <1>3, <1>9 DEF Accept, Access
    <3> QED
      BY <1>3, <3>1, WrittenWord DEF SInv
  <2>3. increments' = v
    BY <1>4, <1>5, <1>8, <1>9, <2>1 DEF v
  <2>4. ClientTypes'
    BY <1>1, <1>2, <1>4, <2>3 DEF CInv, PInv, ClientTypes
  <2>5. NoLostIncrement' /\ CounterRead'
    BY <1>6, <1>7, <1>9, <2>2, <2>3 DEF NoLostIncrement, CounterRead
  <2> QED
    BY <1>2, <2>4, <2>5 DEF PInv
<1>10. CASE ~ScSucceeds(q)
  <2>1. mem'[Counter][0] = mem[Counter][0] /\ increments' = increments /\ l = "lr"
    BY <1>3, <1>4, <1>5, <1>10 DEF Accept, Access
  <2>2. ClientTypes'
    BY <1>2, <1>4, <2>1 DEF CInv, PInv, ClientTypes
  <2>3. \A g \in Loopers : (pc'[g] = "sc" /\ linked'[g] = Counter) =>
            pc[g] = "sc" /\ linked[g] = Counter /\ old'[g] = old[g]
    BY <1>2, <1>4, <1>7, <2>1 DEF CInv, PInv, ClientTypes
  <2>4. NoLostIncrement' /\ CounterRead'
    BY <1>6, <2>1, <2>3 DEF CInv, PInv, NoLostIncrement, CounterRead
  <2> QED
    BY <1>2, <2>2, <2>4 DEF PInv
<1> QED
  BY <1>9, <1>10

LEMMA StepCInv ==
  ASSUME RequestsOK, CoresReserve, CInv, [ClientNext]_allVars
  PROVE  CInv'
<1>1. SInv'
  BY ProgramStep, StepSInv DEF CInv, PInv
<1>2. PInv'
  <2>1. CASE Shim \/ Elsewhere
    BY <2>1, OthersKeep
  <2>2. ASSUME NEW h \in Harts \cup Loopers, Call(h) \/ Step(h)
        PROVE  PInv'
    BY <2>2, CallKeeps, TestKeeps, SwapKeeps, ReleaseKeeps, LRKeeps, SCKeeps DEF Step
  <2>3. CASE UNCHANGED allVars
    <3>1. UNCHANGED <<pc, old, increments, mem, linked, state, amo, Pending>>
      BY <2>3 DEF allVars, vars, clients, Pending, Written
    <3> QED
      BY <3>1 DEF CInv, PInv, ClientTypes, MutualExclusion, LockHeld, NoLostIncrement, CounterRead, UnitAt
  <2> QED
    BY <2>1, <2>2, <2>3 DEF ClientNext
<1> QED
  BY <1>1, <1>2 DEF CInv

LEMMA InitCInv == ClientInit => CInv
<1> SUFFICES ASSUME ClientInit
             PROVE  CInv
  OBVIOUS
<1>1. /\ SInv /\ mem = [r \in Rows |-> [h \in Halves |-> 0]] /\ state = "Idle"
      /\ pc = [h \in Harts \cup Loopers |-> "out"] /\ old = [h \in Harts \cup Loopers |-> 0]
      /\ increments = 0
  BY InitSInv DEF ClientInit, Init
<1>2. ClientTypes /\ MutualExclusion /\ LockHeld
  BY <1>1, ProgramFacts DEF ClientTypes, Labels, MutualExclusion, LockHeld
<1>3. NoLostIncrement /\ CounterRead
  BY <1>1, ProgramFacts DEF NoLostIncrement, CounterRead, UnitAt
<1> QED
  BY <1>1, <1>2, <1>3 DEF CInv, PInv

LEMMA ProgramsInv ==
  ASSUME CoresReserve
  PROVE  ClientSpec => []CInv
<1>1. RequestsOK
  BY RequestsAssumption DEF RequestsOK
<1>2. CInv /\ [ClientNext]_allVars => CInv'
  BY <1>1, StepCInv
<1> QED
  BY <1>2, InitCInv, PTL DEF ClientSpec

(***************************************************************************)
(* However the harts, the other programs and the DMA engine use the bank,  *)
(* at most one hart is between acquire and release, even when a DMA        *)
(* transfer passes an atomic on the row of the mutex.                      *)
(***************************************************************************)
THEOREM MutexExcludes ==
  ASSUME CoresReserve
  PROVE  ClientSpec => []MutualExclusion
<1>1. CInv => MutualExclusion
  BY DEF CInv, PInv
<1> QED
  BY <1>1, ProgramsInv, PTL

(***************************************************************************)
(* The counter is the number of the increments that have succeeded, modulo *)
(* the range of a word, for any number of cores that increment it.         *)
(***************************************************************************)
THEOREM CounterLosesNothing ==
  ASSUME CoresReserve
  PROVE  ClientSpec => []NoLostIncrement
<1>1. CInv => NoLostIncrement
  BY DEF CInv, PInv
<1> QED
  BY <1>1, ProgramsInv, PTL

\* What the shim implements it also implements for these programs.
THEOREM ProgramsSeeAtomicMemory ==
  ASSUME CoresReserve
  PROVE  ClientSpec => ImplementsAtomicMemory
<1>1. ClientInit => Init
  BY DEF ClientInit
<1>2. CInv /\ [ClientNext]_allVars => [Next]_vars
  BY ProgramStep DEF CInv, PInv
<1>3. ClientSpec => Spec
  BY <1>1, <1>2, ProgramsInv, PTL DEF ClientSpec, Spec
<1> QED
  BY <1>3, RequestsAreAtomic, PTL
=============================================================================
