---------------------------- MODULE AtomicMemory ----------------------------
(***************************************************************************)
(* What harts, bus and DMA engine may expect of one bank of the TCDM:      *)
(* every request takes effect in one step, also the fetch-and-op atomics,  *)
(* and a store-conditional succeeds only if nobody has written the row     *)
(* since the load-reserved of the same hart.  Once the bank has reported   *)
(* that a DMA transfer met an atomic, nothing is promised any more.        *)
(***************************************************************************)
EXTENDS Integers

CONSTANTS
    Ports,      \* who sends requests: cores, bus and DMA engine
    Rows,       \* the rows of the bank, of two words each
    Sign        \* the weight of the sign bit of a word

VARIABLES
    word,       \* the contents of the rows
    link,       \* the row that a port has load-reserved and nobody has written
    event,      \* the request served last, and its answer
    fault       \* a conflict has been reported

Words == 0 .. 2 * Sign - 1
Halves == {0, 1}
NoRow == "none"
NoEvent == [op |-> "none"]
\* The answer to a store, which nobody looks at.
NoAnswer == [h \in Halves |-> 0]

\* A request has a port, an operation, a row, and for each half of the row
\* whether it is written or operated on (strb) and with which word (data).
FetchOps == {"AMOSwap", "AMOAdd", "AMOMax", "AMOMin", "AMOMaxu", "AMOMinu"}

\* The value of a word as a two's complement number.
Signed(H, x) == IF x < H THEN x ELSE x - 2 * H

\* What an atomic leaves in memory, for words whose sign bit weighs H.
Apply(H, op, a, b) ==
    CASE op = "AMOSwap" -> b
      [] op = "AMOAdd"  -> IF a + b < 2 * H THEN a + b ELSE a + b - 2 * H
      [] op = "AMOMax"  -> IF Signed(H, a) >= Signed(H, b) THEN a ELSE b
      [] op = "AMOMin"  -> IF Signed(H, a) <= Signed(H, b) THEN a ELSE b
      [] op = "AMOMaxu" -> IF a >= b THEN a ELSE b
      [] op = "AMOMinu" -> IF a <= b THEN a ELSE b

Merge(row, strb, data) == [h \in Halves |-> IF h \in strb THEN data[h] ELSE row[h]]

-----------------------------------------------------------------------------
\* A write to a row ends the reservations of the others.
Unlink(q) == [p \in Ports |-> IF p # q.port /\ link[p] = q.row THEN NoRow ELSE link[p]]

Load(q) ==
    /\ q.op = "Load"
    /\ event' = [request |-> q, answer |-> word[q.row]]
    /\ UNCHANGED <<word, link>>

Store(q) ==
    /\ q.op = "Store"
    /\ event' = [request |-> q, answer |-> NoAnswer]
    /\ word' = [word EXCEPT ![q.row] = Merge(@, q.strb, q.data)]
    /\ link' = Unlink(q)

FetchAndOp(q) ==
    /\ q.op \in FetchOps
    /\ event' = [request |-> q, answer |-> word[q.row]]
    /\ word' = [word EXCEPT ![q.row] =
                   [h \in Halves |-> IF h \in q.strb THEN Apply(Sign, q.op, @[h], q.data[h])
                                                     ELSE @[h]]]
    /\ link' = Unlink(q)

LoadReserved(q) ==
    /\ q.op = "AMOLR"
    /\ event' = [request |-> q, answer |-> word[q.row]]
    /\ link' = [link EXCEPT ![q.port] = q.row]
    /\ UNCHANGED word

\* The answer 0 is success.  A store-conditional may fail for no reason.
StoreConditional(q) ==
    /\ q.op = "AMOSC"
    /\ \/ /\ link[q.port] = q.row
          /\ event' = [request |-> q, answer |-> [h \in Halves |-> 0]]
          /\ word' = [word EXCEPT ![q.row] = Merge(@, q.strb, q.data)]
          /\ link' = [Unlink(q) EXCEPT ![q.port] = NoRow]
       \/ /\ event' = [request |-> q, answer |-> [h \in Halves |-> 1]]
          /\ link' = [link EXCEPT ![q.port] = NoRow]
          /\ UNCHANGED word

Serve(q) == Load(q) \/ Store(q) \/ FetchAndOp(q) \/ LoadReserved(q) \/ StoreConditional(q)

Rest == event' = NoEvent /\ UNCHANGED <<word, link>>

Init ==
    /\ word \in [Rows -> [Halves -> Words]]
    /\ link = [p \in Ports |-> NoRow]
    /\ event = NoEvent
    /\ fault = FALSE

Next ==
    \/ fault'
    \/ /\ ~fault'
       /\ Rest \/ (event' # NoEvent /\ Serve(event'.request))

Spec == Init /\ [][Next]_<<word, link, event, fault>>
=============================================================================
