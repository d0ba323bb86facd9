----------------------------- MODULE MCDataMover -----------------------------
(***************************************************************************)
(* Instances of DataMover for TLC: who calls which functions.              *)
(***************************************************************************)
EXTENDS DataMover

CONSTANTS c1, c2

\* Two harts may queue copies and start them, one of them waits.
OneWaits ==
    [c \in Clients |-> IF c = c1 THEN {"memcpy", "start", "wait"}
                       ELSE {"memcpy", "start"}]

\* Either one hart drives the data mover, as thread 0 does in
\* sw/tests/openmp_double_buffering.c, and the ring wraps, or both queue
\* copies, as many in all as the ring holds.
DriverOrBoth == {[c \in Clients |-> IF c = c1 THEN 3 ELSE 0], [c \in Clients |-> 1]}

\* Two copies of each hart, more than the ring holds.
TwoEach == {[c \in Clients |-> 2]}

\* Two harts queue copies and start them.
Producers == [c \in Clients |-> {"memcpy", "start"}]

\* Two harts wait for their copies.
Waiters == [c \in Clients |-> {"wait"}]

\* A session that waits and then ends.
WaitExit == [c \in Clients |-> {"wait", "exit"}]

\* A session that ends at once.
OnlyExit == [c \in Clients |-> {"exit"}]
=============================================================================
