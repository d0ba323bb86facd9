------------------------------- MODULE ForkJoin -------------------------------
(***************************************************************************)
(* What the event unit promises to the OpenMP runtime: an event dispatched *)
(* to a team of n cores is executed once by each of the cores 0 .. n-1 and *)
(* by nobody else, and the master's join returns when all have executed    *)
(* it.                                                                     *)
(***************************************************************************)
EXTENDS Naturals

CONSTANT NCores          \* compute cores; core 0 is the master

VARIABLES
    team,    \* the size of the team of the current event, 0 if there is none
    runs     \* runs[k]: how often core k has executed the current event

vars == <<team, runs>>

Cores == 0 .. NCores - 1

Init ==
    /\ team = 0
    /\ runs = [k \in Cores |-> 0]

\* The master sets the event; one that nobody has executed is replaced.
Fork(n) ==
    /\ \A k \in Cores : runs[k] = 0
    /\ team' = n
    /\ runs' = runs

Run(k) ==
    /\ k < team
    /\ runs[k] = 0
    /\ runs' = [runs EXCEPT ![k] = 1]
    /\ team' = team

Join ==
    /\ \A k \in Cores : runs[k] = IF k < team THEN 1 ELSE 0
    /\ team' = 0
    /\ runs' = [k \in Cores |-> 0]

Next ==
    \/ \E n \in 0 .. NCores : Fork(n)
    \/ \E k \in Cores : Run(k)
    \/ Join

Spec == Init /\ [][Next]_vars
=============================================================================
