------------------------------- MODULE OmpLoop -------------------------------
(***************************************************************************)
(* A program of parallel loops: core 0 forks a region (KmpFork), each core *)
(* that calls the microtask asks for its part of the loop and executes it  *)
(* (KmpSchedule), core 0 joins and forks the next region.  The team is all *)
(* compute cores: numThreads is set once, by omp_init.                     *)
(***************************************************************************)
EXTENDS KmpSchedule

CONSTANT Argcs     \* the numbers of arguments of the regions

ASSUME ArgcsAssumption == Argcs \subseteq 0 .. 12    \* KMP_FORK_MAX_NARGS

VARIABLES mem, mpc, copied, argc, tag, busy, case, team, runs

Fork == INSTANCE KmpFork WITH NCores <- MaxThreads

forkVars == <<mem, mpc, copied, argc, tag, busy, case, team, runs>>
loopVars == <<vars, forkVars>>

\* Before the first region the loop variables are of no account.
LoopInit == Init /\ Fork!Init

\* Core 0 outside the region's body, up to the dispatch.
Prepare ==
    /\ Fork!Call \/ Fork!Copy \/ Fork!Region
    /\ UNCHANGED vars

\* The cores get the event: another loop begins.
Dispatch ==
    /\ Fork!Dispatch
    /\ loop' \in Loops
    /\ part' = [t \in 0 .. loop'.nb - 1 |-> NoPart]
    /\ where' = [t \in 0 .. loop'.nb - 1 |-> "init"]
    /\ count' = [i \in Iterations(loop') |-> 0]

\* Core c in the microtask.
Body(c) ==
    /\ c \in busy
    /\ StaticInit(c) \/ Execute(c)
    /\ UNCHANGED forkVars

\* The microtask returns.  A case without a break calls it again, and the core
\* executes its part of the loop again.
Return(c) ==
    /\ where[c] = "done"
    /\ Fork!Microtask(c)
    /\ where' = IF c \in busy' THEN [where EXCEPT ![c] = "init"] ELSE where
    /\ UNCHANGED <<loop, part, count>>

Join == Fork!Join /\ UNCHANGED vars

LoopNext ==
    \/ Prepare \/ Dispatch \/ Join
    \/ \E c \in Threads : Body(c) \/ Return(c)

LoopSpec == LoopInit /\ [][LoopNext]_loopVars

-----------------------------------------------------------------------------
\* Every core is called with the microtask and the arguments of this fork.
ArgsIntact == Fork!ArgsIntact

\* The fork calls the microtask once in each thread and waits for all.
ImplementsForkJoin == Fork!ImplementsForkJoin

\* When core 0 goes on behind a region, the whole loop has been executed: a
\* thread that is late is waited for, and one that is early does not execute
\* the next loop's iterations in this one.
LoopComplete ==
    [][(mpc = "join" /\ mpc' = "idle") => \A i \in DOMAIN count : count[i] = 1]_loopVars
=============================================================================
