------------------------------ MODULE EventUnit ------------------------------
(***************************************************************************)
(* The event unit of the OpenMP runtime (sw/snRuntime/src/omp/eu.h): the   *)
(* worker cores of a cluster sleep in eu_event_loop, core 0 dispatches an  *)
(* event, wakes them, executes its own share and waits until all workers   *)
(* have counted themselves finished.                                       *)
(*                                                                         *)
(* Each access to a shared word is one step; wpc[w] and mpc name the next  *)
(* access of a worker and of the master.  The fields of the event that say *)
(* what to execute are written by the master only while all workers sleep; *)
(* they are left out, the execution of the event by core k is counted in   *)
(* runs[k].  As in DataMover the write that clears a core's interrupt is   *)
(* asynchronous: the core may sample its next load while it is in flight,  *)
(* but cannot branch on it.                                                *)
(***************************************************************************)
EXTENDS Naturals, FiniteSets

CONSTANT NCores          \* compute cores; core 0 is the master

ASSUME NCoresAssumption == NCores \in Nat /\ NCores >= 1

Cores == 0 .. NCores - 1
Workers == 1 .. NCores - 1

VARIABLES
    workers_in_loop, workers_wfi, exit_flag,   \* eu_t
    nthreads, fini_count,                      \* eu_t: the event e
    mcip,        \* the workers whose interrupt is pending
    clearing,    \* the workers whose interrupt clear is in flight
    wpc,         \* wpc[w]: the next access of worker w
    mpc,         \* the next access of the master
    scratch,     \* the master's local
    team,        \* history: the team of the event that is dispatched
    runs         \* history: runs[k], how often core k has executed the event

eu == <<workers_in_loop, workers_wfi, exit_flag, nthreads, fini_count>>
irq == <<mcip, clearing>>
worker == <<wpc, irq>>
master == <<mpc, scratch>>
history == <<team, runs>>
vars == <<eu, worker, master, history>>

\* The zeroed struct of eu_init; the workers are about to enter the loop, the
\* master waits for them in snrt_omp_bootstrap.
Init ==
    /\ workers_in_loop = 0 /\ workers_wfi = 0 /\ exit_flag = FALSE
    /\ nthreads = 0 /\ fini_count = 0
    /\ mcip = {} /\ clearing = {}
    /\ wpc = [w \in Workers |-> "enter"]
    /\ mpc = "boot" /\ scratch = 0
    /\ team = 0 /\ runs = [k \in Cores |-> 0]

-----------------------------------------------------------------------------
\* The workers: eu_event_loop.

WGoto(w, l) == wpc' = [wpc EXCEPT ![w] = l]

\* __atomic_add_fetch(&eu_p->workers_in_loop, 1)
Enter(w) ==
    /\ wpc[w] = "enter"
    /\ workers_in_loop' = workers_in_loop + 1
    /\ WGoto(w, "exit?")
    /\ UNCHANGED <<workers_wfi, exit_flag, nthreads, fini_count, irq, master, history>>

\* if (eu_p->exit_flag) return;
CheckExit(w) ==
    /\ wpc[w] = "exit?"
    /\ WGoto(w, IF exit_flag THEN "gone" ELSE "team?")
    /\ UNCHANGED <<eu, irq, master, history>>

\* if (cluster_core_idx < eu_p->e.nthreads), after the branch on exit_flag
CheckTeam(w) ==
    /\ wpc[w] = "team?"
    /\ w \notin clearing
    /\ WGoto(w, IF w < nthreads THEN "call" ELSE "fini")
    /\ UNCHANGED <<eu, irq, master, history>>

\* eu_p->e.fn(eu_p->e.data, eu_p->e.argc)
Execute(w) ==
    /\ wpc[w] = "call"
    /\ runs' = [runs EXCEPT ![w] = @ + 1]
    /\ WGoto(w, "fini")
    /\ UNCHANGED <<eu, irq, master, team>>

\* __atomic_add_fetch(&eu_p->e.fini_count, 1)
Finish(w) ==
    /\ wpc[w] = "fini"
    /\ fini_count' = fini_count + 1
    /\ WGoto(w, "incwfi")
    /\ UNCHANGED <<workers_in_loop, workers_wfi, exit_flag, nthreads, irq, master, history>>

\* worker_wfi: __atomic_add_fetch(&eu_p->workers_wfi, 1)
IncWfi(w) ==
    /\ wpc[w] = "incwfi"
    /\ workers_wfi' = workers_wfi + 1
    /\ WGoto(w, "wfi")
    /\ UNCHANGED <<workers_in_loop, exit_flag, nthreads, fini_count, irq, master, history>>

\* worker_wfi: snrt_wfi() returns once the interrupt is pending.
Wake(w) ==
    /\ wpc[w] = "wfi"
    /\ w \in mcip
    /\ WGoto(w, "clr")
    /\ UNCHANGED <<eu, irq, master, history>>

\* As IssueClear, but the interrupt stays pending.
NoClear(w) ==
    /\ wpc[w] = "clr"
    /\ WGoto(w, "decwfi")
    /\ UNCHANGED <<eu, irq, master, history>>

\* worker_wfi: snrt_int_cluster_clr(1 << cluster_core_idx)
IssueClear(w) ==
    /\ wpc[w] = "clr"
    /\ clearing' = clearing \cup {w}
    /\ WGoto(w, "decwfi")
    /\ UNCHANGED <<eu, mcip, master, history>>

\* The clear reaches the cluster peripheral.
ClearLands(w) ==
    /\ w \in clearing
    /\ mcip' = mcip \ {w}
    /\ clearing' = clearing \ {w}
    /\ UNCHANGED <<eu, wpc, master, history>>

\* worker_wfi: __atomic_add_fetch(&eu_p->workers_wfi, -1)
DecWfi(w) ==
    /\ wpc[w] = "decwfi"
    /\ workers_wfi' = workers_wfi - 1
    /\ WGoto(w, "exit?")
    /\ UNCHANGED <<workers_in_loop, exit_flag, nthreads, fini_count, irq, master, history>>

Worker(w) ==
    \/ Enter(w) \/ CheckExit(w) \/ CheckTeam(w) \/ Execute(w) \/ Finish(w)
    \/ IncWfi(w) \/ Wake(w) \/ IssueClear(w) \/ DecWfi(w)

-----------------------------------------------------------------------------
\* The master: snrt_omp_bootstrap, eu_dispatch_push, eu_run_empty, eu_exit.

\* while (eu_get_workers_in_wfi() != snrt_cluster_compute_core_num() - 1)
BootWait ==
    /\ mpc = "boot"
    /\ workers_wfi = NCores - 1
    /\ mpc' = "idle"
    /\ UNCHANGED <<eu, worker, scratch, history>>

\* The master calls eu_dispatch_push, eu_run_empty or eu_exit.  eu_exit asks
\* for eu_run_empty if there is no event, which then returns at once.
Call ==
    /\ mpc = "idle"
    /\ mpc' \in {"push", "run", "quit"}
    /\ UNCHANGED <<eu, worker, scratch, history>>

\* The spin of wait_worker_wfi that follows the load of workers_in_loop.
AfterLoad == [push |-> "pushwfi", wake |-> "wakewfi",
              quit |-> "quitwfi", qwake |-> "qwakewfi"]

\* wait_worker_wfi: scratch = eu_p->workers_in_loop, in eu_dispatch_push
\* ("push"), eu_exit ("quit") and, below them, wake_workers ("wake", "qwake")
LoadInLoop ==
    /\ mpc \in DOMAIN AfterLoad
    /\ scratch' = workers_in_loop
    /\ mpc' = AfterLoad[mpc]
    /\ UNCHANGED <<eu, worker, history>>

\* eu_dispatch_push: wait until all workers sleep, then set the event.  The
\* team is at most the compute cores (omp_p->numThreads).
Push ==
    /\ mpc = "pushwfi"
    /\ workers_wfi = scratch
    /\ \E n \in 0 .. NCores :
         nthreads' = n /\ team' = n
    /\ mpc' = "idle"
    /\ UNCHANGED <<workers_in_loop, workers_wfi, exit_flag, fini_count, worker, scratch, runs>>

\* eu_run_empty: nothing to do without an event; else fini_count = 0
RunEmpty ==
    /\ mpc = "run"
    /\ IF nthreads = 0
       THEN mpc' = "idle" /\ UNCHANGED fini_count
       ELSE mpc' = (IF nthreads > 1 THEN "wake" ELSE "call") /\ fini_count' = 0
    /\ UNCHANGED <<workers_in_loop, workers_wfi, exit_flag, nthreads, worker, scratch, history>>

\* As WakeWorkers, but only the team is woken.
WakeTeam ==
    /\ mpc \in {"wakewfi", "qwakewfi"}
    /\ workers_wfi = scratch
    /\ mcip' = mcip \cup (IF mpc = "wakewfi" THEN {w \in Workers : w < nthreads}
                          ELSE Workers)
    /\ mpc' = IF mpc = "wakewfi" THEN "call" ELSE "over"
    /\ UNCHANGED <<eu, wpc, clearing, scratch, history>>

\* wake_workers: when all workers sleep, set the interrupts of all but core 0
WakeWorkers ==
    /\ mpc \in {"wakewfi", "qwakewfi"}
    /\ workers_wfi = scratch
    /\ mcip' = mcip \cup Workers
    /\ mpc' = IF mpc = "wakewfi" THEN "call" ELSE "over"
    /\ UNCHANGED <<eu, wpc, clearing, scratch, history>>

\* eu_run_empty: the master's own share (core 0 is in every team)
MasterExecute ==
    /\ mpc = "call"
    /\ runs' = [runs EXCEPT ![0] = @ + 1]
    /\ mpc' = IF nthreads > 1 THEN "count" ELSE "retire"
    /\ UNCHANGED <<eu, worker, scratch, team>>

\* eu_run_empty: scratch = eu_get_workers_in_loop()
LoadCount ==
    /\ mpc = "count"
    /\ scratch' = workers_in_loop
    /\ mpc' = "join"
    /\ UNCHANGED <<eu, worker, history>>

\* As JoinAll, but it waits only for the team.
JoinTeam ==
    /\ mpc = "join"
    /\ fini_count = nthreads - 1
    /\ mpc' = "retire"
    /\ UNCHANGED <<eu, worker, scratch, history>>

\* eu_run_empty: while (fini_count != scratch)
JoinAll ==
    /\ mpc = "join"
    /\ fini_count = scratch
    /\ mpc' = "retire"
    /\ UNCHANGED <<eu, worker, scratch, history>>

\* eu_run_empty: eu_p->e.nthreads = 0
Retire ==
    /\ mpc = "retire"
    /\ nthreads' = 0
    /\ team' = 0 /\ runs' = [k \in Cores |-> 0]
    /\ mpc' = "idle"
    /\ UNCHANGED <<workers_in_loop, workers_wfi, exit_flag, fini_count, worker, scratch>>

\* As SetExit, but the flag is not set before the wakeup.
SetExitForgotten ==
    /\ mpc = "quitwfi"
    /\ workers_wfi = scratch
    /\ mpc' = "qwake"
    /\ UNCHANGED <<eu, worker, scratch, history>>

\* eu_exit: when all workers sleep, exit_flag = 1
SetExit ==
    /\ mpc = "quitwfi"
    /\ workers_wfi = scratch
    /\ exit_flag' = TRUE
    /\ mpc' = "qwake"
    /\ UNCHANGED <<workers_in_loop, workers_wfi, nthreads, fini_count, worker, scratch, history>>

MasterInCall ==
    \/ BootWait \/ LoadInLoop \/ Push \/ RunEmpty \/ WakeWorkers
    \/ MasterExecute \/ LoadCount \/ JoinAll \/ Retire \/ SetExit

\* After eu_exit the session is over: every worker has left the loop.
Over ==
    /\ mpc = "over"
    /\ \A w \in Workers : wpc[w] = "gone"
    /\ UNCHANGED vars

Next ==
    \/ Call \/ MasterInCall \/ Over
    \/ \E w \in Workers : Worker(w) \/ ClearLands(w)

Spec == Init /\ [][Next]_vars

\* Every core keeps executing and an interrupt clear lands; the master need
\* not make another call.
FairSpec ==
    /\ Spec
    /\ WF_vars(MasterInCall)
    /\ \A w \in Workers : WF_vars(Worker(w)) /\ WF_vars(ClearLands(w))

-----------------------------------------------------------------------------
\* The words of eu_t and the positions of the cores: the counters never leave
\* the range of the workers they count.
TypeOK ==
    /\ workers_in_loop \in 0 .. NCores - 1
    /\ workers_wfi \in 0 .. NCores - 1
    /\ fini_count \in 0 .. NCores - 1
    /\ nthreads \in 0 .. NCores
    /\ exit_flag \in BOOLEAN
    /\ mcip \subseteq Workers /\ clearing \subseteq Workers
    /\ wpc \in [Workers -> {"enter", "exit?", "team?", "call", "fini", "incwfi",
                            "wfi", "clr", "decwfi", "gone"}]
    /\ runs \in [Cores -> 0 .. 1]

Abs == INSTANCE ForkJoin

\* The wfi and fini counters implement fork and join: every core of the team
\* executes the event exactly once, no core executes an event that is over or
\* not its own, and eu_run_empty returns when all have executed it.
ImplementsForkJoin == Abs!Spec

\* wake_workers never finds a worker awake: when the interrupts are set every
\* worker is in wfi with no interrupt pending and no clear in flight that
\* could swallow the new one.
WakeFindsSleepers ==
    mpc \in {"wakewfi", "qwakewfi"} /\ workers_wfi = scratch =>
        /\ \A w \in Workers : wpc[w] = "wfi"
        /\ mcip = {} /\ clearing = {}

\* eu_run_empty returns: no worker sleeps through a wakeup.
RunReturns == mpc \notin {"idle", "over"} ~> mpc \in {"idle", "over"}

\* eu_exit sends all workers in the loop to exit: every one of them leaves.
AllExit == mpc = "over" ~> \A w \in Workers : wpc[w] = "gone"

\* eu_exit "make[s] sure queue is empty" before it sets the exit flag.
QueueEmptyAtExit == exit_flag => nthreads = 0
=============================================================================
