------------------------------- MODULE KmpFork -------------------------------
(***************************************************************************)
(* How a parallel region gets its arguments (omp/kmp.c): core 0 copies the *)
(* pointer to the microtask and argc argument words to kmpc_args, an area  *)
(* of KMP_FORK_MAX_NARGS words in L1, and dispatches __microtask_wrapper,  *)
(* which picks the call of the microtask by a switch over argc.            *)
(*                                                                         *)
(* The event unit is taken at its abstract interface, ForkJoin: a dispatch *)
(* hands the event to all the cores, the join waits for all of them.  The  *)
(* argument words of successive forks are told apart by two tags.          *)
(* omp_t is allocated right behind kmpc_args (omp_init), so its first      *)
(* word, which holds nbThreads, is word KMP_FORK_MAX_NARGS of the area.    *)
(***************************************************************************)
EXTENDS Naturals

CONSTANTS
    NCores,     \* compute cores; numThreads of every fork
    Argcs       \* the numbers of arguments of the program's parallel regions,
                \* at most KMP_FORK_MAX_NARGS

KMP_FORK_MAX_NARGS == 12

Cores == 0 .. NCores - 1
Words == 0 .. KMP_FORK_MAX_NARGS

VARIABLES
    mem,      \* the words of kmpc_args and the first word of omp_t
    mpc,      \* what core 0 does next: idle, copy, region, push, join
    copied,   \* __kmpc_fork_call: words copied
    argc,     \* the event's argc
    tag,      \* the tag of the current fork
    busy,     \* the cores inside __microtask_wrapper
    case,     \* case[c]: the case of the switch that core c of busy has reached
    team,     \* history: the team of the event, as in ForkJoin
    runs      \* history: how often each core has called the microtask

fork == <<mpc, copied, argc, tag>>
vars == <<mem, fork, busy, case, team, runs>>

Init ==
    /\ mem = [i \in Words |-> IF i = KMP_FORK_MAX_NARGS THEN "team" ELSE "free"]
    /\ mpc = "idle" /\ copied = 0 /\ argc = 0 /\ tag = "even"
    /\ busy = {} /\ case = [c \in Cores |-> 0]
    /\ team = 0
    /\ runs = [c \in Cores |-> 0]

-----------------------------------------------------------------------------
\* __kmpc_fork_call, called by core 0.

Call ==
    /\ mpc = "idle"
    /\ mpc' = "copy"
    /\ copied' = 0
    /\ argc' \in Argcs
    /\ tag' = IF tag = "odd" THEN "even" ELSE "odd"
    /\ UNCHANGED <<mem, busy, case, team, runs>>

\* As Copy, but the last argument is not copied.
CopyOneLess ==
    /\ mpc = "copy"
    /\ mem' = IF argc > 0 /\ copied = argc THEN mem ELSE [mem EXCEPT ![copied] = tag]
    /\ copied' = copied + 1
    /\ mpc' = IF copied = argc THEN "region" ELSE "copy"
    /\ UNCHANGED <<argc, tag, busy, case, team, runs>>

\* kmpc_args[0] = microtask, then kmpc_args[i] = va_arg for i = 1 .. argc
Copy ==
    /\ mpc = "copy"
    /\ mem' = [mem EXCEPT ![copied] = tag]
    /\ copied' = copied + 1
    /\ mpc' = IF copied = argc THEN "region" ELSE "copy"
    /\ UNCHANGED <<argc, tag, busy, case, team, runs>>

\* parallelRegion: omp_p->plainTeam.nbThreads = num_threads
Region ==
    /\ mpc = "region"
    /\ mem' = [mem EXCEPT ![KMP_FORK_MAX_NARGS] = "team"]
    /\ mpc' = "push"
    /\ UNCHANGED <<copied, argc, tag, busy, case, team, runs>>

\* eu_dispatch_push and the wakeup: every core enters __microtask_wrapper.
Dispatch ==
    /\ mpc = "push"
    /\ busy' = Cores
    /\ case' = [c \in Cores |-> argc]
    /\ team' = NCores
    /\ mpc' = "join"
    /\ UNCHANGED <<mem, copied, argc, tag, runs>>

\* As Join, but core 0 waits only for its own return from the wrapper.
JoinOwn ==
    /\ mpc = "join"
    /\ 0 \notin busy
    /\ team' = 0
    /\ runs' = [c \in Cores |-> 0]
    /\ mpc' = "idle"
    /\ UNCHANGED <<mem, copied, argc, tag, busy, case>>

\* eu_run_empty returns when every core has left the wrapper.
Join ==
    /\ mpc = "join"
    /\ busy = {}
    /\ team' = 0
    /\ runs' = [c \in Cores |-> 0]
    /\ mpc' = "idle"
    /\ UNCHANGED <<mem, copied, argc, tag, busy, case>>

\* As Breaks, but the break of case 3 is missing.
BreaksNot3(n) == n \in (0 .. 7) \ {3} \/ n = 12

\* The cases of __microtask_wrapper that end in a break.
Breaks(n) == n \in 0 .. 7 \/ n = 12

\* __microtask_wrapper, case n: call the microtask with the words 1 .. n of
\* the area, then break or fall through to the next case.
Microtask(c) ==
    /\ c \in busy
    /\ runs' = [runs EXCEPT ![c] = @ + 1]
    /\ IF Breaks(case[c])
       THEN busy' = busy \ {c} /\ UNCHANGED case
       ELSE case' = [case EXCEPT ![c] = @ + 1] /\ UNCHANGED busy
    /\ UNCHANGED <<mem, fork, team>>

Next ==
    \/ Call \/ Copy \/ Region \/ Dispatch \/ Join
    \/ \E c \in Cores : Microtask(c)

Spec == Init /\ [][Next]_vars

-----------------------------------------------------------------------------
\* Every core is called with the microtask and the argc arguments of this
\* fork, whatever earlier forks and the runtime's own structures left there.
ArgsIntact ==
    \A c \in busy : case[c] = argc => \A i \in 0 .. argc : mem[i] = tag

Abs == INSTANCE ForkJoin

\* __kmpc_fork_call "call[s] the microtask in the relevant number of threads":
\* once in each of them, and returns when they are through.
ImplementsForkJoin == Abs!Spec
=============================================================================
