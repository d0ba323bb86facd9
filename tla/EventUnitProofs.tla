--------------------------- MODULE EventUnitProofs ---------------------------
(***************************************************************************)
(* Proofs about the event unit, for any number of cores: the counters of   *)
(* eu_t are exact, no wakeup is lost, and the unit implements ForkJoin.    *)
(***************************************************************************)
EXTENDS EventUnit, FiniteSetTheorems, TLAPS

-----------------------------------------------------------------------------
(* The inductive invariant. *)

\* The workers that workers_in_loop, workers_wfi and fini_count count.
Entered == {w \in Workers : wpc[w] # "enter"}
InWfi == {w \in Workers : wpc[w] \in {"wfi", "clr", "decwfi"}}
Through == {w \in Workers : \/ wpc[w] = "incwfi"
                            \/ wpc[w] = "wfi" /\ w \notin mcip}

CountersExact ==
    /\ workers_in_loop = Cardinality(Entered)
    /\ workers_wfi = Cardinality(InWfi)

\* An interrupt is pending from the wakeup until its clear has landed, and the
\* clear has landed when the worker reads the event.
InterruptsMatch ==
    \A w \in Workers :
        /\ wpc[w] \in {"enter", "call", "fini", "incwfi"} => w \notin mcip
        /\ wpc[w] \in {"enter", "call", "fini", "incwfi", "wfi", "clr"} => w \notin clearing
        /\ wpc[w] = "clr" => w \in mcip
        /\ wpc[w] \in {"decwfi", "exit?", "team?", "gone"} => (w \in mcip <=> w \in clearing)

Executing == mpc \in {"call", "count", "join", "retire"}
\* Workers take part in the event.
Awake == mpc \in {"call", "count", "join"} /\ nthreads > 1
\* No worker was woken, or all are through with the event.
Resting ==
    \/ mpc \in {"idle", "push", "pushwfi", "run", "wake", "wakewfi", "retire",
                "quit", "quitwfi", "qwake", "qwakewfi"}
    \/ mpc = "call" /\ nthreads = 1

MasterMatches ==
    /\ mpc \in {"boot", "over", "call", "count", "join"} \/ Resting
    /\ exit_flag <=> mpc \in {"qwake", "qwakewfi", "over"}
    /\ team = nthreads
    /\ mpc = "boot" => nthreads = 0
    /\ mpc \in {"call", "retire"} => nthreads >= 1
    /\ mpc \in {"wake", "wakewfi", "count", "join"} => nthreads > 1
    /\ mpc \in {"wake", "wakewfi"} => fini_count = 0
    /\ mpc \in {"pushwfi", "wakewfi", "quitwfi", "qwakewfi", "join"} => scratch = NCores - 1

WorkersMatch ==
    /\ mpc = "boot" => /\ mcip = {} /\ clearing = {}
                       /\ \A w \in Workers : wpc[w] \in {"enter", "exit?", "team?", "fini",
                                                         "incwfi", "wfi"}
    /\ Awake => \A w \in Workers : /\ wpc[w] \notin {"enter", "gone"}
                                   /\ wpc[w] = "call" => w < nthreads
    /\ mpc = "boot" \/ Awake => fini_count = Cardinality(Through)
    /\ Resting => Through = Workers
    /\ mpc = "over" => \A w \in Workers :
                          /\ wpc[w] \in {"wfi", "clr", "decwfi", "exit?", "gone"}
                          /\ wpc[w] = "wfi" => w \in mcip

\* Whether core k has executed the event that is dispatched.
HasRun(k) ==
    IF k = 0 THEN mpc \in {"count", "join", "retire"}
    ELSE Executing /\ k < team /\ (wpc[k] = "fini" \/ k \in Through)
RunsMatch == runs = [k \in Cores |-> IF HasRun(k) THEN 1 ELSE 0]

EInv == TypeOK /\ CountersExact /\ InterruptsMatch /\ MasterMatches /\ WorkersMatch /\ RunsMatch

-----------------------------------------------------------------------------
(* Counting workers. *)

\* A set of workers has at most NCores - 1 elements.
LEMMA CardFacts ==
  ASSUME NEW S \in SUBSET Workers
  PROVE  /\ IsFiniteSet(S)
         /\ Cardinality(S) \in 0 .. NCores - 1
         /\ Cardinality(S) = NCores - 1 <=> S = Workers
<1>1. IsFiniteSet(Workers) /\ Cardinality(Workers) = NCores - 1
  BY NCoresAssumption, FS_Interval DEF Workers
<1>2. IsFiniteSet(S) /\ Cardinality(S) <= NCores - 1
      /\ (Cardinality(S) = NCores - 1 => S = Workers)
  BY <1>1, FS_Subset
<1>3. Cardinality(S) \in Nat
  BY <1>2, FS_CardinalityType
<1> QED
  BY <1>1, <1>2, <1>3, NCoresAssumption

LEMMA CardAdd ==
  ASSUME NEW S \in SUBSET Workers, NEW w \in Workers, w \notin S
  PROVE  Cardinality(S \cup {w}) = Cardinality(S) + 1
BY CardFacts, FS_AddElement

LEMMA CardRemove ==
  ASSUME NEW S \in SUBSET Workers, NEW w \in Workers, w \in S
  PROVE  Cardinality(S \ {w}) = Cardinality(S) - 1
BY CardFacts, FS_RemoveElement

\* The three sets that are counted are sets of workers.
LEMMA CountedSets ==
  /\ Entered \in SUBSET Workers /\ InWfi \in SUBSET Workers /\ Through \in SUBSET Workers
  /\ Entered' \in SUBSET Workers /\ InWfi' \in SUBSET Workers /\ Through' \in SUBSET Workers
BY DEF Entered, InWfi, Through

-----------------------------------------------------------------------------
LEMMA InitEInv == Init => EInv
<1> SUFFICES ASSUME Init PROVE EInv
  OBVIOUS
<1>1. Entered = {} /\ InWfi = {} /\ Through = {}
  BY DEF Init, Entered, InWfi, Through
<1>2. TypeOK
  <2>1. 0 \in 0 .. NCores - 1 /\ 0 \in 0 .. NCores /\ 0 \in 0 .. 1
    BY NCoresAssumption
  <2> QED
    BY <2>1 DEF Init, TypeOK
<1>3. CountersExact
  BY <1>1, FS_EmptySet DEF Init, CountersExact
<1>4. InterruptsMatch
  BY DEF Init, InterruptsMatch
<1>5. MasterMatches
  BY DEF Init, MasterMatches, Resting
<1>6. WorkersMatch
  BY <1>1, FS_EmptySet DEF Init, WorkersMatch, Resting, Awake
<1>7. RunsMatch
  BY DEF Init, RunsMatch, HasRun, Executing
<1> QED
  BY <1>2, <1>3, <1>4, <1>5, <1>6, <1>7 DEF EInv

\* A worker at work is in a call of the event, or the cluster boots.
LEMMA WorkerAtWork ==
  ASSUME EInv, NEW w \in Workers, wpc[w] \in {"enter", "team?", "call", "fini"}
  PROVE  mpc = "boot" \/ Awake
<1>1. ~Resting
  BY DEF EInv, WorkersMatch, Through
<1>2. mpc # "over"
  BY DEF EInv, WorkersMatch
<1>3. CASE mpc = "call"
  BY <1>1, <1>3 DEF EInv, TypeOK, MasterMatches, Resting, Awake
<1> QED
  BY <1>1, <1>2, <1>3 DEF EInv, MasterMatches, Awake

\* The steps that worker w takes change no position but its own.
LEMMA OtherWorkers ==
  ASSUME NEW w \in Workers, NEW l, TypeOK, WGoto(w, l)
  PROVE  /\ wpc'[w] = l
         /\ \A v \in Workers \ {w} : wpc'[v] = wpc[v]
         /\ DOMAIN wpc' = Workers
BY DEF TypeOK, WGoto

LEMMA EnterKeeps ==
  ASSUME EInv, NEW w \in Workers, Enter(w)
  PROVE  EInv'
<1> USE DEF EInv
<1>0. WGoto(w, "exit?") /\ wpc[w] = "enter"
  BY DEF Enter
<1>1. /\ wpc'[w] = "exit?"
      /\ \A v \in Workers \ {w} : wpc'[v] = wpc[v]
  BY <1>0, OtherWorkers
<1>2. mpc = "boot"
  BY <1>0, WorkerAtWork DEF WorkersMatch
<1>3. Entered' = Entered \cup {w} /\ w \notin Entered
  BY <1>0, <1>1 DEF Entered
<1>4. InWfi' = InWfi /\ Through' = Through
  BY <1>0, <1>1 DEF Enter, irq, InWfi, Through
<1>5. CountersExact'
  BY <1>3, <1>4, CardAdd, CountedSets DEF Enter, CountersExact
<1>6. TypeOK'
  <2>1. workers_in_loop' \in 0 .. NCores - 1
    BY <1>5, CountedSets, CardFacts DEF CountersExact
  <2> QED
    BY <2>1, <1>0 DEF Enter, WGoto, TypeOK, irq, history, master
<1>7. InterruptsMatch'
  BY <1>0, <1>1 DEF Enter, irq, InterruptsMatch
<1>8. MasterMatches'
  BY DEF Enter, irq, master, history, MasterMatches, Resting
<1>9. WorkersMatch'
  BY <1>1, <1>2, <1>4 DEF Enter, irq, master, history, WorkersMatch, Resting, Awake
<1>10. RunsMatch'
  BY <1>2 DEF Enter, irq, master, history, RunsMatch, HasRun, Executing
<1> QED
  BY <1>5, <1>6, <1>7, <1>8, <1>9, <1>10

LEMMA CheckExitKeeps ==
  ASSUME EInv, NEW w \in Workers, CheckExit(w)
  PROVE  EInv'
<1> USE DEF EInv
<1>0. wpc[w] = "exit?" /\ WGoto(w, IF exit_flag THEN "gone" ELSE "team?")
  BY DEF CheckExit
<1>1. /\ wpc'[w] = IF exit_flag THEN "gone" ELSE "team?"
      /\ \A v \in Workers \ {w} : wpc'[v] = wpc[v]
  BY <1>0, OtherWorkers
<1>2. ~Resting
  BY <1>0 DEF WorkersMatch, Through
<1>3. exit_flag <=> mpc = "over"
  BY <1>2 DEF MasterMatches, Resting
<1>4. Entered' = Entered /\ InWfi' = InWfi /\ Through' = Through
  BY <1>0, <1>1 DEF CheckExit, irq, Entered, InWfi, Through
<1>5. CountersExact'
  BY <1>4 DEF CheckExit, eu, CountersExact
<1>6. TypeOK'
  BY <1>0 DEF CheckExit, WGoto, TypeOK, eu, irq, history, master
<1>7. InterruptsMatch'
  BY <1>0, <1>1 DEF CheckExit, irq, InterruptsMatch
<1>8. MasterMatches'
  BY DEF CheckExit, eu, irq, master, history, MasterMatches, Resting
<1>9. WorkersMatch'
  BY <1>0, <1>1, <1>2, <1>3, <1>4
     DEF CheckExit, eu, irq, master, history, WorkersMatch, Resting, Awake
<1>10. RunsMatch'
  BY <1>0, <1>1, <1>4 DEF CheckExit, eu, irq, master, history, RunsMatch, HasRun, Executing, Cores, Workers
<1> QED
  BY <1>5, <1>6, <1>7, <1>8, <1>9, <1>10

LEMMA CheckTeamKeeps ==
  ASSUME EInv, NEW w \in Workers, CheckTeam(w)
  PROVE  EInv'
<1> USE DEF EInv
<1>0. /\ wpc[w] = "team?" /\ w \notin clearing
      /\ WGoto(w, IF w < nthreads THEN "call" ELSE "fini")
  BY DEF CheckTeam
<1>1. /\ wpc'[w] = IF w < nthreads THEN "call" ELSE "fini"
      /\ \A v \in Workers \ {w} : wpc'[v] = wpc[v]
  BY <1>0, OtherWorkers
<1>2. mpc = "boot" \/ Awake
  BY <1>0, WorkerAtWork
<1>3. mpc = "boot" => ~(w < nthreads)
  <2>1. w \in Nat /\ ~(w < 0)
    BY NCoresAssumption DEF Workers
  <2> QED
    BY <2>1 DEF MasterMatches
<1>4. Entered' = Entered /\ InWfi' = InWfi /\ Through' = Through
  BY <1>0, <1>1 DEF CheckTeam, irq, Entered, InWfi, Through
<1>5. CountersExact'
  BY <1>4 DEF CheckTeam, eu, CountersExact
<1>6. TypeOK'
  BY <1>0 DEF CheckTeam, WGoto, TypeOK, eu, irq, history, master
<1>7. InterruptsMatch'
  BY <1>0, <1>1 DEF CheckTeam, irq, InterruptsMatch
<1>8. MasterMatches'
  BY DEF CheckTeam, eu, irq, master, history, MasterMatches, Resting
<1>9. WorkersMatch'
  <2>1. ~Resting /\ mpc # "over"
    BY <1>0 DEF WorkersMatch, Through
  <2> QED
    BY <1>0, <1>1, <1>3, <1>4, <2>1
       DEF CheckTeam, eu, irq, master, history, WorkersMatch, Resting, Awake
<1>10. RunsMatch'
  <2>1. \A k \in Cores : HasRun(k)' = HasRun(k)
    <3> SUFFICES ASSUME NEW k \in Cores PROVE HasRun(k)' = HasRun(k)
      OBVIOUS
    <3>1. CASE k = w
      <4>1. HasRun(k) = FALSE
        BY <1>0, <3>1 DEF HasRun, Through, Workers
      <4>2. team' = nthreads /\ Through' = Through /\ mpc' = mpc
        BY <1>4 DEF CheckTeam, eu, history, master, MasterMatches
      <4>3. w \notin Through /\ w # 0
        BY <1>0 DEF Through, Workers
      <4>4. ~(w < nthreads) \/ wpc'[w] # "fini"
        BY <1>1
      <4> QED
        BY <3>1, <4>1, <4>2, <4>3, <4>4 DEF HasRun
    <3>2. CASE k # w
      BY <1>1, <1>4, <3>2 DEF CheckTeam, eu, irq, master, history, HasRun, Executing, Cores, Workers
    <3> QED
      BY <3>1, <3>2
  <2> QED
    BY <2>1 DEF CheckTeam, history, RunsMatch
<1> QED
  BY <1>5, <1>6, <1>7, <1>8, <1>9, <1>10

LEMMA ExecuteKeeps ==
  ASSUME EInv, NEW w \in Workers, Execute(w)
  PROVE  EInv' /\ w < team /\ ~HasRun(w) /\ runs' = [runs EXCEPT ![w] = 1]
<1> USE DEF EInv
<1>0. wpc[w] = "call" /\ WGoto(w, "fini")
  BY DEF Execute
<1>1. /\ wpc'[w] = "fini"
      /\ \A v \in Workers \ {w} : wpc'[v] = wpc[v]
  BY <1>0, OtherWorkers
<1>2. Awake /\ mpc # "boot"
  BY <1>0, WorkerAtWork DEF WorkersMatch
<1>3. w < team
  BY <1>0, <1>2 DEF WorkersMatch, MasterMatches
<1>4. Entered' = Entered /\ InWfi' = InWfi /\ Through' = Through
  BY <1>0, <1>1 DEF Execute, irq, Entered, InWfi, Through
<1>5. w # 0 /\ w \in Cores /\ w \notin Through
  BY <1>0 DEF Workers, Cores, Through
<1>6. ~HasRun(w)
  BY <1>0, <1>5 DEF HasRun
<1>7. runs' = [runs EXCEPT ![w] = 1]
  <2>1. runs[w] = 0
    BY <1>5, <1>6 DEF RunsMatch
  <2> QED
    BY <2>1 DEF Execute
<1>8. CountersExact'
  BY <1>4 DEF Execute, eu, CountersExact
<1>9. TypeOK'
  <2>1. runs' \in [Cores -> 0 .. 1]
    BY <1>5, <1>7 DEF TypeOK
  <2> QED
    BY <1>0, <2>1 DEF Execute, WGoto, TypeOK, eu, irq, master
<1>10. InterruptsMatch'
  BY <1>0, <1>1 DEF Execute, irq, InterruptsMatch
<1>11. MasterMatches'
  BY DEF Execute, eu, irq, master, MasterMatches, Resting
<1>12. WorkersMatch'
  BY <1>0, <1>1, <1>2, <1>4 DEF Execute, eu, irq, master, WorkersMatch, Resting, Awake
<1>13. RunsMatch'
  <2>1. HasRun(w)'
    BY <1>1, <1>2, <1>3, <1>5 DEF Execute, master, HasRun, Executing, Awake
  <2>2. \A k \in Cores \ {w} : HasRun(k)' = HasRun(k)
    BY <1>1, <1>4 DEF Execute, master, HasRun, Executing, Cores, Workers
  <2> QED
    BY <1>7, <2>1, <2>2 DEF RunsMatch
<1> QED
  BY <1>3, <1>6, <1>7, <1>8, <1>9, <1>10, <1>11, <1>12, <1>13

LEMMA FinishKeeps ==
  ASSUME EInv, NEW w \in Workers, Finish(w)
  PROVE  EInv'
<1> USE DEF EInv
<1>0. wpc[w] = "fini" /\ WGoto(w, "incwfi")
  BY DEF Finish
<1>1. /\ wpc'[w] = "incwfi"
      /\ \A v \in Workers \ {w} : wpc'[v] = wpc[v]
  BY <1>0, OtherWorkers
<1>2. mpc = "boot" \/ Awake
  BY <1>0, WorkerAtWork
<1>3. Through' = Through \cup {w} /\ w \notin Through
  BY <1>0, <1>1 DEF Finish, irq, Through
<1>4. Entered' = Entered /\ InWfi' = InWfi
  BY <1>0, <1>1 DEF Entered, InWfi
<1>5. fini_count' = Cardinality(Through')
  BY <1>2, <1>3, CardAdd, CountedSets DEF Finish, WorkersMatch
<1>6. CountersExact'
  BY <1>4 DEF Finish, CountersExact
<1>7. TypeOK'
  <2>1. fini_count' \in 0 .. NCores - 1
    BY <1>5, CountedSets, CardFacts
  <2> QED
    BY <2>1, <1>0 DEF Finish, WGoto, TypeOK, irq, history, master
<1>8. InterruptsMatch'
  BY <1>0, <1>1 DEF Finish, irq, InterruptsMatch
<1>9. MasterMatches'
  BY <1>2 DEF Finish, irq, master, history, MasterMatches, Resting, Awake
<1>10. WorkersMatch'
  <2>1. ~Resting /\ mpc # "over"
    BY <1>0 DEF WorkersMatch, Through
  <2> QED
    BY <1>0, <1>1, <1>5, <2>1
       DEF Finish, irq, master, history, WorkersMatch, Resting, Awake
<1>11. RunsMatch'
  <2>1. \A k \in Cores : HasRun(k)' = HasRun(k)
    BY <1>0, <1>1, <1>3 DEF Finish, irq, master, history, HasRun, Executing, Cores, Workers
  <2> QED
    BY <2>1 DEF Finish, history, RunsMatch
<1> QED
  BY <1>6, <1>7, <1>8, <1>9, <1>10, <1>11

LEMMA IncWfiKeeps ==
  ASSUME EInv, NEW w \in Workers, IncWfi(w)
  PROVE  EInv'
<1> USE DEF EInv
<1>0. wpc[w] = "incwfi" /\ WGoto(w, "wfi")
  BY DEF IncWfi
<1>1. /\ wpc'[w] = "wfi"
      /\ \A v \in Workers \ {w} : wpc'[v] = wpc[v]
  BY <1>0, OtherWorkers
<1>2. w \notin mcip /\ w \notin clearing
  BY <1>0 DEF InterruptsMatch
<1>3. InWfi' = InWfi \cup {w} /\ w \notin InWfi
  BY <1>0, <1>1 DEF InWfi
<1>4. Entered' = Entered /\ Through' = Through
  BY <1>0, <1>1, <1>2 DEF IncWfi, irq, Entered, Through
<1>5. CountersExact'
  BY <1>3, <1>4, CardAdd, CountedSets DEF IncWfi, CountersExact
<1>6. TypeOK'
  <2>1. workers_wfi' \in 0 .. NCores - 1
    BY <1>5, CountedSets, CardFacts DEF CountersExact
  <2> QED
    BY <2>1, <1>0 DEF IncWfi, WGoto, TypeOK, irq, history, master
<1>7. InterruptsMatch'
  BY <1>1, <1>2 DEF IncWfi, irq, InterruptsMatch
<1>8. MasterMatches'
  BY DEF IncWfi, irq, master, history, MasterMatches, Resting
<1>9. WorkersMatch'
  <2>1. mpc # "over"
    BY <1>0 DEF WorkersMatch
  <2> QED
    BY <1>1, <1>4, <2>1 DEF IncWfi, irq, master, history, WorkersMatch, Resting, Awake
<1>10. RunsMatch'
  <2>1. \A k \in Cores : HasRun(k)' = HasRun(k)
    BY <1>0, <1>1, <1>4 DEF IncWfi, irq, master, history, HasRun, Executing, Cores, Workers, Through
  <2> QED
    BY <2>1 DEF IncWfi, history, RunsMatch
<1> QED
  BY <1>5, <1>6, <1>7, <1>8, <1>9, <1>10

\* A worker between its wakeup and its clear: the cluster neither boots nor
\* rests.
LEMMA WorkerWoken ==
  ASSUME EInv, NEW w \in Workers,
         (wpc[w] \in {"clr", "decwfi"}) \/ (wpc[w] = "wfi" /\ w \in mcip)
  PROVE  mpc # "boot" /\ ~Resting
BY DEF EInv, WorkersMatch, Through

LEMMA WakeKeeps ==
  ASSUME EInv, NEW w \in Workers, Wake(w)
  PROVE  EInv'
<1> USE DEF EInv
<1>0. wpc[w] = "wfi" /\ w \in mcip /\ WGoto(w, "clr")
  BY DEF Wake
<1>1. /\ wpc'[w] = "clr"
      /\ \A v \in Workers \ {w} : wpc'[v] = wpc[v]
  BY <1>0, OtherWorkers
<1>2. mpc # "boot" /\ ~Resting
  BY <1>0, WorkerWoken
<1>3. Entered' = Entered /\ InWfi' = InWfi /\ Through' = Through
  BY <1>0, <1>1 DEF Wake, irq, Entered, InWfi, Through
<1>4. CountersExact'
  BY <1>3 DEF Wake, eu, CountersExact
<1>5. TypeOK'
  BY <1>0 DEF Wake, WGoto, TypeOK, eu, irq, history, master
<1>6. InterruptsMatch'
  BY <1>0, <1>1 DEF Wake, irq, InterruptsMatch
<1>7. MasterMatches'
  BY DEF Wake, eu, irq, master, history, MasterMatches, Resting
<1>8. WorkersMatch'
  BY <1>0, <1>1, <1>2, <1>3 DEF Wake, eu, irq, master, history, WorkersMatch, Resting, Awake
<1>9. RunsMatch'
  <2>1. \A k \in Cores : HasRun(k)' = HasRun(k)
    BY <1>0, <1>1, <1>3 DEF Wake, eu, master, history, HasRun, Executing, Cores, Workers
  <2> QED
    BY <2>1 DEF Wake, history, RunsMatch
<1> QED
  BY <1>4, <1>5, <1>6, <1>7, <1>8, <1>9

LEMMA IssueClearKeeps ==
  ASSUME EInv, NEW w \in Workers, IssueClear(w)
  PROVE  EInv'
<1> USE DEF EInv
<1>0. wpc[w] = "clr" /\ WGoto(w, "decwfi")
  BY DEF IssueClear
<1>1. /\ wpc'[w] = "decwfi"
      /\ \A v \in Workers \ {w} : wpc'[v] = wpc[v]
  BY <1>0, OtherWorkers
<1>2. mpc # "boot" /\ ~Resting
  BY <1>0 DEF WorkersMatch, Through
<1>3. Entered' = Entered /\ InWfi' = InWfi /\ Through' = Through
  BY <1>0, <1>1 DEF IssueClear, Entered, InWfi, Through
<1>4. CountersExact'
  BY <1>3 DEF IssueClear, eu, CountersExact
<1>5. TypeOK'
  BY <1>0 DEF IssueClear, WGoto, TypeOK, eu, history, master
<1>6. InterruptsMatch'
  BY <1>0, <1>1 DEF IssueClear, InterruptsMatch
<1>7. MasterMatches'
  BY DEF IssueClear, eu, master, history, MasterMatches, Resting
<1>8. WorkersMatch'
  BY <1>0, <1>1, <1>2, <1>3 DEF IssueClear, eu, master, history, WorkersMatch, Resting, Awake
<1>9. RunsMatch'
  <2>1. \A k \in Cores : HasRun(k)' = HasRun(k)
    BY <1>0, <1>1, <1>3 DEF IssueClear, eu, master, history, HasRun, Executing, Cores, Workers
  <2> QED
    BY <2>1 DEF IssueClear, history, RunsMatch
<1> QED
  BY <1>4, <1>5, <1>6, <1>7, <1>8, <1>9

LEMMA ClearLandsKeeps ==
  ASSUME EInv, NEW w \in Workers, ClearLands(w)
  PROVE  EInv'
<1> USE DEF EInv
<1>0. /\ w \in clearing /\ mcip' = mcip \ {w} /\ clearing' = clearing \ {w}
      /\ wpc' = wpc
  BY DEF ClearLands
<1>1. wpc[w] \in {"decwfi", "exit?", "team?", "gone"}
  BY <1>0 DEF InterruptsMatch, TypeOK
<1>2. Entered' = Entered /\ InWfi' = InWfi /\ Through' = Through
  BY <1>0, <1>1 DEF Entered, InWfi, Through
<1>3. CountersExact'
  BY <1>2 DEF ClearLands, eu, CountersExact
<1>4. TypeOK'
  BY DEF ClearLands, TypeOK, eu, history, master
<1>5. InterruptsMatch'
  BY <1>0, <1>1 DEF InterruptsMatch
<1>6. MasterMatches'
  BY DEF ClearLands, eu, master, history, MasterMatches, Resting
<1>7. WorkersMatch'
  BY <1>0, <1>1, <1>2 DEF ClearLands, eu, master, history, WorkersMatch, Resting, Awake
<1>8. RunsMatch'
  <2>1. \A k \in Cores : HasRun(k)' = HasRun(k)
    BY <1>0, <1>2 DEF ClearLands, eu, master, history, HasRun, Executing
  <2> QED
    BY <2>1 DEF ClearLands, history, RunsMatch
<1> QED
  BY <1>3, <1>4, <1>5, <1>6, <1>7, <1>8

LEMMA DecWfiKeeps ==
  ASSUME EInv, NEW w \in Workers, DecWfi(w)
  PROVE  EInv'
<1> USE DEF EInv
<1>0. wpc[w] = "decwfi" /\ WGoto(w, "exit?")
  BY DEF DecWfi
<1>1. /\ wpc'[w] = "exit?"
      /\ \A v \in Workers \ {w} : wpc'[v] = wpc[v]
  BY <1>0, OtherWorkers
<1>2. mpc # "boot" /\ ~Resting
  BY <1>0 DEF WorkersMatch, Through
<1>3. InWfi' = InWfi \ {w} /\ w \in InWfi
  BY <1>0, <1>1 DEF InWfi
<1>4. Entered' = Entered /\ Through' = Through
  BY <1>0, <1>1 DEF DecWfi, irq, Entered, Through
<1>5. CountersExact'
  BY <1>3, <1>4, CardRemove, CountedSets DEF DecWfi, CountersExact
<1>6. TypeOK'
  <2>1. workers_wfi' \in 0 .. NCores - 1
    BY <1>5, CountedSets, CardFacts DEF CountersExact
  <2> QED
    BY <2>1, <1>0 DEF DecWfi, WGoto, TypeOK, irq, history, master
<1>7. InterruptsMatch'
  BY <1>0, <1>1 DEF DecWfi, irq, InterruptsMatch
<1>8. MasterMatches'
  BY DEF DecWfi, irq, master, history, MasterMatches, Resting
<1>9. WorkersMatch'
  BY <1>1, <1>2, <1>4 DEF DecWfi, irq, master, history, WorkersMatch, Resting, Awake
<1>10. RunsMatch'
  <2>1. \A k \in Cores : HasRun(k)' = HasRun(k)
    BY <1>0, <1>1, <1>4 DEF DecWfi, irq, master, history, HasRun, Executing, Cores, Workers
  <2> QED
    BY <2>1 DEF DecWfi, history, RunsMatch
<1> QED
  BY <1>5, <1>6, <1>7, <1>8, <1>9, <1>10

-----------------------------------------------------------------------------
(* The steps of the master. *)

\* A step of the master that leaves the workers alone.
LEMMA WorkersAlone ==
  ASSUME EInv, UNCHANGED <<worker, workers_in_loop, workers_wfi>>
  PROVE  /\ Entered' = Entered /\ InWfi' = InWfi /\ Through' = Through
         /\ CountersExact' /\ InterruptsMatch'
<1>1. Entered' = Entered /\ InWfi' = InWfi /\ Through' = Through
  BY DEF worker, irq, Entered, InWfi, Through
<1>2. CountersExact'
  BY <1>1 DEF EInv, CountersExact
<1>3. InterruptsMatch'
  BY DEF EInv, worker, irq, InterruptsMatch
<1> QED
  BY <1>1, <1>2, <1>3

\* While the workers rest, those that are counted in the loop are all of them.
LEMMA RestingWorkers ==
  ASSUME EInv, Resting \/ Awake
  PROVE  workers_in_loop = NCores - 1
<1>1. \A w \in Workers : wpc[w] # "enter"
  BY DEF EInv, WorkersMatch, Through
<1>2. Entered = Workers
  BY <1>1 DEF Entered
<1> QED
  BY <1>2, CardFacts, CountedSets DEF EInv, CountersExact

\* All workers are counted in wfi while they rest: they sleep.
LEMMA RestingSleepers ==
  ASSUME EInv, Resting, workers_wfi = NCores - 1
  PROVE  /\ \A w \in Workers : wpc[w] = "wfi"
         /\ mcip = {} /\ clearing = {}
<1>1. InWfi = Workers
  BY CardFacts, CountedSets DEF EInv, CountersExact
<1>2. \A w \in Workers : wpc[w] = "wfi" /\ w \notin mcip
  BY <1>1 DEF EInv, WorkersMatch, InWfi, Through
<1>3. \A w \in Workers : w \notin clearing
  BY <1>2 DEF EInv, InterruptsMatch
<1> QED
  BY <1>2, <1>3 DEF EInv, TypeOK

LEMMA BootWaitKeeps == ASSUME EInv, BootWait PROVE EInv'
<1> USE DEF EInv
<1>1. /\ Entered' = Entered /\ InWfi' = InWfi /\ Through' = Through
      /\ CountersExact' /\ InterruptsMatch'
  BY WorkersAlone DEF BootWait, eu
<1>2. InWfi = Workers
  BY CardFacts, CountedSets DEF BootWait, CountersExact
<1>3. Through = Workers
  BY <1>2 DEF BootWait, WorkersMatch, InWfi, Through
<1>4. TypeOK'
  BY DEF BootWait, TypeOK, eu, worker, irq, history
<1>5. MasterMatches'
  BY DEF BootWait, eu, history, MasterMatches, Resting
<1>6. WorkersMatch'
  BY <1>1, <1>3 DEF BootWait, WorkersMatch, Resting, Awake
<1>7. RunsMatch'
  BY DEF BootWait, history, RunsMatch, HasRun, Executing
<1> QED
  BY <1>1, <1>4, <1>5, <1>6, <1>7

LEMMA CallKeeps == ASSUME EInv, Call PROVE EInv'
<1> USE DEF EInv
<1>1. /\ Entered' = Entered /\ InWfi' = InWfi /\ Through' = Through
      /\ CountersExact' /\ InterruptsMatch'
  BY WorkersAlone DEF Call, eu
<1>2. TypeOK'
  BY DEF Call, TypeOK, eu, worker, irq, history
<1>3. MasterMatches'
  BY DEF Call, eu, history, MasterMatches, Resting
<1>4. WorkersMatch'
  BY <1>1 DEF Call, WorkersMatch, Resting, Awake
<1>5. RunsMatch'
  BY DEF Call, history, RunsMatch, HasRun, Executing
<1> QED
  BY <1>1, <1>2, <1>3, <1>4, <1>5

LEMMA LoadInLoopKeeps == ASSUME EInv, LoadInLoop PROVE EInv'
<1> USE DEF EInv
<1>1. /\ Entered' = Entered /\ InWfi' = InWfi /\ Through' = Through
      /\ CountersExact' /\ InterruptsMatch'
  BY WorkersAlone DEF LoadInLoop, eu
<1>2. \/ mpc = "push" /\ mpc' = "pushwfi"
      \/ mpc = "wake" /\ mpc' = "wakewfi"
      \/ mpc = "quit" /\ mpc' = "quitwfi"
      \/ mpc = "qwake" /\ mpc' = "qwakewfi"
  BY DEF LoadInLoop, AfterLoad
<1>3. scratch' = NCores - 1
  BY <1>2, RestingWorkers DEF LoadInLoop, Resting
<1>4. TypeOK'
  BY DEF LoadInLoop, TypeOK, eu, worker, irq, history
<1>5. MasterMatches'
  BY <1>2, <1>3 DEF LoadInLoop, eu, history, MasterMatches, Resting
<1>6. WorkersMatch'
  BY <1>1, <1>2 DEF LoadInLoop, WorkersMatch, Resting, Awake
<1>7. RunsMatch'
  BY <1>2 DEF LoadInLoop, history, RunsMatch, HasRun, Executing
<1> QED
  BY <1>1, <1>4, <1>5, <1>6, <1>7

LEMMA PushKeeps == ASSUME EInv, Push PROVE EInv' /\ runs = [k \in Cores |-> 0]
<1> USE DEF EInv
<1>1. /\ Entered' = Entered /\ InWfi' = InWfi /\ Through' = Through
      /\ CountersExact' /\ InterruptsMatch'
  BY WorkersAlone DEF Push
<1>2. TypeOK'
  BY DEF Push, TypeOK, worker, irq
<1>3. MasterMatches'
  BY DEF Push, MasterMatches, Resting
<1>4. WorkersMatch'
  BY <1>1 DEF Push, WorkersMatch, Resting, Awake
<1>5. runs = [k \in Cores |-> 0] /\ RunsMatch'
  BY DEF Push, RunsMatch, HasRun, Executing
<1> QED
  BY <1>1, <1>2, <1>3, <1>4, <1>5

LEMMA RunEmptyKeeps == ASSUME EInv, RunEmpty PROVE EInv'
<1> USE DEF EInv
<1>1. /\ Entered' = Entered /\ InWfi' = InWfi /\ Through' = Through
      /\ CountersExact' /\ InterruptsMatch'
  BY WorkersAlone DEF RunEmpty
<1>2. \/ nthreads = 0 /\ mpc' = "idle" /\ fini_count' = fini_count
      \/ nthreads > 1 /\ mpc' = "wake" /\ fini_count' = 0
      \/ nthreads = 1 /\ mpc' = "call" /\ fini_count' = 0
  BY DEF RunEmpty, TypeOK
<1>3. TypeOK'
  <2>1. 0 \in 0 .. NCores - 1
    BY NCoresAssumption
  <2> QED
    BY <1>2, <2>1 DEF RunEmpty, TypeOK, worker, irq, history
<1>4. MasterMatches'
  BY <1>2 DEF RunEmpty, history, MasterMatches, Resting
<1>5. WorkersMatch'
  <2>1. Resting /\ Resting' /\ ~Awake'
    BY <1>2 DEF RunEmpty, Resting, Awake
  <2> QED
    BY <1>1, <1>2, <2>1 DEF RunEmpty, WorkersMatch
<1>6. RunsMatch'
  <2>1. \A k \in Cores : ~HasRun(k)
    BY DEF RunEmpty, HasRun, Executing
  <2>2. \A k \in Cores \ {0} : ~(k < 1)
    BY DEF Cores
  <2>3. \A k \in Cores : ~HasRun(k)'
    BY <1>2, <2>2 DEF RunEmpty, history, HasRun, Executing, MasterMatches
  <2> QED
    BY <2>1, <2>3 DEF RunEmpty, history, RunsMatch
<1> QED
  BY <1>1, <1>3, <1>4, <1>5, <1>6

LEMMA WakeWorkersKeeps == ASSUME EInv, WakeWorkers PROVE EInv'
<1> USE DEF EInv
<1>1. /\ \/ mpc = "wakewfi" /\ mpc' = "call"
         \/ mpc = "qwakewfi" /\ mpc' = "over"
      /\ Resting /\ workers_wfi = NCores - 1
  BY DEF WakeWorkers, MasterMatches, Resting
<1>2. /\ \A w \in Workers : wpc[w] = "wfi"
      /\ mcip = {} /\ clearing = {}
  BY <1>1, RestingSleepers
<1>3. mcip' = Workers /\ wpc' = wpc /\ clearing' = {}
  BY <1>2 DEF WakeWorkers
<1>4. Entered' = Entered /\ InWfi' = InWfi /\ Through' = {}
  BY <1>2, <1>3 DEF Entered, InWfi, Through
<1>5. CountersExact'
  BY <1>4 DEF WakeWorkers, eu, CountersExact
<1>6. TypeOK'
  BY <1>3 DEF WakeWorkers, TypeOK, eu, history
<1>7. InterruptsMatch'
  BY <1>2, <1>3 DEF InterruptsMatch
<1>8. MasterMatches'
  <2>1. mpc = "wakewfi" => nthreads >= 1
    BY DEF MasterMatches, TypeOK
  <2> QED
    BY <1>1, <2>1 DEF WakeWorkers, eu, history, MasterMatches, Resting
<1>9. WorkersMatch'
  <2>1. CASE mpc = "wakewfi"
    <3>1. fini_count' = 0 /\ nthreads' > 1 /\ mpc' = "call"
      BY <1>1, <2>1 DEF WakeWorkers, eu, MasterMatches
    <3>2. ~Resting'
      BY <3>1, <1>6 DEF Resting, TypeOK
    <3> QED
      BY <1>2, <1>3, <1>4, <3>1, <3>2, FS_EmptySet DEF WorkersMatch, Awake
  <2>2. CASE mpc = "qwakewfi"
    BY <1>1, <1>2, <1>3, <2>2 DEF WorkersMatch, Awake, Resting
  <2> QED
    BY <1>1, <2>1, <2>2
<1>10. RunsMatch'
  <2>1. \A k \in Cores : ~HasRun(k)
    BY <1>1 DEF HasRun, Executing
  <2>2. \A k \in Cores : ~HasRun(k)'
    BY <1>1, <1>2, <1>3, <1>4 DEF HasRun, Executing, Cores, Workers
  <2> QED
    BY <2>1, <2>2 DEF WakeWorkers, history, RunsMatch
<1> QED
  BY <1>5, <1>6, <1>7, <1>8, <1>9, <1>10

LEMMA MasterExecuteKeeps ==
  ASSUME EInv, MasterExecute
  PROVE  EInv' /\ 0 < team /\ ~HasRun(0) /\ runs' = [runs EXCEPT ![0] = 1]
<1> USE DEF EInv
<1>1. /\ Entered' = Entered /\ InWfi' = InWfi /\ Through' = Through
      /\ CountersExact' /\ InterruptsMatch'
  BY WorkersAlone DEF MasterExecute, eu
<1>2. /\ mpc = "call" /\ nthreads >= 1 /\ nthreads \in Nat
      /\ \/ nthreads > 1 /\ mpc' = "count" /\ Awake /\ ~Resting'
         \/ nthreads = 1 /\ mpc' = "retire" /\ Resting /\ ~Awake'
  BY DEF MasterExecute, MasterMatches, TypeOK, Resting, Awake
<1>3. 0 < team /\ ~HasRun(0)
  BY <1>2 DEF HasRun, MasterMatches
<1>4. 0 \in Cores
  BY NCoresAssumption DEF Cores
<1>5. runs' = [runs EXCEPT ![0] = 1]
  <2>1. runs[0] = 0
    BY <1>3, <1>4 DEF RunsMatch
  <2> QED
    BY <2>1 DEF MasterExecute
<1>6. TypeOK'
  <2>1. 1 \in 0 .. 1
    OBVIOUS
  <2>2. runs' \in [Cores -> 0 .. 1]
    BY <1>4, <1>5, <2>1 DEF TypeOK
  <2> QED
    BY <2>2 DEF MasterExecute, TypeOK, eu, worker, irq
<1>7. MasterMatches'
  BY <1>2 DEF MasterExecute, eu, MasterMatches, Resting
<1>8. WorkersMatch'
  BY <1>1, <1>2 DEF MasterExecute, eu, worker, WorkersMatch, Awake
<1>9. RunsMatch'
  <2>1. HasRun(0)'
    BY <1>2 DEF HasRun
  <2>2. \A k \in Cores \ {0} : HasRun(k)' = HasRun(k)
    BY <1>1, <1>2 DEF MasterExecute, worker, HasRun, Executing
  <2> QED
    BY <1>4, <1>5, <2>1, <2>2 DEF RunsMatch
<1> QED
  BY <1>1, <1>3, <1>5, <1>6, <1>7, <1>8, <1>9

LEMMA LoadCountKeeps == ASSUME EInv, LoadCount PROVE EInv'
<1> USE DEF EInv
<1>1. /\ Entered' = Entered /\ InWfi' = InWfi /\ Through' = Through
      /\ CountersExact' /\ InterruptsMatch'
  BY WorkersAlone DEF LoadCount, eu
<1>2. Awake /\ Awake'
  BY DEF LoadCount, eu, MasterMatches, Awake
<1>3. scratch' = NCores - 1
  BY <1>2, RestingWorkers DEF LoadCount
<1>4. TypeOK'
  BY DEF LoadCount, TypeOK, eu, worker, irq, history
<1>5. MasterMatches'
  BY <1>3 DEF LoadCount, eu, history, MasterMatches, Resting
<1>6. WorkersMatch'
  BY <1>1, <1>2 DEF LoadCount, eu, worker, WorkersMatch, Resting
<1>7. RunsMatch'
  <2>1. \A k \in Cores : HasRun(k)' = HasRun(k)
    BY <1>1 DEF LoadCount, worker, history, HasRun, Executing
  <2> QED
    BY <2>1 DEF LoadCount, history, RunsMatch
<1> QED
  BY <1>1, <1>4, <1>5, <1>6, <1>7

\* The count that the master waits for is reached when every worker is
\* through.
LEMMA JoinAllKeeps == ASSUME EInv, JoinAll PROVE EInv'
<1> USE DEF EInv
<1>1. /\ Entered' = Entered /\ InWfi' = InWfi /\ Through' = Through
      /\ CountersExact' /\ InterruptsMatch'
  BY WorkersAlone DEF JoinAll, eu
<1>2. Awake
  BY DEF JoinAll, MasterMatches, Awake
<1>3. Through = Workers
  BY <1>2, CardFacts, CountedSets DEF JoinAll, MasterMatches, WorkersMatch
<1>4. TypeOK'
  BY DEF JoinAll, TypeOK, eu, worker, irq, history
<1>5. MasterMatches'
  <2>1. nthreads >= 1
    BY DEF JoinAll, MasterMatches, TypeOK
  <2> QED
    BY <2>1 DEF JoinAll, eu, history, MasterMatches, Resting
<1>6. WorkersMatch'
  BY <1>1, <1>3 DEF JoinAll, WorkersMatch, Awake
<1>7. RunsMatch'
  <2>1. \A k \in Cores : HasRun(k)' = HasRun(k)
    BY <1>1 DEF JoinAll, worker, history, HasRun, Executing
  <2> QED
    BY <2>1 DEF JoinAll, history, RunsMatch
<1> QED
  BY <1>1, <1>4, <1>5, <1>6, <1>7

LEMMA RetireKeeps ==
  ASSUME EInv, Retire
  PROVE  EInv' /\ runs = [k \in Cores |-> IF k < team THEN 1 ELSE 0]
<1> USE DEF EInv
<1>1. /\ Entered' = Entered /\ InWfi' = InWfi /\ Through' = Through
      /\ CountersExact' /\ InterruptsMatch'
  BY WorkersAlone DEF Retire
<1>2. mpc = "retire" /\ mpc' = "idle"
  BY DEF Retire
<1>3. runs = [k \in Cores |-> IF k < team THEN 1 ELSE 0]
  <2>1. \A k \in Cores \ {0} : k \in Workers
    BY DEF Cores, Workers
  <2>2. Through = Workers
    BY <1>2 DEF WorkersMatch, Resting
  <2>3. 0 < team
    BY <1>2 DEF MasterMatches, TypeOK
  <2>4. \A k \in Cores : HasRun(k) <=> k < team
    BY <1>2, <2>1, <2>2, <2>3 DEF HasRun, Executing
  <2> QED
    BY <2>4 DEF RunsMatch
<1>4. TypeOK'
  <2>1. 0 \in 0 .. NCores /\ 0 \in 0 .. 1
    BY NCoresAssumption
  <2> QED
    BY <2>1 DEF Retire, TypeOK, worker, irq
<1>5. MasterMatches'
  BY DEF Retire, MasterMatches, Resting
<1>6. WorkersMatch'
  BY <1>1, <1>2 DEF WorkersMatch, Resting, Awake
<1>7. RunsMatch'
  BY <1>2 DEF Retire, RunsMatch, HasRun, Executing
<1> QED
  BY <1>1, <1>3, <1>4, <1>5, <1>6, <1>7

LEMMA SetExitKeeps == ASSUME EInv, SetExit PROVE EInv'
<1> USE DEF EInv
<1>1. /\ Entered' = Entered /\ InWfi' = InWfi /\ Through' = Through
      /\ CountersExact' /\ InterruptsMatch'
  BY WorkersAlone DEF SetExit
<1>2. TypeOK'
  BY DEF SetExit, TypeOK, worker, irq, history
<1>3. MasterMatches'
  BY DEF SetExit, history, MasterMatches, Resting
<1>4. WorkersMatch'
  BY <1>1 DEF SetExit, WorkersMatch, Resting, Awake
<1>5. RunsMatch'
  BY DEF SetExit, history, RunsMatch, HasRun, Executing
<1> QED
  BY <1>1, <1>2, <1>3, <1>4, <1>5

-----------------------------------------------------------------------------
LEMMA StepEInv == EInv /\ [Next]_vars => EInv'
<1> SUFFICES ASSUME EInv, [Next]_vars PROVE EInv'
  OBVIOUS
<1>1. ASSUME NEW w \in Workers, Worker(w) PROVE EInv'
  BY <1>1, EnterKeeps, CheckExitKeeps, CheckTeamKeeps, ExecuteKeeps, FinishKeeps,
     IncWfiKeeps, WakeKeeps, IssueClearKeeps, DecWfiKeeps DEF Worker
<1>2. ASSUME NEW w \in Workers, ClearLands(w) PROVE EInv'
  BY <1>2, ClearLandsKeeps
<1>3. ASSUME MasterInCall PROVE EInv'
  BY <1>3, BootWaitKeeps, LoadInLoopKeeps, PushKeeps, RunEmptyKeeps, WakeWorkersKeeps,
     MasterExecuteKeeps, LoadCountKeeps, JoinAllKeeps, RetireKeeps, SetExitKeeps
     DEF MasterInCall
<1>4. CASE Call
  BY <1>4, CallKeeps
<1>5. CASE UNCHANGED vars
  <2>1. Entered' = Entered /\ InWfi' = InWfi /\ Through' = Through
    BY <1>5 DEF vars, worker, irq, Entered, InWfi, Through
  <2>2. /\ TypeOK' = TypeOK /\ CountersExact' = CountersExact
        /\ InterruptsMatch' = InterruptsMatch /\ MasterMatches' = MasterMatches
        /\ RunsMatch' = RunsMatch
    BY <1>5, <2>1 DEF vars, eu, worker, irq, master, history, TypeOK, CountersExact,
       InterruptsMatch, MasterMatches, RunsMatch, HasRun, Executing, Resting
  <2>3. WorkersMatch' = WorkersMatch
    BY <1>5, <2>1 DEF vars, eu, worker, irq, master, history, WorkersMatch, Resting, Awake
  <2> QED
    BY <2>2, <2>3 DEF EInv
<1>6. CASE Over
  BY <1>5, <1>6 DEF Over
<1> QED
  BY <1>1, <1>2, <1>3, <1>4, <1>5, <1>6 DEF Next

\* EInv is an invariant of the event unit.
THEOREM EventUnitInvariant == Spec => []EInv
BY InitEInv, StepEInv, PTL DEF Spec

\* The counters of eu_t stay within the range of the workers they count, and no
\* core executes an event twice.
THEOREM EventUnitTypes == Spec => []TypeOK
<1>1. EInv => TypeOK
  BY DEF EInv
<1> QED
  BY <1>1, EventUnitInvariant, PTL

\* wake_workers sets the interrupts only of workers that sleep, with no
\* interrupt pending and no clear in flight: no wakeup is lost.
THEOREM WakeupsFindSleepers == Spec => []WakeFindsSleepers
<1>1. EInv => WakeFindsSleepers
  <2> SUFFICES ASSUME EInv, mpc \in {"wakewfi", "qwakewfi"}, workers_wfi = scratch
               PROVE  /\ \A w \in Workers : wpc[w] = "wfi"
                      /\ mcip = {} /\ clearing = {}
    BY DEF WakeFindsSleepers
  <2>1. Resting /\ workers_wfi = NCores - 1
    BY DEF EInv, MasterMatches, Resting
  <2> QED
    BY <2>1, RestingSleepers
<1> QED
  BY <1>1, EventUnitInvariant, PTL

-----------------------------------------------------------------------------
(* The refinement of ForkJoin. *)

LEMMA InitRefines == Init => Abs!Init
BY DEF Init, Abs!Init, Cores, Abs!Cores

LEMMA StepRefines == EInv /\ [Next]_vars => [Abs!Next]_(Abs!vars)
<1> SUFFICES ASSUME EInv, [Next]_vars PROVE [Abs!Next]_(Abs!vars)
  OBVIOUS
<1>0. Abs!Cores = Cores
  BY DEF Cores, Abs!Cores
<1>1. ASSUME NEW k \in Cores, k < team, ~HasRun(k), runs' = [runs EXCEPT ![k] = 1],
             team' = team
      PROVE  Abs!Next
  <2>1. runs[k] = 0
    BY <1>1 DEF EInv, RunsMatch
  <2> QED
    BY <1>0, <1>1, <2>1 DEF Abs!Next, Abs!Run
<1>2. ASSUME NEW w \in Workers, Execute(w) PROVE Abs!Next
  <2>1. w \in Cores
    BY DEF Workers, Cores
  <2> QED
    BY <1>1, <1>2, <2>1, ExecuteKeeps DEF Execute
<1>3. CASE MasterExecute
  <2>1. 0 \in Cores
    BY NCoresAssumption DEF Cores
  <2> QED
    BY <1>1, <1>3, <2>1, MasterExecuteKeeps DEF MasterExecute
<1>4. CASE Push
  <2>1. PICK n \in 0 .. NCores : team' = n /\ runs' = runs
    BY <1>4 DEF Push
  <2>2. \A k \in Cores : runs[k] = 0
    BY <1>4, PushKeeps
  <2>3. Abs!Fork(n)
    BY <1>0, <2>1, <2>2 DEF Abs!Fork
  <2> QED
    BY <2>3 DEF Abs!Next
<1>5. CASE Retire
  <2>1. \A k \in Cores : runs[k] = IF k < team THEN 1 ELSE 0
    BY <1>5, RetireKeeps
  <2>2. Abs!Join
    BY <1>0, <1>5, <2>1 DEF Retire, Abs!Join
  <2> QED
    BY <2>2 DEF Abs!Next
<1>6. CASE UNCHANGED history
  BY <1>6 DEF history, Abs!vars
<1>7. ASSUME NEW w \in Workers, Worker(w) \/ ClearLands(w), ~Execute(w)
      PROVE  UNCHANGED history
  BY <1>7 DEF Worker, Enter, CheckExit, CheckTeam, Finish, IncWfi, Wake, IssueClear, DecWfi,
     ClearLands
<1>8. ASSUME MasterInCall, ~MasterExecute, ~Push, ~Retire PROVE UNCHANGED history
  BY <1>8 DEF MasterInCall, BootWait, LoadInLoop, RunEmpty, WakeWorkers, LoadCount, JoinAll,
     SetExit
<1>9. ASSUME Call \/ Over \/ UNCHANGED vars PROVE UNCHANGED history
  BY <1>9 DEF Call, Over, vars
<1> QED
  BY <1>2, <1>3, <1>4, <1>5, <1>6, <1>7, <1>8, <1>9 DEF Next

\* The event unit implements fork and join: each core of the team executes the
\* event exactly once, nobody else does, and the master returns only then.
THEOREM EventUnitCorrect == Spec => ImplementsForkJoin
<1>1. Init /\ [][Next]_vars /\ []EInv => Abs!Init /\ [][Abs!Next]_(Abs!vars)
  BY InitRefines, StepRefines, PTL
<1> QED
  BY <1>1, EventUnitInvariant, PTL DEF Spec, ImplementsForkJoin, Abs!Spec

=============================================================================
