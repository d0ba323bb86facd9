------------------------- MODULE GlobalBarrierProofs -------------------------
(***************************************************************************)
(* Proofs about the barriers, for any clusters and cores.  First the       *)
(* software barrier the DM cores of the clusters meet in                   *)
(* (snrt_partial_barrier, any number of callers); then, with its           *)
(* invariant, the global barrier: it holds every core until all have come, *)
(* and the two uses of the hardware barrier never mix.  What it rests on   *)
(* and what rests on it: the barrier unit implements the abstract barrier, *)
(* and the DMA reduction of two clusters is complete.                      *)
(***************************************************************************)
EXTENDS MCGlobalBarrier, FiniteSetTheorems, TLAPS

-----------------------------------------------------------------------------
(* snrt_partial_barrier: the callers are the DM cores of the clusters. *)

\* The inductive invariant of the software barrier.
IInv == SW!IInv

\* The instance counts sets as FiniteSets does.
LEMMA SwCardinality == \A S : SW!Cardinality(S) = Cardinality(S)
BY DEF SW!Cardinality, SW!IsFiniteSet, Cardinality, IsFiniteSet

\* The number of callers is a positive number.
LEMMA SwNumber == SW!N \in Nat /\ SW!N >= 1
<1>1. SW!N \in Nat
  BY SwCardinality, SwCardinality, ShapeAssumption, FS_CardinalityType DEF SW!N
<1>2. SW!N # 0
  BY SwCardinality, SwCardinality, ShapeAssumption, FS_EmptySet DEF SW!N
<1> QED
  BY <1>1, <1>2

\* Counted is finite and cnt never exceeds the number of callers.
LEMMA SwCountedFinite ==
  /\ IsFiniteSet(SW!Counted)
  /\ Cardinality(SW!Counted) \in Nat
  /\ Cardinality(SW!Counted) <= SW!N
<1>1. SW!Counted \in SUBSET Clusters
  BY DEF SW!Counted
<1> QED
  BY SwCardinality, SwCardinality, <1>1, ShapeAssumption, FS_Subset, FS_CardinalityType DEF SW!N

\* Counting one more caller in.
LEMMA SwCountOneMore ==
  ASSUME NEW h \in Clusters, h \notin SW!Counted
  PROVE  /\ Cardinality(SW!Counted \cup {h}) = Cardinality(SW!Counted) + 1
         /\ Cardinality(SW!Counted) + 1 <= SW!N
         /\ Cardinality(SW!Counted) + 1 = SW!N => SW!Counted \cup {h} = Clusters
<1>1. SW!Counted \cup {h} \in SUBSET Clusters
  BY DEF SW!Counted
<1>2. Cardinality(SW!Counted \cup {h}) = Cardinality(SW!Counted) + 1
  BY SwCountedFinite, FS_AddElement
<1> QED
  BY SwCardinality, SwCardinality, <1>1, <1>2, ShapeAssumption, FS_Subset DEF SW!N

\* The iteration really changes when it is bumped, also at the wrap.
LEMMA SwIncIt ==
  ASSUME NEW i \in SW!Iterations
  PROVE  SW!IncIt(i) \in SW!Iterations /\ SW!IncIt(i) # i
BY ShapeAssumption DEF SW!Iterations, SW!IncIt

LEMMA SwInitIInv == SW!Init => SW!IInv
<1> SUFFICES ASSUME SW!Init PROVE SW!IInv
  OBVIOUS
<1>1. SW!TypeOK
  BY SwNumber, ShapeAssumption DEF SW!Init, SW!TypeOK, SW!PCs, SW!Iterations
<1>2. SW!Counted = {}
  BY DEF SW!Init, SW!Counted
<1>3. SW!CountExact
  BY SwCardinality, SwCardinality, <1>2, FS_EmptySet DEF SW!Init, SW!CountExact
<1> QED
  BY <1>1, <1>3 DEF SW!Init, SW!IInv, SW!FreshPrev, SW!LastIsAlone

LEMMA SwStepIInv == SW!IInv /\ [SW!Next]_sw => SW!IInv'
<1> SUFFICES ASSUME SW!IInv, [SW!Next]_sw PROVE SW!IInv'
  OBVIOUS
<1> USE DEF SW!IInv
<1>1. ASSUME NEW h \in Clusters, SW!Remember(h) PROVE SW!IInv'
  <2>1. SW!TypeOK'
    BY <1>1 DEF SW!Remember, SW!TypeOK, SW!PCs
  <2>2. SW!Counted' = SW!Counted
    BY <1>1 DEF SW!Remember, SW!TypeOK, SW!Counted, SW!PCs
  <2>3. SW!FreshPrev' /\ SW!LastIsAlone'
    BY <1>1 DEF SW!Remember, SW!TypeOK, SW!FreshPrev, SW!LastIsAlone, SW!PCs
  <2> QED
    BY SwCardinality, SwCardinality, <1>1, <2>1, <2>2, <2>3 DEF SW!Remember, SW!CountExact
<1>2. ASSUME NEW h \in Clusters, SW!Add(h) PROVE SW!IInv'
  <2>1. h \notin SW!Counted
    BY <1>2 DEF SW!Add, SW!Counted
  <2>2. \A g \in Clusters : pc[g] \notin {"reset", "bump"}
    BY <1>2 DEF SW!Add, SW!LastIsAlone
  <2>3. SW!Counted' = SW!Counted \cup {h}
    BY <1>2, <2>2 DEF SW!Add, SW!TypeOK, SW!Counted, SW!PCs, SW!FreshPrev
  <2>4. cnt' = Cardinality(SW!Counted')
    BY SwCardinality, SwCardinality, <1>2, <2>1, <2>3, SwCountOneMore DEF SW!Add, SW!CountExact
  <2>5. SW!TypeOK'
    <3>1. Cardinality(SW!Counted) + 1 <= SW!N
      BY <2>1, SwCountOneMore
    <3>2. cnt = Cardinality(SW!Counted) /\ cnt \in Nat
      BY SwCardinality, SwCardinality, SwCountedFinite DEF SW!CountExact
    <3>3. cnt + 1 \in 0 .. SW!N
      BY <3>1, <3>2, SwNumber
    <3> QED
      BY <1>2, <3>3 DEF SW!Add, SW!TypeOK, SW!PCs
  <2>6. SW!FreshPrev'
    BY <1>2 DEF SW!Add, SW!TypeOK, SW!FreshPrev
  <2>7. SW!LastIsAlone'
    <3>1. CASE cnt + 1 = SW!N
      <4>1. SW!Counted \cup {h} = Clusters
        BY SwCardinality, SwCardinality, <3>1, <2>1, SwCountOneMore DEF SW!CountExact
      <4>2. \A g \in Clusters \ {h} : pc[g] = "spin" /\ prev_it[g] = iteration
        BY <4>1, <2>2 DEF SW!Counted
      <4> QED
        BY <1>2, <4>2, <2>2 DEF SW!Add, SW!TypeOK, SW!LastIsAlone
    <3>2. CASE cnt + 1 # SW!N
      BY <1>2, <3>2, <2>2 DEF SW!Add, SW!TypeOK, SW!LastIsAlone
    <3> QED
      BY <3>1, <3>2
  <2> QED
    BY SwCardinality, SwCardinality, <2>4, <2>5, <2>6, <2>7 DEF SW!CountExact
<1>3. ASSUME NEW h \in Clusters, SW!Reset(h) PROVE SW!IInv'
  <2>1. SW!TypeOK'
    BY <1>3, SwNumber DEF SW!Reset, SW!TypeOK, SW!PCs
  <2>2. SW!Counted' = {}
    BY <1>3 DEF SW!Reset, SW!TypeOK, SW!Counted
  <2>3. SW!CountExact'
    BY SwCardinality, SwCardinality, <1>3, <2>2, FS_EmptySet DEF SW!Reset, SW!CountExact
  <2>4. SW!FreshPrev' /\ SW!LastIsAlone'
    BY <1>3 DEF SW!Reset, SW!TypeOK, SW!FreshPrev, SW!LastIsAlone
  <2> QED
    BY <2>1, <2>3, <2>4
<1>4. ASSUME NEW h \in Clusters, SW!Bump(h) PROVE SW!IInv'
  <2>1. SW!IncIt(iteration) \in SW!Iterations /\ SW!IncIt(iteration) # iteration
    BY SwIncIt DEF SW!TypeOK
  <2>2. SW!TypeOK'
    BY <1>4, <2>1 DEF SW!Bump, SW!TypeOK, SW!PCs
  <2>3. \A g \in Clusters \ {h} : pc[g] = "spin" /\ prev_it[g] = iteration
    BY <1>4 DEF SW!Bump, SW!LastIsAlone
  <2>4. SW!Counted = {} /\ SW!Counted' = {}
    BY <1>4, <2>1, <2>3 DEF SW!Bump, SW!TypeOK, SW!Counted
  <2>5. SW!FreshPrev' /\ SW!LastIsAlone'
    BY <1>4, <2>3 DEF SW!Bump, SW!TypeOK, SW!FreshPrev, SW!LastIsAlone
  <2> QED
    BY SwCardinality, SwCardinality, <1>4, <2>2, <2>4, <2>5 DEF SW!Bump, SW!CountExact
<1>5. ASSUME NEW h \in Clusters, SW!Spin(h) PROVE SW!IInv'
  <2>1. SW!TypeOK'
    BY <1>5 DEF SW!Spin, SW!TypeOK, SW!PCs
  <2>2. SW!Counted' = SW!Counted
    BY <1>5 DEF SW!Spin, SW!TypeOK, SW!Counted
  <2>3. SW!FreshPrev' /\ SW!LastIsAlone'
    BY <1>5 DEF SW!Spin, SW!TypeOK, SW!FreshPrev, SW!LastIsAlone
  <2> QED
    BY SwCardinality, SwCardinality, <1>5, <2>1, <2>2, <2>3 DEF SW!Spin, SW!CountExact
<1>6. ASSUME NEW h \in Clusters, SW!Return(h) PROVE SW!IInv'
  <2>1. SW!TypeOK'
    BY <1>6 DEF SW!Return, SW!TypeOK, SW!PCs
  <2>2. SW!Counted' = SW!Counted
    BY <1>6 DEF SW!Return, SW!TypeOK, SW!Counted
  <2>3. SW!FreshPrev' /\ SW!LastIsAlone'
    BY <1>6 DEF SW!Return, SW!TypeOK, SW!FreshPrev, SW!LastIsAlone
  <2> QED
    BY SwCardinality, SwCardinality, <1>6, <2>1, <2>2, <2>3 DEF SW!Return, SW!CountExact
<1>7. CASE UNCHANGED sw
  BY <1>7 DEF sw, SW!TypeOK, SW!CountExact, SW!Counted, SW!FreshPrev, SW!LastIsAlone
<1> QED
  BY <1>1, <1>2, <1>3, <1>4, <1>5, <1>6, <1>7 DEF SW!Next, SW!Waiting

(***************************************************************************)
(* cnt, the iteration and the harts' positions always fit together: cnt    *)
(* counts exactly the harts waiting in the current iteration, and the hart *)
(* that closes it is alone (snrt_partial_barrier).                         *)
(***************************************************************************)
THEOREM SwBarrierInvariant == SW!Spec => []IInv
<1> QED
  BY SwInitIInv, SwStepIInv, PTL DEF SW!Spec, SW!vars, sw, IInv

-----------------------------------------------------------------------------
LEMMA SwInitRefines == SW!Init => SW!Abs!Init
BY DEF SW!Init, SW!Abs!Init, SW!Phase

LEMMA SwStepRefines ==
  SW!IInv /\ [SW!Next]_sw => [SW!Abs!Next]_[h \in Clusters |-> SW!Phase(h)]
<1> SUFFICES ASSUME SW!IInv, [SW!Next]_sw
             PROVE  SW!Abs!Next \/ UNCHANGED [h \in Clusters |-> SW!Phase(h)]
  OBVIOUS
<1> USE DEF SW!IInv, SW!TypeOK, SW!PCs
<1>1. ASSUME NEW h \in Clusters, SW!Remember(h) PROVE SW!Abs!Next
  <2>1. SW!Abs!Enter({h})
    BY <1>1 DEF SW!Remember, SW!Phase, SW!Abs!Enter
  <2> QED
    BY <2>1 DEF SW!Abs!Next
<1>2. ASSUME NEW h \in Clusters, SW!Add(h) PROVE UNCHANGED [g \in Clusters |-> SW!Phase(g)]
  BY <1>2 DEF SW!Add, SW!Phase, SW!FreshPrev
<1>3. ASSUME NEW h \in Clusters, SW!Reset(h) PROVE UNCHANGED [g \in Clusters |-> SW!Phase(g)]
  BY <1>3 DEF SW!Reset, SW!Phase
<1>4. ASSUME NEW h \in Clusters, SW!Bump(h) PROVE SW!Abs!Release
  <2>1. SW!IncIt(iteration) # iteration
    BY SwIncIt
  <2>2. \A g \in Clusters \ {h} : pc[g] = "spin" /\ prev_it[g] = iteration
    BY <1>4 DEF SW!Bump, SW!LastIsAlone
  <2>3. \A g \in Clusters : SW!Phase(g) = "in" /\ SW!Phase(g)' = "out"
    BY <1>4, <2>1, <2>2 DEF SW!Bump, SW!Phase
  <2> QED
    BY <2>3 DEF SW!Abs!Release
<1>5. ASSUME NEW h \in Clusters, SW!Spin(h) PROVE UNCHANGED [g \in Clusters |-> SW!Phase(g)]
  BY <1>5 DEF SW!Spin, SW!Phase
<1>6. ASSUME NEW h \in Clusters, SW!Return(h) PROVE UNCHANGED [g \in Clusters |-> SW!Phase(g)]
  BY <1>6 DEF SW!Return, SW!Phase
<1>7. CASE UNCHANGED sw
  BY <1>7 DEF sw, SW!Phase
<1> QED
  BY <1>1, <1>2, <1>3, <1>4, <1>5, <1>6, <1>7 DEF SW!Next, SW!Waiting, SW!Abs!Next

(***************************************************************************)
(* snrt_partial_barrier never lets a hart return before all n harts have   *)
(* called it, for every n and every width of the iteration counter.        *)
(***************************************************************************)
THEOREM SwBarrierCorrect == SW!Spec => SW!ImplementsBarrier
<1> QED
  BY SwInitRefines, SwStepRefines, SwBarrierInvariant, PTL
     DEF SW!Spec, SW!ImplementsBarrier, SW!Abs!Spec, SW!vars, sw, IInv

-----------------------------------------------------------------------------
(* The inductive invariant. *)

\* What the proof needs of the positions and the history variables.
Positions ==
    /\ at \in [Cores -> {"out", "added", "hw1", "mid", "hw2", "done"}]
    /\ arrived \in [Cores -> Nat]
    /\ returns \in [Cores -> Nat]

InBarrier(x) == at[x] \in {"hw1", "mid", "hw2", "done"}
ArrivedExact == \A x \in Cores : arrived[x] = returns[x] + (IF InBarrier(x) THEN 1 ELSE 0)

\* How often core x was released by the hardware barrier.
HwCount(x) == 2 * returns[x] + (IF at[x] \in {"mid", "hw2"} THEN 1
                                ELSE IF at[x] = "done" THEN 2 ELSE 0)
HwInStep == \A x, y \in Cores : x[1] = y[1] => HwCount(x) = HwCount(y)

\* The DM core is in the software barrier only between the hardware barriers.
SwInside == \A c \in Clusters : pc[c] # "out" => at[DM(c)] = "mid"

\* How often the software barrier has let cluster c go.
LetGo(c) == pc[c] = "ret" \/ (pc[c] = "spin" /\ prev_it[c] # iteration)
SwCount(c) == returns[DM(c)] + (IF at[DM(c)] \in {"hw2", "done"} \/ LetGo(c) THEN 1 ELSE 0)
SwInStep == \A c, d \in Clusters : SwCount(c) = SwCount(d)

GInv == Positions /\ ArrivedExact /\ HwInStep /\ SwInside /\ SwInStep /\ SW!IInv

-----------------------------------------------------------------------------
\* The parts of a core.
LEMMA CoreParts ==
  /\ \A x \in Cores : x[1] \in Clusters /\ x[2] \in CoreIds /\ x = <<x[1], x[2]>>
  /\ \A c \in Clusters, k \in CoreIds : <<c, k>> \in Cores /\ <<c, k>>[1] = c /\ <<c, k>>[2] = k
  /\ \A c \in Clusters : DM(c) \in Cores /\ DM(c)[1] = c /\ DM(c)[2] = DmCore
  /\ \A c, d \in Clusters : DM(c) = DM(d) => c = d
BY ShapeAssumption DEF Cores, DM

\* The counts are natural numbers.
LEMMA CountTypes ==
  ASSUME Positions
  PROVE  /\ \A x \in Cores : HwCount(x) \in Nat
         /\ \A c \in Clusters : SwCount(c) \in Nat
BY CoreParts DEF Positions, HwCount, SwCount

LEMMA InitGInv == Init => GInv
<1> SUFFICES ASSUME Init PROVE GInv
  OBVIOUS
<1>1. SW!IInv
  BY SwInitIInv DEF Init
<1>2. Positions
  BY DEF Init, Positions
<1>3. ArrivedExact
  BY DEF Init, ArrivedExact, InBarrier
<1>4. HwInStep
  BY CoreParts DEF Init, HwInStep, HwCount
<1>5. SwInside
  BY DEF Init, SW!Init, SwInside
<1>6. SwInStep
  BY CoreParts DEF Init, SW!Init, SwInStep, SwCount, LetGo
<1> QED
  BY <1>1, <1>2, <1>3, <1>4, <1>5, <1>6 DEF GInv

-----------------------------------------------------------------------------
\* A step of one core that is neither a release nor in the software barrier
\* keeps the counts.
LEMMA ContributeKeeps ==
  ASSUME GInv, NEW x \in Cores, Contribute(x)
  PROVE  GInv'
<1> USE DEF GInv
<1>1. /\ at[x] = "out" /\ at' = [at EXCEPT ![x] = "added"]
      /\ UNCHANGED <<cnt, iteration, pc, prev_it, arrived, returns>>
  BY DEF Contribute, sw, history
<1>2. Positions' /\ ArrivedExact'
  BY <1>1 DEF Positions, ArrivedExact, InBarrier
<1>3. \A y \in Cores : HwCount(y)' = HwCount(y)
  BY <1>1 DEF Positions, HwCount
<1>4. HwInStep'
  BY <1>3 DEF HwInStep
<1>5. \A c \in Clusters : SwCount(c)' = SwCount(c)
  BY <1>1, CoreParts DEF Positions, SwCount, LetGo
<1>6. SwInside'
  BY <1>1, CoreParts DEF SwInside, Positions
<1>7. SwInStep'
  BY <1>5 DEF SwInStep
<1>8. SW!IInv'
  BY <1>1 DEF SW!IInv, SW!TypeOK, SW!CountExact, SW!Counted, SW!FreshPrev, SW!LastIsAlone
<1> QED
  BY <1>2, <1>4, <1>6, <1>7, <1>8

LEMMA ArriveKeeps ==
  ASSUME GInv, NEW x \in Cores, Arrive(x)
  PROVE  GInv'
<1> USE DEF GInv
<1>1. /\ at[x] = "added" /\ at' = [at EXCEPT ![x] = "hw1"]
      /\ arrived' = [arrived EXCEPT ![x] = @ + 1]
      /\ UNCHANGED <<cnt, iteration, pc, prev_it, returns>>
  BY DEF Arrive, sw
<1>2. Positions' /\ ArrivedExact'
  BY <1>1 DEF Positions, ArrivedExact, InBarrier
<1>3. \A y \in Cores : HwCount(y)' = HwCount(y)
  BY <1>1 DEF Positions, HwCount
<1>4. HwInStep'
  BY <1>3 DEF HwInStep
<1>5. \A c \in Clusters : SwCount(c)' = SwCount(c)
  BY <1>1, CoreParts DEF Positions, SwCount, LetGo
<1>6. SwInside'
  BY <1>1, CoreParts DEF SwInside, Positions
<1>7. SwInStep'
  BY <1>5 DEF SwInStep
<1>8. SW!IInv'
  BY <1>1 DEF SW!IInv, SW!TypeOK, SW!CountExact, SW!Counted, SW!FreshPrev, SW!LastIsAlone
<1> QED
  BY <1>2, <1>4, <1>6, <1>7, <1>8

LEMMA SecondHwKeeps ==
  ASSUME GInv, NEW x \in Cores, SecondHw(x)
  PROVE  GInv'
<1> USE DEF GInv
<1>1. /\ at[x] = "mid" /\ x[2] # DmCore /\ at' = [at EXCEPT ![x] = "hw2"]
      /\ UNCHANGED <<cnt, iteration, pc, prev_it, arrived, returns>>
  BY DEF SecondHw, sw, history
<1>2. Positions' /\ ArrivedExact'
  BY <1>1 DEF Positions, ArrivedExact, InBarrier
<1>3. \A y \in Cores : HwCount(y)' = HwCount(y)
  BY <1>1 DEF Positions, HwCount
<1>4. HwInStep'
  BY <1>3 DEF HwInStep
<1>5. \A c \in Clusters : at'[DM(c)] = at[DM(c)]
  BY <1>1, CoreParts DEF Positions
<1>6. \A c \in Clusters : SwCount(c)' = SwCount(c)
  BY <1>1, <1>5, CoreParts DEF SwCount, LetGo, DM
<1>7. SwInside'
  BY <1>1, <1>5 DEF SwInside, DM
<1>8. SwInStep'
  BY <1>6 DEF SwInStep
<1>9. SW!IInv'
  BY <1>1 DEF SW!IInv, SW!TypeOK, SW!CountExact, SW!Counted, SW!FreshPrev, SW!LastIsAlone
<1> QED
  BY <1>2, <1>4, <1>7, <1>8, <1>9

LEMMA ReturnKeeps ==
  ASSUME GInv, NEW x \in Cores, Return(x)
  PROVE  GInv'
<1> USE DEF GInv
<1>1. /\ at[x] = "done" /\ at' = [at EXCEPT ![x] = "out"]
      /\ returns' = [returns EXCEPT ![x] = @ + 1]
      /\ UNCHANGED <<cnt, iteration, pc, prev_it, arrived>>
  BY DEF Return, sw
<1>2. Positions' /\ ArrivedExact'
  BY <1>1 DEF Positions, ArrivedExact, InBarrier
<1>3. \A y \in Cores : HwCount(y)' = HwCount(y)
  BY <1>1 DEF Positions, HwCount
<1>4. HwInStep'
  BY <1>3 DEF HwInStep
<1>5. ASSUME NEW c \in Clusters PROVE SwCount(c)' = SwCount(c)
  <2>1. CASE x = DM(c)
    <3>1. ~LetGo(c) /\ ~LetGo(c)'
      BY <1>1, <2>1 DEF SwInside, LetGo
    <3>2. at[DM(c)] = "done" /\ at'[DM(c)] = "out" /\ returns'[DM(c)] = returns[DM(c)] + 1
      BY <1>1, <2>1 DEF Positions
    <3>3. returns[DM(c)] \in Nat
      BY CoreParts DEF Positions
    <3> QED
      BY <3>1, <3>2, <3>3 DEF SwCount, DM
  <2>2. CASE x # DM(c)
    <3>1. at'[DM(c)] = at[DM(c)] /\ returns'[DM(c)] = returns[DM(c)]
      BY <1>1, <2>2, CoreParts DEF Positions
    <3> QED
      BY <1>1, <3>1 DEF SwCount, LetGo, DM
  <2> QED
    BY <2>1, <2>2
<1>6. SwInside'
  BY <1>1, CoreParts DEF SwInside, Positions
<1>7. SwInStep'
  BY <1>5 DEF SwInStep
<1>8. SW!IInv'
  BY <1>1 DEF SW!IInv, SW!TypeOK, SW!CountExact, SW!Counted, SW!FreshPrev, SW!LastIsAlone
<1> QED
  BY <1>2, <1>4, <1>6, <1>7, <1>8

\* The hardware barrier moves all the cores of a cluster on by one.
LEMMA HwReleaseKeeps ==
  ASSUME GInv, NEW c \in Clusters, HwRelease(c)
  PROVE  GInv'
<1> USE DEF GInv
<1>1. /\ \A k \in CoreIds : at[<<c, k>>] \in {"hw1", "hw2"}
      /\ at' = [x \in Cores |-> IF x[1] # c THEN at[x]
                                ELSE IF at[x] = "hw1" THEN "mid" ELSE "done"]
      /\ UNCHANGED <<cnt, iteration, pc, prev_it, arrived, returns>>
  BY DEF HwRelease, sw, history
<1>2. \A x \in Cores : x[1] = c => at[x] \in {"hw1", "hw2"}
  BY <1>1, CoreParts
<1>3. Positions'
  BY <1>1 DEF Positions
<1>4. ArrivedExact'
  BY <1>1, <1>2 DEF Positions, ArrivedExact, InBarrier
<1>5. \A x \in Cores : HwCount(x)' = HwCount(x) + (IF x[1] = c THEN 1 ELSE 0)
  BY <1>1, <1>2 DEF Positions, HwCount
<1>6. HwInStep'
  BY <1>5 DEF HwInStep
<1>7. pc[c] = "out"
  BY <1>2, CoreParts DEF SwInside
<1>8. \A d \in Clusters : SwCount(d)' = SwCount(d)
  <2> SUFFICES ASSUME NEW d \in Clusters PROVE SwCount(d)' = SwCount(d)
    OBVIOUS
  <2>1. CASE d = c
    <3>1. ~LetGo(d) /\ ~LetGo(d)'
      BY <1>1, <1>7, <2>1 DEF LetGo
    <3>2. at[DM(d)] \in {"hw1", "hw2"} /\ (at'[DM(d)] = "done" <=> at[DM(d)] = "hw2")
          /\ at'[DM(d)] # "hw2"
      BY <1>1, <1>2, <2>1, CoreParts
    <3> QED
      BY <1>1, <3>1, <3>2 DEF SwCount, DM
  <2>2. CASE d # c
    <3>1. at'[DM(d)] = at[DM(d)]
      BY <1>1, <2>2, CoreParts
    <3> QED
      BY <1>1, <3>1 DEF SwCount, LetGo, DM
  <2> QED
    BY <2>1, <2>2
<1>9. SwInside'
  BY <1>1, <1>7, CoreParts DEF SwInside, DM
<1>10. SwInStep'
  BY <1>8 DEF SwInStep
<1>11. SW!IInv'
  BY <1>1 DEF SW!IInv, SW!TypeOK, SW!CountExact, SW!Counted, SW!FreshPrev, SW!LastIsAlone
<1> QED
  BY <1>3, <1>4, <1>6, <1>9, <1>10, <1>11

-----------------------------------------------------------------------------
(* The software barrier. *)

\* The steps of a DM core are steps of the software barrier.
LEMMA DmSteps ==
  ASSUME NEW c \in Clusters, DmSync(c)
  PROVE  SW!Next
BY DEF DmSync, SW!Next, SW!Waiting

\* What a DM core does while it stays in the software barrier: either it moves
\* on alone, or it lets everyone go.
LEMMA DmStays ==
  ASSUME GInv, NEW c \in Clusters, DmSync(c), pc[c] # "ret"
  PROVE  /\ at' = at /\ at[DM(c)] = "mid" /\ arrived' = arrived /\ returns' = returns
         /\ pc' = [pc EXCEPT ![c] = pc'[c]]
         /\ \/ \A d \in Clusters : LetGo(d)' = LetGo(d)
            \/ \A d \in Clusters : pc[d] # "out" /\ ~LetGo(d) /\ LetGo(d)'
<1> USE DEF GInv
<1>1. /\ at' = at /\ at[DM(c)] = "mid" /\ arrived' = arrived /\ returns' = returns
      /\ SW!Remember(c) \/ SW!Waiting(c)
  BY DEF DmSync, history
<1>2. pc \in [Clusters -> SW!PCs]
  BY DEF SW!IInv, SW!TypeOK
<1>3. CASE SW!Remember(c)
  <2>1. \A d \in Clusters : LetGo(d)' = LetGo(d)
    BY <1>2, <1>3 DEF SW!Remember, LetGo, SW!IInv, SW!TypeOK
  <2> QED
    BY <1>1, <1>2, <1>3, <2>1 DEF SW!Remember
<1>4. CASE SW!Add(c)
  <2>1. prev_it[c] = iteration
    BY <1>4 DEF SW!Add, SW!IInv, SW!FreshPrev
  <2>2. \A d \in Clusters : LetGo(d)' = LetGo(d)
    BY <1>2, <1>4, <2>1 DEF SW!Add, LetGo
  <2> QED
    BY <1>1, <1>2, <1>4, <2>2 DEF SW!Add
<1>5. CASE SW!Reset(c)
  <2>1. \A d \in Clusters : LetGo(d)' = LetGo(d)
    BY <1>2, <1>5 DEF SW!Reset, LetGo
  <2> QED
    BY <1>1, <1>2, <1>5, <2>1 DEF SW!Reset
<1>6. CASE SW!Bump(c)
  <2>1. SW!IncIt(iteration) # iteration
    BY ShapeAssumption DEF SW!IncIt, SW!IInv, SW!TypeOK, SW!Iterations
  <2>2. iteration' # iteration
    BY <1>6, <2>1 DEF SW!Bump, SW!IncIt, SW!IncIt
  <2>3. \A d \in Clusters \ {c} : pc[d] = "spin" /\ prev_it[d] = iteration
    BY <1>6 DEF SW!Bump, SW!IInv, SW!LastIsAlone
  <2>4. \A d \in Clusters : pc[d] # "out" /\ ~LetGo(d) /\ LetGo(d)'
    BY <1>2, <1>6, <2>2, <2>3 DEF SW!Bump, LetGo
  <2> QED
    BY <1>1, <1>2, <1>6, <2>4 DEF SW!Bump
<1>7. CASE SW!Spin(c)
  <2>1. \A d \in Clusters : LetGo(d)' = LetGo(d)
    BY <1>2, <1>7 DEF SW!Spin, LetGo
  <2> QED
    BY <1>1, <1>2, <1>7, <2>1 DEF SW!Spin
<1>8. ~SW!Return(c)
  BY DEF SW!Return
<1> QED
  BY <1>1, <1>3, <1>4, <1>5, <1>6, <1>7, <1>8 DEF SW!Waiting

LEMMA DmSyncKeeps ==
  ASSUME GInv, NEW c \in Clusters, DmSync(c)
  PROVE  GInv'
<1> USE DEF GInv
<1>1. SW!IInv'
  BY DmSteps, SwStepIInv
<1>2. CASE pc[c] # "ret"
  <2>1. /\ at' = at /\ at[DM(c)] = "mid" /\ arrived' = arrived /\ returns' = returns
        /\ pc' = [pc EXCEPT ![c] = pc'[c]]
    BY <1>2, DmStays
  <2>2. Positions' /\ ArrivedExact'
    BY <2>1 DEF Positions, ArrivedExact, InBarrier
  <2>3. HwInStep'
    BY <2>1 DEF HwInStep, HwCount
  <2>4. SwInside'
    BY <2>1 DEF SwInside, SW!IInv, SW!TypeOK, DM
  <2>5. CASE \A d \in Clusters : LetGo(d)' = LetGo(d)
    <3>1. \A d \in Clusters : SwCount(d)' = SwCount(d)
      BY <2>1, <2>5 DEF SwCount, DM
    <3> QED
      BY <1>1, <2>2, <2>3, <2>4, <3>1 DEF SwInStep
  <2>6. CASE \A d \in Clusters : pc[d] # "out" /\ ~LetGo(d) /\ LetGo(d)'
    <3>1. \A d \in Clusters : at[DM(d)] = "mid" /\ returns[DM(d)] \in Nat
      BY <2>6, CoreParts DEF SwInside, Positions
    <3>2. \A d \in Clusters : SwCount(d)' = SwCount(d) + 1
      BY <2>1, <2>6, <3>1 DEF SwCount, DM
    <3> QED
      BY <1>1, <2>2, <2>3, <2>4, <3>2 DEF SwInStep
  <2> QED
    BY <1>2, <2>5, <2>6, DmStays
<1>3. CASE pc[c] = "ret"
  <2>1. /\ at[DM(c)] = "mid" /\ at' = [at EXCEPT ![DM(c)] = "hw2"]
        /\ arrived' = arrived /\ returns' = returns
    BY <1>3 DEF DmSync, history
  <2>2. pc' = [pc EXCEPT ![c] = "out"] /\ iteration' = iteration /\ prev_it' = prev_it
    BY <1>3 DEF DmSync, SW!Remember, SW!Waiting, SW!Add, SW!Reset, SW!Bump, SW!Spin, SW!Return
  <2>3. Positions' /\ ArrivedExact'
    BY <2>1, CoreParts DEF Positions, ArrivedExact, InBarrier
  <2>4. \A x \in Cores : HwCount(x)' = HwCount(x)
    BY <2>1 DEF Positions, HwCount
  <2>5. HwInStep'
    BY <2>4 DEF HwInStep
  <2>6. pc \in [Clusters -> SW!PCs]
    BY DEF SW!IInv, SW!TypeOK
  <2>7. \A d \in Clusters \ {c} : at'[DM(d)] = at[DM(d)] /\ pc'[d] = pc[d]
    BY <2>1, <2>2, <2>6, CoreParts DEF Positions
  <2>8. at'[DM(c)] = "hw2" /\ pc'[c] = "out"
    BY <2>1, <2>2, <2>6, CoreParts DEF Positions
  <2>9. SwInside'
    BY <2>7, <2>8 DEF SwInside, DM
  <2>10. \A d \in Clusters : SwCount(d)' = SwCount(d)
    <3>1. \A d \in Clusters \ {c} : SwCount(d)' = SwCount(d)
      BY <2>1, <2>2, <2>7 DEF SwCount, LetGo, DM
    <3>2. SwCount(c)' = SwCount(c)
      BY <1>3, <2>1, <2>8 DEF SwCount, LetGo, DM
    <3> QED
      BY <3>1, <3>2
  <2>11. SwInStep'
    BY <2>10 DEF SwInStep
  <2> QED
    BY <1>1, <2>3, <2>5, <2>9, <2>11
<1> QED
  BY <1>2, <1>3

-----------------------------------------------------------------------------
LEMMA StepGInv == GInv /\ [Next]_vars => GInv'
<1> SUFFICES ASSUME GInv, [Next]_vars PROVE GInv'
  OBVIOUS
<1>1. CASE UNCHANGED vars
  BY <1>1 DEF vars, sw, history, GInv, Positions, ArrivedExact, InBarrier, HwInStep, HwCount,
     SwInside, SwInStep, SwCount, LetGo, DM, SW!IInv, SW!TypeOK, SW!CountExact,
     SW!Counted, SW!FreshPrev, SW!LastIsAlone
<1> QED
  BY <1>1, ContributeKeeps, ArriveKeeps, SecondHwKeeps, ReturnKeeps, HwReleaseKeeps,
     DmSyncKeeps DEF Next, InCall

(***************************************************************************)
(* The cores of a cluster have been released equally often by the hardware *)
(* barrier and the DM cores equally often by the software barrier, and the *)
(* two fit together, for any clusters and cores.                           *)
(***************************************************************************)
THEOREM GlobalBarrierInvariant == Spec => []GInv
BY InitGInv, StepGInv, PTL DEF Spec

\* The cores of a cluster never meet in the hardware barrier at different
\* places of snrt_global_barrier.
THEOREM HwBarrierAligned == Spec => []HwAligned
<1>1. GInv => HwAligned
  <2> SUFFICES ASSUME GInv, NEW c \in Clusters,
                      \A k \in CoreIds : at[<<c, k>>] \in {"hw1", "hw2"},
                      NEW j \in CoreIds, NEW k \in CoreIds
               PROVE  at[<<c, j>>] = at[<<c, k>>]
    BY DEF HwAligned
  <2> DEFINE x == <<c, j>>
             y == <<c, k>>
  <2>1. x \in Cores /\ y \in Cores /\ x[1] = y[1]
    BY CoreParts
  <2>2. HwCount(x) = HwCount(y)
    BY <2>1 DEF GInv, HwInStep
  <2>3. returns[x] \in Nat /\ returns[y] \in Nat
    BY <2>1 DEF GInv, Positions
  <2>4. at[x] \in {"hw1", "hw2"} /\ at[y] \in {"hw1", "hw2"}
    OBVIOUS
  <2> HIDE DEF x, y
  <2>5. at[x] = at[y]
    BY <2>2, <2>3, <2>4 DEF HwCount
  <2> QED
    BY <2>5 DEF x, y
<1> QED
  BY <1>1, GlobalBarrierInvariant, PTL

LEMMA GInvNoEarly == GInv => NoEarlyReturn
<1> SUFFICES ASSUME GInv, NEW x \in Cores, NEW y \in Cores
             PROVE  Passed(x) <= arrived[y]
  BY DEF NoEarlyReturn
<1> DEFINE p == DM(x[1])
           q == DM(y[1])
<1>1. x[1] \in Clusters /\ y[1] \in Clusters /\ p \in Cores /\ q \in Cores
      /\ p[1] = x[1] /\ q[1] = y[1]
  BY CoreParts
<1>2. HwCount(x) = HwCount(p) /\ HwCount(y) = HwCount(q)
  BY <1>1 DEF GInv, HwInStep
<1>3. SwCount(x[1]) = SwCount(y[1])
  BY <1>1 DEF GInv, SwInStep
<1>4. \A z \in {x, y, p, q} : /\ returns[z] \in Nat
                              /\ at[z] \in {"out", "added", "hw1", "mid", "hw2", "done"}
  BY <1>1 DEF GInv, Positions
<1>5. 2 * Passed(x) <= HwCount(x)
  BY <1>4 DEF Passed, HwCount
<1>6. \A n \in Nat : 2 * n <= HwCount(p) => n <= SwCount(x[1])
  BY <1>4 DEF HwCount, SwCount
<1>7. 2 * SwCount(y[1]) <= HwCount(q) + 1
  <2>1. LetGo(y[1]) => at[q] = "mid"
    BY <1>1 DEF GInv, SwInside, LetGo
  <2> QED
    BY <1>4, <2>1 DEF HwCount, SwCount
<1>8. \A n \in Nat : 2 * n <= HwCount(y) + 1 => n <= arrived[y]
  BY <1>4 DEF GInv, ArrivedExact, InBarrier, HwCount
<1>9. Passed(x) \in Nat /\ SwCount(y[1]) \in Nat /\ HwCount(p) \in Nat /\ HwCount(q) \in Nat
  BY <1>4 DEF Passed, SwCount, HwCount
<1> HIDE DEF p, q
<1>10. Passed(x) <= SwCount(y[1])
  BY <1>2, <1>3, <1>5, <1>6, <1>9
<1>11. SwCount(y[1]) <= arrived[y]
  BY <1>2, <1>7, <1>8, <1>9
<1>12. arrived[y] \in Nat
  BY DEF GInv, Positions
<1> QED
  BY <1>9, <1>10, <1>11, <1>12

\* No core gets through its n-th snrt_global_barrier before every core of
\* every cluster has reached its n-th.
THEOREM NobodyReturnsEarly == Spec => []NoEarlyReturn
BY GInvNoEarly, GlobalBarrierInvariant, PTL

-----------------------------------------------------------------------------
(* Sums over a finite set, and the induction they need.                    *)

\* Induction over the natural numbers, for a set of them.
LEMMA NatSetInduction ==
  ASSUME NEW T, 0 \in T, \A n \in Nat : n \in T => n + 1 \in T
  PROVE  \A n \in Nat : n \in T
<1> DEFINE Bad == {n \in Nat : n \notin T}
<1> SUFFICES ASSUME Bad # {} PROVE FALSE
  OBVIOUS
<1>1. \E m \in Bad : \A n \in Bad : ~ (<<n, m>> \in OpToRel(<, Nat))
  <2>1. Bad \subseteq Nat
    OBVIOUS
  <2> HIDE DEF Bad
  <2> QED
    BY <2>1, WFMin, NatLessThanWellFounded
<1>2. PICK m \in Bad : \A n \in Bad : ~ (<<n, m>> \in OpToRel(<, Nat))
  BY <1>1
<1>3. m \in Nat /\ m # 0 /\ m - 1 \in Nat
  OBVIOUS
<1>4. m - 1 \in Bad
  BY <1>3
<1>5. <<m - 1, m>> \in OpToRel(<, Nat)
  BY <1>3 DEF OpToRel
<1> QED
  BY <1>2, <1>4, <1>5

\* Induction over the subsets of a finite set, smaller ones first.
LEMMA SubsetInduction ==
  ASSUME NEW S, IsFiniteSet(S), NEW T,
         \A U \in SUBSET S : (\A x \in U : U \ {x} \in T) => U \in T
  PROVE  \A U \in SUBSET S : U \in T
<1> DEFINE Good == {n \in Nat : \A U \in SUBSET S : Cardinality(U) = n => U \in T}
<1>1. 0 \in Good
  BY FS_EmptySet, FS_Subset
<1>2. ASSUME NEW n \in Nat, n \in Good PROVE n + 1 \in Good
  <2> SUFFICES ASSUME NEW U \in SUBSET S, Cardinality(U) = n + 1 PROVE U \in T
    OBVIOUS
  <2>1. IsFiniteSet(U)
    BY FS_Subset
  <2>2. ASSUME NEW x \in U PROVE U \ {x} \in T
    <3>1. Cardinality(U \ {x}) = Cardinality(U) - 1
      BY <2>1, FS_RemoveElement
    <3> QED
      BY <1>2, <3>1
  <2> QED
    BY <2>2
<1>3. \A n \in Nat : n \in Good
  <2> HIDE DEF Good
  <2> QED
    BY <1>1, <1>2, NatSetInduction
<1>4. \A U \in SUBSET S : Cardinality(U) \in Nat
  BY FS_Subset, FS_CardinalityType
<1> QED
  BY <1>3, <1>4

Any(s) == CHOOSE x \in s : TRUE
Adds(v, g, s) == IF s = {} THEN 0 ELSE v[Any(s)] + g[s \ {Any(s)}]
SumOf(v, S) == MapThenSumSet(LAMBDA x : v[x], S)

Solves(v, g, S) == g = [s \in SUBSET S |-> Adds(v, g, s)]

LEMMA SumUnfolded ==
  ASSUME NEW v, NEW S
  PROVE  SumOf(v, S) = (CHOOSE g : Solves(v, g, S))[S]
BY DEF Solves, SumOf, MapThenSumSet, MapThenFoldSet, Adds, Any

\* The recursion has a solution.
LEMMA SumExists ==
  ASSUME NEW v, NEW S, IsFiniteSet(S)
  PROVE  \E g : Solves(v, g, S)
<1> DEFINE Small(n) == {s \in SUBSET S : Cardinality(s) <= n}
           Good == {n \in Nat : \E g : g = [s \in Small(n) |-> Adds(v, g, s)]}
<1>1. \A s \in SUBSET S : IsFiniteSet(s) /\ Cardinality(s) \in Nat
  BY FS_Subset, FS_CardinalityType
<1>2. ASSUME NEW s \in SUBSET S, s # {}
      PROVE  s \ {Any(s)} \in SUBSET S /\ Cardinality(s \ {Any(s)}) = Cardinality(s) - 1
  <2>1. Any(s) \in s
    BY <1>2 DEF Any
  <2> QED
    BY <1>1, <2>1, FS_RemoveElement
<1>3. 0 \in Good
  <2>1. Small(0) = {{}}
    BY <1>1, FS_EmptySet
  <2>2. [s \in Small(0) |-> 0] = [s \in Small(0) |-> Adds(v, [t \in Small(0) |-> 0], s)]
    BY <2>1 DEF Adds
  <2> QED
    BY <2>2
<1>4. ASSUME NEW n \in Nat, n \in Good PROVE n + 1 \in Good
  <2>1. PICK g : g = [s \in Small(n) |-> Adds(v, g, s)]
    BY <1>4
  <2> DEFINE h == [s \in Small(n + 1) |-> Adds(v, g, s)]
  <2>2. \A s \in Small(n) : s \in Small(n + 1)
    BY <1>1
  <2>3. \A s \in Small(n + 1) : s # {} => s \ {Any(s)} \in Small(n)
    BY <1>1, <1>2
  <2>4. \A s \in Small(n) : h[s] = g[s]
    BY <2>1, <2>2
  <2>5. \A s \in Small(n + 1) : Adds(v, g, s) = Adds(v, h, s)
    BY <2>3, <2>4 DEF Adds
  <2>6. h = [s \in Small(n + 1) |-> Adds(v, h, s)]
    BY <2>5
  <2>7. \E f : f = [s \in Small(n + 1) |-> Adds(v, f, s)]
    <3> HIDE DEF h
    <3> QED
      BY <2>6
  <2> QED
    BY <2>7
<1>5. Cardinality(S) \in Good
  <2> HIDE DEF Good
  <2> QED
    BY <1>1, <1>3, <1>4, NatSetInduction
<1>6. Small(Cardinality(S)) = SUBSET S
  BY FS_Subset
<1>7. \E g : g = [s \in SUBSET S |-> Adds(v, g, s)]
  BY <1>5, <1>6
<1> QED
  BY <1>7 DEF Solves

\* And only one.
LEMMA SumUnique ==
  ASSUME NEW v, NEW S, IsFiniteSet(S), NEW R \in SUBSET S,
         NEW g, Solves(v, g, S), NEW h, Solves(v, h, R)
  PROVE  g[R] = h[R]
<1> DEFINE Same == {s \in SUBSET R : g[s] = h[s]}
<1>1. ASSUME NEW U \in SUBSET R, \A x \in U : U \ {x} \in Same PROVE U \in Same
  <2>1. g[U] = Adds(v, g, U) /\ h[U] = Adds(v, h, U)
    BY DEF Solves
  <2>2. U # {} => Any(U) \in U
    BY DEF Any
  <2>3. Adds(v, g, U) = Adds(v, h, U)
    BY <1>1, <2>2 DEF Adds
  <2> QED
    BY <2>1, <2>3
<1>2. IsFiniteSet(R)
  BY FS_Subset
<1>3. \A U \in SUBSET R : U \in Same
  <2> HIDE DEF Same
  <2> QED
    BY <1>1, <1>2, SubsetInduction
<1> QED
  BY <1>3

LEMMA SumStep ==
  ASSUME NEW v, NEW S, IsFiniteSet(S)
  PROVE  SumOf(v, S) = IF S = {} THEN 0 ELSE v[Any(S)] + SumOf(v, S \ {Any(S)})
<1> DEFINE G(R) == CHOOSE g : Solves(v, g, R)
           rest == S \ {Any(S)}
<1>1. \A R \in SUBSET S : Solves(v, G(R), R)
  BY FS_Subset, SumExists
<1>2. \A R \in SUBSET S : SumOf(v, R) = G(R)[R]
  BY SumUnfolded
<1> HIDE DEF G
<1>3. S \in SUBSET S /\ rest \in SUBSET S
  OBVIOUS
<1>4. SumOf(v, S) = Adds(v, G(S), S)
  BY <1>1, <1>2, <1>3 DEF Solves
<1>5. G(S)[rest] = SumOf(v, rest)
  <2> HIDE DEF rest
  <2> QED
    BY <1>1, <1>2, <1>3, SumUnique
<1> QED
  BY <1>4, <1>5 DEF Adds

LEMMA SumType ==
  ASSUME NEW S, IsFiniteSet(S), NEW v, \A x \in S : v[x] \in Nat
  PROVE  SumOf(v, S) \in Nat
<1> DEFINE Good == {s \in SUBSET S : SumOf(v, s) \in Nat}
<1>1. ASSUME NEW U \in SUBSET S, \A x \in U : U \ {x} \in Good PROVE U \in Good
  <2>1. U # {} => Any(U) \in U
    BY DEF Any
  <2>2. SumOf(v, U) = IF U = {} THEN 0 ELSE v[Any(U)] + SumOf(v, U \ {Any(U)})
    BY FS_Subset, SumStep
  <2> QED
    BY <1>1, <2>1, <2>2
<1>2. \A U \in SUBSET S : U \in Good
  <2> HIDE DEF Good
  <2> QED
    BY <1>1, SubsetInduction
<1> QED
  BY <1>2

\* Whichever element is taken out first.
LEMMA SumTakeOut ==
  ASSUME NEW S, IsFiniteSet(S), NEW v, \A x \in S : v[x] \in Nat, NEW y \in S
  PROVE  SumOf(v, S) = v[y] + SumOf(v, S \ {y})
<1> DEFINE Good == {s \in SUBSET S : \A x \in s : SumOf(v, s) = v[x] + SumOf(v, s \ {x})}
<1>1. \A s \in SUBSET S : IsFiniteSet(s) /\ SumOf(v, s) \in Nat
  BY FS_Subset, SumType
<1>2. ASSUME NEW U \in SUBSET S, \A x \in U : U \ {x} \in Good PROVE U \in Good
  <2> SUFFICES ASSUME NEW x \in U PROVE SumOf(v, U) = v[x] + SumOf(v, U \ {x})
    OBVIOUS
  <2> DEFINE first == Any(U)
  <2>1. first \in U
    BY DEF Any
  <2>2. SumOf(v, U) = v[first] + SumOf(v, U \ {first})
    BY <1>1, SumStep
  <2> HIDE DEF first
  <2>3. CASE x # first
    <3>1. SumOf(v, U \ {first}) = v[x] + SumOf(v, (U \ {first}) \ {x})
      BY <1>2, <2>1, <2>3
    <3>2. SumOf(v, U \ {x}) = v[first] + SumOf(v, (U \ {x}) \ {first})
      BY <1>2, <2>1, <2>3
    <3>3. (U \ {x}) \ {first} = (U \ {first}) \ {x} /\ (U \ {first}) \ {x} \in SUBSET S
      OBVIOUS
    <3>4. v[first] \in Nat /\ v[x] \in Nat /\ SumOf(v, (U \ {first}) \ {x}) \in Nat
      BY <1>1, <2>1, <3>3
    <3> DEFINE rest == SumOf(v, (U \ {first}) \ {x})
    <3>5. SumOf(v, U) = v[first] + (v[x] + rest)
      BY <2>2, <3>1, Zenon
    <3>6. v[x] + SumOf(v, U \ {x}) = v[x] + (v[first] + rest)
      BY <3>2, <3>3, Zenon
    <3> HIDE DEF rest
    <3>7. v[first] + (v[x] + rest) = v[x] + (v[first] + rest)
      <4>1. rest \in Nat
        BY <3>4 DEF rest
      <4> QED
        BY <3>4, <4>1
    <3> QED
      BY <3>5, <3>6, <3>7, Zenon
  <2> QED
    BY <2>2, <2>3
<1>3. \A U \in SUBSET S : U \in Good
  <2> HIDE DEF Good
  <2> QED
    BY <1>2, SubsetInduction
<1> QED
  BY <1>3

LEMMA SumOfNone == \A v : SumOf(v, {}) = 0
BY SumStep, FS_EmptySet

\* Larger summands have a larger sum.
LEMMA SumMonotone ==
  ASSUME NEW S, IsFiniteSet(S), NEW v, NEW w,
         \A x \in S : v[x] \in Nat /\ w[x] \in Nat /\ v[x] <= w[x]
  PROVE  SumOf(v, S) <= SumOf(w, S)
<1> DEFINE Good == {s \in SUBSET S : SumOf(v, s) <= SumOf(w, s)}
<1>1. \A s \in SUBSET S : IsFiniteSet(s) /\ SumOf(v, s) \in Nat /\ SumOf(w, s) \in Nat
  BY FS_Subset, SumType
<1>2. ASSUME NEW U \in SUBSET S, \A x \in U : U \ {x} \in Good PROVE U \in Good
  <2>1. CASE U = {}
    BY <2>1, SumOfNone
  <2>2. ASSUME NEW x \in U PROVE U \in Good
    <3>1. SumOf(v, U) = v[x] + SumOf(v, U \ {x}) /\ SumOf(w, U) = w[x] + SumOf(w, U \ {x})
      BY <1>1, SumTakeOut
    <3> QED
      BY <1>1, <1>2, <3>1
  <2> QED
    BY <2>1, <2>2
<1>3. \A U \in SUBSET S : U \in Good
  <2> HIDE DEF Good
  <2> QED
    BY <1>2, SubsetInduction
<1> QED
  BY <1>3

LEMMA SumScaled ==
  ASSUME NEW S, IsFiniteSet(S), NEW v, NEW w, NEW k \in Nat,
         \A x \in S : v[x] \in Nat /\ w[x] = k * v[x]
  PROVE  SumOf(w, S) = k * SumOf(v, S)
<1> DEFINE Good == {s \in SUBSET S : SumOf(w, s) = k * SumOf(v, s)}
<1>1. \A x \in S : w[x] \in Nat
  OBVIOUS
<1>2. \A s \in SUBSET S : IsFiniteSet(s) /\ SumOf(v, s) \in Nat /\ SumOf(w, s) \in Nat
  BY <1>1, FS_Subset, SumType
<1>3. ASSUME NEW U \in SUBSET S, \A x \in U : U \ {x} \in Good PROVE U \in Good
  <2>1. CASE U = {}
    BY <2>1, SumOfNone
  <2>2. ASSUME NEW x \in U PROVE U \in Good
    <3>1. SumOf(v, U) = v[x] + SumOf(v, U \ {x}) /\ SumOf(w, U) = w[x] + SumOf(w, U \ {x})
      BY <1>1, <1>2, SumTakeOut
    <3>2. SumOf(w, U \ {x}) = k * SumOf(v, U \ {x}) /\ w[x] = k * v[x]
      BY <1>3
    <3>3. \A p, q \in Nat : k * p + k * q = k * (p + q)
      OBVIOUS
    <3>4. v[x] \in Nat /\ SumOf(v, U \ {x}) \in Nat
      BY <1>2
    <3>5. SumOf(w, U) = k * SumOf(v, U)
      BY <3>1, <3>2, <3>3, <3>4
    <3> QED
      BY <3>5
  <2> QED
    BY <2>1, <2>2
<1>4. \A U \in SUBSET S : U \in Good
  <2> HIDE DEF Good
  <2> QED
    BY <1>3, SubsetInduction
<1> QED
  BY <1>4

\* One summand grows.
LEMMA SumGrows ==
  ASSUME NEW S, IsFiniteSet(S), NEW v, NEW w, NEW y \in S, NEW d \in Nat,
         \A x \in S : v[x] \in Nat /\ w[x] = IF x = y THEN v[x] + d ELSE v[x]
  PROVE  SumOf(w, S) = SumOf(v, S) + d
<1> DEFINE rest == S \ {y}
<1>1. \A x \in S : w[x] \in Nat
  OBVIOUS
<1>2. SumOf(v, S) = v[y] + SumOf(v, rest) /\ SumOf(w, S) = w[y] + SumOf(w, rest)
  BY <1>1, SumTakeOut
<1>3. SumOf(v, rest) \in Nat /\ SumOf(w, rest) \in Nat
  BY <1>1, FS_Subset, SumType
<1>4. IsFiniteSet(rest) /\ \A x \in rest : v[x] = w[x] /\ v[x] \in Nat
  BY FS_Subset
<1> HIDE DEF rest
<1>5. SumOf(v, rest) <= SumOf(w, rest) /\ SumOf(w, rest) <= SumOf(v, rest)
  BY <1>4, SumMonotone
<1>6. w[y] = v[y] + d /\ v[y] \in Nat
  OBVIOUS
<1> QED
  BY <1>2, <1>3, <1>5, <1>6

-----------------------------------------------------------------------------
(* The reduction. *)

\* How often core x has added its value, and what that comes to.
Begun(x) == arrived[x] + (IF at[x] = "added" THEN 1 ELSE 0)
HandedIn == [x \in Cores |-> Begun(x) * Value[x]]

\* _reduction_result holds what the cores have handed in, each as often as it has.
ReductionExact == reduction = SumOf(HandedIn, Cores)

RInv == ReductionExact /\ result \in [Cores -> Nat] /\ ResultComplete

LEMMA CoresFinite == IsFiniteSet(Cores)
BY ShapeAssumption, FS_Product DEF Cores

LEMMA HandedInType ==
  ASSUME GInv
  PROVE  \A x \in Cores : /\ Begun(x) \in Nat /\ Value[x] \in Nat
                          /\ HandedIn[x] = Begun(x) * Value[x] /\ HandedIn[x] \in Nat
<1> SUFFICES ASSUME NEW x \in Cores
             PROVE  /\ Begun(x) \in Nat /\ Value[x] \in Nat
                    /\ HandedIn[x] = Begun(x) * Value[x] /\ HandedIn[x] \in Nat
  OBVIOUS
<1>1. Begun(x) \in Nat /\ Value[x] \in Nat
  BY ValueAssumption DEF GInv, Positions, Begun
<1>2. \A m, n \in Nat : m * n \in Nat
  OBVIOUS
<1> QED
  BY <1>1, <1>2 DEF HandedIn

LEMMA TotalIsSum == Total = SumOf(Value, Cores)
BY DEF Total, SumOf

\* Who leaves the barrier for the n-th time finds n contributions of every core.
LEMMA EnoughHandedIn ==
  ASSUME GInv, NoEarlyReturn, ReductionExact, NEW x \in Cores
  PROVE  reduction \in Nat /\ reduction >= Passed(x) * Total
<1> DEFINE n == Passed(x)
           low == [y \in Cores |-> n * Value[y]]
<1>1. n \in Nat
  BY DEF GInv, Positions, Passed
<1>2. \A y \in Cores : n <= Begun(y)
  BY DEF NoEarlyReturn, GInv, Positions, Passed, Begun
<1> HIDE DEF n
<1>3. ASSUME NEW y \in Cores
      PROVE  low[y] \in Nat /\ low[y] = n * Value[y] /\ low[y] <= HandedIn[y]
  <2>1. \A k, l, m \in Nat : k <= l => k * m \in Nat /\ k * m <= l * m
    OBVIOUS
  <2>2. n * Value[y] \in Nat /\ n * Value[y] <= Begun(y) * Value[y]
    BY <1>1, <1>2, <2>1, HandedInType
  <2> QED
    BY <2>2, HandedInType
<1> HIDE DEF low
<1>4. SumOf(low, Cores) <= SumOf(HandedIn, Cores)
  BY <1>3, CoresFinite, HandedInType, SumMonotone
<1>5. SumOf(low, Cores) = n * SumOf(Value, Cores)
  BY <1>1, <1>3, CoresFinite, HandedInType, SumScaled
<1>6. SumOf(HandedIn, Cores) \in Nat /\ SumOf(low, Cores) \in Nat
  BY <1>3, CoresFinite, HandedInType, SumType
<1> QED
  BY <1>4, <1>5, <1>6, TotalIsSum DEF ReductionExact, n

LEMMA InitRInv == Init => RInv
<1> SUFFICES ASSUME Init PROVE RInv
  OBVIOUS
<1>1. \A x \in Cores : Value[x] \in Nat /\ HandedIn[x] = 0 * Value[x]
  BY ValueAssumption DEF Init, HandedIn, Begun
<1>2. SumOf(HandedIn, Cores) = 0 * SumOf(Value, Cores)
  BY <1>1, CoresFinite, SumScaled
<1>3. SumOf(Value, Cores) \in Nat
  BY <1>1, CoresFinite, SumType
<1>4. ReductionExact
  BY <1>2, <1>3 DEF Init, ReductionExact
<1>5. ResultComplete
  BY <1>3, TotalIsSum DEF Init, ResultComplete
<1> QED
  BY <1>4, <1>5 DEF Init, RInv

LEMMA StepRInv == GInv /\ GInv' /\ NoEarlyReturn /\ RInv /\ [Next]_vars => RInv'
<1> SUFFICES ASSUME GInv, GInv', NoEarlyReturn, RInv, [Next]_vars PROVE RInv'
  OBVIOUS
<1>1. ASSUME NEW x \in Cores, Contribute(x) PROVE RInv'
  <2>1. \A y \in Cores : Begun(y)' = IF y = x THEN Begun(y) + 1 ELSE Begun(y)
    BY <1>1 DEF Contribute, history, GInv, Positions, Begun
  <2>2. ASSUME NEW y \in Cores
        PROVE  HandedIn'[y] = IF y = x THEN HandedIn[y] + Value[x] ELSE HandedIn[y]
    <3>1. \A k, m \in Nat : (k + 1) * m = k * m + m
      OBVIOUS
    <3>2. HandedIn'[y] = Begun(y)' * Value[y]
      BY DEF HandedIn
    <3> QED
      BY <2>1, <3>1, <3>2, HandedInType
  <2>3. \A y \in Cores : HandedIn[y] \in Nat
    BY HandedInType
  <2>4. Value[x] \in Nat
    BY HandedInType
  <2>5. SumOf(HandedIn', Cores) = SumOf(HandedIn, Cores) + Value[x]
    <3> DEFINE w == HandedIn'
    <3> HIDE DEF w
    <3>1. SumOf(w, Cores) = SumOf(HandedIn, Cores) + Value[x]
      BY <2>2, <2>3, <2>4, CoresFinite, SumGrows DEF w
    <3> QED
      BY <3>1 DEF w
  <2>6. ReductionExact'
    BY <1>1, <2>5 DEF RInv, ReductionExact, Contribute
  <2>7. UNCHANGED <<result, returns>>
    BY <1>1 DEF Contribute, history
  <2> QED
    BY <2>6, <2>7 DEF RInv, ResultComplete
<1>2. ASSUME \A y \in Cores : Begun(y)' = Begun(y), UNCHANGED reduction
      PROVE  ReductionExact'
  <2>1. HandedIn' = HandedIn
    BY <1>2 DEF HandedIn
  <2> QED
    BY <1>2, <2>1 DEF RInv, ReductionExact
<1>3. ASSUME NEW x \in Cores, Return(x) PROVE RInv'
  <2>1. \A y \in Cores : Begun(y)' = Begun(y)
    BY <1>3 DEF Return, GInv, Positions, Begun
  <2>2. ReductionExact'
    BY <1>2, <1>3, <2>1 DEF Return
  <2>3. reduction \in Nat /\ reduction >= Passed(x) * Total
    BY EnoughHandedIn DEF RInv
  <2>4. Passed(x) = returns[x] + 1
    BY <1>3 DEF Return, Passed
  <2>5. /\ result' = [result EXCEPT ![x] = reduction] /\ returns' = [returns EXCEPT ![x] = @ + 1]
        /\ returns \in [Cores -> Nat]
    BY <1>3 DEF Return, GInv, Positions
  <2>6. ResultComplete'
    <3> SUFFICES ASSUME NEW y \in Cores PROVE result'[y] >= returns'[y] * Total
      BY DEF ResultComplete
    <3>1. CASE y = x
      BY <2>3, <2>4, <2>5, <3>1 DEF RInv
    <3>2. CASE y # x
      BY <2>5, <3>2 DEF RInv, ResultComplete
    <3> QED
      BY <3>1, <3>2
  <2> QED
    BY <2>2, <2>3, <2>5, <2>6 DEF RInv
<1>4. ASSUME \A y \in Cores : Begun(y)' = Begun(y), UNCHANGED <<reduction, result, returns>>
      PROVE  RInv'
  BY <1>2, <1>4 DEF RInv, ResultComplete
<1>5. ASSUME NEW x \in Cores, Arrive(x) PROVE RInv'
  <2>1. \A y \in Cores : Begun(y)' = Begun(y)
    BY <1>5 DEF Arrive, GInv, Positions, Begun
  <2> QED
    BY <1>4, <1>5, <2>1 DEF Arrive
<1>6. ASSUME NEW x \in Cores, SecondHw(x) PROVE RInv'
  <2>1. \A y \in Cores : Begun(y)' = Begun(y)
    BY <1>6 DEF SecondHw, GInv, Positions, Begun, history
  <2> QED
    BY <1>4, <1>6, <2>1 DEF SecondHw, history
<1>7. ASSUME NEW c \in Clusters, HwRelease(c) PROVE RInv'
  <2>1. \A y \in Cores : y[1] = c => at[y] \in {"hw1", "hw2"}
    BY <1>7, CoreParts DEF HwRelease
  <2>2. \A y \in Cores : Begun(y)' = Begun(y)
    BY <1>7, <2>1 DEF HwRelease, GInv, Positions, Begun, history
  <2> QED
    BY <1>4, <1>7, <2>2 DEF HwRelease, history
<1>8. ASSUME NEW c \in Clusters, DmSync(c) PROVE RInv'
  <2>1. \A y \in Cores : Begun(y)' = Begun(y)
    BY <1>8 DEF DmSync, GInv, Positions, Begun, history
  <2> QED
    BY <1>4, <1>8, <2>1 DEF DmSync, history
<1>9. CASE UNCHANGED vars
  <2>1. \A y \in Cores : Begun(y)' = Begun(y)
    BY <1>9 DEF vars, Begun, history
  <2> QED
    BY <1>4, <1>9, <2>1 DEF vars, history
<1> QED
  BY <1>1, <1>3, <1>5, <1>6, <1>7, <1>8, <1>9 DEF Next, InCall

(***************************************************************************)
(* The exit code misses nobody, for any clusters, cores and values: what   *)
(* the n-th call of snrt_global_all_to_all_reduction returns holds n       *)
(* contributions of every core.                                            *)
(***************************************************************************)
THEOREM ExitCodesAreCounted == Spec => []ResultComplete
<1>1. RInv => ResultComplete
  BY DEF RInv
<1> QED
  BY <1>1, InitRInv, StepRInv, GInvNoEarly, GlobalBarrierInvariant, PTL DEF Spec

-----------------------------------------------------------------------------
(* The hardware barrier. *)

\* In the cycle of the release every core is stalled, so none can arrive.
LEMMA ReleaseIsQuiet ==
  ASSUME Hw!NoLostArrival, Hw!barrier_o
  PROVE  Hw!CanIssue = {}
BY DEF Hw!NoLostArrival, Hw!barrier_o, Hw!CanIssue

LEMMA StepNoLostArrival ==
  Hw!TypeOK /\ Hw!NoLostArrival /\ [Hw!Next]_hwVars => Hw!TypeOK' /\ Hw!NoLostArrival'
<1> SUFFICES ASSUME Hw!TypeOK, Hw!NoLostArrival, [Hw!Next]_hwVars
             PROVE  Hw!TypeOK' /\ Hw!NoLostArrival'
  OBVIOUS
<1>1. ASSUME NEW barrier_i \in SUBSET Hw!CanIssue, Hw!Cycle(barrier_i)
      PROVE  Hw!TypeOK' /\ Hw!NoLostArrival'
  <2>1. CASE Hw!barrier_o
    <3>1. barrier_i = {}
      BY <1>1, <2>1, ReleaseIsQuiet
    <3>2. arrival_q' = {} /\ csr_stall_q' = {}
      BY <1>1, <2>1, <3>1 DEF Hw!Cycle, Hw!arrival_d, Hw!csr_stall_d
    <3> QED
      BY <3>2 DEF Hw!TypeOK, Hw!NoLostArrival
  <2>2. CASE ~Hw!barrier_o
    <3>1. /\ arrival_q' = arrival_q \cup barrier_i
          /\ csr_stall_q' = csr_stall_q \cup barrier_i
      BY <1>1, <2>2 DEF Hw!Cycle, Hw!arrival_d, Hw!csr_stall_d
    <3> QED
      BY <1>1, <3>1 DEF Hw!TypeOK, Hw!NoLostArrival, Hw!CanIssue
  <2> QED
    BY <2>1, <2>2
<1>2. CASE UNCHANGED hwVars
  BY <1>2 DEF hwVars, Hw!TypeOK, Hw!NoLostArrival
<1> QED
  BY <1>1, <1>2 DEF Hw!Next

(***************************************************************************)
(* snitch_barrier drops the arrivals of the cycle in which it releases     *)
(* (the priority of its first branch).  No core loses its arrival by that: *)
(* a core is always stalled exactly while its arrival bit is set.          *)
(***************************************************************************)
THEOREM ArrivalsKept == Hw!Spec => []Hw!NoLostArrival
<1>1. Hw!Init => Hw!TypeOK /\ Hw!NoLostArrival
  BY DEF Hw!Init, Hw!TypeOK, Hw!NoLostArrival
<1> QED
  BY <1>1, StepNoLostArrival, PTL DEF Hw!Spec, Hw!vars, hwVars

-----------------------------------------------------------------------------
LEMMA StepRefines ==
  Hw!TypeOK /\ Hw!NoLostArrival /\ [Hw!Next]_hwVars
      => [Hw!Abs!Next]_[c \in ClusterCores |-> Hw!Phase(c)]
<1> SUFFICES ASSUME Hw!TypeOK, Hw!NoLostArrival, [Hw!Next]_hwVars
             PROVE  Hw!Abs!Next \/ UNCHANGED [c \in ClusterCores |-> Hw!Phase(c)]
  OBVIOUS
<1>1. ASSUME NEW barrier_i \in SUBSET Hw!CanIssue, Hw!Cycle(barrier_i)
      PROVE  Hw!Abs!Next
  <2>1. CASE Hw!barrier_o
    <3>1. csr_stall_q' = {}
      BY <1>1, <2>1, ReleaseIsQuiet DEF Hw!Cycle, Hw!csr_stall_d
    <3>2. \A c \in ClusterCores : Hw!Phase(c) = "in" /\ Hw!Phase(c)' = "out"
      BY <2>1, <3>1 DEF Hw!Phase, Hw!NoLostArrival, Hw!barrier_o
    <3>3. Hw!Abs!Release
      BY <3>2 DEF Hw!Abs!Release
    <3> QED
      BY <3>3 DEF Hw!Abs!Next
  <2>2. CASE ~Hw!barrier_o
    <3>1. csr_stall_q' = csr_stall_q \cup barrier_i
      BY <1>1, <2>2 DEF Hw!Cycle, Hw!csr_stall_d
    <3>2. \A c \in barrier_i : c \in ClusterCores /\ Hw!Phase(c) = "out"
      BY <1>1 DEF Hw!CanIssue, Hw!Phase
    <3>3. \A c \in ClusterCores : Hw!Phase(c)' = IF c \in barrier_i THEN "in" ELSE Hw!Phase(c)
      BY <3>1 DEF Hw!Phase
    <3>4. Hw!Abs!Enter(barrier_i)
      BY <3>2, <3>3 DEF Hw!Abs!Enter
    <3>5. barrier_i \in SUBSET ClusterCores
      BY <1>1 DEF Hw!CanIssue
    <3> QED
      BY <3>4, <3>5 DEF Hw!Abs!Next
  <2> QED
    BY <2>1, <2>2
<1>2. CASE UNCHANGED hwVars
  BY <1>2 DEF hwVars, Hw!Phase
<1> QED
  BY <1>1, <1>2 DEF Hw!Next

-----------------------------------------------------------------------------
\* Whatever part is looked at, the other parts stutter.
LEMMA EachPart == PartsSpec => Spec /\ Hw!Spec /\ Tree!Spec
<1>1. PartsInit => Init /\ Hw!Init /\ Tree!Init
  BY DEF PartsInit
<1>2. [PartsNext]_allVars => [Next]_vars /\ [Hw!Next]_hwVars /\ [Tree!Next]_reductionVars
  BY DEF PartsNext, GlobalOnly, allVars, vars, hwVars, reductionVars
<1> QED
  BY <1>1, <1>2, PTL
     DEF PartsSpec, Spec, Hw!Spec, Hw!vars, hwVars, Tree!Spec, Tree!vars, reductionVars

(***************************************************************************)
(* snrt_cluster_hw_barrier, with the registers of snitch_barrier and of    *)
(* the cores, implements the abstract barrier for any number of cores.     *)
(***************************************************************************)
THEOREM HwBarrierCorrect == PartsSpec => ImplementsBarrier
<1>1. Hw!Init => Hw!TypeOK /\ Hw!NoLostArrival /\ Hw!Abs!Init
  BY DEF Hw!Init, Hw!TypeOK, Hw!NoLostArrival, Hw!Abs!Init, Hw!Phase
<1> QED
  BY <1>1, EachPart, StepNoLostArrival, StepRefines, PTL
     DEF Hw!Spec, ImplementsBarrier, Hw!ImplementsBarrier, Hw!Abs!Spec, Hw!vars, hwVars

-----------------------------------------------------------------------------
(* The reduction across clusters, for one and for two clusters: with more   *)
(* of them it is the clusters' source buffers that travel up the tree, and  *)
(* a sum misses some.                                                       *)

\* The shapes for which the function computes the sum: one level of the tree at
\* most, and a length that the compute cores of a cluster can share.
OneLevel ==
    /\ NClusters \in {1, 2}
    /\ NCompute \in Nat \ {0}
    /\ \E q \in Nat : Len = q * NCompute

\* The last cluster sends, to cluster 0.
Sender == NClusters - 1
SenderDm == <<Sender, NCompute>>
AllOnes == [k \in Tree!ClusterIdxs |-> 1]

TreeStages == {"send", "wait", "global", "reduce", "cluster", "done"}

TreePositions ==
    /\ stage \in [Tree!Harts -> TreeStages]
    /\ level = [c \in Tree!Harts |-> 0]
    /\ dma \in [Tree!ClusterIdxs -> SUBSET Tree!Elements]
    /\ DOMAIN dst = Tree!ClusterIdxs
    /\ \A k \in Tree!ClusterIdxs : DOMAIN dst[k] = Tree!Elements

\* Only the sender's transfer moves anything, while its DM core waits.
OneTransfer ==
    /\ \A c \in Tree!Harts : stage[c] = "wait" => c = SenderDm
    /\ \A k \in Tree!ClusterIdxs : dma[k] # {} => k = Sender /\ stage[SenderDm] = "wait"

\* The barriers keep the stages apart.
TreeInStep ==
    /\ NClusters = 2 => \A c, d \in Tree!Harts :
            stage[c] \in {"reduce", "cluster", "done"} => stage[d] \notin {"send", "wait"}
    /\ NClusters = 1 => \A c \in Tree!Harts : stage[c] \notin {"global", "reduce"}
    /\ \A j, l \in 0 .. NCompute :
            stage[<<0, j>>] = "done" => stage[<<0, l>>] \in {"cluster", "done"}

Moved(i) == stage[SenderDm] # "send" /\ i \notin dma[Sender]
Reduced(i) ==
    \E j \in 0 .. NCompute - 1 : i \in Tree!Share(j) /\ stage[<<0, j>>] \in {"cluster", "done"}

\* What is in the destination buffer of cluster 0.
Sums ==
    \A i \in Tree!Elements : Moved(i) =>
        dst[0][i] = IF NClusters = 2 /\ ~Reduced(i) THEN Tree!Source(1) ELSE AllOnes

TInv == TreePositions /\ OneTransfer /\ TreeInStep /\ Sums

\* The operators of GlobalReduction at the only level.
LEMMA LevelFacts ==
  ASSUME OneLevel
  PROVE  /\ Tree!ClusterIdxs = IF NClusters = 1 THEN {0} ELSE {0, 1}
         /\ Sender \in Tree!ClusterIdxs /\ 0 \in Tree!ClusterIdxs
         /\ NClusters = 2 => Sender = 1
         /\ NClusters = 1 => Sender = 0
         /\ ~(1 < Tree!num_levels)
         /\ \A k \in Tree!ClusterIdxs : NClusters = 2 => (Tree!Sends(k, 0) <=> k = 1)
         /\ \A k \in Tree!ClusterIdxs : NClusters = 2 => (Tree!Receives(k, 0) <=> k = 0)
         /\ Len \in Nat
<1>1. NClusters \in {1, 2} /\ NCompute \in Nat \ {0} /\ Len \in Nat
  BY SMT DEF OneLevel
<1>2. Tree!ClusterIdxs = IF NClusters = 1 THEN {0} ELSE {0, 1}
  <2>1. 0 .. 1 - 1 = {0} /\ 0 .. 2 - 1 = {0, 1}
    BY SMT
  <2> QED
    BY <1>1, <2>1, Zenon DEF Tree!ClusterIdxs
<1>3. 2 ^ 0 = 1 /\ 2 ^ 1 = 2 /\ 2 ^ 2 = 4
  BY SMT
<1>4. ~(1 < Tree!num_levels)
  <2> DEFINE P(n) == 2 ^ n >= NClusters /\ (n = 0 \/ 2 ^ (n - 1) < NClusters)
  <2>1. \E n \in 0 .. NClusters : P(n)
    <3>1. CASE NClusters = 1
      BY <3>1, <1>3, P(0)
    <3>2. CASE NClusters = 2
      BY <3>2, <1>3, P(1)
    <3> QED
      BY <1>1, <3>1, <3>2
  <2>2. Tree!num_levels \in 0 .. NClusters /\ P(Tree!num_levels)
    BY <2>1 DEF Tree!num_levels
  <2>3. ~(P(2) /\ NClusters = 2)
    BY <1>3, 2 - 1 = 1
  <2> HIDE DEF P
  <2> QED
    BY <1>1, <2>2, <2>3, SMT
<1>5. \A k \in {0, 1} : k % 1 = 0 /\ 0 % 2 = 0 /\ 1 % 2 = 1
  BY SMT
<1>6. \A k \in {0, 1} : (Tree!Sends(k, 0) <=> k = 1) /\ (Tree!Receives(k, 0) <=> k = 0)
  BY <1>3, <1>5 DEF Tree!Sends, Tree!Receives, Tree!is_active, Tree!is_sender
<1> QED
  BY <1>1, <1>2, <1>4, <1>6 DEF Sender

\* The compute cores share out the elements.
LEMMA SharesPartition ==
  ASSUME OneLevel, NEW i \in Tree!Elements
  PROVE  /\ \E j \in 0 .. NCompute - 1 : i \in Tree!Share(j)
         /\ \A j, l \in 0 .. NCompute - 1 :
                i \in Tree!Share(j) /\ i \in Tree!Share(l) => j = l
<1>1. PICK q \in Nat : Len = q * NCompute
  BY DEF OneLevel
<1>2. NCompute \in Nat \ {0} /\ i \in Nat /\ i < q * NCompute
  BY <1>1, SMT DEF OneLevel, Tree!Elements
<1>3. q # 0
  BY <1>2, SMT
<1>4. Tree!items_per_core = q
  BY <1>1, <1>2, SMT DEF Tree!items_per_core
<1>5. \A j \in Nat : i \in Tree!Share(j) <=> j * q <= i /\ i < (j + 1) * q
  BY <1>1, <1>2, <1>4, SMT DEF Tree!Share
<1>6. i \div q \in 0 .. NCompute - 1 /\ (i \div q) * q <= i /\ i < (i \div q + 1) * q
  BY <1>1, <1>2, <1>3, SMT
<1>7. ASSUME NEW j \in 0 .. NCompute - 1, NEW l \in 0 .. NCompute - 1, j < l,
             i \in Tree!Share(j), i \in Tree!Share(l)
      PROVE  FALSE
  <2>1. i < (j + 1) * q /\ l * q <= i /\ j + 1 <= l /\ j \in Nat /\ l \in Nat
    BY <1>5, <1>7, <1>2
  <2>2. PICK d \in Nat : l = j + 1 + d
    BY <2>1, l = j + 1 + (l - j - 1)
  <2>3. l * q = (j + 1) * q + d * q /\ d * q >= 0
    BY <2>1, <2>2, <1>1, SMT
  <2> QED
    BY <2>1, <2>3, <1>2, <1>1, SMT
<1> QED
  <2>1. \E j \in 0 .. NCompute - 1 : i \in Tree!Share(j)
    BY <1>5, <1>6
  <2>2. ASSUME NEW j \in 0 .. NCompute - 1, NEW l \in 0 .. NCompute - 1,
               i \in Tree!Share(j), i \in Tree!Share(l)
        PROVE  j = l
    <3>1. ~(j < l) /\ ~(l < j)
      BY <1>7, <2>2
    <3> QED
      BY <3>1, <1>2
  <2> QED
    BY <2>1, <2>2

LEMMA TreeHart ==
  ASSUME OneLevel
  PROVE  /\ SenderDm \in Tree!Harts
         /\ \A j \in 0 .. NCompute : <<0, j>> \in Tree!Harts
         /\ 0 .. NCompute - 1 \subseteq 0 .. NCompute
         /\ \A c \in Tree!Harts :
               /\ c[1] \in Tree!ClusterIdxs /\ c[2] \in 0 .. NCompute
               /\ c = <<c[1], c[2]>>
               /\ c = SenderDm <=> c[1] = Sender /\ Tree!IsDm(c)
<1>1. NCompute \in 0 .. NCompute /\ 0 .. NCompute - 1 \subseteq 0 .. NCompute
  BY SMT DEF OneLevel
<1> QED
  BY <1>1, LevelFacts DEF Tree!Harts, SenderDm, Tree!IsDm

LEMMA InitTInv == OneLevel /\ Tree!Init => TInv
<1> SUFFICES ASSUME OneLevel, Tree!Init
             PROVE  TInv
  OBVIOUS
<1>1. TreePositions
  BY DEF Tree!Init, TreePositions, TreeStages
<1>2. stage = [c \in Tree!Harts |-> "send"]
  BY DEF Tree!Init
<1>3. OneTransfer
  BY <1>2 DEF Tree!Init, OneTransfer
<1>4. \A j \in 0 .. NCompute : <<0, j>> \in Tree!Harts
  BY LevelFacts DEF Tree!Harts
<1>5. TreeInStep
  BY <1>2, <1>4 DEF TreeInStep
<1>6. SenderDm \in Tree!Harts
  BY LevelFacts, SMT DEF Tree!Harts, SenderDm, OneLevel
<1>7. Sums
  BY <1>2, <1>6 DEF Sums, Moved
<1> QED
  BY <1>1, <1>3, <1>5, <1>7 DEF TInv

\* A step that takes core c to stage s and leaves the buffers alone.
LEMMA TreeGoto ==
  ASSUME OneLevel, TInv, NEW c \in Tree!Harts, NEW s \in TreeStages,
         Tree!Goto(c, s), UNCHANGED level
  PROVE  /\ stage'[c] = s
         /\ \A d \in Tree!Harts : d # c => stage'[d] = stage[d]
         /\ stage' \in [Tree!Harts -> TreeStages]
         /\ level' = [d \in Tree!Harts |-> 0] /\ level[c] = 0
BY DEF TInv, TreePositions, Tree!Goto

LEMMA SendTInv ==
  ASSUME OneLevel, TInv, NEW c \in Tree!Harts, Tree!Send(c)
  PROVE  TInv'
<1> DEFINE sends == Tree!IsDm(c) /\ (NClusters = 1 \/ Tree!Sends(c[1], level[c]))
           s == IF sends THEN "wait" ELSE IF NClusters = 1 THEN "cluster" ELSE "global"
<1>1. /\ stage[c] = "send" /\ UNCHANGED <<dst, level>> /\ Tree!Goto(c, s)
      /\ dma' = IF sends THEN [dma EXCEPT ![c[1]] = Tree!Elements] ELSE dma
  BY DEF Tree!Send
<1>2. s \in TreeStages /\ (s = "wait" <=> sends)
  BY DEF TreeStages
<1>3. /\ stage'[c] = s /\ \A d \in Tree!Harts : d # c => stage'[d] = stage[d]
      /\ stage' \in [Tree!Harts -> TreeStages]
      /\ level' = [d \in Tree!Harts |-> 0] /\ level[c] = 0
  BY <1>1, <1>2, TreeGoto
<1>4. sends <=> c = SenderDm
  BY <1>3, LevelFacts, TreeHart DEF OneLevel, Tree!ClusterIdxs
<1>5. TreePositions'
  BY <1>1, <1>3, TreeHart DEF TInv, TreePositions
<1>6. OneTransfer'
  <2>1. \A d \in Tree!Harts : stage'[d] = "wait" => d = SenderDm
    BY <1>2, <1>3, <1>4 DEF TInv, OneTransfer
  <2>2. CASE sends
    BY <1>1, <1>2, <1>3, <1>4, <2>1, <2>2, TreeHart DEF TInv, OneTransfer, TreePositions
  <2>3. CASE ~sends
    <3>1. stage'[SenderDm] = stage[SenderDm]
      BY <1>3, <1>4, <2>3, TreeHart
    <3> QED
      BY <1>1, <2>1, <2>3, <3>1 DEF TInv, OneTransfer
  <2> QED
    BY <2>2, <2>3
<1> HIDE DEF sends
<1>7. TreeInStep'
  <2>1. \A d \in Tree!Harts : stage'[d] = "done" => stage[d] = "done"
    BY <1>2, <1>3
  <2>2. \A d \in Tree!Harts : stage[d] \in {"cluster", "done"} => stage'[d] \in {"cluster", "done"}
    BY <1>1, <1>3
  <2>3. CASE NClusters = 2
    <3>1. \A d \in Tree!Harts : stage[d] \notin {"reduce", "cluster", "done"}
      BY <1>1, <2>3 DEF TInv, TreeInStep
    <3>2. \A d \in Tree!Harts : stage'[d] \notin {"reduce", "cluster", "done"}
      BY <1>2, <1>3, <3>1, <2>3
    <3> QED
      BY <2>1, <2>2, <2>3, <3>2, TreeHart DEF TInv, TreeInStep
  <2>4. CASE NClusters = 1
    BY <1>2, <1>3, <2>1, <2>2, <2>4, TreeHart DEF TInv, TreeInStep
  <2> QED
    BY <2>3, <2>4 DEF OneLevel
<1>8. Sums'
  <2> SUFFICES ASSUME NEW i \in Tree!Elements, Moved(i)'
               PROVE  dst[0][i] = IF NClusters = 2 /\ ~Reduced(i)' THEN Tree!Source(1) ELSE AllOnes
    BY <1>1 DEF Sums, Tree!Elements, Tree!Source, AllOnes, Tree!ClusterIdxs
  <2>1. ~sends
    BY <1>1, <1>3, <1>4, TreeHart DEF Moved, TInv, TreePositions
  <2>2. Moved(i)
    BY <1>1, <1>3, <1>4, <2>1, TreeHart DEF Moved
  <2>3. NClusters = 2 => ~Reduced(i) /\ ~Reduced(i)'
    <3>1. ASSUME NClusters = 2
          PROVE  \A d \in Tree!Harts : stage[d] \notin {"cluster", "done"} /\ stage'[d] \notin {"cluster", "done"}
      BY <1>1, <1>2, <1>3, <3>1 DEF TInv, TreeInStep
    <3> QED
      BY <3>1, TreeHart DEF Reduced
  <2> QED
    BY <2>2, <2>3 DEF TInv, Sums
<1> QED
  BY <1>5, <1>6, <1>7, <1>8 DEF TInv

LEMMA WaitAllTInv ==
  ASSUME OneLevel, TInv, NEW c \in Tree!Harts, Tree!WaitAll(c)
  PROVE  TInv'
<1> DEFINE s == IF NClusters = 1 THEN "cluster" ELSE "global"
<1>1. stage[c] = "wait" /\ dma[c[1]] = {} /\ UNCHANGED <<dst, dma, level>> /\ Tree!Goto(c, s)
  BY DEF Tree!WaitAll
<1>2. s \in TreeStages
  BY DEF TreeStages
<1>3. /\ stage'[c] = s /\ \A d \in Tree!Harts : d # c => stage'[d] = stage[d]
      /\ stage' \in [Tree!Harts -> TreeStages]
      /\ level' = [d \in Tree!Harts |-> 0]
  BY <1>1, <1>2, TreeGoto
<1>4. c = SenderDm /\ dma[Sender] = {}
  BY <1>1, TreeHart DEF TInv, OneTransfer
<1>5. TreePositions'
  BY <1>1, <1>3 DEF TInv, TreePositions
<1>6. OneTransfer'
  BY <1>1, <1>3, <1>4 DEF TInv, OneTransfer
<1>7. NClusters = 2 => \A d \in Tree!Harts : /\ stage[d] \notin {"reduce", "cluster", "done"}
                                             /\ stage'[d] \notin {"reduce", "cluster", "done"}
  BY <1>1, <1>3 DEF TInv, TreeInStep
<1>8. TreeInStep'
  BY <1>1, <1>3, <1>7, TreeHart DEF TInv, TreeInStep, OneLevel
<1>9. Sums'
  <2> SUFFICES ASSUME NEW i \in Tree!Elements
               PROVE  dst[0][i] = IF NClusters = 2 /\ ~Reduced(i)' THEN Tree!Source(1) ELSE AllOnes
    BY <1>1 DEF Sums, Tree!Elements, Tree!Source, AllOnes, Tree!ClusterIdxs
  <2>1. Moved(i)
    BY <1>1, <1>4 DEF Moved
  <2>2. NClusters = 2 => ~Reduced(i) /\ ~Reduced(i)'
    BY <1>7, TreeHart DEF Reduced
  <2> QED
    BY <2>1, <2>2 DEF TInv, Sums
<1> QED
  BY <1>5, <1>6, <1>8, <1>9 DEF TInv

LEMMA MoveTInv ==
  ASSUME OneLevel, TInv, NEW k \in Tree!ClusterIdxs, Tree!Move(k)
  PROVE  TInv'
<1>1. PICK i \in dma[k] : /\ dst' = [dst EXCEPT ![Tree!Receiver(k)][i] = Tree!Source(k)]
                          /\ dma' = [dma EXCEPT ![k] = @ \ {i}]
                          /\ UNCHANGED <<level, stage>>
  BY DEF Tree!Move
<1>2. k = Sender /\ stage[SenderDm] = "wait" /\ i \in Tree!Elements
  BY <1>1 DEF TInv, OneTransfer, TreePositions
<1>3. Tree!Receiver(k) = 0
  <2>1. level[<<k, NCompute>>] = 0
    BY <1>2, TreeHart DEF TInv, TreePositions, SenderDm, OneLevel, Tree!Harts
  <2>2. 2 ^ 0 = 1
    BY SMT
  <2> QED
    BY <1>2, <2>1, <2>2, LevelFacts DEF Tree!Receiver, OneLevel
<1>4. /\ dst'[0][i] = Tree!Source(k)
      /\ \A e \in Tree!Elements : e # i => dst'[0][e] = dst[0][e]
      /\ dma'[Sender] = dma[Sender] \ {i}
  BY <1>1, <1>2, <1>3, LevelFacts DEF TInv, TreePositions
<1>5. TreePositions'
  BY <1>1 DEF TInv, TreePositions
<1>6. OneTransfer' /\ TreeInStep'
  BY <1>1, <1>2 DEF TInv, OneTransfer, TreeInStep, TreePositions
<1>7. Sums'
  <2> SUFFICES ASSUME NEW e \in Tree!Elements, Moved(e)'
               PROVE  dst'[0][e] = IF NClusters = 2 /\ ~Reduced(e) THEN Tree!Source(1) ELSE AllOnes
    BY <1>1 DEF Sums, Reduced, Tree!Elements, Tree!Source, AllOnes, Tree!ClusterIdxs, Tree!Share,
                Tree!items_per_core
  <2>1. CASE e = i
    <3>1. NClusters = 2 => ~Reduced(e)
      <4>1. ASSUME NClusters = 2
            PROVE  \A d \in Tree!Harts : stage[d] \notin {"cluster", "done"}
        BY <4>1, <1>2, TreeHart DEF TInv, TreeInStep
      <4> QED
        BY <4>1, TreeHart DEF Reduced
    <3>2. NClusters = 1 => Tree!Source(0) = AllOnes
      BY LevelFacts DEF Tree!Source, AllOnes
    <3> QED
      BY <1>2, <1>4, <2>1, <3>1, <3>2, LevelFacts DEF OneLevel
  <2>2. CASE e # i
    <3>1. Moved(e)
      BY <1>1, <1>4, <2>2 DEF Moved
    <3> QED
      BY <1>4, <2>2, <3>1 DEF TInv, Sums
  <2> QED
    BY <2>1, <2>2
<1> QED
  BY <1>5, <1>6, <1>7 DEF TInv

LEMMA GlobalBarrierTInv ==
  ASSUME OneLevel, TInv, NEW c \in Tree!Harts, Tree!GlobalBarrier(c)
  PROVE  TInv'
<1>1. stage[c] = "global" /\ UNCHANGED <<dst, dma, level>> /\ Tree!Goto(c, "reduce")
  BY DEF Tree!GlobalBarrier
<1>2. \A d \in Tree!Harts : level[d] = 0 /\ level[c] = 0
  BY DEF TInv, TreePositions
<1>3. \A d \in Tree!Harts : stage[d] \notin {"send", "wait"}
  BY <1>2 DEF Tree!GlobalBarrier, Tree!PastGlobal
<1>4. /\ stage'[c] = "reduce" /\ \A d \in Tree!Harts : d # c => stage'[d] = stage[d]
      /\ stage' \in [Tree!Harts -> TreeStages]
      /\ level' = [d \in Tree!Harts |-> 0]
  BY <1>1, TreeGoto DEF TreeStages
<1>5. NClusters = 2
  BY <1>1 DEF TInv, TreeInStep, OneLevel
<1>6. TreePositions'
  BY <1>1, <1>4 DEF TInv, TreePositions
<1>7. OneTransfer'
  BY <1>1, <1>3, <1>4, TreeHart DEF TInv, OneTransfer
<1>8. TreeInStep'
  BY <1>1, <1>3, <1>4, <1>5, TreeHart DEF TInv, TreeInStep
<1>9. Sums'
  <2>1. \A i \in Tree!Elements : (Reduced(i)' <=> Reduced(i)) /\ (Moved(i)' <=> Moved(i))
    BY <1>1, <1>3, <1>4, TreeHart DEF Reduced, Moved, Tree!Share, Tree!items_per_core
  <2> QED
    BY <1>1, <2>1 DEF TInv, Sums, Tree!Elements, Tree!Source, AllOnes, Tree!ClusterIdxs
<1> QED
  BY <1>6, <1>7, <1>8, <1>9 DEF TInv

LEMMA ReduceTInv ==
  ASSUME OneLevel, TInv, NEW c \in Tree!Harts, Tree!Reduce(c)
  PROVE  TInv'
<1>1. stage[c] = "reduce" /\ UNCHANGED <<dma, level>> /\ Tree!Goto(c, "cluster")
  BY DEF Tree!Reduce
<1>2. /\ stage'[c] = "cluster" /\ \A d \in Tree!Harts : d # c => stage'[d] = stage[d]
      /\ stage' \in [Tree!Harts -> TreeStages]
      /\ level' = [d \in Tree!Harts |-> 0] /\ level[c] = 0
  BY <1>1, TreeGoto DEF TreeStages
<1>3. NClusters = 2 /\ \A d \in Tree!Harts : stage[d] \notin {"send", "wait"}
  BY <1>1 DEF TInv, TreeInStep, OneLevel
<1>4. Tree!Receives(c[1], level[c]) <=> c[1] = 0
  BY <1>2, <1>3, LevelFacts, TreeHart
<1>5. TreePositions'
  <2>1. DOMAIN dst' = Tree!ClusterIdxs /\ \A k \in Tree!ClusterIdxs : DOMAIN dst'[k] = Tree!Elements
    BY TreeHart DEF Tree!Reduce, TInv, TreePositions
  <2> QED
    BY <1>1, <1>2, <2>1 DEF TInv, TreePositions
<1>6. OneTransfer' /\ TreeInStep'
  BY <1>1, <1>2, <1>3, TreeHart DEF TInv, OneTransfer, TreeInStep
<1>7. Sums'
  <2> SUFFICES ASSUME NEW i \in Tree!Elements
               PROVE  dst'[0][i] = IF Reduced(i)' THEN AllOnes ELSE Tree!Source(1)
    BY <1>3 DEF Sums, Tree!Elements, Tree!Source, AllOnes, Tree!ClusterIdxs
  <2>1. Moved(i)
    BY <1>3, TreeHart DEF Moved, TInv, OneTransfer
  <2>2. dst[0][i] = IF Reduced(i) THEN AllOnes ELSE Tree!Source(1)
    BY <1>3, <2>1 DEF TInv, Sums
  <2>3. \A j \in 0 .. NCompute - 1 : <<0, j>> \in Tree!Harts /\ ~Tree!IsDm(<<0, j>>)
    <3>1. \A j \in 0 .. NCompute - 1 : j # NCompute
      BY SMT DEF OneLevel
    <3> QED
      BY <3>1, TreeHart DEF Tree!IsDm
  <2>4. CASE c[1] = 0 /\ ~Tree!IsDm(c) /\ i \in Tree!Share(c[2])
    <3>1. c[2] \in 0 .. NCompute - 1 /\ c = <<0, c[2]>>
      BY <2>4, TreeHart, SMT DEF Tree!IsDm, OneLevel
    <3>2. ~Reduced(i)
      BY <1>1, <2>4, <3>1, SharesPartition DEF Reduced
    <3>3. Reduced(i)'
      BY <1>2, <2>4, <3>1 DEF Reduced, Tree!Share, Tree!items_per_core
    <3>4. dst'[0][i] = Tree!Plus(dst[0][i], Tree!Source(0))
      BY <1>4, <2>4, LevelFacts DEF Tree!Reduce, TInv, TreePositions
    <3>5. Tree!Plus(Tree!Source(1), Tree!Source(0)) = AllOnes
      <4>1. \A k \in {0, 1} : (IF k = 1 THEN 1 ELSE 0) + (IF k = 0 THEN 1 ELSE 0) = 1
        BY SMT
      <4> QED
        BY <4>1, <1>3, LevelFacts DEF Tree!Plus, Tree!Source, AllOnes
    <3> QED
      BY <2>2, <3>2, <3>3, <3>4, <3>5
  <2>5. CASE ~(c[1] = 0 /\ ~Tree!IsDm(c) /\ i \in Tree!Share(c[2]))
    <3>1. dst'[0][i] = dst[0][i]
      BY <1>4, <2>5, LevelFacts DEF Tree!Reduce, TInv, TreePositions
    <3>2. \A j \in 0 .. NCompute - 1 : i \in Tree!Share(j) => <<0, j>> # c
      BY <2>3, <2>5
    <3>3. Reduced(i)' <=> Reduced(i)
      BY <1>1, <1>2, <2>3, <3>2 DEF Reduced, Tree!Share, Tree!items_per_core
    <3> QED
      BY <2>2, <3>1, <3>3
  <2> QED
    BY <2>4, <2>5
<1> QED
  BY <1>5, <1>6, <1>7 DEF TInv

LEMMA ClusterBarrierTInv ==
  ASSUME OneLevel, TInv, NEW c \in Tree!Harts, Tree!ClusterBarrier(c)
  PROVE  TInv'
<1>1. level[c] = 0 /\ \A d \in Tree!Harts : level[d] = 0
  BY DEF TInv, TreePositions
<1>2. ~(level[c] + 1 < Tree!num_levels)
  BY <1>1, LevelFacts
<1>3. stage[c] = "cluster" /\ UNCHANGED <<dst, dma, level>> /\ Tree!Goto(c, "done")
  BY <1>2 DEF Tree!ClusterBarrier
<1>4. \A d \in Tree!Harts : d[1] = c[1] => stage[d] \in {"cluster", "done"}
  BY <1>1 DEF Tree!ClusterBarrier, Tree!PastCluster
<1>5. /\ stage'[c] = "done" /\ \A d \in Tree!Harts : d # c => stage'[d] = stage[d]
      /\ stage' \in [Tree!Harts -> TreeStages]
      /\ level' = [d \in Tree!Harts |-> 0]
  BY <1>3, TreeGoto DEF TreeStages
<1>6. TreePositions'
  BY <1>3, <1>5 DEF TInv, TreePositions
<1>7. OneTransfer'
  BY <1>3, <1>5, TreeHart DEF TInv, OneTransfer
<1>8. \A d \in Tree!Harts : stage[d] \in {"cluster", "done"} <=> stage'[d] \in {"cluster", "done"}
  BY <1>3, <1>5
<1>9. TreeInStep'
  <2>1. ASSUME NEW j \in 0 .. NCompute, NEW l \in 0 .. NCompute, stage'[<<0, j>>] = "done"
        PROVE  stage'[<<0, l>>] \in {"cluster", "done"}
    <3>1. <<0, j>> \in Tree!Harts /\ <<0, l>> \in Tree!Harts
      BY TreeHart
    <3>2. CASE <<0, j>> = c
      BY <1>4, <1>8, <3>1, <3>2
    <3>3. CASE <<0, j>> # c
      BY <1>5, <1>8, <2>1, <3>1, <3>3 DEF TInv, TreeInStep
    <3> QED
      BY <3>2, <3>3
  <2> QED
    BY <1>3, <1>5, <2>1 DEF TInv, TreeInStep
<1>10. Sums'
  <2>1. \A i \in Tree!Elements : (Reduced(i)' <=> Reduced(i)) /\ (Moved(i)' <=> Moved(i))
    <3>1. stage'[SenderDm] = "send" <=> stage[SenderDm] = "send"
      BY <1>3, <1>5, TreeHart
    <3> QED
      BY <1>3, <1>8, <3>1, TreeHart DEF Reduced, Moved, Tree!Share, Tree!items_per_core
  <2> QED
    BY <1>3, <2>1 DEF TInv, Sums, Tree!Elements, Tree!Source, AllOnes, Tree!ClusterIdxs
<1> QED
  BY <1>6, <1>7, <1>9, <1>10 DEF TInv

LEMMA StepTInv ==
  ASSUME OneLevel, TInv, [Tree!Next]_reductionVars
  PROVE  TInv'
<1>1. CASE UNCHANGED reductionVars
  <2>1. UNCHANGED <<dst, dma, level, stage>>
    BY <1>1 DEF reductionVars
  <2>2. \A i \in Tree!Elements : (Reduced(i)' <=> Reduced(i)) /\ (Moved(i)' <=> Moved(i))
    BY <2>1 DEF Reduced, Moved, Tree!Share, Tree!items_per_core
  <2>3. Sums'
    BY <2>1, <2>2 DEF TInv, Sums, Tree!Elements, Tree!Source, AllOnes, Tree!ClusterIdxs
  <2> QED
    BY <2>1, <2>3 DEF TInv, TreePositions, OneTransfer, TreeInStep
<1>2. CASE Tree!Done
  BY <1>1, <1>2 DEF Tree!Done, Tree!vars, reductionVars
<1>3. ASSUME NEW c \in Tree!Harts, Tree!Core(c)
      PROVE  TInv'
  BY <1>3, SendTInv, WaitAllTInv, GlobalBarrierTInv, ReduceTInv, ClusterBarrierTInv DEF Tree!Core
<1>4. ASSUME NEW k \in Tree!ClusterIdxs, Tree!Move(k)
      PROVE  TInv'
  BY <1>4, MoveTInv
<1> QED
  BY <1>1, <1>2, <1>3, <1>4 DEF Tree!Next

(***************************************************************************)
(* snrt_global_reduction_dma: for one and for two clusters, any number of  *)
(* compute cores and any buffer that they can share, a core of cluster 0   *)
(* that returns finds every sum complete, although the cores go on while   *)
(* the transfer runs and only the barriers hold them apart.                *)
(***************************************************************************)
THEOREM ReductionCorrect == OneLevel /\ PartsSpec => []SumComplete
<1> SUFFICES ASSUME OneLevel
             PROVE  PartsSpec => []SumComplete
  OBVIOUS
<1>1. Tree!Init => TInv
  BY InitTInv
<1>2. TInv /\ [Tree!Next]_reductionVars => TInv'
  BY StepTInv
<1>3. TInv => SumComplete
  <2> SUFFICES ASSUME TInv, NEW j \in 0 .. NCompute, stage[<<0, j>>] = "done", NEW i \in Tree!Elements
               PROVE  dst[0][i] = AllOnes
    BY DEF SumComplete, Tree!SumComplete, AllOnes
  <2>1. \A l \in 0 .. NCompute : <<0, l>> \in Tree!Harts /\ stage[<<0, l>>] \in {"cluster", "done"}
    BY TreeHart DEF TInv, TreeInStep
  <2>2. Reduced(i)
    BY <2>1, SharesPartition, TreeHart DEF Reduced
  <2>3. Moved(i)
    <3>1. stage[SenderDm] \notin {"send", "wait"}
      <4>1. CASE NClusters = 2
        BY <4>1, <2>1, TreeHart DEF TInv, TreeInStep
      <4>2. CASE NClusters = 1
        <5>1. NCompute \in 0 .. NCompute /\ SenderDm = <<0, NCompute>>
          BY <4>2, 1 - 1 = 0, SMT DEF OneLevel, SenderDm, Sender
        <5> QED
          BY <5>1, <2>1
      <4> QED
        BY <4>1, <4>2 DEF OneLevel
    <3> QED
      BY <3>1, LevelFacts DEF Moved, TInv, OneTransfer
  <2> QED
    BY <2>2, <2>3 DEF TInv, Sums
<1> QED
  BY <1>1, <1>2, <1>3, EachPart, PTL DEF Tree!Spec, Tree!vars, reductionVars
=============================================================================
