------------------------------ MODULE BootProofs ------------------------------
(***************************************************************************)
(* Proofs about the way from reset into the OpenMP runtime, for any number *)
(* of cores and any sizes of the structures: main runs only when           *)
(* everything it uses is initialised, and in the bootstrap the DM core and *)
(* core 0 never allocate at the same time, although nothing locks the      *)
(* allocator.                                                              *)
(***************************************************************************)
EXTENDS Boot, Integers, TLAPS

-----------------------------------------------------------------------------
(* The programs of the bootstrap. *)

LEMMA MasterCode ==
  /\ Len(MasterProgram) = 18
  /\ MasterProgram[1] = <<"await", "dm">>
  /\ MasterProgram[2] = <<"load", "eu">> /\ MasterProgram[3] = <<"store", "eu">>
  /\ MasterProgram[4] = <<"clear", "eu">> /\ MasterProgram[5] = <<"publish", "eu">>
  /\ MasterProgram[6] = <<"load", "args">> /\ MasterProgram[7] = <<"store", "args">>
  /\ MasterProgram[8] = <<"load", "omp">> /\ MasterProgram[9] = <<"store", "omp">>
  /\ MasterProgram[10] = <<"clear", "omp">>
  /\ MasterProgram[11] = <<"load", "bar">> /\ MasterProgram[12] = <<"store", "bar">>
  /\ MasterProgram[13] = <<"clear", "bar">> /\ MasterProgram[14] = <<"publish", "omp">>
  /\ MasterProgram[15] = <<"load", "prof">> /\ MasterProgram[16] = <<"store", "prof">>
  /\ MasterProgram[17] = <<"arrive", "all">> /\ MasterProgram[18] = <<"leave", "all">>
BY SMT DEF MasterProgram, allocClear, alloc, publish, await, barrier

LEMMA DmCode ==
  /\ Len(DmProgram) = 8
  /\ DmProgram[1] = <<"load", "dm">> /\ DmProgram[2] = <<"store", "dm">>
  /\ DmProgram[3] = <<"clear", "dm">> /\ DmProgram[4] = <<"publish", "dm">>
  /\ DmProgram[5] = <<"await", "eu">> /\ DmProgram[6] = <<"await", "omp">>
  /\ DmProgram[7] = <<"arrive", "all">> /\ DmProgram[8] = <<"leave", "all">>
BY SMT DEF DmProgram, allocClear, alloc, publish, await, barrier

LEMMA WorkerCode ==
  /\ Len(WorkerProgram) = 5
  /\ WorkerProgram[1] = <<"await", "dm">> /\ WorkerProgram[2] = <<"await", "eu">>
  /\ WorkerProgram[3] = <<"await", "omp">>
  /\ WorkerProgram[4] = <<"arrive", "all">> /\ WorkerProgram[5] = <<"leave", "all">>
BY SMT DEF WorkerProgram, await, barrier

\* The two cores that allocate, and what the others run.
LEMMA CoreFacts ==
  /\ 0 \in Harts /\ DmCore \in Harts /\ 0 # DmCore
  /\ \A c \in Harts : c \notin {0, DmCore} => Program(c) = WorkerProgram
  /\ Program(0) = MasterProgram /\ Program(DmCore) = DmProgram
<1>1. 0 \in Harts /\ DmCore \in Harts /\ 0 # DmCore
  BY CoresAssumption, SMT DEF Harts, DmCore
<1> QED
  BY <1>1 DEF Program

-----------------------------------------------------------------------------
(* The inductive invariant: the two allocating cores together run one fixed *)
(* sequence of allocations, so every structure has a place of its own.      *)

Block(o) == ALIGN_UP(Size[o])
DmAt == MIN_CHUNK_SIZE
EuAt == DmAt + Block("dm")
ArgsAt == EuAt + Block("eu")
OmpAt == ArgsAt + Block("args")
BarAt == OmpAt + Block("omp")
ProfAt == BarAt + Block("bar")
EndAt == ProfAt + Block("prof")

\* Where the allocator stands when core 0 has done m and the DM core d instructions.
NextAt(m, d) ==
    IF d < 2 THEN DmAt ELSE IF m < 3 THEN EuAt ELSE IF m < 7 THEN ArgsAt
    ELSE IF m < 9 THEN OmpAt ELSE IF m < 12 THEN BarAt ELSE IF m < 16 THEN ProfAt ELSE EndAt

BootTypes ==
    /\ pc \in [Harts -> Nat]
    /\ \A c \in Harts : pc[c] <= Len(Program(c))
    /\ ret \in [Harts -> Nat]
    /\ at \in [Harts -> [Objects -> Nat]]
    /\ global \in [Pointers -> Nat]

\* Core 0 starts when the DM core has handed out its structure.
HandedOver == pc[0] >= 1 => pc[DmCore] >= 4

\* A pointer that has been loaded is still the allocator's.
AllocatorHeld ==
    /\ next = NextAt(pc[0], pc[DmCore])
    /\ pc[DmCore] = 1 => ret[DmCore] = next
    /\ pc[0] \in {2, 6, 8, 11, 15} => ret[0] = next

Placed ==
    /\ at[DmCore]["dm"] = IF pc[DmCore] >= 2 THEN DmAt ELSE Null
    /\ at[0]["eu"] = IF pc[0] >= 3 THEN EuAt ELSE Null
    /\ pc[0] >= 7 => at[0]["args"] = ArgsAt
    /\ at[0]["omp"] = IF pc[0] >= 9 THEN OmpAt ELSE Null
    /\ pc[0] >= 12 => at[0]["bar"] = BarAt
    /\ pc[0] >= 16 => at[0]["prof"] = ProfAt

Published ==
    /\ global["dm"] = IF pc[DmCore] >= 4 THEN DmAt ELSE Null
    /\ global["eu"] = IF pc[0] >= 5 THEN EuAt ELSE Null
    /\ global["omp"] = IF pc[0] >= 14 THEN OmpAt ELSE Null

\* What the others hold is what has been handed out.
Held ==
    \A c \in Harts :
        /\ c # DmCore => at[c]["dm"] \in {Null, global["dm"]}
        /\ c # 0 => at[c]["eu"] \in {Null, global["eu"]} /\ at[c]["omp"] \in {Null, global["omp"]}

ClearedBefore ==
    /\ pc[DmCore] >= 3 => DmAt \in cleared
    /\ pc[0] >= 4 => EuAt \in cleared
    /\ pc[0] >= 10 => OmpAt \in cleared
    /\ pc[0] >= 13 => BarAt \in cleared

OInv ==
    /\ BootTypes /\ HandedOver /\ AllocatorHeld
    /\ Placed /\ Published /\ Held /\ ClearedBefore

-----------------------------------------------------------------------------
(* What each core can do where. *)

LEMMA PlaceFacts ==
  /\ \A o \in Objects : Size[o] \in Nat \ {0} /\ Block(o) \in Nat /\ Size[o] <= Block(o)
  /\ DmAt \in Nat \ {0} /\ EuAt \in Nat \ {0} /\ ArgsAt \in Nat \ {0} /\ OmpAt \in Nat \ {0}
  /\ BarAt \in Nat \ {0} /\ ProfAt \in Nat \ {0} /\ EndAt \in Nat \ {0}
  /\ Null = 0
<1>1. \A n \in Nat : ALIGN_UP(n) \in Nat /\ n <= ALIGN_UP(n)
  BY SMT DEF ALIGN_UP, MIN_CHUNK_SIZE
<1>2. \A o \in Objects : Size[o] \in Nat \ {0}
  BY ObjSizeAssumption
<1>3. \A o \in Objects : Block(o) \in Nat /\ Size[o] <= Block(o)
  BY <1>1, <1>2 DEF Block
<1>4. {"dm", "eu", "args", "omp", "bar", "prof"} \subseteq Objects
  BY DEF Objects
<1> HIDE DEF Block
<1> QED
  BY <1>2, <1>3, <1>4 DEF DmAt, EuAt, ArgsAt, OmpAt, BarAt, ProfAt, EndAt, MIN_CHUNK_SIZE, Null

\* The instruction that core c is at.
LEMMA AtFacts ==
  ASSUME BootTypes, NEW c \in Harts, NEW kind, AtInstr(c, kind)
  PROVE  /\ pc[c] \in Nat /\ pc[c] < Len(Program(c))
         /\ kind = Program(c)[pc[c] + 1][1] /\ Operand(c) = Program(c)[pc[c] + 1][2]
<1>1. Len(MasterProgram) = 18 /\ Len(DmProgram) = 8 /\ Len(WorkerProgram) = 5
  BY MasterCode, DmCode, WorkerCode
<1>2. Len(Program(c)) \in Nat
  BY <1>1, CoreFacts
<1>3. pc[c] \in Nat /\ pc[c] <= Len(Program(c)) /\ pc[c] # Len(Program(c))
  BY DEF BootTypes, AtInstr, Booted
<1>4. pc[c] \in Nat /\ pc[c] < Len(Program(c))
  BY <1>2, <1>3, SMT
<1> QED
  BY <1>4 DEF AtInstr, Operand

LEMMA WorkerKinds ==
  ASSUME BootTypes, NEW c \in Harts, c \notin {0, DmCore}, NEW kind, AtInstr(c, kind)
  PROVE  kind \in {"await", "arrive", "leave"} /\ (kind = "await" => Operand(c) \in Pointers)
<1>1. pc[c] \in 0 .. 4
  <2>1. Program(c) = WorkerProgram /\ Len(WorkerProgram) = 5
    BY CoreFacts, WorkerCode
  <2> QED
    BY <2>1, AtFacts, CoreFacts
<1>2. kind = WorkerProgram[pc[c] + 1][1] /\ Operand(c) = WorkerProgram[pc[c] + 1][2]
  BY AtFacts, CoreFacts
<1> QED
  BY <1>1, <1>2, WorkerCode DEF Pointers

LEMMA MasterKinds ==
  ASSUME BootTypes, NEW kind, AtInstr(0, kind)
  PROVE  \/ kind = "load" /\ pc[0] \in {1, 5, 7, 10, 14}
         \/ kind = "store" /\ \/ pc[0] = 2 /\ Operand(0) = "eu"
                              \/ pc[0] = 6 /\ Operand(0) = "args"
                              \/ pc[0] = 8 /\ Operand(0) = "omp"
                              \/ pc[0] = 11 /\ Operand(0) = "bar"
                              \/ pc[0] = 15 /\ Operand(0) = "prof"
         \/ kind = "clear" /\ \/ pc[0] = 3 /\ Operand(0) = "eu"
                              \/ pc[0] = 9 /\ Operand(0) = "omp"
                              \/ pc[0] = 12 /\ Operand(0) = "bar"
         \/ kind = "publish" /\ \/ pc[0] = 4 /\ Operand(0) = "eu"
                                \/ pc[0] = 13 /\ Operand(0) = "omp"
         \/ kind = "await" /\ pc[0] = 0 /\ Operand(0) = "dm"
         \/ kind = "arrive" /\ pc[0] = 16
         \/ kind = "leave" /\ pc[0] = 17
<1>1. pc[0] \in 0 .. 17
  <2>1. Len(Program(0)) = 18
    BY CoreFacts, MasterCode
  <2>2. 0 \in Harts
    BY CoreFacts
  <2>3. pc[0] \in Nat /\ pc[0] < Len(Program(0))
    BY <2>2, AtFacts, Zenon
  <2>4. pc[0] \in Nat /\ pc[0] < 18
    BY <2>1, <2>3, Zenon
  <2> QED
    BY <2>4, SMT
<1>2. kind = MasterProgram[pc[0] + 1][1] /\ Operand(0) = MasterProgram[pc[0] + 1][2]
  BY AtFacts, CoreFacts
<1>3. CASE pc[0] \in 0 .. 5
  BY <1>2, <1>3, MasterCode
<1>4. CASE pc[0] \in 6 .. 11
  BY <1>2, <1>4, MasterCode
<1>5. CASE pc[0] \in 12 .. 17
  BY <1>2, <1>5, MasterCode
<1> QED
  BY <1>1, <1>3, <1>4, <1>5

LEMMA DmKinds ==
  ASSUME BootTypes, NEW kind, AtInstr(DmCore, kind)
  PROVE  \/ kind = "load" /\ pc[DmCore] = 0
         \/ kind = "store" /\ pc[DmCore] = 1 /\ Operand(DmCore) = "dm"
         \/ kind = "clear" /\ pc[DmCore] = 2 /\ Operand(DmCore) = "dm"
         \/ kind = "publish" /\ pc[DmCore] = 3 /\ Operand(DmCore) = "dm"
         \/ kind = "await" /\ pc[DmCore] = 4 /\ Operand(DmCore) = "eu"
         \/ kind = "await" /\ pc[DmCore] = 5 /\ Operand(DmCore) = "omp"
         \/ kind = "arrive" /\ pc[DmCore] = 6
         \/ kind = "leave" /\ pc[DmCore] = 7
<1>1. pc[DmCore] \in 0 .. 7
  <2>1. Program(DmCore) = DmProgram /\ Len(DmProgram) = 8
    BY CoreFacts, DmCode
  <2> QED
    BY <2>1, AtFacts, CoreFacts
<1>2. kind = DmProgram[pc[DmCore] + 1][1] /\ Operand(DmCore) = DmProgram[pc[DmCore] + 1][2]
  BY AtFacts, CoreFacts
<1> QED
  BY <1>1, <1>2, DmCode

-----------------------------------------------------------------------------
(* Every step keeps the invariant. *)

\* A step is one instruction of one core.
LEMMA StepFacts ==
  ASSUME BootTypes, NEW c \in Harts, Step(c)
  PROVE  /\ pc'[c] = pc[c] + 1 /\ \A d \in Harts : d # c => pc'[d] = pc[d]
         /\ pc' \in [Harts -> Nat] /\ \A d \in Harts : pc'[d] <= Len(Program(d))
<1>1. Advance(c) /\ \E kind : AtInstr(c, kind)
  BY DEF Step, Load, Store, Clear, Publish, Await, Arrive, Leave
<1>2. pc[c] \in Nat /\ pc[c] < Len(Program(c))
  BY <1>1, AtFacts
<1>3. Len(Program(c)) \in Nat
  BY CoreFacts, MasterCode, DmCode, WorkerCode
<1>4. pc'[c] = pc[c] + 1 /\ \A d \in Harts : d # c => pc'[d] = pc[d]
  BY <1>1 DEF Advance, BootTypes
<1> QED
  BY <1>1, <1>2, <1>3, <1>4 DEF Advance, BootTypes

\* The operands of the accesses are structures, those of the exchanges pointers.
LEMMA OperandFacts ==
  ASSUME BootTypes, NEW c \in Harts
  PROVE  /\ AtInstr(c, "store") \/ AtInstr(c, "clear") => Operand(c) \in Objects
         /\ AtInstr(c, "publish") \/ AtInstr(c, "await") => Operand(c) \in Pointers
         /\ Pointers \subseteq Objects
<1>1. CASE c = 0
  BY <1>1, MasterKinds DEF Objects, Pointers
<1>2. CASE c = DmCore
  BY <1>2, DmKinds DEF Objects, Pointers
<1>3. CASE c \notin {0, DmCore}
  BY <1>3, WorkerKinds DEF Objects, Pointers
<1> QED
  BY <1>1, <1>2, <1>3

LEMMA StepTypes ==
  ASSUME BootTypes, next \in Nat, NEW c \in Harts, Step(c)
  PROVE  BootTypes'
<1>1. pc' \in [Harts -> Nat] /\ \A d \in Harts : pc'[d] <= Len(Program(d))
  BY StepFacts
<1>2. /\ ret \in [Harts -> Nat] /\ at \in [Harts -> [Objects -> Nat]]
      /\ global \in [Pointers -> Nat] /\ Pointers \subseteq Objects
  BY OperandFacts DEF BootTypes
<1>3. ret' \in [Harts -> Nat] /\ at' \in [Harts -> [Objects -> Nat]] /\ global' \in [Pointers -> Nat]
  <2>1. CASE Load(c)
    BY <1>2, <2>1 DEF Load
  <2>2. CASE Store(c)
    <3>1. Operand(c) \in Objects
      BY <2>2, OperandFacts DEF Store
    <3> QED
      BY <1>2, <2>2, <3>1 DEF Store
  <2>3. CASE Clear(c) \/ Arrive(c) \/ Leave(c)
    BY <1>2, <2>3 DEF Clear, Arrive, Leave
  <2>4. CASE Publish(c)
    <3>1. Operand(c) \in Pointers
      BY <2>4, OperandFacts DEF Publish
    <3> QED
      BY <1>2, <2>4, <3>1 DEF Publish
  <2>5. CASE Await(c)
    <3>1. Operand(c) \in Pointers
      BY <2>5, OperandFacts DEF Await
    <3> QED
      BY <1>2, <2>5, <3>1 DEF Await
  <2> QED
    BY <2>1, <2>2, <2>3, <2>4, <2>5 DEF Step
<1> QED
  BY <1>1, <1>3 DEF BootTypes, Program

LEMMA DmStep ==
  ASSUME OInv, Step(DmCore)
  PROVE  HandedOver' /\ AllocatorHeld' /\ Placed' /\ Published' /\ Held' /\ ClearedBefore'
<1> DEFINE Goal == HandedOver' /\ AllocatorHeld' /\ Placed' /\ Published' /\ Held' /\ ClearedBefore'
<1> USE CoreFacts, PlaceFacts
<1>1. BootTypes
  BY DEF OInv
<1>2. /\ pc'[DmCore] = pc[DmCore] + 1 /\ pc'[0] = pc[0]
      /\ pc[0] \in Nat /\ pc[DmCore] \in Nat
  BY <1>1, StepFacts DEF BootTypes
<1>3. CASE Load(DmCore)
  <2>1. pc[DmCore] = 0 /\ pc[0] = 0 /\ next = DmAt
    BY <1>1, <1>2, <1>3, DmKinds DEF Load, OInv, HandedOver, AllocatorHeld, NextAt
  <2>2. ret'[DmCore] = next /\ UNCHANGED <<next, at, global, cleared>>
    BY <1>1, <1>3 DEF Load, BootTypes
  <2> QED
    BY <1>2, <2>1, <2>2
       DEF OInv, HandedOver, AllocatorHeld, Placed, Published, Held, ClearedBefore, NextAt
<1>4. CASE Store(DmCore)
  <2>1. pc[DmCore] = 1 /\ pc[0] = 0 /\ Operand(DmCore) = "dm" /\ ret[DmCore] = DmAt
    BY <1>1, <1>2, <1>4, DmKinds DEF Store, OInv, HandedOver, AllocatorHeld, NextAt
  <2>2. next' = EuAt /\ at' = [at EXCEPT ![DmCore]["dm"] = DmAt] /\ UNCHANGED <<ret, global, cleared>>
    BY <1>4, <2>1 DEF Store, EuAt, Block
  <2>3. /\ at'[DmCore]["dm"] = DmAt
        /\ \A c \in Harts, o \in Objects : (c # DmCore \/ o # "dm") => at'[c][o] = at[c][o]
    BY <1>1, <2>2 DEF BootTypes, Objects
  <2> QED
    BY <1>2, <2>1, <2>2, <2>3
       DEF OInv, HandedOver, AllocatorHeld, Placed, Published, Held, ClearedBefore, NextAt, Objects
<1>5. CASE Clear(DmCore)
  <2>1. pc[DmCore] = 2 /\ pc[0] = 0 /\ Operand(DmCore) = "dm"
    BY <1>1, <1>2, <1>5, DmKinds DEF Clear, OInv, HandedOver
  <2>2. cleared' = cleared \cup {DmAt} /\ UNCHANGED <<next, ret, at, global>>
    BY <1>5, <2>1 DEF Clear, OInv, Placed
  <2> QED
    BY <1>2, <2>1, <2>2
       DEF OInv, HandedOver, AllocatorHeld, Placed, Published, Held, ClearedBefore, NextAt
<1>6. CASE Publish(DmCore)
  <2>1. pc[DmCore] = 3 /\ pc[0] = 0 /\ Operand(DmCore) = "dm"
    BY <1>1, <1>2, <1>6, DmKinds DEF Publish, OInv, HandedOver
  <2>2. global' = [global EXCEPT !["dm"] = DmAt] /\ UNCHANGED <<next, ret, at, cleared>>
    <3>1. at[DmCore]["dm"] = DmAt
      BY <2>1 DEF OInv, Placed
    <3> QED
      BY <1>6, <2>1, <3>1 DEF Publish
  <2>3. global'["dm"] = DmAt /\ global["dm"] = Null
        /\ global'["eu"] = global["eu"] /\ global'["omp"] = global["omp"]
    BY <1>1, <2>1, <2>2 DEF BootTypes, Pointers, OInv, Published
  <2> QED
    BY <1>2, <2>1, <2>2, <2>3
       DEF OInv, HandedOver, AllocatorHeld, Placed, Published, Held, ClearedBefore, NextAt
<1>7. CASE Await(DmCore)
  <2>1. pc[DmCore] \in {4, 5} /\ Operand(DmCore) \in {"eu", "omp"}
    BY <1>1, <1>7, DmKinds DEF Await
  <2>2. /\ at'[DmCore][Operand(DmCore)] = global[Operand(DmCore)]
        /\ \A c \in Harts, o \in Objects :
              (c # DmCore \/ o # Operand(DmCore)) => at'[c][o] = at[c][o]
        /\ UNCHANGED <<next, ret, global, cleared>>
    BY <1>1, <1>7, <2>1 DEF Await, BootTypes, Objects
  <2> QED
    BY <1>2, <2>1, <2>2
       DEF OInv, HandedOver, AllocatorHeld, Placed, Published, Held, ClearedBefore, NextAt, Objects
<1>8. CASE Arrive(DmCore) \/ Leave(DmCore)
  <2>1. pc[DmCore] \in {6, 7} /\ UNCHANGED <<next, ret, at, global, cleared>>
    BY <1>1, <1>8, DmKinds DEF Arrive, Leave
  <2> QED
    BY <1>2, <2>1
       DEF OInv, HandedOver, AllocatorHeld, Placed, Published, Held, ClearedBefore, NextAt
<1> QED
  BY <1>3, <1>4, <1>5, <1>6, <1>7, <1>8 DEF Step

LEMMA MasterStep ==
  ASSUME OInv, Step(0)
  PROVE  HandedOver' /\ AllocatorHeld' /\ Placed' /\ Published' /\ Held' /\ ClearedBefore'
<1> USE CoreFacts, PlaceFacts
<1>1. BootTypes
  BY DEF OInv
<1>2. /\ pc'[0] = pc[0] + 1 /\ pc'[DmCore] = pc[DmCore]
      /\ pc[0] \in Nat /\ pc[DmCore] \in Nat
      /\ pc[0] >= 1 => pc[DmCore] >= 4
  BY <1>1, StepFacts DEF BootTypes, OInv, HandedOver
<1>3. CASE Load(0)
  <2>1. pc[0] \in {1, 5, 7, 10, 14}
    BY <1>1, <1>3, MasterKinds DEF Load
  <2>2. ret'[0] = next /\ UNCHANGED <<next, at, global, cleared>>
    BY <1>1, <1>3 DEF Load, BootTypes
  <2>3. AllocatorHeld'
    BY <1>2, <2>1, <2>2 DEF OInv, AllocatorHeld, NextAt
  <2> QED
    BY <1>2, <2>1, <2>2, <2>3 DEF OInv, HandedOver, Placed, Published, Held, ClearedBefore
<1>4. CASE Store(0)
  <2> DEFINE o == Operand(0)
  <2>1. /\ pc[0] \in {2, 6, 8, 11, 15} /\ ret[0] = next /\ o \in Objects \ {"dm"}
        /\ o = IF pc[0] = 2 THEN "eu" ELSE IF pc[0] = 6 THEN "args" ELSE IF pc[0] = 8 THEN "omp"
               ELSE IF pc[0] = 11 THEN "bar" ELSE "prof"
    BY <1>1, <1>4, MasterKinds DEF Store, OInv, AllocatorHeld, Objects
  <2>2. /\ next' = next + Block(o) /\ UNCHANGED <<ret, global, cleared>>
        /\ at' = [at EXCEPT ![0][o] = next]
    BY <1>4, <2>1 DEF Store, Block
  <2> HIDE DEF o
  <2>3. /\ at'[0][o] = next
        /\ \A c \in Harts, p \in Objects : (c # 0 \/ p # o) => at'[c][p] = at[c][p]
    BY <1>1, <2>1, <2>2 DEF BootTypes
  <2>4. next = IF pc[0] = 2 THEN EuAt ELSE IF pc[0] = 6 THEN ArgsAt ELSE IF pc[0] = 8 THEN OmpAt
               ELSE IF pc[0] = 11 THEN BarAt ELSE ProfAt
    BY <1>2, <2>1 DEF OInv, AllocatorHeld, NextAt
  <2>5. AllocatorHeld'
    BY <1>2, <2>1, <2>2, <2>4
       DEF AllocatorHeld, NextAt, ArgsAt, OmpAt, BarAt, ProfAt, EndAt
  <2>6. Placed'
    <3>1. at'[DmCore]["dm"] = at[DmCore]["dm"]
      BY <2>3 DEF Objects
    <3>2. \A p \in {"eu", "args", "omp", "bar", "prof"} : p # o => at'[0][p] = at[0][p]
      BY <2>3 DEF Objects
    <3> QED
      BY <1>2, <2>1, <2>3, <2>4, <3>1, <3>2 DEF OInv, Placed
  <2>7. Held'
    BY <2>1, <2>2, <2>3 DEF OInv, Held, Objects
  <2> QED
    BY <1>2, <2>1, <2>2, <2>5, <2>6, <2>7 DEF OInv, HandedOver, Published, ClearedBefore
<1>5. CASE Clear(0)
  <2>1. pc[0] \in {3, 9, 12} /\ UNCHANGED <<next, ret, at, global>> /\ cleared \subseteq cleared'
    BY <1>1, <1>5, MasterKinds DEF Clear
  <2>2. /\ pc[0] = 3 => EuAt \in cleared'
        /\ pc[0] = 9 => OmpAt \in cleared'
        /\ pc[0] = 12 => BarAt \in cleared'
    BY <1>1, <1>5, MasterKinds DEF Clear, OInv, Placed
  <2>3. AllocatorHeld'
    BY <1>2, <2>1 DEF OInv, AllocatorHeld, NextAt
  <2> QED
    BY <1>2, <2>1, <2>2, <2>3 DEF OInv, HandedOver, Placed, Published, Held, ClearedBefore
<1>6. CASE Publish(0)
  <2> DEFINE o == Operand(0)
  <2>1. \/ pc[0] = 4 /\ o = "eu" /\ at[0][o] = EuAt /\ global[o] = Null
        \/ pc[0] = 13 /\ o = "omp" /\ at[0][o] = OmpAt /\ global[o] = Null
    BY <1>1, <1>6, MasterKinds DEF Publish, OInv, Placed, Published
  <2>2. global' = [global EXCEPT ![o] = at[0][o]] /\ UNCHANGED <<next, ret, at, cleared>>
    BY <1>6 DEF Publish
  <2> HIDE DEF o
  <2>3. global'[o] = at[0][o] /\ \A p \in Pointers : p # o => global'[p] = global[p]
    BY <1>1, <2>1, <2>2 DEF BootTypes, Pointers
  <2>4. AllocatorHeld'
    BY <1>2, <2>1, <2>2 DEF OInv, AllocatorHeld, NextAt
  <2>5. Published' /\ Held'
    BY <1>2, <2>1, <2>2, <2>3 DEF OInv, Published, Held, Pointers
  <2> QED
    BY <1>2, <2>1, <2>2, <2>4, <2>5 DEF OInv, HandedOver, Placed, ClearedBefore
<1>7. CASE Await(0)
  <2>1. pc[0] = 0 /\ Operand(0) = "dm" /\ global["dm"] # Null /\ pc[DmCore] >= 4
    BY <1>1, <1>7, MasterKinds DEF Await, OInv, Published
  <2>2. /\ at'[0]["dm"] = global["dm"]
        /\ \A c \in Harts, o \in Objects : (c # 0 \/ o # "dm") => at'[c][o] = at[c][o]
        /\ UNCHANGED <<next, ret, global, cleared>>
    BY <1>1, <1>7, <2>1 DEF Await, BootTypes, Objects
  <2>3. AllocatorHeld'
    BY <1>2, <2>1, <2>2 DEF OInv, AllocatorHeld, NextAt
  <2>4. Placed' /\ Held'
    BY <1>2, <2>1, <2>2 DEF OInv, Placed, Held, Objects
  <2> QED
    BY <1>2, <2>1, <2>2, <2>3, <2>4 DEF OInv, HandedOver, Published, ClearedBefore
<1>8. CASE Arrive(0) \/ Leave(0)
  <2>1. pc[0] \in {16, 17} /\ UNCHANGED <<next, ret, at, global, cleared>>
    BY <1>1, <1>8, MasterKinds DEF Arrive, Leave
  <2>2. AllocatorHeld'
    BY <1>2, <2>1 DEF OInv, AllocatorHeld, NextAt
  <2> QED
    BY <1>2, <2>1, <2>2 DEF OInv, HandedOver, Placed, Published, Held, ClearedBefore
<1> QED
  BY <1>3, <1>4, <1>5, <1>6, <1>7, <1>8 DEF Step

LEMMA WorkerStep ==
  ASSUME OInv, NEW c \in Harts, c \notin {0, DmCore}, Step(c)
  PROVE  HandedOver' /\ AllocatorHeld' /\ Placed' /\ Published' /\ Held' /\ ClearedBefore'
<1> USE CoreFacts
<1>1. BootTypes
  BY DEF OInv
<1>2. pc'[0] = pc[0] /\ pc'[DmCore] = pc[DmCore]
  BY <1>1, StepFacts
<1>3. ~Load(c) /\ ~Store(c) /\ ~Clear(c) /\ ~Publish(c)
  BY <1>1, WorkerKinds DEF Load, Store, Clear, Publish
<1>4. CASE Await(c)
  <2>1. Operand(c) \in Pointers
    BY <1>1, <1>4, WorkerKinds DEF Await
  <2>2. /\ at'[c][Operand(c)] = global[Operand(c)]
        /\ \A d \in Harts, o \in Objects : (d # c \/ o # Operand(c)) => at'[d][o] = at[d][o]
        /\ UNCHANGED <<next, ret, global, cleared>>
    BY <1>1, <1>4, <2>1, OperandFacts DEF Await, BootTypes
  <2>3. Placed' /\ Held'
    BY <1>2, <2>1, <2>2 DEF OInv, Placed, Held, Objects, Pointers
  <2> QED
    BY <1>2, <2>2, <2>3 DEF OInv, HandedOver, AllocatorHeld, Published, ClearedBefore, NextAt
<1>5. CASE Arrive(c) \/ Leave(c)
  <2>1. UNCHANGED <<next, ret, at, global, cleared>>
    BY <1>5 DEF Arrive, Leave
  <2> QED
    BY <1>2, <2>1
       DEF OInv, HandedOver, AllocatorHeld, Placed, Published, Held, ClearedBefore, NextAt
<1> QED
  BY <1>3, <1>4, <1>5 DEF Step

LEMMA StepOInv == OInv /\ [Next]_vars => OInv'
<1>1. ASSUME OInv, NEW c \in Harts, Step(c)
      PROVE  OInv'
  <2>1. next \in Nat
    BY <1>1, PlaceFacts DEF OInv, AllocatorHeld, NextAt
  <2>2. BootTypes'
    BY <1>1, <2>1, StepTypes DEF OInv
  <2> QED
    BY <1>1, <2>2, MasterStep, DmStep, WorkerStep DEF OInv
<1>2. ASSUME OInv, UNCHANGED vars
      PROVE  OInv'
  BY <1>2 DEF vars, OInv, BootTypes, HandedOver, AllocatorHeld, Placed, Published, Held,
              ClearedBefore, NextAt, Program
<1> QED
  BY <1>1, <1>2 DEF Next, Done

LEMMA InitOInv == Init => OInv
<1> SUFFICES ASSUME Init
             PROVE  OInv
  OBVIOUS
<1> USE CoreFacts, PlaceFacts DEF Init
<1>1. BootTypes
  <2>1. \A c \in Harts : 0 <= Len(Program(c))
    BY MasterCode, DmCode, WorkerCode
  <2> QED
    BY <2>1 DEF BootTypes, Null
<1>2. HandedOver /\ AllocatorHeld /\ Placed /\ Published /\ Held /\ ClearedBefore
  BY DEF HandedOver, AllocatorHeld, Placed, Published, Held, ClearedBefore, NextAt, DmAt,
         Objects, Pointers
<1> QED
  BY <1>1, <1>2 DEF OInv

-----------------------------------------------------------------------------
(* What the invariant gives. *)

\* Which core has allocated what.
Owned(c, o) ==
    \/ c = DmCore /\ o = "dm" /\ pc[DmCore] >= 2
    \/ c = 0 /\ \/ o = "eu" /\ pc[0] >= 3
                \/ o = "args" /\ pc[0] >= 7
                \/ o = "omp" /\ pc[0] >= 9
                \/ o = "bar" /\ pc[0] >= 12
                \/ o = "prof" /\ pc[0] >= 16

LEMMA AllocatedFacts ==
  ASSUME OInv, NEW c \in Harts, NEW o \in Objects
  PROVE  Allocated(c, o) <=> Owned(c, o)
<1>1. pc[c] \in Nat /\ pc[c] <= Len(Program(c))
  BY DEF OInv, BootTypes
<1>2. CASE c = 0
  <2>1. Program(c) = MasterProgram /\ pc[c] <= 18
    BY <1>1, <1>2, CoreFacts, MasterCode
  <2>2. \A i \in 1 .. 18 : MasterProgram[i] = <<"store", o>> <=>
            \/ (i = 3 /\ o = "eu") \/ (i = 7 /\ o = "args") \/ (i = 9 /\ o = "omp")
            \/ (i = 12 /\ o = "bar") \/ (i = 16 /\ o = "prof")
    <3> SUFFICES ASSUME NEW i \in 1 .. 18
                 PROVE  MasterProgram[i] = <<"store", o>> <=>
                          \/ (i = 3 /\ o = "eu") \/ (i = 7 /\ o = "args") \/ (i = 9 /\ o = "omp")
                          \/ (i = 12 /\ o = "bar") \/ (i = 16 /\ o = "prof")
      OBVIOUS
    <3>1. CASE i \in 1 .. 6
      BY <3>1, MasterCode
    <3>2. CASE i \in 7 .. 12
      BY <3>2, MasterCode
    <3>3. CASE i \in 13 .. 18
      BY <3>3, MasterCode
    <3> QED
      BY <3>1, <3>2, <3>3
  <2>3. Allocated(c, o) <=> \E i \in 1 .. pc[0] : i \in 1 .. 18 /\ MasterProgram[i] = <<"store", o>>
    BY <1>1, <1>2, <2>1 DEF Allocated
  <2>4. \A n \in 1 .. 18 : n \in 1 .. pc[0] <=> pc[0] >= n
    BY <1>1, <1>2
  <2>5. {3, 7, 9, 12, 16} \subseteq 1 .. 18
    OBVIOUS
  <2>6. Allocated(c, o) <=>
            \E i \in {3, 7, 9, 12, 16} : pc[0] >= i /\ MasterProgram[i] = <<"store", o>>
    BY <1>1, <1>2, <2>2, <2>3, <2>4, <2>5
  <2>7. Allocated(c, o) <=>
            \/ (o = "eu" /\ pc[0] >= 3) \/ (o = "args" /\ pc[0] >= 7) \/ (o = "omp" /\ pc[0] >= 9)
            \/ (o = "bar" /\ pc[0] >= 12) \/ (o = "prof" /\ pc[0] >= 16)
    BY <2>2, <2>5, <2>6
  <2> QED
    BY <1>2, <2>7, CoreFacts DEF Owned
<1>3. CASE c = DmCore
  <2>1. Program(c) = DmProgram /\ pc[c] <= 8
    BY <1>1, <1>3, CoreFacts, DmCode
  <2>2. \A i \in 1 .. 8 : DmProgram[i] = <<"store", o>> <=> (i = 2 /\ o = "dm")
    BY DmCode
  <2>3. Allocated(c, o) <=>
            \E i \in 1 .. pc[DmCore] : i \in 1 .. 8 /\ DmProgram[i] = <<"store", o>>
    BY <1>1, <1>3, <2>1 DEF Allocated
  <2> QED
    BY <1>1, <1>3, <2>1, <2>2, <2>3, CoreFacts DEF Owned
<1>4. CASE c \notin {0, DmCore}
  <2>1. Program(c) = WorkerProgram /\ pc[c] <= 5
    BY <1>1, <1>4, CoreFacts, WorkerCode
  <2>2. \A i \in 1 .. 5 : WorkerProgram[i] # <<"store", o>>
    BY WorkerCode
  <2>3. ~Allocated(c, o)
    BY <1>1, <2>1, <2>2 DEF Allocated
  <2> QED
    BY <1>4, <2>3 DEF Owned
<1> QED
  BY <1>2, <1>3, <1>4

LEMMA DisjointFromOInv == OInv => AllocDisjoint
<1> SUFFICES ASSUME OInv, NEW c \in Harts, NEW d \in Harts, NEW o \in Objects, NEW p \in Objects,
                    <<c, o>> # <<d, p>>, Allocated(c, o), Allocated(d, p)
             PROVE  at[c][o] + Size[o] <= at[d][p] \/ at[d][p] + Size[p] <= at[c][o]
  BY DEF AllocDisjoint
<1> DEFINE Addr(q) == IF q = "dm" THEN DmAt ELSE IF q = "eu" THEN EuAt ELSE IF q = "args" THEN ArgsAt
                      ELSE IF q = "omp" THEN OmpAt ELSE IF q = "bar" THEN BarAt ELSE ProfAt
<1>1. Owned(c, o) /\ Owned(d, p)
  BY AllocatedFacts
<1>2. at[c][o] = Addr(o) /\ at[d][p] = Addr(p) /\ o # p
  BY <1>1, CoreFacts DEF Owned, OInv, Placed
<1>3. /\ Addr("dm") + Block("dm") = Addr("eu") /\ Addr("eu") + Block("eu") = Addr("args")
      /\ Addr("args") + Block("args") = Addr("omp") /\ Addr("omp") + Block("omp") = Addr("bar")
      /\ Addr("bar") + Block("bar") = Addr("prof")
  BY DEF EuAt, ArgsAt, OmpAt, BarAt, ProfAt
<1>4. \A q \in {"dm", "eu", "args", "omp", "bar", "prof"} :
          Addr(q) \in Nat /\ Size[q] \in Nat /\ Block(q) \in Nat /\ Size[q] <= Block(q)
  BY PlaceFacts DEF Objects
<1> HIDE DEF Addr
<1>5. Addr(o) + Size[o] <= Addr(p) \/ Addr(p) + Size[p] <= Addr(o)
  BY <1>2, <1>3, <1>4 DEF Objects
<1> QED
  BY <1>2, <1>5

LEMMA NoGarbageFromOInv == OInv => NoGarbage
<1> SUFFICES ASSUME OInv, NEW c \in Harts, NEW o \in Pointers, at[c][o] # Null, ~Allocated(c, o)
             PROVE  at[c][o] \in cleared /\ (o = "omp" => at[0]["bar"] \in cleared)
  BY DEF NoGarbage
<1>1. ~Owned(c, o)
  BY AllocatedFacts DEF Pointers, Objects
<1>2. pc[0] \in Nat /\ pc[DmCore] \in Nat
  BY CoreFacts DEF OInv, BootTypes
<1>3. CASE o = "dm"
  <2>1. c # DmCore
    BY <1>1, <1>3 DEF Owned, OInv, Placed
  <2>2. at[c]["dm"] = DmAt /\ pc[DmCore] >= 4
    BY <1>3, <2>1 DEF OInv, Held, Published
  <2> QED
    BY <1>2, <1>3, <2>2 DEF OInv, ClearedBefore
<1>4. CASE o = "eu"
  <2>1. c # 0
    BY <1>1, <1>4 DEF Owned, OInv, Placed
  <2>2. at[c]["eu"] = EuAt /\ pc[0] >= 5
    BY <1>4, <2>1 DEF OInv, Held, Published
  <2> QED
    BY <1>2, <1>4, <2>2 DEF OInv, ClearedBefore
<1>5. CASE o = "omp"
  <2>1. c # 0
    BY <1>1, <1>5 DEF Owned, OInv, Placed
  <2>2. at[c]["omp"] = OmpAt /\ pc[0] >= 14
    BY <1>5, <2>1 DEF OInv, Held, Published
  <2> QED
    BY <1>2, <1>5, <2>2 DEF OInv, ClearedBefore, Placed
<1> QED
  BY <1>3, <1>4, <1>5 DEF Pointers

-----------------------------------------------------------------------------
(* The start-up. *)

\* The stages before the barrier of snrt_init_tls, and those that follow it.
Stages == {"tls", "tlsbar", "bss", "cls", "libs", "prebar", "main"}
DmHart == Start!Dm(0)

StartPositions ==
    /\ stage \in [Start!Harts -> Stages]
    /\ l3_next \in Int

\* The two hardware barriers part the stages.
StagesApart ==
    \A c, d \in Start!Harts :
        /\ stage[c] \notin {"tls", "tlsbar"} => stage[d] \notin {"tls", "tlsbar"}
        /\ stage[c] = "main" => stage[d] = "main"

\* What has been done when a core is past the step that does it.
DoneBefore ==
    /\ stage[DmHart] # "tls" => \A c \in Start!Harts : <<0, Start!tp(c[2])>> \in tls
    /\ \A c \in Start!Harts : stage[c] \in {"libs", "prebar", "main"} => c \in cls_ptr
    /\ stage[DmHart] \in {"libs", "prebar", "main"} => 0 \in cls
    /\ stage[DmHart] \in {"prebar", "main"} => 0 \in l1_alloc /\ l3_next >= Start!L3Base

StartInv == StartPositions /\ StagesApart /\ DoneBefore

LEMMA StartHarts ==
  /\ DmHart \in Start!Harts
  /\ \A c \in Start!Harts : /\ c = <<0, c[2]>> /\ c[1] = 0 /\ c[2] \in 0 .. NCores - 1
                            /\ Start!ClusterOf(c) = 0
                            /\ Start!IsDm(c) <=> c = DmHart
  /\ Start!Clusters = {0}
  /\ \A c \in Harts : Hart(c) \in Start!Harts
<1>1. Start!Clusters = {0}
  BY 1 - 1 = 0, SMT DEF Start!Clusters
<1>2. NCores - 1 \in 0 .. NCores - 1
  BY CoresAssumption, SMT
<1> QED
  BY <1>1, <1>2 DEF Start!Harts, DmHart, Start!Dm, Start!ClusterOf, Start!IsDm, Hart, Harts

\* start.S leaves a core's stack 8 bytes larger than its size says, and
\* snrt_init_tls counts with that: the DM core reaches every core's storage.
LEMMA TlsReached ==
  ASSUME NEW i \in 0 .. NCores - 1
  PROVE  \E j \in 0 .. NCores - 1 : Start!tp(i) = Start!tp(NCores - 1) + Start!tls_offset(j)
<1> DEFINE S == StackSize + 8
<1>1. StackSize \in Nat /\ StackSize % 8 = 0 /\ TlsSize \in Nat
  BY BootAssumption
<1>2. S \in Nat /\ S % 8 = 0
  BY <1>1, SMT
<1>3. PICK q \in Nat : S = 8 * q
  BY <1>2, SMT
<1>4. NCores \in Nat /\ i \in Nat /\ NCores - 1 \in Nat /\ i <= NCores - 1
  BY CoresAssumption
<1>5. ASSUME NEW k \in Nat, k <= NCores - 1
      PROVE  Start!tp(k) = (NCores - k) * S
  <2>1. PICK m \in Nat : NCores = k + m
    BY <1>4, <1>5, NCores = k + (NCores - k), NCores - k \in Nat
  <2>2. NCores * S = k * S + m * S /\ k * S = k * StackSize + k * 8
    BY <2>1, <1>1, <1>5, SMT
  <2>3. NCores * S \in Nat /\ k * S \in Nat /\ m * S \in Nat /\ k * StackSize \in Nat
    BY <2>1, <1>1, <1>2, <1>4, <1>5, SMT
  <2>4. Start!Top - 8 - k * StackSize - k * 8 - TlsSize = m * S
    BY <2>2, <2>3, <1>1, <1>5, SMT DEF Start!Top
  <2>5. m * S = 8 * (m * q) /\ m * q \in Nat
    BY <1>3, <2>1, SMT
  <2>6. (m * S) % 8 = 0
    BY <2>5, SMT
  <2>7. Start!tp(k) = m * S
    BY <2>3, <2>4, <2>6, SMT DEF Start!tp
  <2> QED
    BY <2>1, <2>7, <1>5, NCores - k = m
<1>6. Start!tp(NCores - 1) = S
  BY <1>2, <1>4, <1>5, NCores - (NCores - 1) = 1, 1 * S = S
<1>7. PICK j \in 0 .. NCores - 1 : j = NCores - 1 - i
  BY <1>4
<1>8. (NCores - i) * S = S + j * S
  <2>1. NCores - i = 1 + j /\ j \in Nat
    BY <1>4, <1>7
  <2> QED
    BY <2>1, <1>2, SMT
<1> QED
  BY <1>4, <1>5, <1>6, <1>7, <1>8 DEF Start!tls_offset

LEMMA InitStartInv == Start!Init => StartInv
<1> SUFFICES ASSUME Start!Init
             PROVE  StartInv
  OBVIOUS
<1>1. stage = [c \in Start!Harts |-> "tls"] /\ l3_next = -1
  BY DEF Start!Init, Start!Junk
<1> QED
  BY <1>1, StartHarts DEF StartInv, StartPositions, StagesApart, DoneBefore, Stages

\* A step that takes core c alone from a stage between two barriers to the next.
LEMMA StageStep ==
  ASSUME StartPositions, StagesApart, NEW c \in Start!Harts, NEW s \in Stages, Start!Goto(c, s),
         \/ stage[c] = "tls" /\ s = "tlsbar"
         \/ stage[c] = "bss" /\ s = "cls"
         \/ stage[c] = "cls" /\ s = "libs"
         \/ stage[c] = "libs" /\ s = "prebar"
  PROVE  /\ stage'[c] = s /\ \A d \in Start!Harts : d # c => stage'[d] = stage[d]
         /\ stage' \in [Start!Harts -> Stages]
         /\ StagesApart'
<1>1. /\ stage'[c] = s /\ \A d \in Start!Harts : d # c => stage'[d] = stage[d]
      /\ stage' \in [Start!Harts -> Stages]
  BY DEF StartPositions, Start!Goto
<1>2. \A d \in Start!Harts : /\ stage'[d] \in {"tls", "tlsbar"} <=> stage[d] \in {"tls", "tlsbar"}
                             /\ stage[d] # "main" /\ stage'[d] # "main"
  <2>1. \A d \in Start!Harts : stage[d] # "main"
    BY DEF StagesApart
  <2> QED
    BY <1>1, <2>1
<1> QED
  BY <1>1, <1>2 DEF StagesApart

LEMMA CoreStartInv ==
  ASSUME StartInv, NEW c \in Start!Harts,
         \/ Start!InitTls(c) \/ Start!SkipTls(c) \/ Start!InitBss(c) \/ Start!InitCls(c)
         \/ Start!InitLibs(c) \/ Start!L3Alloc(c)
  PROVE  StartInv'
<1>0. StartPositions /\ StagesApart /\ DoneBefore
  BY DEF StartInv
<1>1. CASE Start!InitTls(c)
  <2>1. stage[c] = "tls" /\ c = DmHart /\ Start!Goto(c, "tlsbar") /\ UNCHANGED <<cls, l1_alloc, l3_next>>
    BY <1>1, StartHarts DEF Start!InitTls
  <2>2. /\ stage'[c] = "tlsbar" /\ \A d \in Start!Harts : d # c => stage'[d] = stage[d]
        /\ stage' \in [Start!Harts -> Stages] /\ StagesApart'
    BY <1>0, <2>1, StageStep DEF Stages
  <2>3. \A d \in Start!Harts : stage'[d] \in {"tls", "tlsbar"}
    BY <1>0, <2>1, <2>2 DEF StagesApart, StartPositions, Stages
  <2>4. \A d \in Start!Harts : <<0, Start!tp(d[2])>> \in tls'
    <3> SUFFICES ASSUME NEW d \in Start!Harts
                 PROVE  <<0, Start!tp(d[2])>> \in tls'
      OBVIOUS
    <3>1. d[2] \in 0 .. NCores - 1 /\ c[2] = NCores - 1 /\ Start!ClusterOf(c) = 0
      BY <2>1, StartHarts DEF DmHart, Start!Dm
    <3>2. PICK j \in 0 .. NCores - 1 : Start!tp(d[2]) = Start!tp(NCores - 1) + Start!tls_offset(j)
      BY <3>1, TlsReached
    <3> QED
      BY <1>1, <3>1, <3>2 DEF Start!InitTls
  <2> QED
    BY <1>0, <2>1, <2>2, <2>3, <2>4, StartHarts DEF StartInv, StartPositions, DoneBefore
<1>2. CASE Start!SkipTls(c)
  <2>1. stage[c] = "tls" /\ c # DmHart /\ Start!Goto(c, "tlsbar")
        /\ UNCHANGED <<tls, cls_ptr, cls, l1_alloc, l3_next>>
    BY <1>2, StartHarts DEF Start!SkipTls
  <2>2. /\ stage'[c] = "tlsbar" /\ \A d \in Start!Harts : d # c => stage'[d] = stage[d]
        /\ stage' \in [Start!Harts -> Stages] /\ StagesApart'
    BY <1>0, <2>1, StageStep DEF Stages
  <2> QED
    BY <1>0, <2>1, <2>2, StartHarts DEF StartInv, StartPositions, DoneBefore, Start!tp, Start!Top
<1>3. CASE Start!InitBss(c)
  <2>1. stage[c] = "bss" /\ Start!Goto(c, "cls") /\ UNCHANGED <<tls, cls_ptr, cls, l1_alloc>>
        /\ l3_next' = IF c = DmHart THEN 0 ELSE l3_next
    BY <1>3 DEF Start!InitBss, DmHart
  <2>2. /\ stage'[c] = "cls" /\ \A d \in Start!Harts : d # c => stage'[d] = stage[d]
        /\ stage' \in [Start!Harts -> Stages] /\ StagesApart'
    BY <1>0, <2>1, StageStep DEF Stages
  <2> QED
    BY <1>0, <2>1, <2>2, StartHarts DEF StartInv, StartPositions, DoneBefore, Start!tp, Start!Top
<1>4. CASE Start!InitCls(c)
  <2>1. stage[c] = "cls" /\ Start!Goto(c, "libs") /\ UNCHANGED <<tls, l1_alloc, l3_next>>
        /\ cls_ptr' = cls_ptr \cup {c} /\ cls \subseteq cls' /\ (c = DmHart => 0 \in cls')
    BY <1>4, StartHarts DEF Start!InitCls
  <2>2. /\ stage'[c] = "libs" /\ \A d \in Start!Harts : d # c => stage'[d] = stage[d]
        /\ stage' \in [Start!Harts -> Stages] /\ StagesApart'
    BY <1>0, <2>1, StageStep DEF Stages
  <2> QED
    BY <1>0, <2>1, <2>2, StartHarts DEF StartInv, StartPositions, DoneBefore, Start!tp, Start!Top
<1>5. CASE Start!InitLibs(c)
  <2>1. /\ stage[c] = "libs" /\ Start!Goto(c, "prebar") /\ UNCHANGED <<tls, cls_ptr, cls>>
        /\ IF c = DmHart THEN 0 \in l1_alloc' /\ l3_next' = 1 ELSE UNCHANGED <<l1_alloc, l3_next>>
    BY <1>5, StartHarts DEF Start!InitLibs, Start!L3Base
  <2>2. /\ stage'[c] = "prebar" /\ \A d \in Start!Harts : d # c => stage'[d] = stage[d]
        /\ stage' \in [Start!Harts -> Stages] /\ StagesApart'
    BY <1>0, <2>1, StageStep DEF Stages
  <2> QED
    BY <1>0, <2>1, <2>2, StartHarts
       DEF StartInv, StartPositions, DoneBefore, Start!tp, Start!Top, Start!L3Base
<1>6. CASE Start!L3Alloc(c)
  <2>1. l3_next' = l3_next + 1 /\ UNCHANGED <<stage, tls, cls_ptr, cls, l1_alloc>>
    BY <1>6 DEF Start!L3Alloc
  <2> QED
    BY <1>0, <2>1 DEF StartInv, StartPositions, StagesApart, DoneBefore, Start!tp, Start!Top, Start!L3Base
<1> QED
  BY <1>1, <1>2, <1>3, <1>4, <1>5, <1>6

LEMMA BarrierStartInv ==
  ASSUME StartInv, Start!HwBarrier(0)
  PROVE  StartInv'
<1>0. StartPositions /\ StagesApart /\ DoneBefore
  BY DEF StartInv
<1>1. PICK bar \in {"tlsbar", "prebar"} :
         /\ \A c \in Start!Harts : stage[c] = bar
         /\ stage' = [c \in Start!Harts |-> IF bar = "tlsbar" THEN "bss" ELSE "main"]
  BY StartHarts DEF Start!HwBarrier
<1>2. UNCHANGED <<tls, cls_ptr, cls, l1_alloc, l3_next>>
  BY DEF Start!HwBarrier
<1> QED
  BY <1>0, <1>1, <1>2, StartHarts
     DEF StartInv, StartPositions, StagesApart, DoneBefore, Stages, Start!tp, Start!Top, Start!L3Base

LEMMA MainFromStartInv == StartInv => MainInitialised
<1> SUFFICES ASSUME StartInv, NEW c \in Start!Harts, stage[c] = "main"
             PROVE  /\ <<Start!ClusterOf(c), Start!tp(c[2])>> \in tls /\ c \in cls_ptr
                    /\ Start!ClusterOf(c) \in cls \cap l1_alloc /\ l3_next >= Start!L3Base
  BY DEF MainInitialised, Start!MainInitialised
<1>1. stage[DmHart] = "main"
  BY StartHarts DEF StartInv, StagesApart
<1> QED
  BY <1>1, StartHarts DEF StartInv, DoneBefore

-----------------------------------------------------------------------------
(* From reset into the runtime. *)

\* The bootstrap begins when the start-up has ended.
BootInv ==
    /\ StartInv /\ OInv
    /\ (\E c \in Harts : ~InMain(c)) => pc[DmCore] = 0

LEMMA BootStep ==
  ASSUME BootInv, [BootNext]_bootVars
  PROVE  BootInv' /\ [Next]_vars
<1> USE DEF BootInv
<1>1. \A c \in Harts : (InMain(c) => \A d \in Harts : InMain(d))
  BY StartHarts DEF StartInv, StagesApart, InMain
<1>2. CASE HwBarrier
  <2>1. StartInv' /\ UNCHANGED vars
    BY <1>2, BarrierStartInv DEF HwBarrier
  <2>2. \A c \in Harts : InMain(c)' \/ ~InMain(c)
    BY <1>2, StartHarts DEF HwBarrier, Start!HwBarrier, InMain
  <2>3. OInv'
    BY <2>1, StepOInv
  <2> QED
    BY <2>1, <2>2, <2>3 DEF vars
<1>3. ASSUME NEW c \in Harts, StartUp(c)
      PROVE  BootInv' /\ [Next]_vars
  <2>1. StartInv' /\ UNCHANGED vars
    BY <1>3, CoreStartInv, StartHarts DEF StartUp
  <2>2. OInv'
    BY <2>1, StepOInv
  <2>3. \A d \in Harts : InMain(d) => InMain(d)'
    <3>1. CASE Start!L3Alloc(Hart(c))
      BY <3>1 DEF Start!L3Alloc, InMain
    <3>2. CASE ~Start!L3Alloc(Hart(c))
      <4>1. stage[Hart(c)] # "main"
        BY <1>3, <3>2 DEF StartUp, Start!InitTls, Start!SkipTls, Start!InitBss, Start!InitCls
      <4> QED
        BY <4>1, <1>1 DEF InMain
    <3> QED
      BY <3>1, <3>2
  <2> QED
    BY <2>1, <2>2, <2>3 DEF vars
<1>4. ASSUME NEW c \in Harts, InitLibs(c)
      PROVE  BootInv' /\ [Next]_vars
  <2>1. StartInv'
    BY <1>4, CoreStartInv, StartHarts DEF InitLibs
  <2>2. stage[Hart(c)] # "main" /\ pc[DmCore] = 0
    BY <1>4 DEF InitLibs, Start!InitLibs, InMain
  <2>3. next = MIN_CHUNK_SIZE
    BY <2>2 DEF OInv, AllocatorHeld, NextAt, DmAt
  <2>4. UNCHANGED vars
    BY <1>4, <2>3 DEF InitLibs, vars
  <2>5. OInv'
    BY <2>4, StepOInv
  <2> QED
    BY <2>1, <2>2, <2>4, <2>5 DEF vars
<1>5. ASSUME NEW c \in Harts, Bootstrap(c)
      PROVE  BootInv' /\ [Next]_vars
  <2>1. InMain(c) /\ Step(c) /\ UNCHANGED startVars
    BY <1>5 DEF Bootstrap
  <2>2. OInv'
    BY <2>1, StepOInv DEF Next
  <2>3. StartInv' /\ \A d \in Harts : InMain(d)'
    BY <2>1, <1>1 DEF startVars, StartInv, StartPositions, StagesApart, DoneBefore, InMain,
                      Start!tp, Start!Top, Start!L3Base
  <2> QED
    BY <2>1, <2>2, <2>3 DEF Next
<1>6. CASE BootDone \/ UNCHANGED bootVars
  <2>1. UNCHANGED vars /\ UNCHANGED startVars
    BY <1>6 DEF BootDone, Done, bootVars
  <2>2. OInv'
    BY <2>1, StepOInv
  <2>3. StartInv'
    BY <2>1 DEF startVars, StartInv, StartPositions, StagesApart, DoneBefore,
                Start!tp, Start!Top, Start!L3Base
  <2> QED
    BY <2>1, <2>2, <2>3 DEF vars, startVars, InMain
<1> QED
  BY <1>2, <1>3, <1>4, <1>5, <1>6 DEF BootNext, Booting

LEMMA BootInvariant == BootSpec => []BootInv
<1>1. BootInit => BootInv
  BY InitStartInv, InitOInv, CoreFacts DEF BootInit, BootInv, Init
<1> QED
  BY <1>1, BootStep, PTL DEF BootSpec

(***************************************************************************)
(* main runs on no core before its thread-local storage, the cluster-local *)
(* storage and both allocators are initialised, although only the DM core  *)
(* initialises them: the two hardware barriers of snrt_main are enough,    *)
(* and the DM core reaches the storage of every core, for any number of    *)
(* cores and any sizes of stack and storage.                               *)
(***************************************************************************)
THEOREM MainFindsItsData == BootSpec => []MainInitialised
BY BootInvariant, MainFromStartInv, PTL DEF BootInv

(***************************************************************************)
(* snrt_l1alloc is not atomic and two cores call it: core 0 does so only   *)
(* after the DM core has handed out its structure, so no two structures    *)
(* overlap.                                                                *)
(***************************************************************************)
THEOREM BootstrapAllocates == BootSpec => []AllocDisjoint
BY BootInvariant, DisjointFromOInv, PTL DEF BootInv

(***************************************************************************)
(* dm_init, eu_init and omp_init: a pointer is handed out only when what   *)
(* it points to has been initialised, the OpenMP structure together with   *)
(* its barrier.                                                            *)
(***************************************************************************)
THEOREM BootstrapPublishes == BootSpec => []NoGarbage
BY BootInvariant, NoGarbageFromOInv, PTL DEF BootInv

\* The start-up does not disturb the bootstrap, although its initialisation of the
\* allocators writes the pointer that the bootstrap allocates from.
THEOREM BootRefinesBootstrap == BootSpec => Spec
<1>1. BootInit => Init
  BY DEF BootInit
<1> QED
  BY <1>1, BootInvariant, BootStep, PTL DEF BootSpec, Spec
=============================================================================
