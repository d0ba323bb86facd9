--------------------------- MODULE DataMoverProofs ---------------------------
(***************************************************************************)
(* Proofs about the data mover: that no wakeup of the DM core is lost,     *)
(* whatever harts call which functions; and that the ring, the requests    *)
(* and the DMA engine together are a queue of copies, for any size of the  *)
(* ring.                                                                   *)
(***************************************************************************)
EXTENDS DataMover, Integers, FiniteSetTheorems, TLAPS

-----------------------------------------------------------------------------
(* Sleep and wakeup.                                                       *)

Counts ==
    /\ queue_fill \in Int
    /\ unannounced \in Nat
    /\ mcip \in BOOLEAN /\ clearing \in BOOLEAN
    /\ DOMAIN pc = Clients

\* A clear is in flight only before the DM core branches on what it loads next.
ClearLandsInTime ==
    dpc \in {"switch", "valid", "clear", "dec", "chkfill", "chkstat", "incwfi", "wfi", "clr"} =>
        ~clearing

\* From the moment the DM core found the ring empty, the copies in it are new.
RingIsNew ==
    dpc \in {"chkstat", "incwfi", "wfi"} /\ ~mcip => queue_fill <= unannounced

\* The harts that have written a request and not yet set the interrupt.
Requesting == {c \in Clients : pc[c] \in {"rewake", "reset"}}

\* From the moment it found no request, a request is new.
RequestIsNew ==
    dpc \in {"incwfi", "wfi"} /\ ~mcip /\ stat_q # "none" => Requesting # {}

DInv == Counts /\ ClearLandsInTime /\ RingIsNew /\ RequestIsNew

LEMMA InitDInv == Init => DInv
<1> SUFFICES ASSUME Init PROVE DInv
  OBVIOUS
<1>1. Counts
  <2>1. queue_fill = 0 /\ unannounced = 0 /\ mcip = FALSE /\ clearing = FALSE
        /\ DOMAIN pc = Clients
    BY Zenon DEF Init
  <2>2. mcip \in BOOLEAN /\ clearing \in BOOLEAN
    BY <2>1, Zenon
  <2>3. queue_fill \in Int /\ unannounced \in Nat
    BY <2>1
  <2> QED
    BY <2>1, <2>2, <2>3, Zenon DEF Counts
<1>2. ClearLandsInTime /\ RingIsNew /\ RequestIsNew
  BY DEF Init, ClearLandsInTime, RingIsNew, RequestIsNew
<1> QED
  BY <1>1, <1>2 DEF DInv

-----------------------------------------------------------------------------
LEMMA DmCoreKeeps ==
  ASSUME DInv, DmCore
  PROVE  DInv'
<1> USE DEF DInv, Counts, ClearLandsInTime, RingIsNew, RequestIsNew, Requesting,
            ring, request, irq, dma, usage, client
<1>1. CASE DmFill
  BY <1>1 DEF DmFill
<1>2. CASE DmStart
  BY <1>2 DEF DmStart, DmBranch
<1>3. CASE DmDec
  BY <1>3 DEF DmDec
<1>4. CASE DmStat
  BY <1>4 DEF DmStat, DmBranch
<1>5. CASE DmSwitch
  BY <1>5 DEF DmSwitch
<1>6. CASE DmValid
  BY <1>6 DEF DmValid
<1>7. CASE DmClear
  BY <1>7 DEF DmClear
<1>8. CASE DmCheckFill
  BY <1>8 DEF DmCheckFill, LoopOrExit
<1>9. CASE DmCheckStat
  BY <1>9 DEF DmCheckStat, LoopOrExit
<1>10. CASE DmIncWfi
  BY <1>10 DEF DmIncWfi
<1>11. CASE DmWake
  BY <1>11 DEF DmWake
<1>12. CASE DmIssueClear
  BY <1>12 DEF DmIssueClear
<1>13. CASE DmDecWfi
  BY <1>13 DEF DmDecWfi, LoopOrExit
<1> QED
  BY <1>1, <1>2, <1>3, <1>4, <1>5, <1>6, <1>7, <1>8, <1>9, <1>10, <1>11, <1>12, <1>13
     DEF DmCore

\* A client that stays among those who requested, or was not one of them.
LEMMA MovesKeep ==
  ASSUME DInv, NEW c \in Clients, NEW l, Goto(c, l),
         pc[c] \notin {"rewake", "reset"} \/ l \in {"rewake", "reset"}
  PROVE  Requesting \subseteq Requesting' /\ DOMAIN pc' = Clients
BY DEF DInv, Counts, Goto, Requesting

LEMMA ClientKeeps ==
  ASSUME DInv, NEW c \in Clients, Call(c) \/ InCall(c)
  PROVE  DInv'
<1> USE DEF DInv, Counts, ClearLandsInTime, RingIsNew, RequestIsNew,
            ring, request, irq, dma, usage, core
<1>1. CASE Call(c)
  <2>1. Requesting \subseteq Requesting' /\ DOMAIN pc' = Clients
    BY <1>1 DEF Call, Requesting
  <2> QED
    BY <1>1, <2>1 DEF Call
<1>2. CASE Poll(c)
  BY <1>2, MovesKeep DEF Poll
<1>3. CASE Lock(c)
  BY <1>3, MovesKeep DEF Lock
<1>4. CASE Insert(c)
  BY <1>4, MovesKeep DEF Insert
<1>5. CASE Count(c)
  BY <1>5, MovesKeep DEF Count
<1>6. CASE Front(c)
  BY <1>6, MovesKeep DEF Front
<1>7. CASE Unlock(c)
  BY <1>7, MovesKeep DEF Unlock
<1>8. CASE Wake(c)
  BY <1>8, MovesKeep DEF Wake
<1>9. CASE SetIrq(c)
  <2>1. mcip' = TRUE /\ unannounced' = 0 /\ DOMAIN pc' = Clients
        /\ UNCHANGED <<queue_fill, clearing, dpc>>
    BY <1>9 DEF SetIrq, Goto
  <2> QED
    BY <2>1
<1>10. CASE Drain(c)
  BY <1>10, MovesKeep DEF Drain
<1>11. CASE NoRequest(c)
  BY <1>11, MovesKeep DEF NoRequest
<1>12. CASE Invalidate(c)
  BY <1>12, MovesKeep DEF Invalidate
<1>13. CASE Request(c)
  <2>1. c \in Requesting' /\ DOMAIN pc' = Clients
    BY <1>13 DEF Request, Goto, Requesting
  <2> QED
    BY <1>13, <2>1 DEF Request
<1>14. CASE Answer(c)
  BY <1>14, MovesKeep DEF Answer
<1> QED
  BY <1>1, <1>2, <1>3, <1>4, <1>5, <1>6, <1>7, <1>8, <1>9, <1>10, <1>11, <1>12, <1>13, <1>14
     DEF InCall

LEMMA StepDInv == DInv /\ [Next]_vars => DInv'
<1> SUFFICES ASSUME DInv, [Next]_vars PROVE DInv'
  OBVIOUS
<1> USE DEF DInv, Counts, ClearLandsInTime, RingIsNew, RequestIsNew, Requesting,
            ring, request, irq, dma, usage, client
<1>1. CASE ClearLands
  BY <1>1 DEF ClearLands
<1>2. CASE DmaComplete
  BY <1>2 DEF DmaComplete
<1>3. CASE UNCHANGED vars
  BY <1>3 DEF vars
<1> QED
  BY <1>1, <1>2, <1>3, DmCoreKeeps, ClientKeeps DEF Next

(***************************************************************************)
(* The DM core never sleeps through work, however late the clear of an     *)
(* interrupt lands: the copies in the ring are newer than the last wakeup, *)
(* and the author of a request has its wakeup still to send.               *)
(***************************************************************************)
THEOREM NoWakeupIsLost == Spec => []NoSleepOverWork
<1>1. Init => DInv
  BY InitDInv
<1>2. DInv /\ [Next]_vars => DInv'
  BY StepDInv
<1>3. DInv => NoSleepOverWork
  BY DEF DInv, RingIsNew, RequestIsNew, Requesting, NoSleepOverWork
<1> QED
  BY <1>1, <1>2, <1>3, PTL DEF Spec

-----------------------------------------------------------------------------
(* Who is where: the calls and the mutex.                                  *)

\* Between its request and the answer.
After == {"rewake", "reset", "answer"}

Labels ==
    {"idle", "poll", "lock", "insert", "count", "front", "unlock", "wake", "set", "drain",
     "noreq", "invalid", "request"} \cup After

\* A hart is at an access of the function it has called.
InItsCall(c) ==
    /\ pc[c] \in {"poll", "insert", "count", "front"} => op[c] = "memcpy"
    /\ pc[c] \in {"lock", "unlock"} => op[c] \in {"memcpy", "wait", "ready"}
    /\ pc[c] \in {"wake", "set"} => op[c] \in {"start", "wait"}
    /\ pc[c] \in {"drain", "noreq"} => op[c] = "wait"
    /\ pc[c] \in {"invalid", "answer"} => op[c] \in {"wait", "ready"}
    /\ pc[c] \in {"request", "rewake", "reset"} => op[c] \in {"wait", "ready", "exit"}

\* dm_exit alone asks without the mutex.
Holds(c) ==
    /\ pc[c] \in {"insert", "count", "front", "unlock", "invalid", "request"} \cup After
    /\ op[c] # "exit"

MutexExcludes == \A c \in Clients : Holds(c) => mutex /\ \A d \in Clients : Holds(d) => d = c

ExitIsAlone == \A c, d \in Clients : op[c] = "exit" /\ d # c => pc[d] = "idle"

CallInv ==
    /\ pc \in [Clients -> Labels] /\ op \in [Clients -> AllOps \cup {"none"}]
    /\ mutex \in BOOLEAN
    /\ \A c \in Clients : InItsCall(c)
    /\ MutexExcludes
    /\ ExitIsAlone

\* A step of hart c in its call.
Steps(c, l) == pc' = [pc EXCEPT ![c] = l] /\ op' = op

LEMMA StepsKeep ==
  ASSUME CallInv, NEW c \in Clients, NEW l \in Labels, Steps(c, l),
         pc[c] # "idle",
         InItsCall(c)', Holds(c)' => Holds(c), mutex' = mutex
  PROVE  CallInv'
<1>1. pc' \in [Clients -> Labels] /\ op' \in [Clients -> AllOps \cup {"none"}] /\ mutex' \in BOOLEAN
  BY DEF CallInv, Steps
<1>2. \A d \in Clients \ {c} : pc'[d] = pc[d] /\ op'[d] = op[d]
  BY DEF Steps, CallInv
<1>3. \A d \in Clients : InItsCall(d)'
  BY <1>2 DEF CallInv, InItsCall
<1>4. \A d \in Clients : Holds(d)' => Holds(d)
  BY <1>2 DEF Holds
<1>5. MutexExcludes'
  BY <1>4 DEF CallInv, MutexExcludes
<1>6. ExitIsAlone'
  BY <1>2 DEF CallInv, ExitIsAlone, Steps, InItsCall
<1> QED
  BY <1>1, <1>3, <1>5, <1>6 DEF CallInv

LEMMA CallInvCall ==
  ASSUME CallInv, NEW c \in Clients, Call(c), OpsAssumption
  PROVE  CallInv'
<1>1. PICK o \in Ops[c] :
        /\ o = "exit" => \A d \in Clients : pc[d] = "idle"
        /\ op' = [op EXCEPT ![c] = o]
        /\ pc' = [pc EXCEPT ![c] = Entry(o)]
  BY DEF Call
<1>2. o \in AllOps /\ pc[c] = "idle" /\ (\A d \in Clients : op[d] # "exit") /\ mutex' = mutex
  BY <1>1 DEF Call, OpsAssumption
<1>3. Entry(o) \in Labels
  BY DEF Entry, Labels
<1>4. /\ pc' \in [Clients -> Labels] /\ op' \in [Clients -> AllOps \cup {"none"}]
      /\ pc'[c] = Entry(o) /\ op'[c] = o
      /\ \A d \in Clients \ {c} : pc'[d] = pc[d] /\ op'[d] = op[d]
  BY <1>1, <1>2, <1>3 DEF CallInv
<1>5. InItsCall(c)' /\ ~Holds(c)'
  BY <1>2, <1>4 DEF InItsCall, Holds, Entry, AllOps, After
<1>6. \A d \in Clients : InItsCall(d)'
  BY <1>4, <1>5 DEF CallInv, InItsCall
<1>7. \A d \in Clients : Holds(d)' => Holds(d)
  BY <1>4, <1>5 DEF Holds
<1>8. MutexExcludes'
  BY <1>2, <1>7 DEF CallInv, MutexExcludes
<1>9. ExitIsAlone'
  BY <1>1, <1>2, <1>4 DEF CallInv, ExitIsAlone
<1> QED
  BY <1>2, <1>4, <1>6, <1>8, <1>9 DEF CallInv

LEMMA CallInvLock ==
  ASSUME CallInv, NEW c \in Clients, Lock(c)
  PROVE  CallInv'
<1>1. PICK l \in {"insert", "invalid"} : Steps(c, l) /\ l = IF op[c] = "memcpy" THEN "insert" ELSE "invalid"
  BY DEF Lock, Goto, Steps
<1>2. pc[c] = "lock" /\ ~mutex /\ mutex' = TRUE
  BY DEF Lock
<1>3. /\ pc' \in [Clients -> Labels] /\ op' = op /\ pc'[c] = l
      /\ \A d \in Clients \ {c} : pc'[d] = pc[d]
  BY <1>1 DEF CallInv, Steps, Labels
<1>4. \A d \in Clients : InItsCall(d)'
  BY <1>1, <1>2, <1>3 DEF CallInv, InItsCall
<1>5. \A d \in Clients : Holds(d)' => d = c
  BY <1>2, <1>3 DEF CallInv, MutexExcludes, Holds
<1>6. MutexExcludes'
  BY <1>2, <1>5 DEF MutexExcludes
<1>7. ExitIsAlone'
  BY <1>2, <1>3 DEF CallInv, ExitIsAlone
<1> QED
  BY <1>2, <1>3, <1>4, <1>6, <1>7 DEF CallInv

LEMMA CallInvUnlock ==
  ASSUME CallInv, NEW c \in Clients, Unlock(c)
  PROVE  CallInv'
<1>1. Steps(c, "idle") /\ pc[c] = "unlock" /\ mutex' = FALSE
  BY DEF Unlock, Goto, Steps
<1>2. Holds(c)
  BY <1>1 DEF Holds, CallInv, InItsCall
<1>3. /\ pc' \in [Clients -> Labels] /\ op' = op /\ pc'[c] = "idle"
      /\ \A d \in Clients \ {c} : pc'[d] = pc[d]
  BY <1>1 DEF CallInv, Steps, Labels
<1>4. \A d \in Clients : InItsCall(d)'
  BY <1>1, <1>3 DEF CallInv, InItsCall
<1>5. \A d \in Clients : ~Holds(d)'
  BY <1>2, <1>3 DEF CallInv, MutexExcludes, Holds, After
<1>6. MutexExcludes'
  BY <1>5 DEF MutexExcludes
<1>7. ExitIsAlone'
  BY <1>1, <1>3 DEF CallInv, ExitIsAlone
<1> QED
  BY <1>1, <1>3, <1>4, <1>6, <1>7 DEF CallInv

LEMMA CallInvInCall ==
  ASSUME CallInv, NEW c \in Clients, InCall(c)
  PROVE  CallInv'
<1> USE DEF Goto, Steps, InItsCall, Holds, After, Labels
<1>0. pc \in [Clients -> Labels] /\ InItsCall(c)
  BY DEF CallInv
<1>1. CASE Poll(c)
  BY <1>0, <1>1, StepsKeep DEF Poll
<1>2. CASE Lock(c)
  BY <1>2, CallInvLock
<1>3. CASE Insert(c)
  BY <1>0, <1>3, StepsKeep DEF Insert
<1>4. CASE Count(c)
  BY <1>0, <1>4, StepsKeep DEF Count
<1>5. CASE Front(c)
  BY <1>0, <1>5, StepsKeep DEF Front
<1>6. CASE Unlock(c)
  BY <1>6, CallInvUnlock
<1>7. CASE Wake(c)
  BY <1>0, <1>7, StepsKeep DEF Wake
<1>8. CASE SetIrq(c)
  BY <1>0, <1>8, StepsKeep DEF SetIrq
<1>9. CASE Drain(c)
  BY <1>0, <1>9, StepsKeep DEF Drain
<1>10. CASE NoRequest(c)
  BY <1>0, <1>10, StepsKeep DEF NoRequest
<1>11. CASE Invalidate(c)
  BY <1>0, <1>11, StepsKeep DEF Invalidate
<1>12. CASE Request(c)
  BY <1>0, <1>12, StepsKeep DEF Request
<1>13. CASE Answer(c)
  BY <1>0, <1>13, StepsKeep DEF Answer
<1> QED
  BY <1>1, <1>2, <1>3, <1>4, <1>5, <1>6, <1>7, <1>8, <1>9, <1>10, <1>11, <1>12, <1>13 DEF InCall

LEMMA CallInvElse ==
  ASSUME CallInv, UNCHANGED <<op, pc, mutex>>
  PROVE  CallInv'
BY DEF CallInv, InItsCall, MutexExcludes, Holds, ExitIsAlone

LEMMA DmCoreAlone ==
  DmCore \/ ClearLands \/ DmaComplete => UNCHANGED <<client, mutex, queue, queue_front>>
BY DEF DmCore, DmFill, DmStart, DmDec, DmStat, DmSwitch, DmValid, DmClear, DmCheckFill, DmCheckStat,
       DmIncWfi, DmWake, DmIssueClear, DmDecWfi, ClearLands, DmaComplete, client, ring, usage

-----------------------------------------------------------------------------
(* The ring.                                                               *)

CopiesOf(p) == UNION {{c} \X (1 .. p[c]) : c \in Clients}

\* Either one hart queues copies, as thread 0 does in openmp_double_buffering.c, or
\* the ring holds all that are queued.
PlansFit ==
    \A p \in Plans :
        \/ \E d : \A c \in Clients : p[c] # 0 => c = d
        \/ IsFiniteSet(CopiesOf(p)) /\ Cardinality(CopiesOf(p)) <= QSize

\* The copies of which the DM core has not yet bumped queue_back.
Fill == IF dpc = "dec" THEN queue_fill - 1 ELSE queue_fill

Wrapped(x) == IF x < QSize THEN x ELSE x - QSize

RingTypes ==
    /\ DOMAIN queue = 0 .. QSize - 1
    /\ queue_back \in 0 .. QSize - 1 /\ queue_front \in 0 .. QSize - 1
    /\ queue_fill \in 0 .. QSize
    /\ left \in [Clients -> Nat]
    /\ dpc \in {"start", "dec"} => queue_fill # 0

\* However many harts see a free slot at once, there is one for each.
Room ==
    \/ \E d : \A c \in Clients : left[c] # 0 => c = d
    \/ IsFiniteSet(CopiesOf(left)) /\ Cardinality(CopiesOf(left)) + queue_fill <= QSize

Copying(c) == op[c] = "memcpy" /\ pc[c] \in {"poll", "lock", "insert", "count"}

SlotIsFree ==
    \A c \in Clients : Copying(c) => left[c] # 0 /\ (pc[c] # "poll" => queue_fill < QSize)

\* queue_front is the slot behind the copies, except while the mutex is held.
FrontIsNext ==
    /\ (\A c \in Clients : pc[c] # "front") => queue_front = Wrapped(queue_back + Fill)
    /\ \A c \in Clients : pc[c] = "front" => Wrapped(queue_front + 1) = Wrapped(queue_back + Fill)

Inserted == \A c \in Clients : pc[c] = "count" => queue[queue_front] = <<c, left[c]>>

RingInv == RingTypes /\ Room /\ SlotIsFree /\ FrontIsNext /\ Inserted

LEMMA IndexWraps ==
  ASSUME NEW x \in 0 .. 2 * QSize - 1
  PROVE  x % QSize = Wrapped(x)
<1> DEFINE d == QSize
<1>1. d \in Nat \ {0} /\ x \in 0 .. 2 * d - 1
  BY SizeAssumption
<1> HIDE DEF d
<1>2. x % d = IF x < d THEN x ELSE x - d
  BY <1>1, SMT
<1> QED
  BY <1>2 DEF d, Wrapped

LEMMA BumpWraps ==
  ASSUME NEW i \in 0 .. QSize - 1
  PROVE  Bump(i) = Wrapped(i + 1) /\ Wrapped(i + 1) \in 0 .. QSize - 1
<1>1. i + 1 \in 0 .. 2 * QSize - 1
  BY SizeAssumption
<1>2. (i + 1) % QSize = Wrapped(i + 1)
  BY <1>1, IndexWraps
<1> QED
  BY <1>2, SizeAssumption DEF Bump, Wrapped

LEMMA CopiesOfMembers ==
  ASSUME NEW p, NEW t
  PROVE  t \in CopiesOf(p) <=> \E c \in Clients : \E k \in 1 .. p[c] : t = <<c, k>>
BY DEF CopiesOf

LEMMA OneLess ==
  ASSUME NEW f \in [Clients -> Nat], NEW c \in Clients, f[c] # 0
  PROVE  LET g == [f EXCEPT ![c] = @ - 1]
         IN  CopiesOf(g) = CopiesOf(f) \ {<<c, f[c]>>} /\ <<c, f[c]>> \in CopiesOf(f)
<1> DEFINE g == [f EXCEPT ![c] = @ - 1]
<1>1. \A d \in Clients : \A k \in 1 .. g[d] : k \in 1 .. f[d] /\ <<d, k>> # <<c, f[c]>>
  OBVIOUS
<1>2. \A d \in Clients : \A k \in 1 .. f[d] : <<d, k>> # <<c, f[c]>> => k \in 1 .. g[d]
  OBVIOUS
<1>3. f[c] \in 1 .. f[c]
  OBVIOUS
<1> HIDE DEF g
<1>4. \A t : t \in CopiesOf(g) => t \in CopiesOf(f) /\ t # <<c, f[c]>>
  <2> TAKE t
  <2> HAVE t \in CopiesOf(g)
  <2>1. PICK d \in Clients : \E k \in 1 .. g[d] : t = <<d, k>>
    BY CopiesOfMembers
  <2> QED
    BY <1>1, <2>1, CopiesOfMembers
<1>5. \A t : t \in CopiesOf(f) /\ t # <<c, f[c]>> => t \in CopiesOf(g)
  <2> TAKE t
  <2> HAVE t \in CopiesOf(f) /\ t # <<c, f[c]>>
  <2>1. PICK d \in Clients : \E k \in 1 .. f[d] : t = <<d, k>>
    BY CopiesOfMembers
  <2> QED
    BY <1>2, <2>1, CopiesOfMembers
<1>6. <<c, f[c]>> \in CopiesOf(f)
  BY <1>3, CopiesOfMembers
<1>7. CopiesOf(g) = CopiesOf(f) \ {<<c, f[c]>>}
  BY <1>4, <1>5
<1> QED
  BY <1>6, <1>7 DEF g

LEMMA RoomForOne ==
  ASSUME Room, RingTypes, NEW c \in Clients, left[c] # 0, \E d \in Clients : d # c /\ left[d] # 0
  PROVE  queue_fill < QSize
<1>1. IsFiniteSet(CopiesOf(left)) /\ Cardinality(CopiesOf(left)) + queue_fill <= QSize
  BY DEF Room
<1>2. <<c, left[c]>> \in CopiesOf(left)
  BY DEF CopiesOf, RingTypes
<1>3. Cardinality(CopiesOf(left)) \in Nat \ {0}
  BY <1>1, <1>2, FS_CardinalityType, FS_EmptySet
<1> QED
  BY <1>1, <1>3, SizeAssumption DEF RingTypes

\* Arithmetic of the ring: one slot further, whichever end moves.
LEMMA WrappedNext ==
  ASSUME NEW b \in 0 .. QSize - 1, NEW n \in 0 .. QSize - 1
  PROVE  /\ Wrapped(Wrapped(b + n) + 1) = Wrapped(b + n + 1)
         /\ Wrapped(Wrapped(b + 1) + n) = Wrapped(b + n + 1)
         /\ Wrapped(b + n) \in 0 .. QSize - 1
BY SizeAssumption DEF Wrapped

\* A step that leaves the ring alone.
LEMMA RingKept ==
  ASSUME CallInv, RingInv, NEW c \in Clients,
         \A d \in Clients \ {c} : pc'[d] = pc[d] /\ op'[d] = op[d],
         UNCHANGED <<ring, left, dpc>>,
         pc[c] # "front", pc'[c] \notin {"count", "front"},
         Copying(c)' => left[c] # 0 /\ (pc'[c] # "poll" => queue_fill < QSize)
  PROVE  RingInv'
<1>1. UNCHANGED <<queue, queue_back, queue_front, queue_fill, left, dpc>>
  BY DEF ring
<1>2. RingTypes' /\ Room'
  BY <1>1 DEF RingInv, RingTypes, Room
<1>3. SlotIsFree'
  BY <1>1 DEF RingInv, SlotIsFree, Copying
<1>4. FrontIsNext'
  BY <1>1 DEF RingInv, FrontIsNext, Fill
<1>5. Inserted'
  BY <1>1 DEF RingInv, Inserted
<1> QED
  BY <1>2, <1>3, <1>4, <1>5 DEF RingInv

LEMMA RingInsert ==
  ASSUME CallInv, RingInv, NEW c \in Clients, Insert(c)
  PROVE  RingInv'
<1>1. /\ pc[c] = "insert" /\ pc' = [pc EXCEPT ![c] = "count"] /\ op' = op
      /\ queue' = [queue EXCEPT ![queue_front] = <<c, left[c]>>]
      /\ UNCHANGED <<queue_back, queue_front, queue_fill, left, dpc>>
  BY DEF Insert, Goto, core, usage
<1>2. Holds(c) /\ op[c] = "memcpy"
  BY <1>1 DEF CallInv, InItsCall, Holds
<1>3. pc'[c] = "count" /\ \A d \in Clients \ {c} : pc'[d] = pc[d]
  BY <1>1 DEF CallInv
<1>4. \A d \in Clients \ {c} : pc'[d] # "count"
  BY <1>2, <1>3 DEF CallInv, MutexExcludes, Holds, InItsCall
<1>5. RingTypes' /\ Room'
  BY <1>1 DEF RingInv, RingTypes, Room
<1>6. SlotIsFree'
  BY <1>1, <1>2, <1>3 DEF RingInv, SlotIsFree, Copying
<1>7. FrontIsNext'
  BY <1>1, <1>3 DEF RingInv, FrontIsNext, Fill
<1>8. Inserted'
  BY <1>1, <1>3, <1>4 DEF RingInv, Inserted, RingTypes
<1> QED
  BY <1>5, <1>6, <1>7, <1>8 DEF RingInv

LEMMA RingCount ==
  ASSUME CallInv, RingInv, NEW c \in Clients, Count(c)
  PROVE  RingInv'
<1>1. /\ pc[c] = "count" /\ pc' = [pc EXCEPT ![c] = "front"] /\ op' = op
      /\ queue_fill' = queue_fill + 1 /\ left' = [left EXCEPT ![c] = @ - 1]
      /\ UNCHANGED <<queue, queue_back, queue_front, dpc>>
  BY DEF Count, Goto, core
<1>2. Holds(c) /\ op[c] = "memcpy" /\ left[c] # 0 /\ queue_fill < QSize
  BY <1>1 DEF CallInv, InItsCall, Holds, RingInv, SlotIsFree, Copying
<1>3. pc'[c] = "front" /\ \A d \in Clients \ {c} : pc'[d] = pc[d]
  BY <1>1 DEF CallInv
<1>4. \A d \in Clients \ {c} : pc[d] \notin {"count", "front"}
  BY <1>2, <1>3 DEF CallInv, MutexExcludes, Holds, InItsCall
<1>5. left'[c] = left[c] - 1 /\ \A d \in Clients \ {c} : left'[d] = left[d]
  BY <1>1 DEF RingInv, RingTypes
<1>6. RingTypes'
  <2>1. left' \in [Clients -> Nat]
    BY <1>1, <1>2 DEF RingInv, RingTypes
  <2>2. queue_fill' \in 0 .. QSize /\ queue_fill' # 0
    BY <1>1, <1>2, SizeAssumption DEF RingInv, RingTypes
  <2> QED
    BY <1>1, <2>1, <2>2 DEF RingInv, RingTypes
<1>7. Room'
  <2>1. CASE \E d : \A e \in Clients : left[e] # 0 => e = d
    BY <2>1, <1>2, <1>5 DEF Room
  <2>2. CASE IsFiniteSet(CopiesOf(left)) /\ Cardinality(CopiesOf(left)) + queue_fill <= QSize
    <3> DEFINE S == CopiesOf(left)
    <3>1. CopiesOf(left') = S \ {<<c, left[c]>>} /\ <<c, left[c]>> \in S
      BY <1>1, <1>2, OneLess DEF RingInv, RingTypes
    <3>2. IsFiniteSet(S \ {<<c, left[c]>>}) /\ Cardinality(S \ {<<c, left[c]>>}) = Cardinality(S) - 1
          /\ Cardinality(S) \in Nat
      BY <2>2, <3>1, FS_RemoveElement, FS_CardinalityType
    <3> QED
      BY <2>2, <3>1, <3>2, <1>1 DEF Room, RingInv, RingTypes
  <2> QED
    BY <2>1, <2>2 DEF RingInv, Room
<1>8. SlotIsFree'
  <2> SUFFICES ASSUME NEW d \in Clients, Copying(d)'
               PROVE  left'[d] # 0 /\ (pc'[d] # "poll" => queue_fill' < QSize)
    BY DEF SlotIsFree
  <2>1. d # c /\ Copying(d)
    BY <1>1, <1>3 DEF Copying
  <2>2. left[d] # 0
    BY <2>1 DEF RingInv, SlotIsFree
  <2>3. left'[d] # 0
    BY <2>1, <2>2, <1>5
  <2>4. queue_fill' < QSize
    <3>1. CASE \E e : \A f \in Clients : left[f] # 0 => f = e
      BY <3>1, <2>1, <2>2, <1>2
    <3>2. CASE ~\E e : \A f \in Clients : left[f] # 0 => f = e
      <4> DEFINE S == CopiesOf(left) \ {<<c, left[c]>>}
      <4>1. IsFiniteSet(CopiesOf(left)) /\ Cardinality(CopiesOf(left)) + queue_fill <= QSize
        BY <3>2 DEF RingInv, Room
      <4>2. <<c, left[c]>> \in CopiesOf(left) /\ <<d, left[d]>> \in S
        BY <2>1, <2>2, <1>2 DEF CopiesOf, RingInv, RingTypes
      <4>3. IsFiniteSet(S) /\ Cardinality(S) = Cardinality(CopiesOf(left)) - 1 /\ Cardinality(CopiesOf(left)) \in Nat
        BY <4>1, <4>2, FS_RemoveElement, FS_CardinalityType
      <4>4. Cardinality(S) \in Nat \ {0}
        BY <4>2, <4>3, FS_CardinalityType, FS_EmptySet
      <4> QED
        BY <1>1, <4>1, <4>3, <4>4, SizeAssumption DEF RingInv, RingTypes
    <3> QED
      BY <3>1, <3>2
  <2> QED
    BY <2>3, <2>4
<1>9. FrontIsNext'
  <2>1. queue_front = Wrapped(queue_back + Fill) /\ Fill' = Fill + 1
    BY <1>1, <1>3, <1>4 DEF RingInv, FrontIsNext, Fill, RingTypes
  <2>2. Fill \in 0 .. QSize - 1
    BY <1>2, SizeAssumption DEF Fill, RingInv, RingTypes
  <2>3. Wrapped(queue_front + 1) = Wrapped(queue_back + Fill + 1)
    BY <2>1, <2>2, WrappedNext DEF RingInv, RingTypes
  <2>4. queue_back + Fill' = queue_back + Fill + 1
    BY <2>1, <2>2 DEF RingInv, RingTypes
  <2>5. pc'[c] = "front" /\ \A d \in Clients : Wrapped(queue_front' + 1) = Wrapped(queue_back' + Fill')
    BY <2>3, <2>4, <1>1, <1>3
  <2> QED
    BY <2>5 DEF FrontIsNext, Wrapped
<1>10. Inserted'
  BY <1>3, <1>4 DEF Inserted
<1> QED
  BY <1>6, <1>7, <1>8, <1>9, <1>10 DEF RingInv

LEMMA RingFront ==
  ASSUME CallInv, RingInv, NEW c \in Clients, Front(c)
  PROVE  RingInv'
<1>1. /\ pc[c] = "front" /\ pc' = [pc EXCEPT ![c] = "unlock"] /\ op' = op
      /\ queue_front' = Bump(queue_front)
      /\ UNCHANGED <<queue, queue_back, queue_fill, left, dpc>>
  BY DEF Front, Goto, core, usage
<1>2. Holds(c)
  BY <1>1 DEF CallInv, InItsCall, Holds
<1>3. pc'[c] = "unlock" /\ \A d \in Clients \ {c} : pc'[d] = pc[d] /\ pc[d] \notin {"count", "front"}
  BY <1>1, <1>2 DEF CallInv, MutexExcludes, Holds, InItsCall
<1>4. queue_front' = Wrapped(queue_front + 1) /\ queue_front' \in 0 .. QSize - 1
  BY <1>1, BumpWraps DEF RingInv, RingTypes
<1>5. RingTypes' /\ Room'
  BY <1>1, <1>4 DEF RingInv, RingTypes, Room
<1>6. SlotIsFree'
  BY <1>1, <1>3 DEF RingInv, SlotIsFree, Copying
<1>7. queue_front' = Wrapped(queue_back + Fill)
  BY <1>1, <1>4 DEF RingInv, FrontIsNext
<1>8. FrontIsNext'
  BY <1>1, <1>3, <1>7 DEF FrontIsNext, Fill, Wrapped
<1>9. Inserted'
  BY <1>3 DEF Inserted
<1> QED
  BY <1>5, <1>6, <1>8, <1>9 DEF RingInv

\* The DM core bumps queue_back, and then counts the task off.
LEMMA RingStart ==
  ASSUME RingInv, DmStart
  PROVE  RingInv'
<1>1. /\ dpc = "start" /\ dpc' = "dec" /\ queue_back' = Bump(queue_back)
      /\ UNCHANGED <<queue, queue_front, queue_fill, left, pc, op>>
  BY DEF DmStart, client, usage
<1>2. queue_back' = Wrapped(queue_back + 1) /\ queue_back' \in 0 .. QSize - 1
  BY <1>1, BumpWraps DEF RingInv, RingTypes
<1>3. RingTypes' /\ Room'
  BY <1>1, <1>2 DEF RingInv, RingTypes, Room
<1>4. SlotIsFree' /\ Inserted'
  BY <1>1 DEF RingInv, SlotIsFree, Copying, Inserted
<1>5. Fill = queue_fill /\ Fill' = queue_fill - 1 /\ queue_fill - 1 \in 0 .. QSize - 1
  BY <1>1, SizeAssumption DEF Fill, RingInv, RingTypes
<1>6. Wrapped(queue_back' + Fill') = Wrapped(queue_back + Fill)
  <2>1. Wrapped(Wrapped(queue_back + 1) + (queue_fill - 1)) = Wrapped(queue_back + (queue_fill - 1) + 1)
    BY <1>5, WrappedNext DEF RingInv, RingTypes
  <2>2. queue_back + (queue_fill - 1) + 1 = queue_back + queue_fill
    BY DEF RingInv, RingTypes
  <2> QED
    BY <2>1, <2>2, <1>2, <1>5
<1>7. FrontIsNext'
  BY <1>1, <1>6 DEF RingInv, FrontIsNext, Wrapped
<1> QED
  BY <1>3, <1>4, <1>7 DEF RingInv

LEMMA RingDec ==
  ASSUME RingInv, DmDec
  PROVE  RingInv'
<1>1. /\ dpc = "dec" /\ dpc' = "stat" /\ queue_fill' = queue_fill - 1
      /\ UNCHANGED <<queue, queue_front, queue_back, left, pc, op>>
  BY DEF DmDec, client, usage
<1>2. queue_fill \in 1 .. QSize /\ queue_fill' \in 0 .. QSize /\ queue_fill' < QSize
  BY <1>1, SizeAssumption DEF RingInv, RingTypes
<1>3. RingTypes'
  BY <1>1, <1>2 DEF RingInv, RingTypes
<1>4. Room'
  <2>1. CASE \E d : \A e \in Clients : left[e] # 0 => e = d
    BY <2>1, <1>1 DEF Room
  <2>2. CASE IsFiniteSet(CopiesOf(left)) /\ Cardinality(CopiesOf(left)) + queue_fill <= QSize
    <3>1. Cardinality(CopiesOf(left)) \in Nat
      BY <2>2, FS_CardinalityType
    <3>2. Cardinality(CopiesOf(left)) + queue_fill' <= QSize
      BY <2>2, <3>1, <1>1, <1>2, SizeAssumption
    <3> QED
      BY <2>2, <3>2, <1>1 DEF Room
  <2> QED
    BY <2>1, <2>2 DEF RingInv, Room
<1>5. SlotIsFree' /\ Inserted'
  BY <1>1, <1>2 DEF RingInv, SlotIsFree, Copying, Inserted
<1>6. FrontIsNext'
  BY <1>1 DEF RingInv, FrontIsNext, Fill, Wrapped
<1> QED
  BY <1>3, <1>4, <1>5, <1>6 DEF RingInv

LEMMA RingDm ==
  ASSUME RingInv, DmCore \/ ClearLands \/ DmaComplete
  PROVE  RingInv'
<1>1. CASE DmStart
  BY <1>1, RingStart
<1>2. CASE DmDec
  BY <1>2, RingDec
<1>3. CASE ~DmStart /\ ~DmDec
  <2>1. UNCHANGED <<queue, queue_front, queue_back, queue_fill, left, pc, op>>
    BY <1>3 DEF DmCore, DmFill, DmStat, DmSwitch, DmValid, DmClear, DmCheckFill, DmCheckStat,
       DmIncWfi, DmWake, DmIssueClear, DmDecWfi, ClearLands, DmaComplete, ring, client, usage
  <2>2. /\ dpc = "dec" <=> dpc' = "dec"
        /\ dpc' = "start" => queue_fill # 0
    BY <1>3 DEF DmCore, DmFill, DmStat, DmSwitch, DmValid, DmClear, DmCheckFill, DmCheckStat,
       DmIncWfi, DmWake, DmIssueClear, DmDecWfi, ClearLands, DmaComplete, LoopOrExit, RingInv, RingTypes
  <2>3. RingTypes' /\ Room' /\ SlotIsFree' /\ Inserted'
    BY <2>1, <2>2 DEF RingInv, RingTypes, Room, SlotIsFree, Copying, Inserted
  <2>4. FrontIsNext'
    BY <2>1, <2>2 DEF RingInv, FrontIsNext, Fill, Wrapped
  <2> QED
    BY <2>3, <2>4 DEF RingInv
<1> QED
  BY <1>1, <1>2, <1>3

LEMMA RingCall ==
  ASSUME CallInv, RingInv, NEW c \in Clients, Call(c)
  PROVE  RingInv'
<1>1. PICK o \in Ops[c] :
        /\ o = "memcpy" => left[c] > 0
        /\ op' = [op EXCEPT ![c] = o]
        /\ pc' = [pc EXCEPT ![c] = Entry(o)]
  BY DEF Call
<1>2. pc[c] = "idle" /\ UNCHANGED <<ring, left, dpc>>
  BY DEF Call, core, usage
<1>3. /\ pc'[c] = Entry(o) /\ op'[c] = o
      /\ \A d \in Clients \ {c} : pc'[d] = pc[d] /\ op'[d] = op[d]
  BY <1>1 DEF CallInv
<1>4. pc'[c] \notin {"count", "front"} /\ (Copying(c)' => left[c] # 0 /\ pc'[c] = "poll")
  BY <1>1, <1>3 DEF Entry, Copying, RingInv, RingTypes
<1> QED
  BY <1>2, <1>3, <1>4, RingKept

LEMMA RingInCall ==
  ASSUME CallInv, RingInv, NEW c \in Clients, InCall(c)
  PROVE  RingInv'
<1>1. CASE Insert(c)
  BY <1>1, RingInsert
<1>2. CASE Count(c)
  BY <1>2, RingCount
<1>3. CASE Front(c)
  BY <1>3, RingFront
<1>4. CASE ~Insert(c) /\ ~Count(c) /\ ~Front(c)
  <2>1. PICK l \in Labels \ {"count", "front"} : Steps(c, l)
    BY <1>4 DEF InCall, Poll, Lock, Unlock, Wake, SetIrq, Drain, NoRequest, Invalidate, Request, Answer,
       Goto, Steps, Labels, After
  <2>2. pc[c] # "front" /\ UNCHANGED <<ring, left, dpc>>
    BY <1>4 DEF InCall, Poll, Lock, Unlock, Wake, SetIrq, Drain, NoRequest, Invalidate, Request, Answer,
       core, usage
  <2>3. pc'[c] = l /\ \A d \in Clients \ {c} : pc'[d] = pc[d] /\ op'[d] = op[d]
    BY <2>1 DEF CallInv, Steps
  <2>4. Copying(c)' => left[c] # 0 /\ (pc'[c] # "poll" => queue_fill < QSize)
    <3>1. CASE Poll(c)
      BY <3>1, <2>1 DEF Poll, Goto, Copying, CallInv, InItsCall, RingInv, SlotIsFree
    <3>2. CASE Lock(c)
      BY <3>2, <2>1 DEF Lock, Goto, Copying, CallInv, InItsCall, RingInv, SlotIsFree
    <3>3. CASE ~Poll(c) /\ ~Lock(c)
      BY <1>4, <3>3, <2>1 DEF InCall, Unlock, Wake, SetIrq, Drain, NoRequest, Invalidate, Request, Answer,
         Goto, Copying, CallInv, InItsCall
    <3> QED
      BY <3>1, <3>2, <3>3
  <2> QED
    BY <2>1, <2>2, <2>3, <2>4, RingKept
<1> QED
  BY <1>1, <1>2, <1>3, <1>4

-----------------------------------------------------------------------------
(* The requests.                                                           *)

Asks(c) == pc[c] \in After /\ op[c] \in {"wait", "ready"}

Unanswered == ~stat_pvalid /\ \E c \in Clients : Asks(c)

\* The DM core works only on a request whose author waits for the answer.
AuthorWaits ==
    /\ stat_q \in {"ready", "wait_idle"} /\ dpc # "clear" => Unanswered
    /\ dpc = "valid" => Unanswered

\* No answer to an earlier request is left, and no other request overwrites it.
OwnRequest ==
    \A c \in Clients :
        /\ Asks(c) /\ op[c] = "wait" => stat_q \in {"wait_idle", "none"}
        /\ pc[c] = "request" /\ op[c] # "exit" => ~stat_pvalid

StatInv == AuthorWaits /\ OwnRequest

LEMMA OneAsks ==
  ASSUME CallInv, NEW c \in Clients, Holds(c)
  PROVE  \A d \in Clients : d # c => ~Asks(d) /\ (pc[d] = "request" => op[d] = "exit")
BY DEF CallInv, MutexExcludes, Holds, Asks, After

LEMMA StatDm ==
  ASSUME CallInv, StatInv, DmCore \/ ClearLands \/ DmaComplete
  PROVE  StatInv'
<1>1. UNCHANGED <<pc, op>>
  BY DmCoreAlone DEF client
<1>2. CASE DmSwitch
  BY <1>1, <1>2 DEF DmSwitch, StatInv, AuthorWaits, OwnRequest, Unanswered, Asks, request
<1>3. CASE DmValid
  <2>1. /\ dpc = "valid" /\ dpc' = "clear" /\ stat_q' = stat_q
        /\ \E c \in Clients : Asks(c)
    BY <1>3 DEF DmValid, StatInv, AuthorWaits, Unanswered
  <2>2. \A c \in Clients : pc[c] = "request" => op[c] = "exit"
    BY <2>1, OneAsks DEF Asks, Holds, After
  <2> QED
    BY <1>1, <2>1, <2>2 DEF StatInv, AuthorWaits, OwnRequest, Unanswered, Asks
<1>4. CASE DmClear
  BY <1>1, <1>4 DEF DmClear, StatInv, AuthorWaits, OwnRequest, Unanswered, Asks
<1>5. CASE ~DmSwitch /\ ~DmValid /\ ~DmClear
  <2>1. UNCHANGED request /\ (dpc' # "valid" \/ dpc' = dpc)
    BY <1>5 DEF DmCore, DmFill, DmStart, DmDec, DmStat, DmCheckFill, DmCheckStat,
       DmIncWfi, DmWake, DmIssueClear, DmDecWfi, ClearLands, DmaComplete, LoopOrExit
  <2>2. dpc = "clear" => dpc' = "clear"
    BY <1>5 DEF DmCore, DmFill, DmStart, DmDec, DmStat, DmCheckFill, DmCheckStat,
       DmIncWfi, DmWake, DmIssueClear, DmDecWfi, ClearLands, DmaComplete
  <2> QED
    BY <1>1, <2>1, <2>2 DEF StatInv, AuthorWaits, OwnRequest, Unanswered, Asks, request
<1> QED
  BY <1>2, <1>3, <1>4, <1>5

\* A step of a hart that writes no request and no answer, and stays in its question.
LEMMA StatKept ==
  ASSUME CallInv, StatInv, NEW c \in Clients,
         \A d \in Clients \ {c} : pc'[d] = pc[d] /\ op'[d] = op[d],
         UNCHANGED <<request, dpc>>,
         Asks(c) /\ ~stat_pvalid => Asks(c)', Asks(c)' => Asks(c) /\ op'[c] = op[c],
         pc'[c] = "request" /\ op'[c] # "exit" => ~stat_pvalid
  PROVE  StatInv'
<1>1. stat_q' = stat_q /\ stat_pvalid' = stat_pvalid /\ dpc' = dpc
  BY DEF request
<1>2. \A d \in Clients \ {c} : Asks(d)' <=> Asks(d)
  BY DEF Asks
<1>3. Unanswered => Unanswered'
  BY <1>1, <1>2 DEF Unanswered
<1> QED
  BY <1>1, <1>2, <1>3 DEF StatInv, AuthorWaits, OwnRequest

LEMMA StatInvalidate ==
  ASSUME CallInv, StatInv, NEW c \in Clients, Invalidate(c)
  PROVE  StatInv'
<1>1. /\ pc[c] = "invalid" /\ stat_pvalid' = FALSE /\ UNCHANGED <<stat_q, dpc, op>>
      /\ pc' = [pc EXCEPT ![c] = "request"]
  BY DEF Invalidate, Goto, core
<1>2. pc'[c] = "request" /\ \A d \in Clients \ {c} : pc'[d] = pc[d]
  BY <1>1 DEF CallInv
<1>3. Unanswered => Unanswered'
  BY <1>1, <1>2 DEF Unanswered, Asks, After
<1> QED
  BY <1>1, <1>2, <1>3 DEF StatInv, AuthorWaits, OwnRequest, Asks, After

LEMMA StatRequest ==
  ASSUME CallInv, StatInv, NEW c \in Clients, Request(c)
  PROVE  StatInv'
<1>1. /\ pc[c] = "request" /\ stat_q' = RequestOf(op[c]) /\ UNCHANGED <<stat_pvalid, dpc, op>>
      /\ pc' = [pc EXCEPT ![c] = "rewake"]
  BY DEF Request, Goto, core
<1>2. op[c] \in {"wait", "ready", "exit"} /\ pc'[c] = "rewake" /\ \A d \in Clients \ {c} : pc'[d] = pc[d]
  BY <1>1 DEF CallInv, InItsCall
<1>3. CASE op[c] = "exit"
  <2>1. \A d \in Clients : ~Asks(d)
    BY <1>1, <1>3 DEF CallInv, ExitIsAlone, Asks, After
  <2>2. dpc # "valid"
    BY <2>1 DEF StatInv, AuthorWaits, Unanswered
  <2> QED
    BY <1>1, <1>2, <1>3, <2>1, <2>2 DEF StatInv, AuthorWaits, OwnRequest, Unanswered, Asks, RequestOf
<1>4. CASE op[c] # "exit"
  <2>1. \A d \in Clients : d # c => ~Asks(d) /\ (pc[d] = "request" => op[d] = "exit")
    BY <1>1, <1>4, OneAsks DEF Holds
  <2>2. ~stat_pvalid
    BY <1>1, <1>4 DEF StatInv, OwnRequest
  <2>3. Asks(c)' /\ ~stat_pvalid'
    BY <1>1, <1>2, <1>4, <2>2 DEF Asks, After
  <2>4. Unanswered'
    BY <2>3 DEF Unanswered
  <2> QED
    BY <1>1, <1>2, <1>4, <2>1, <2>4 DEF StatInv, AuthorWaits, OwnRequest, Asks, RequestOf, After
<1> QED
  BY <1>3, <1>4

LEMMA StatCall ==
  ASSUME CallInv, StatInv, NEW c \in Clients, Call(c)
  PROVE  StatInv'
<1>1. PICK o \in Ops[c] : op' = [op EXCEPT ![c] = o] /\ pc' = [pc EXCEPT ![c] = Entry(o)]
  BY DEF Call
<1>2. pc[c] = "idle" /\ UNCHANGED <<request, dpc>>
  BY DEF Call, core
<1>3. /\ pc'[c] = Entry(o) /\ op'[c] = o
      /\ \A d \in Clients \ {c} : pc'[d] = pc[d] /\ op'[d] = op[d]
  BY <1>1 DEF CallInv
<1>4. ~Asks(c) /\ ~Asks(c)' /\ (pc'[c] = "request" => op'[c] = "exit")
  BY <1>2, <1>3 DEF Entry, Asks, After
<1> QED
  BY <1>2, <1>3, <1>4, StatKept

LEMMA StatInCall ==
  ASSUME CallInv, StatInv, NEW c \in Clients, InCall(c)
  PROVE  StatInv'
<1>1. CASE Invalidate(c)
  BY <1>1, StatInvalidate
<1>2. CASE Request(c)
  BY <1>2, StatRequest
<1>3. CASE ~Invalidate(c) /\ ~Request(c)
  <2>1. PICK l \in Labels \ {"request"} : Steps(c, l)
    BY <1>3 DEF InCall, Poll, Lock, Insert, Count, Front, Unlock, Wake, SetIrq, Drain, NoRequest, Answer,
       Goto, Steps, Labels, After
  <2>2. pc'[c] = l /\ op' = op /\ \A d \in Clients \ {c} : pc'[d] = pc[d]
    BY <2>1 DEF CallInv, Steps
  <2>3. UNCHANGED <<request, dpc>>
    BY <1>3 DEF InCall, Poll, Lock, Insert, Count, Front, Unlock, Wake, SetIrq, Drain, NoRequest, Answer, core
  <2>4. InItsCall(c)
    BY DEF CallInv
  <2>5. Asks(c)' => Asks(c)
    BY <1>3, <2>1, <2>2, <2>4 DEF InCall, Poll, Lock, Insert, Count, Front, Unlock, Wake, SetIrq, Drain,
       NoRequest, Answer, Goto, Steps, Asks, After, InItsCall
  <2>6. Asks(c) /\ ~stat_pvalid => Asks(c)'
    BY <1>3, <2>1, <2>2, <2>4 DEF InCall, Poll, Lock, Insert, Count, Front, Unlock, Wake, SetIrq, Drain,
       NoRequest, Answer, Goto, Steps, Asks, After, InItsCall
  <2> QED
    BY <2>2, <2>3, <2>5, <2>6, StatKept
<1> QED
  BY <1>1, <1>2, <1>3

-----------------------------------------------------------------------------
(* The copies in the ring.                                                 *)

\* The n slots of q from b on.
Slots(q, b, n) == [i \in 1 .. n |-> q[Wrapped(b + i - 1)]]

Index == 0 .. QSize - 1

LEMMA SlotsType ==
  ASSUME NEW q, NEW b \in Index, NEW n \in 0 .. QSize
  PROVE  Slots(q, b, n) \in Seq({q[i] : i \in Index}) /\ Len(Slots(q, b, n)) = n
<1>1. \A i \in 1 .. n : Wrapped(b + i - 1) \in Index
  BY SizeAssumption DEF Wrapped, Index
<1> QED
  BY <1>1, SizeAssumption DEF Slots

LEMMA SlotsAppend ==
  ASSUME NEW q, NEW b \in Index, NEW n \in Index
  PROVE  Slots(q, b, n + 1) = Append(Slots(q, b, n), q[Wrapped(b + n)])
<1> DEFINE s == Slots(q, b, n)
           t == Append(s, q[Wrapped(b + n)])
           S == {q[i] : i \in Index}
<1>1. s \in Seq(S) /\ Len(s) = n /\ n \in Nat
  BY SlotsType, SizeAssumption DEF Index
<1>2. q[Wrapped(b + n)] \in S
  BY SizeAssumption DEF Wrapped, Index
<1>3. \A i \in 1 .. n : s[i] = q[Wrapped(b + i - 1)]
  BY DEF Slots
<1>4. Slots(q, b, n + 1) \in Seq(S) /\ Len(Slots(q, b, n + 1)) = n + 1
  <2>1. n + 1 \in 0 .. QSize
    BY SizeAssumption DEF Index
  <2> QED
    BY <2>1, SlotsType
<1>5. \A i \in 1 .. n + 1 : Slots(q, b, n + 1)[i] = q[Wrapped(b + i - 1)]
  BY DEF Slots
<1> HIDE DEF s, S
<1>6. t \in Seq(S) /\ Len(t) = n + 1
  BY <1>1, <1>2
<1>7. \A i \in 1 .. n + 1 : t[i] = q[Wrapped(b + i - 1)]
  <2>1. \A i \in 1 .. n : t[i] = s[i]
    BY <1>1, <1>2
  <2>2. t[n + 1] = q[Wrapped(b + n)]
    BY <1>1, <1>2
  <2>3. b + (n + 1) - 1 = b + n
    BY SizeAssumption DEF Index
  <2>4. \A i \in 1 .. n + 1 : i \in 1 .. n \/ i = n + 1
    BY <1>1
  <2> QED
    BY <1>3, <2>1, <2>2, <2>3, <2>4
<1> HIDE DEF t
<1>8. \A i \in 1 .. n + 1 : Slots(q, b, n + 1)[i] = t[i]
  BY <1>5, <1>7
<1>9. Slots(q, b, n + 1) = t
  BY <1>4, <1>6, <1>8
<1> QED
  BY <1>9 DEF t, s

LEMMA SlotsTail ==
  ASSUME NEW q, NEW b \in Index, NEW n \in 1 .. QSize
  PROVE  /\ Slots(q, b, n) # <<>>
         /\ Head(Slots(q, b, n)) = q[b]
         /\ Slots(q, Wrapped(b + 1), n - 1) = Tail(Slots(q, b, n))
<1> DEFINE s == Slots(q, b, n)
           t == Slots(q, Wrapped(b + 1), n - 1)
           S == {q[i] : i \in Index}
<1>1. s \in Seq(S) /\ Len(s) = n /\ n \in Nat \ {0}
  <2>1. n \in 0 .. QSize /\ n \in Nat \ {0}
    BY SizeAssumption
  <2> QED
    BY <2>1, SlotsType
<1>2. Wrapped(b + 1) \in Index /\ n - 1 \in 0 .. QSize
  BY SizeAssumption DEF Wrapped, Index
<1>3. t \in Seq(S) /\ Len(t) = n - 1
  BY <1>2, SlotsType
<1>4. \A i \in 1 .. n - 1 : Wrapped(Wrapped(b + 1) + i - 1) = Wrapped(b + (i + 1) - 1) /\ i + 1 \in 1 .. n
  BY SizeAssumption DEF Wrapped, Index
<1>5. \A i \in 1 .. n - 1 : t[i] = s[i + 1]
  BY <1>4 DEF Slots
<1>6. s[1] = q[b]
  <2>1. Wrapped(b + 1 - 1) = b /\ 1 \in 1 .. n
    BY SizeAssumption DEF Wrapped, Index
  <2> QED
    BY <2>1 DEF Slots
<1> HIDE DEF s, t, S
<1>7. s # <<>> /\ Head(s) = s[1] /\ Tail(s) \in Seq(S) /\ Len(Tail(s)) = n - 1
  BY <1>1
<1>8. \A i \in 1 .. n - 1 : Tail(s)[i] = s[i + 1]
  BY <1>1
<1>9. t = Tail(s)
  BY <1>3, <1>5, <1>7, <1>8, <1>1
<1> QED
  BY <1>6, <1>7, <1>9 DEF s, t

LEMMA SlotsInsert ==
  ASSUME NEW q, DOMAIN q = Index, NEW b \in Index, NEW n \in Index, NEW v
  PROVE  Slots([q EXCEPT ![Wrapped(b + n)] = v], b, n) = Slots(q, b, n)
<1>1. \A i \in 1 .. n : Wrapped(b + i - 1) # Wrapped(b + n) /\ Wrapped(b + i - 1) \in Index
  BY SizeAssumption DEF Wrapped, Index
<1> QED
  BY <1>1 DEF Slots

LEMMA SlotsByIndex ==
  ASSUME NEW q, NEW b \in Index, NEW n \in 0 .. QSize
  PROVE  Slots(q, b, n) = [i \in 1 .. n |-> q[(b + i - 1) % QSize]]
<1>1. \A i \in 1 .. n : (b + i - 1) % QSize = Wrapped(b + i - 1)
  <2> TAKE i \in 1 .. n
  <2>1. b + i - 1 \in 0 .. 2 * QSize - 1
    BY SizeAssumption DEF Index
  <2> QED
    BY <2>1, IndexWraps
<1> QED
  BY <1>1 DEF Slots

LEMMA PendingSlots ==
  ASSUME RingTypes
  PROVE  Pending = Slots(queue, queue_back, Fill) /\ Fill \in 0 .. QSize
<1>1. Fill \in 0 .. QSize /\ queue_back \in Index
  BY SizeAssumption DEF Fill, RingTypes, Index
<1>2. Pending = [i \in 1 .. Fill |-> queue[(queue_back + i - 1) % QSize]]
  BY DEF Pending, Fill
<1>3. Slots(queue, queue_back, Fill) = [i \in 1 .. Fill |-> queue[(queue_back + i - 1) % QSize]]
  BY <1>1, SlotsByIndex, Zenon
<1> QED
  BY <1>1, <1>2, <1>3, Zenon

\* The same after a step.
LEMMA PendingSlotsNext ==
  ASSUME RingTypes'
  PROVE  Pending' = Slots(queue', queue_back', Fill') /\ Fill' \in 0 .. QSize
<1>1. queue_back' \in Index
  BY DEF RingTypes, Index
<1>2. Fill' \in 0 .. QSize
  <2>1. queue_fill' \in 0 .. QSize /\ (dpc' = "dec" => queue_fill' # 0)
    BY DEF RingTypes
  <2>2. CASE dpc' = "dec"
    <3>1. Fill' = queue_fill' - 1
      BY <2>2 DEF Fill
    <3>2. queue_fill' \in 1 .. QSize
      BY <2>1, <2>2, SizeAssumption
    <3>3. \A f \in 1 .. QSize : f - 1 \in 0 .. QSize
      BY SizeAssumption
    <3> QED
      BY <3>1, <3>2, <3>3, Zenon
  <2>3. CASE dpc' # "dec"
    BY <2>1, <2>3 DEF Fill
  <2> QED
    BY <2>2, <2>3
<1>3. Pending' = [i \in 1 .. Fill' |-> queue'[(queue_back' + i - 1) % QSize]]
  BY DEF Pending, Fill
<1>4. Slots(queue', queue_back', Fill') = [i \in 1 .. Fill' |-> queue'[(queue_back' + i - 1) % QSize]]
  BY <1>1, <1>2, SlotsByIndex, Zenon
<1> QED
  BY <1>2, <1>3, <1>4, Zenon

\* What each step does to the copies in the ring.
LEMMA PendingInsert ==
  ASSUME CallInv, RingInv, NEW c \in Clients, Insert(c)
  PROVE  Pending' = Pending
<1>1. /\ pc[c] = "insert" /\ queue' = [queue EXCEPT ![queue_front] = <<c, left[c]>>]
      /\ UNCHANGED <<queue_back, queue_fill, dpc>>
  BY DEF Insert, core
<1>2. Holds(c) /\ Copying(c)
  BY <1>1 DEF CallInv, InItsCall, Holds, Copying
<1>3. queue_fill < QSize
  BY <1>1, <1>2 DEF RingInv, SlotIsFree
<1>4. \A d \in Clients : pc[d] # "front"
  BY <1>1, <1>2 DEF CallInv, MutexExcludes, Holds, InItsCall
<1>5. queue_front = Wrapped(queue_back + Fill) /\ Fill' = Fill
  BY <1>1, <1>4 DEF RingInv, FrontIsNext, Fill
<1>6. Fill \in Index /\ queue_back \in Index /\ DOMAIN queue = Index
  BY <1>3, SizeAssumption DEF Fill, RingInv, RingTypes, Index
<1>7. Slots(queue', queue_back, Fill) = Slots(queue, queue_back, Fill)
  <2> DEFINE v == <<c, left[c]>>
  <2>1. queue' = [queue EXCEPT ![Wrapped(queue_back + Fill)] = v]
    BY <1>1, <1>5
  <2>2. Slots([queue EXCEPT ![Wrapped(queue_back + Fill)] = v], queue_back, Fill) = Slots(queue, queue_back, Fill)
    <3> HIDE DEF v
    <3> QED
      BY <1>6, SlotsInsert, Zenon
  <2> QED
    BY <2>1, <2>2, Zenon
<1>8. Pending = Slots(queue, queue_back, Fill) /\ Pending' = Slots(queue', queue_back', Fill')
  BY RingInsert, PendingSlots, PendingSlotsNext DEF RingInv
<1> QED
  BY <1>1, <1>5, <1>7, <1>8

LEMMA PendingCount ==
  ASSUME CallInv, RingInv, NEW c \in Clients, Count(c)
  PROVE  Pending' = Append(Pending, <<c, left[c]>>)
<1>1. /\ pc[c] = "count" /\ queue_fill' = queue_fill + 1
      /\ UNCHANGED <<queue, queue_back, dpc>>
  BY DEF Count, core
<1>2. Holds(c) /\ Copying(c)
  BY <1>1 DEF CallInv, InItsCall, Holds, Copying
<1>3. queue_fill < QSize
  BY <1>1, <1>2 DEF RingInv, SlotIsFree
<1>4. \A d \in Clients : pc[d] # "front"
  BY <1>1, <1>2 DEF CallInv, MutexExcludes, Holds, InItsCall
<1>5. queue_front = Wrapped(queue_back + Fill) /\ Fill' = Fill + 1
  BY <1>1, <1>4 DEF RingInv, RingTypes, FrontIsNext, Fill
<1>6. Fill \in Index /\ queue_back \in Index
  BY <1>3, SizeAssumption DEF Fill, RingInv, RingTypes, Index
<1>7. queue[Wrapped(queue_back + Fill)] = <<c, left[c]>>
  BY <1>1, <1>5 DEF RingInv, Inserted
<1>8. Pending = Slots(queue, queue_back, Fill) /\ Pending' = Slots(queue', queue_back', Fill')
  BY RingCount, PendingSlots, PendingSlotsNext DEF RingInv
<1> QED
  BY <1>1, <1>5, <1>6, <1>7, <1>8, SlotsAppend

LEMMA PendingStart ==
  ASSUME RingInv, DmStart
  PROVE  /\ Pending # <<>> /\ Pending' = Tail(Pending)
         /\ active' = active \cup {Head(Pending)}
         /\ Pending \in Seq({queue[i] : i \in Index})
<1>1. /\ dpc = "start" /\ dpc' = "dec" /\ queue_back' = Bump(queue_back)
      /\ active' = active \cup {queue[queue_back]}
      /\ UNCHANGED <<queue, queue_fill>>
  BY DEF DmStart
<1>2. queue_back' = Wrapped(queue_back + 1) /\ queue_back \in Index
  BY <1>1, BumpWraps DEF RingInv, RingTypes, Index
<1>3. Fill \in 1 .. QSize /\ Fill' = Fill - 1
  BY <1>1, SizeAssumption DEF Fill, RingInv, RingTypes
<1>4. Pending = Slots(queue, queue_back, Fill) /\ Pending' = Slots(queue', queue_back', Fill')
  BY RingStart, PendingSlots, PendingSlotsNext DEF RingInv
<1>5. Fill \in 0 .. QSize
  BY <1>3, SizeAssumption
<1> QED
  BY <1>1, <1>2, <1>3, <1>4, <1>5, SlotsTail, SlotsType

LEMMA PendingElse ==
  ASSUME RingInv, UNCHANGED <<queue, queue_back>>, Fill' = Fill
  PROVE  Pending' = Pending
BY DEF Pending, Fill

LEMMA DecFill ==
  ASSUME RingInv, DmCore \/ ClearLands \/ DmaComplete, ~DmStart
  PROVE  UNCHANGED <<queue, queue_back>> /\ Fill' = Fill
<1>1. CASE DmDec
  BY <1>1 DEF DmDec, Fill
<1>2. CASE ~DmDec
  BY <1>2 DEF DmCore, DmFill, DmStat, DmSwitch, DmValid, DmClear, DmCheckFill, DmCheckStat,
       DmIncWfi, DmWake, DmIssueClear, DmDecWfi, ClearLands, DmaComplete, ring, LoopOrExit, Fill
<1> QED
  BY <1>1, <1>2

-----------------------------------------------------------------------------
(* No copy is queued twice, and what dm_wait has seen.                     *)

Queued == Range(Pending) \cup active \cup done

\* The copies that are queued are not among those still to be queued.
CopiesKnown ==
    /\ \E p \in Plans : \A c \in Clients : left[c] <= p[c]
    /\ \A t \in Queued : t \in Tasks /\ t[2] > left[t[1]]

\* The hart has seen queue_fill at 0.
Drained(c) ==
    op[c] = "wait" /\ pc[c] \in {"noreq", "lock", "invalid", "request", "unlock"} \cup After

\* Its request is answered, or is about to be.
Completed(c) ==
    op[c] = "wait" /\ (pc[c] = "unlock" \/ (pc[c] \in After /\ (dpc = "valid" \/ stat_pvalid)))

WaitHolds ==
    \A c \in Clients :
        /\ Drained(c) => \A t \in Range(Pending) : OwnerOf(t) # c
        /\ Completed(c) => \A t \in active : OwnerOf(t) # c

CopyInv == CopiesKnown /\ WaitHolds

MInv == CallInv /\ RingInv /\ StatInv /\ CopyInv

LEMMA CompletedDrained ==
  ASSUME NEW c \in Clients, Completed(c)
  PROVE  Drained(c)
BY DEF Completed, Drained

LEMMA RangeAppend ==
  ASSUME NEW S, NEW s \in Seq(S), NEW x
  PROVE  Range(Append(s, x)) = Range(s) \cup {x}
<1> DEFINE T == S \cup {x}
<1>1. s \in Seq(T) /\ x \in T
  OBVIOUS
<1> HIDE DEF T
<1>2. DOMAIN s = 1 .. Len(s) /\ DOMAIN Append(s, x) = 1 .. Len(s) + 1 /\ Len(s) \in Nat
  BY <1>1
<1>3. (\A i \in 1 .. Len(s) : Append(s, x)[i] = s[i]) /\ Append(s, x)[Len(s) + 1] = x
  BY <1>1
<1>4. \A i \in 1 .. Len(s) + 1 : i \in 1 .. Len(s) \/ i = Len(s) + 1
  BY <1>2
<1>5. (\A i \in 1 .. Len(s) : i \in 1 .. Len(s) + 1) /\ Len(s) + 1 \in 1 .. Len(s) + 1
  BY <1>2
<1> QED
  BY <1>2, <1>3, <1>4, <1>5 DEF Range

LEMMA RangeTail ==
  ASSUME NEW S, NEW s \in Seq(S), s # <<>>
  PROVE  Range(s) = Range(Tail(s)) \cup {Head(s)}
<1>1. DOMAIN s = 1 .. Len(s) /\ DOMAIN Tail(s) = 1 .. Len(s) - 1 /\ Len(s) \in Nat \ {0}
  OBVIOUS
<1>2. (\A i \in 1 .. Len(s) - 1 : Tail(s)[i] = s[i + 1]) /\ Head(s) = s[1]
  OBVIOUS
<1>3. (\A i \in 1 .. Len(s) - 1 : i + 1 \in 1 .. Len(s)) /\ 1 \in 1 .. Len(s)
  BY <1>1
<1>4. \A i \in 1 .. Len(s) : i = 1 \/ (i - 1 \in 1 .. Len(s) - 1 /\ (i - 1) + 1 = i)
  BY <1>1
<1> DEFINE t == Tail(s)
           h == Head(s)
<1> HIDE DEF t, h
<1>5. \A x \in Range(s) : x \in Range(t) \cup {h}
  <2> TAKE x \in Range(s)
  <2>1. PICK i \in 1 .. Len(s) : x = s[i]
    BY <1>1 DEF Range
  <2>2. CASE i = 1
    BY <1>2, <2>1, <2>2 DEF h
  <2>3. CASE i # 1
    <3>1. i - 1 \in DOMAIN t /\ t[i - 1] = s[i]
      BY <1>1, <1>2, <1>4, <2>3 DEF t
    <3> QED
      BY <2>1, <3>1 DEF Range
  <2> QED
    BY <2>2, <2>3
<1>6. \A x \in Range(t) \cup {h} : x \in Range(s)
  <2>1. h \in Range(s)
    BY <1>1, <1>2, <1>3 DEF Range, h
  <2>2. \A i \in DOMAIN t : t[i] = s[i + 1] /\ i + 1 \in DOMAIN s
    BY <1>1, <1>2, <1>3 DEF t
  <2> QED
    BY <2>1, <2>2 DEF Range
<1> QED
  BY <1>5, <1>6 DEF t, h

LEMMA PendingIsSeq == RingInv => Pending \in Seq({queue[i] : i \in Index})
<1> SUFFICES ASSUME RingInv PROVE Pending \in Seq({queue[i] : i \in Index})
  OBVIOUS
<1>1. Pending = Slots(queue, queue_back, Fill) /\ Fill \in 0 .. QSize /\ queue_back \in Index
  BY PendingSlots DEF RingInv, RingTypes, Index
<1> QED
  BY <1>1, SlotsType, Zenon

\* A step that queues, starts and completes nothing, of a hart that has seen no more.
LEMMA CopiesKept ==
  ASSUME CopyInv, NEW c \in Clients,
         \A d \in Clients \ {c} : pc'[d] = pc[d] /\ op'[d] = op[d],
         Pending' = Pending, UNCHANGED <<active, done, left, dpc>>,
         stat_pvalid' => stat_pvalid, Drained(c)' => Drained(c), Completed(c)' => Completed(c)
  PROVE  CopyInv'
<1>1. \A d \in Clients : (Drained(d)' => Drained(d)) /\ (Completed(d)' => Completed(d))
  <2> TAKE d \in Clients
  <2>1. CASE d = c
    BY <2>1
  <2>2. CASE d # c
    BY <2>2 DEF Drained, Completed
  <2> QED
    BY <2>1, <2>2
<1>2. Queued' = Queued /\ Range(Pending)' = Range(Pending)
  BY DEF Queued
<1>3. CopiesKnown'
  BY <1>2 DEF CopyInv, CopiesKnown
<1>4. WaitHolds'
  BY <1>1, <1>2 DEF CopyInv, WaitHolds
<1> QED
  BY <1>3, <1>4 DEF CopyInv

LEMMA CopiesStart ==
  ASSUME RingInv, CopyInv, DmStart
  PROVE  CopyInv'
<1> DEFINE h == Head(Pending)
<1>1. Range(Pending) = Range(Pending') \cup {h} /\ active' = active \cup {h}
  BY PendingStart, RangeTail
<1>2. UNCHANGED <<done, left, pc, op, stat_pvalid>> /\ dpc' = "dec"
  BY DEF DmStart, client, usage, request
<1> HIDE DEF h
<1>3. Queued' = Queued
  <2>1. Range(Pending)' = Range(Pending')
    BY DEF Range
  <2> QED
    BY <1>1, <1>2, <2>1 DEF Queued
<1>4. CopiesKnown'
  BY <1>2, <1>3 DEF CopyInv, CopiesKnown
<1>5. \A c \in Clients : (Drained(c)' => Drained(c)) /\ (Completed(c)' => Completed(c))
  BY <1>2 DEF Drained, Completed
<1>6. \A c \in Clients : Completed(c) => Drained(c)
  BY CompletedDrained
<1>7. Range(Pending)' \subseteq Range(Pending) /\ h \in Range(Pending)
  BY <1>1 DEF Range
<1>8. WaitHolds'
  BY <1>1, <1>5, <1>6, <1>7 DEF CopyInv, WaitHolds
<1> QED
  BY <1>4, <1>8 DEF CopyInv

LEMMA CopiesDm ==
  ASSUME RingInv, StatInv, CopyInv, DmCore \/ ClearLands \/ DmaComplete
  PROVE  CopyInv'
<1>1. CASE DmStart
  BY <1>1, CopiesStart
<1>2. CASE ~DmStart
  <2>1. Pending' = Pending
    BY <1>2, DecFill, PendingElse
  <2>2. Range(Pending)' = Range(Pending)
    BY <2>1 DEF Range
  <2>3. UNCHANGED <<pc, op, left>>
    BY DmCoreAlone DEF client, usage
  <2>4. \A c \in Clients : Drained(c)' <=> Drained(c)
    BY <2>3 DEF Drained
  <2>5. active' \cup done' = active \cup done /\ active' \subseteq active
    BY <1>2 DEF DmCore, DmFill, DmDec, DmStat, DmSwitch, DmValid, DmClear, DmCheckFill, DmCheckStat,
       DmIncWfi, DmWake, DmIssueClear, DmDecWfi, ClearLands, DmaComplete, dma
  <2>6. CopiesKnown'
    BY <2>2, <2>3, <2>5 DEF CopyInv, CopiesKnown, Queued
  <2>7. \A c \in Clients : Completed(c)' => Completed(c) \/ active' = {}
    <3>1. CASE DmSwitch
      <4>1. /\ UNCHANGED <<active, stat_pvalid>>
            /\ dpc' = "valid" => stat_q = "ready" \/ active = {}
        BY <3>1 DEF DmSwitch, request, dma
      <4> QED
        BY <2>3, <4>1 DEF Completed, StatInv, OwnRequest, Asks
    <3>2. CASE DmValid
      BY <2>3, <3>2 DEF DmValid, Completed
    <3>3. CASE ~DmSwitch /\ ~DmValid
      <4>1. stat_pvalid' = stat_pvalid /\ (dpc' = "valid" => dpc = "valid")
        BY <1>2, <3>3 DEF DmCore, DmFill, DmDec, DmStat, DmClear, DmCheckFill, DmCheckStat,
           DmIncWfi, DmWake, DmIssueClear, DmDecWfi, ClearLands, DmaComplete, request, LoopOrExit
      <4> QED
        BY <2>3, <4>1 DEF Completed
    <3> QED
      BY <3>1, <3>2, <3>3
  <2>8. WaitHolds'
    BY <2>2, <2>4, <2>5, <2>7 DEF CopyInv, WaitHolds
  <2> QED
    BY <2>6, <2>8 DEF CopyInv
<1> QED
  BY <1>1, <1>2

LEMMA CopiesCall ==
  ASSUME CallInv, RingInv, CopyInv, NEW c \in Clients, Call(c)
  PROVE  CopyInv' /\ Pending' = Pending
<1>1. PICK o \in Ops[c] : op' = [op EXCEPT ![c] = o] /\ pc' = [pc EXCEPT ![c] = Entry(o)]
  BY DEF Call
<1>2. pc[c] = "idle" /\ UNCHANGED <<queue, queue_back, queue_fill, active, done, left, dpc, stat_pvalid>>
  BY DEF Call, core, usage, ring, dma, request
<1>3. /\ pc'[c] = Entry(o) /\ op'[c] = o
      /\ \A d \in Clients \ {c} : pc'[d] = pc[d] /\ op'[d] = op[d]
  BY <1>1 DEF CallInv
<1>4. ~Drained(c)' /\ ~Completed(c)'
  BY <1>3 DEF Entry, Drained, Completed, After
<1>5. Pending' = Pending
  BY <1>2, PendingElse DEF Fill
<1> QED
  BY <1>2, <1>3, <1>4, <1>5, CopiesKept

LEMMA TaskOf ==
  ASSUME NEW c \in Clients, NEW p \in Plans, NEW k \in 1 .. p[c]
  PROVE  <<c, k>> \in Tasks
<1> DEFINE Of(d, q) == {d} \X (1 .. q[d])
           F == {Of(d, q) : d \in Clients, q \in Plans}
<1>1. <<c, k>> \in Of(c, p)
  OBVIOUS
<1>2. Tasks = UNION F
  BY DEF Tasks
<1> HIDE DEF Of
<1>3. Of(c, p) \in F
  BY SMT
<1> QED
  BY <1>1, <1>2, <1>3

LEMMA CopiesCount ==
  ASSUME CallInv, RingInv, CopyInv, NEW c \in Clients, Count(c)
  PROVE  CopyInv' /\ <<c, left[c]>> \in Tasks /\ <<c, left[c]>> \notin Queued
<1> DEFINE t == <<c, left[c]>>
<1>1. /\ pc[c] = "count" /\ pc' = [pc EXCEPT ![c] = "front"] /\ op' = op
      /\ left' = [left EXCEPT ![c] = @ - 1]
      /\ UNCHANGED <<active, done, dpc, stat_pvalid>>
  BY DEF Count, Goto, core, dma, request
<1>2. Copying(c)
  BY <1>1 DEF CallInv, InItsCall, Copying
<1>3. left[c] \in Nat \ {0} /\ left \in [Clients -> Nat]
  BY <1>2 DEF RingInv, SlotIsFree, RingTypes
<1>4. /\ left'[c] = left[c] - 1 /\ \A d \in Clients \ {c} : left'[d] = left[d]
      /\ pc'[c] = "front" /\ \A d \in Clients \ {c} : pc'[d] = pc[d]
  BY <1>1, <1>3 DEF CallInv
<1>5. PICK p \in Plans : \A d \in Clients : left[d] <= p[d]
  BY DEF CopyInv, CopiesKnown
<1>6. p \in [Clients -> Nat]
  BY PlanAssumption
<1>7. t \in Tasks
  <2>1. left[c] \in 1 .. p[c]
    BY <1>3, <1>5, <1>6
  <2> QED
    BY <1>5, <2>1, TaskOf
<1>8. t \notin Queued
  BY <1>3 DEF CopyInv, CopiesKnown
<1>9. Range(Pending)' = Range(Pending) \cup {t}
  <2>1. Range(Pending') = Range(Pending) \cup {t}
    BY PendingCount, PendingIsSeq, RangeAppend
  <2> QED
    BY <2>1 DEF Range
<1>10. Queued' = Queued \cup {t}
  BY <1>1, <1>9 DEF Queued
<1>11. CopiesKnown'
  <2>1. \A d \in Clients : left'[d] <= left[d] /\ left'[d] \in Nat
    BY <1>3, <1>4
  <2>2. \A d \in Clients : left'[d] <= p[d]
    BY <1>3, <1>5, <1>6, <2>1
  <2>3. \A u \in Tasks : u[1] \in Clients /\ u[2] \in Nat
    BY PlanAssumption DEF Tasks
  <2>4. \A u \in Queued : u \in Tasks /\ u[2] > left'[u[1]]
    <3> TAKE u \in Queued
    <3>1. u \in Tasks /\ u[2] > left[u[1]] /\ u[1] \in Clients /\ u[2] \in Nat
      BY <2>3 DEF CopyInv, CopiesKnown
    <3> QED
      BY <1>3, <2>1, <3>1
  <2>5. t[2] > left'[t[1]]
    BY <1>3, <1>4
  <2> QED
    BY <1>7, <1>10, <2>2, <2>4, <2>5 DEF CopiesKnown
<1>12. \A d \in Clients : Drained(d)' => Drained(d) /\ d # c
  BY <1>1, <1>2, <1>4 DEF Drained, Copying
<1>13. \A d \in Clients : Completed(d)' => Completed(d)
  BY <1>1, <1>4 DEF Completed, After
<1>14. WaitHolds'
  <2>1. OwnerOf(t) = c
    BY DEF OwnerOf
  <2> QED
    BY <1>1, <1>9, <1>12, <1>13, <2>1 DEF CopyInv, WaitHolds
<1> QED
  BY <1>7, <1>8, <1>11, <1>14 DEF CopyInv

LEMMA CopiesInCall ==
  ASSUME CallInv, RingInv, StatInv, CopyInv, NEW c \in Clients, InCall(c)
  PROVE  CopyInv' /\ (~Count(c) => Pending' = Pending)
<1>1. CASE Count(c)
  BY <1>1, CopiesCount
<1>2. CASE ~Count(c)
  <2>1. PICK l \in Labels : Steps(c, l)
    BY <1>2 DEF InCall, Poll, Lock, Insert, Front, Unlock, Wake, SetIrq, Drain, NoRequest, Invalidate,
       Request, Answer, Goto, Steps, Labels, After
  <2>2. pc'[c] = l /\ op' = op /\ \A d \in Clients \ {c} : pc'[d] = pc[d]
    BY <2>1 DEF CallInv, Steps
  <2>3. UNCHANGED <<queue_back, queue_fill, active, done, left, dpc>> /\ (stat_pvalid' => stat_pvalid)
    BY <1>2 DEF InCall, Poll, Lock, Insert, Front, Unlock, Wake, SetIrq, Drain, NoRequest, Invalidate,
       Request, Answer, ring, request, dma, usage, core
  <2>4. Pending' = Pending
    <3>1. CASE Insert(c)
      BY <3>1, PendingInsert
    <3>2. CASE ~Insert(c)
      <4>1. queue' = queue
        BY <1>2, <3>2 DEF InCall, Poll, Lock, Front, Unlock, Wake, SetIrq, Drain, NoRequest, Invalidate,
           Request, Answer, ring
      <4> QED
        BY <2>3, <4>1, PendingElse DEF Fill
    <3> QED
      BY <3>1, <3>2
  <2>5. InItsCall(c)
    BY DEF CallInv
  <2>6. CASE Drain(c)
    <3>1. queue_fill = 0 /\ dpc # "dec"
      BY <2>6 DEF Drain, RingInv, RingTypes
    <3>2. DOMAIN Pending = {}
      BY <3>1 DEF Pending
    <3>3. Range(Pending)' = {}
      BY <2>4, <3>2 DEF Range
    <3>4. pc'[c] = "noreq"
      BY <2>2, <2>1, <2>6 DEF Drain, Goto, CallInv
    <3>5. \A d \in Clients : Completed(d)' => Completed(d)
      BY <2>2, <2>3, <3>4 DEF Completed, After
    <3>6. CopiesKnown'
      BY <2>3, <2>4 DEF CopyInv, CopiesKnown, Queued, Range
    <3>7. WaitHolds'
      BY <2>3, <3>3, <3>5 DEF CopyInv, WaitHolds
    <3> QED
      BY <2>4, <3>6, <3>7 DEF CopyInv
  <2>7. CASE Request(c)
    <3>1. pc[c] = "request" /\ pc'[c] = "rewake"
      BY <2>1, <2>2, <2>7 DEF Request, Goto, CallInv
    <3>2. op[c] # "exit" => ~stat_pvalid /\ dpc # "valid"
      BY <3>1, OneAsks DEF Holds, StatInv, AuthorWaits, OwnRequest, Unanswered, Asks, After
    <3>3. (Drained(c)' => Drained(c)) /\ (Completed(c)' => Completed(c))
      BY <2>2, <2>3, <3>1, <3>2 DEF Drained, Completed, After
    <3> QED
      BY <2>2, <2>3, <2>4, <3>3, CopiesKept
  <2>8. CASE ~Drain(c) /\ ~Request(c)
    <3>1. Drained(c)' => Drained(c)
      BY <1>2, <2>8, <2>1, <2>2, <2>5 DEF InCall, Poll, Lock, Insert, Front, Unlock, Wake, SetIrq, NoRequest,
         Invalidate, Answer, Goto, Steps, Drained, After, InItsCall
    <3>2. Completed(c)' => Completed(c)
      BY <1>2, <2>8, <2>1, <2>2, <2>3, <2>5 DEF InCall, Poll, Lock, Insert, Front, Unlock, Wake, SetIrq,
         NoRequest, Invalidate, Answer, Goto, Steps, Completed, After, InItsCall
    <3> QED
      BY <2>2, <2>3, <2>4, <3>1, <3>2, CopiesKept
  <2> QED
    BY <2>4, <2>6, <2>7, <2>8
<1> QED
  BY <1>1, <1>2

-----------------------------------------------------------------------------
LEMMA StepMInv == MInv /\ [Next]_vars => MInv'
<1> SUFFICES ASSUME MInv, [Next]_vars PROVE MInv'
  OBVIOUS
<1>1. CASE DmCore \/ ClearLands \/ DmaComplete
  <2>1. CallInv'
    BY <1>1, DmCoreAlone, CallInvElse DEF MInv, client
  <2> QED
    BY <1>1, <2>1, RingDm, StatDm, CopiesDm DEF MInv
<1>2. CASE \E c \in Clients : Call(c)
  BY <1>2, OpsAssumption, CallInvCall, RingCall, StatCall, CopiesCall DEF MInv
<1>3. CASE \E c \in Clients : InCall(c)
  BY <1>3, CallInvInCall, RingInCall, StatInCall, CopiesInCall DEF MInv
<1>4. CASE UNCHANGED vars
  <2>1. UNCHANGED <<queue, queue_back, queue_front, queue_fill, mutex, stat_q, stat_pvalid, dpc,
                    active, done, op, pc, left>>
    BY <1>4 DEF vars, ring, request, dma, client, usage
  <2>2. CallInv'
    BY <2>1, CallInvElse DEF MInv
  <2>3. RingInv'
    BY <2>1 DEF MInv, RingInv, RingTypes, Room, SlotIsFree, FrontIsNext, Inserted, Copying, Fill, Wrapped
  <2>4. StatInv'
    BY <2>1 DEF MInv, StatInv, AuthorWaits, OwnRequest, Unanswered, Asks
  <2>5. CopyInv'
    BY <2>1 DEF MInv, CopyInv, CopiesKnown, WaitHolds, Queued, Pending, Range, Drained, Completed
  <2> QED
    BY <2>2, <2>3, <2>4, <2>5 DEF MInv
<1> QED
  BY <1>1, <1>2, <1>3, <1>4 DEF Next

LEMMA InitMInv ==
  ASSUME PlansFit, Init
  PROVE  MInv
<1>1. CallInv
  BY DEF Init, CallInv, Labels, InItsCall, MutexExcludes, Holds, ExitIsAlone, After
<1>2. PICK p \in Plans : left = p
  BY DEF Init
<1>3. left \in [Clients -> Nat]
  BY <1>2, PlanAssumption
<1>4. RingTypes /\ Fill = 0
  BY <1>3, SizeAssumption DEF Init, RingTypes, Fill
<1>5. Room
  <2>1. CASE \E d : \A c \in Clients : p[c] # 0 => c = d
    BY <1>2, <2>1 DEF Room
  <2>2. CASE IsFiniteSet(CopiesOf(p)) /\ Cardinality(CopiesOf(p)) <= QSize
    <3>1. Cardinality(CopiesOf(p)) \in Nat /\ queue_fill = 0
      BY <2>2, FS_CardinalityType DEF Init
    <3> QED
      BY <1>2, <2>2, <3>1 DEF Room
  <2> QED
    BY <2>1, <2>2 DEF PlansFit
<1>6. SlotIsFree /\ Inserted
  BY DEF Init, SlotIsFree, Copying, Inserted
<1>7. FrontIsNext
  BY <1>4, SizeAssumption DEF Init, FrontIsNext, Wrapped
<1>8. StatInv
  BY DEF Init, StatInv, AuthorWaits, OwnRequest, Asks, After
<1>9. DOMAIN Pending = {} /\ active = {} /\ done = {}
  BY DEF Init, Pending
<1>10. CopyInv
  <2>1. Queued = {}
    BY <1>9 DEF Queued, Range
  <2>2. \A c \in Clients : left[c] <= p[c]
    BY <1>2, <1>3
  <2>3. WaitHolds
    BY <1>9 DEF WaitHolds, Range
  <2> QED
    BY <2>1, <2>2, <2>3 DEF CopyInv, CopiesKnown
<1> QED
  BY <1>1, <1>4, <1>5, <1>6, <1>7, <1>8, <1>10 DEF MInv, RingInv

-----------------------------------------------------------------------------
(* The steps of the copy queue.                                            *)

LEMMA AbsQueued == Abs!Queued = Queued
BY DEF Abs!Queued, Queued, Range

LEMMA InitImplements == Init => Abs!Init
<1> SUFFICES ASSUME Init PROVE Abs!Init
  OBVIOUS
<1>1. Pending = <<>>
  BY DEF Init, Pending
<1>2. Waiting = {}
  BY DEF Init, Waiting
<1> QED
  BY <1>1, <1>2 DEF Init, Abs!Init

LEMMA WaitingKept ==
  ASSUME CallInv, NEW c \in Clients,
         \A d \in Clients \ {c} : pc'[d] = pc[d] /\ op'[d] = op[d],
         c \in Waiting' <=> c \in Waiting
  PROVE  Waiting' = Waiting
BY DEF Waiting

LEMMA DmImplements ==
  ASSUME MInv, DmCore \/ ClearLands \/ DmaComplete
  PROVE  Abs!Next \/ UNCHANGED Abs!vars
<1>1. Waiting' = Waiting
  BY DmCoreAlone DEF client, Waiting
<1>2. CASE DmStart
  <2>1. Pending # <<>> /\ Pending' = Tail(Pending) /\ active' = active \cup {Head(Pending)}
    BY <1>2, PendingStart DEF MInv
  <2>2. done' = done
    BY <1>2 DEF DmStart
  <2> QED
    BY <1>1, <2>1, <2>2 DEF Abs!Next, Abs!Start
<1>3. CASE DmaComplete
  <2>1. PICK t \in active : active' = active \ {t} /\ done' = done \cup {t}
    BY <1>3 DEF DmaComplete
  <2>2. Pending' = Pending
    <3>1. UNCHANGED <<queue, queue_back>> /\ Fill' = Fill
      BY <1>3 DEF DmaComplete, ring, Fill
    <3> QED
      BY <3>1, PendingElse DEF MInv
  <2>3. t \in Tasks
    BY DEF MInv, CopyInv, CopiesKnown, Queued
  <2> QED
    BY <1>1, <2>1, <2>2, <2>3 DEF Abs!Next, Abs!Complete
<1>4. CASE ~DmStart /\ ~DmaComplete
  <2>1. Pending' = Pending
    BY <1>4, DecFill, PendingElse DEF MInv
  <2>2. UNCHANGED <<active, done>>
    BY <1>4 DEF DmCore, DmFill, DmDec, DmStat, DmSwitch, DmValid, DmClear, DmCheckFill, DmCheckStat,
       DmIncWfi, DmWake, DmIssueClear, DmDecWfi, ClearLands, dma
  <2> QED
    BY <1>1, <2>1, <2>2 DEF Abs!vars
<1> QED
  BY <1>2, <1>3, <1>4

LEMMA CallImplements ==
  ASSUME MInv, NEW c \in Clients, Call(c)
  PROVE  Abs!Next \/ UNCHANGED Abs!vars
<1>1. PICK o \in Ops[c] : op' = [op EXCEPT ![c] = o] /\ pc' = [pc EXCEPT ![c] = Entry(o)]
  BY DEF Call
<1>2. pc[c] = "idle" /\ UNCHANGED <<active, done>> /\ Pending' = Pending
  BY CopiesCall DEF Call, dma, MInv
<1>3. /\ pc'[c] = Entry(o) /\ op'[c] = o
      /\ \A d \in Clients \ {c} : pc'[d] = pc[d] /\ op'[d] = op[d]
  BY <1>1 DEF MInv, CallInv
<1>4. CASE o = "wait"
  <2>1. c \notin Waiting /\ Waiting' = Waiting \cup {c}
    BY <1>2, <1>3, <1>4 DEF Waiting, Entry
  <2> QED
    BY <1>2, <2>1 DEF Abs!Next, Abs!CallWait
<1>5. CASE o # "wait"
  <2>1. c \notin Waiting /\ c \notin Waiting'
    BY <1>2, <1>3, <1>5 DEF Waiting
  <2> QED
    BY <1>2, <1>3, <2>1, WaitingKept DEF Abs!vars, MInv
<1> QED
  BY <1>4, <1>5

LEMMA InCallImplements ==
  ASSUME MInv, NEW c \in Clients, InCall(c)
  PROVE  Abs!Next \/ UNCHANGED Abs!vars
<1>1. UNCHANGED <<active, done>>
  BY DEF InCall, Poll, Lock, Insert, Count, Front, Unlock, Wake, SetIrq, Drain, NoRequest, Invalidate,
     Request, Answer, dma
<1>2. PICK l \in Labels : Steps(c, l)
  BY DEF InCall, Poll, Lock, Insert, Count, Front, Unlock, Wake, SetIrq, Drain, NoRequest, Invalidate,
     Request, Answer, Goto, Steps, Labels, After
<1>3. pc'[c] = l /\ op' = op /\ \A d \in Clients \ {c} : pc'[d] = pc[d]
  BY <1>2 DEF MInv, CallInv, Steps
<1>4. pc[c] # "idle"
  BY DEF InCall, Poll, Lock, Insert, Count, Front, Unlock, Wake, SetIrq, Drain, NoRequest, Invalidate,
     Request, Answer
<1>5. CASE Unlock(c) /\ op[c] = "wait"
  <2>1. Pending' = Pending
    BY <1>5, CopiesInCall DEF MInv, Unlock, Count
  <2>2. pc[c] = "unlock" /\ pc'[c] = "idle"
    BY <1>5 DEF Unlock, Goto, MInv, CallInv
  <2>3. c \in Waiting /\ Waiting' = Waiting \ {c}
    BY <1>3, <1>5, <2>2 DEF Waiting
  <2>4. \A t \in Queued : OwnerOf(t) = c => t \in done
    BY <1>5, <2>2 DEF MInv, CopyInv, WaitHolds, Drained, Completed, Queued
  <2> QED
    BY <1>1, <2>1, <2>3, <2>4, AbsQueued DEF Abs!Next, Abs!ReturnWait
<1>6. CASE ~(Unlock(c) /\ op[c] = "wait")
  <2>1. pc'[c] = "idle" => op[c] # "wait"
    BY <1>2, <1>3, <1>4, <1>6 DEF InCall, Poll, Lock, Insert, Count, Front, Unlock, Wake, SetIrq, Drain, NoRequest,
       Invalidate, Request, Answer, Goto, Steps
  <2>2. c \in Waiting' <=> c \in Waiting
    BY <1>3, <1>4, <2>1 DEF Waiting
  <2>3. Waiting' = Waiting
    BY <1>3, <2>2, WaitingKept DEF MInv
  <2>4. CASE Count(c)
    <3>1. <<c, left[c]>> \in Tasks /\ <<c, left[c]>> \notin Queued /\ Pending' = Append(Pending, <<c, left[c]>>)
      BY <2>4, CopiesCount, PendingCount DEF MInv
    <3> QED
      BY <1>1, <2>3, <3>1, AbsQueued DEF Abs!Next, Abs!Push
  <2>5. CASE ~Count(c)
    BY <1>1, <2>3, <2>5, CopiesInCall DEF MInv, Abs!vars
  <2> QED
    BY <2>4, <2>5
<1> QED
  BY <1>5, <1>6

LEMMA StepImplements == MInv /\ [Next]_vars => [Abs!Next]_(Abs!vars)
<1> SUFFICES ASSUME MInv, [Next]_vars PROVE Abs!Next \/ UNCHANGED Abs!vars
  OBVIOUS
<1>1. CASE UNCHANGED vars
  BY <1>1 DEF vars, ring, dma, client, Pending, Waiting, Abs!vars
<1> QED
  BY <1>1, DmImplements, CallImplements, InCallImplements DEF Next

(***************************************************************************)
(* The data mover keeps the promise of a queue of copies - none is lost,   *)
(* doubled or reordered, and dm_wait returns only when the copies of its   *)
(* caller are complete - for a ring of any size and any number of harts    *)
(* that call whatever functions they like, several of them at once, if one *)
(* hart alone queues copies or the ring holds all of them.                 *)
(***************************************************************************)
THEOREM DataMoverIsACopyQueue ==
  ASSUME PlansFit
  PROVE  Spec => ImplementsCopyQueue
<1>1. Init => MInv /\ Abs!Init
  BY InitMInv, InitImplements
<1>2. MInv /\ [Next]_vars => MInv'
  BY StepMInv
<1>3. MInv /\ [Next]_vars => [Abs!Next]_(Abs!vars)
  BY StepImplements
<1> QED
  BY <1>1, <1>2, <1>3, PTL DEF Spec, ImplementsCopyQueue, Abs!Spec

(***************************************************************************)
(* Under the same condition a copy only ever goes into a free slot of the  *)
(* ring (the poll of queue_fill in dm_memcpy_async, before the mutex).     *)
(***************************************************************************)
THEOREM RingIsNotOverrun ==
  ASSUME PlansFit
  PROVE  Spec => []QueueNotOverrun
<1>1. Init => MInv
  BY InitMInv
<1>2. MInv /\ [Next]_vars => MInv'
  BY StepMInv
<1>3. MInv => QueueNotOverrun
  BY SizeAssumption DEF MInv, RingInv, RingTypes, QueueNotOverrun
<1> QED
  BY <1>1, <1>2, <1>3, PTL DEF Spec
=============================================================================
