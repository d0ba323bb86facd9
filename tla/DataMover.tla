------------------------------ MODULE DataMover ------------------------------
(***************************************************************************)
(* The data mover of the runtime (sw/snRuntime/src/dm.h): harts put copies *)
(* into a ring of QSize tasks in TCDM, the DM core takes them out and      *)
(* starts them on its DMA engine, answers requests in stat_q, and sleeps   *)
(* in wfi when it has nothing to do.                                       *)
(*                                                                         *)
(* Each access to a shared word is one step.  pc[c] names the next access  *)
(* of client c in the function op[c] it has called, dpc the next access of *)
(* the DM core in dm_main.  The fields of a dm_task_t are one value: the   *)
(* client writes them before it counts the task, the DM core reads them    *)
(* after.  The write that clears the interrupt is asynchronous (the        *)
(* comment in cluster_interrupts.h): the DM core goes on while it is in    *)
(* flight and may even sample queue_fill, but cannot branch on what it     *)
(* loaded before the write has landed, because responses come in order.    *)
(***************************************************************************)
EXTENDS Naturals, Sequences, FiniteSets, Functions

CONSTANTS
    Clients,    \* the harts that call the dm_* functions
    Ops,        \* Ops[c]: the functions that client c calls
    QSize,      \* DM_TASK_QUEUE_SIZE
    DmaDepth,   \* how many transfers the DMA engine takes before it blocks
    Plans       \* bound: the numbers of copies the clients may queue, p[c] for client c

AllOps == {"memcpy", "start", "wait", "ready", "exit"}

ASSUME OpsAssumption == Ops \in [Clients -> SUBSET AllOps]
ASSUME SizeAssumption == QSize \in Nat \ {0} /\ DmaDepth \in Nat \ {0}
ASSUME PlanAssumption == \A p \in Plans : p \in [Clients -> Nat]

\* A copy is named by the client that queued it and a number, counting down.
Tasks == UNION {{c} \X (1 .. p[c]) : c \in Clients, p \in Plans}
OwnerOf(t) == t[1]
NoTask == <<>>

VARIABLES
    queue, queue_back, queue_front, queue_fill,   \* dm_t: the ring
    mutex,          \* dm_t: TRUE when held
    stat_q,         \* dm_t: the request (en_stat_t), or "none"
    stat_pvalid,    \* dm_t: the answer
    dm_wfi,         \* dm_t: the DM core is about to sleep or sleeping
    mcip,           \* the DM core's cluster-local interrupt is pending
    clearing,       \* a write that clears it is in flight
    dpc,            \* the DM core's next access
    do_exit,        \* the DM core's local
    active, done,   \* the DMA engine: transfers started, transfers complete
    op, pc,         \* the clients
    left,           \* left[c]: how many copies client c may still queue
    unannounced     \* how many copies were queued since the last wakeup

ring == <<queue, queue_back, queue_front, queue_fill>>
request == <<stat_q, stat_pvalid>>
irq == <<mcip, clearing>>
dma == <<active, done>>
usage == <<left, unannounced>>
client == <<op, pc, usage>>
vars == <<ring, mutex, request, dm_wfi, irq, dpc, do_exit, dma, client>>

\* The zeroed struct of dm_init; the DM core enters dm_main.
Init ==
    /\ queue = [i \in 0 .. QSize - 1 |-> NoTask]
    /\ queue_back = 0 /\ queue_front = 0 /\ queue_fill = 0
    /\ mutex = FALSE
    /\ stat_q = "none" /\ stat_pvalid = FALSE
    /\ dm_wfi = 0
    /\ mcip = FALSE /\ clearing = FALSE
    /\ dpc = "fill" /\ do_exit = FALSE
    /\ active = {} /\ done = {}
    /\ op = [c \in Clients |-> "none"]
    /\ pc = [c \in Clients |-> "idle"]
    /\ left \in Plans
    /\ unannounced = 0

Bump(i) == (i + 1) % QSize

-----------------------------------------------------------------------------
\* The DM core: dm_main.

\* The branch on queue_fill is resolved: the interrupt clear has landed.
DmBranch == ~clearing

\* if (dm_p->queue_fill)
DmFill ==
    /\ dpc = "fill"
    /\ dpc' = IF queue_fill # 0 THEN "start" ELSE "stat"
    /\ UNCHANGED <<ring, mutex, request, dm_wfi, irq, do_exit, dma, client>>

\* Wait until the DMA does not block, start the oldest task and bump
\* queue_back, which no other hart touches.
DmStart ==
    /\ dpc = "start" /\ DmBranch
    /\ Cardinality(active) < DmaDepth
    /\ active' = active \cup {queue[queue_back]}
    /\ queue_back' = Bump(queue_back)
    /\ dpc' = "dec"
    /\ UNCHANGED <<queue, queue_front, queue_fill, mutex, request, dm_wfi, irq,
                   do_exit, done, client>>

\* __atomic_add_fetch(&dm_p->queue_fill, -1)
DmDec ==
    /\ dpc = "dec"
    /\ queue_fill' = queue_fill - 1
    /\ dpc' = "stat"
    /\ UNCHANGED <<queue, queue_back, queue_front, mutex, request, dm_wfi, irq,
                   do_exit, dma, client>>

\* if (dm_p->stat_q)
DmStat ==
    /\ dpc = "stat" /\ DmBranch
    /\ dpc' = IF stat_q # "none" THEN "switch" ELSE "chkfill"
    /\ UNCHANGED <<ring, mutex, request, dm_wfi, irq, do_exit, dma, client>>

\* switch (dm_p->stat_q), with the poll of the DMA for STAT_WAIT_IDLE
DmSwitch ==
    /\ dpc = "switch"
    /\ dpc' = IF \/ stat_q = "ready"
                 \/ stat_q = "wait_idle" /\ active = {}
              THEN "valid" ELSE "chkfill"
    /\ do_exit' = (do_exit \/ stat_q = "exit")
    /\ UNCHANGED <<ring, mutex, request, dm_wfi, irq, dma, client>>

\* dm_p->stat_pvalid = 1;
DmValid ==
    /\ dpc = "valid"
    /\ stat_pvalid' = TRUE
    /\ dpc' = "clear"
    /\ UNCHANGED <<ring, mutex, stat_q, dm_wfi, irq, do_exit, dma, client>>

\* dm_p->stat_q = 0;
DmClear ==
    /\ dpc = "clear"
    /\ stat_q' = "none"
    /\ dpc' = "chkfill"
    /\ UNCHANGED <<ring, mutex, stat_pvalid, dm_wfi, irq, do_exit, dma, client>>

\* while (!do_exit)
LoopOrExit == IF do_exit THEN "exited" ELSE "fill"

\* As DmCheckFill, but the queue is not looked at again.
DmCheckFillSkipped ==
    /\ dpc = "chkfill"
    /\ dpc' = "chkstat"
    /\ UNCHANGED <<ring, mutex, request, dm_wfi, irq, do_exit, dma, client>>

\* if (!dm_p->queue_fill && ...
DmCheckFill ==
    /\ dpc = "chkfill"
    /\ dpc' = IF queue_fill # 0 THEN LoopOrExit ELSE "chkstat"
    /\ UNCHANGED <<ring, mutex, request, dm_wfi, irq, do_exit, dma, client>>

\* ... && !dm_p->stat_q)
DmCheckStat ==
    /\ dpc = "chkstat"
    /\ dpc' = IF stat_q # "none" THEN LoopOrExit ELSE "incwfi"
    /\ UNCHANGED <<ring, mutex, request, dm_wfi, irq, do_exit, dma, client>>

\* wfi_dm: __atomic_add_fetch(&dm_p->dm_wfi, 1)
DmIncWfi ==
    /\ dpc = "incwfi"
    /\ dm_wfi' = dm_wfi + 1
    /\ dpc' = "wfi"
    /\ UNCHANGED <<ring, mutex, request, irq, do_exit, dma, client>>

\* wfi_dm: snrt_wfi() returns once the interrupt is pending.
DmWake ==
    /\ dpc = "wfi"
    /\ mcip
    /\ dpc' = "clr"
    /\ UNCHANGED <<ring, mutex, request, dm_wfi, irq, do_exit, dma, client>>

\* wfi_dm: snrt_int_cluster_clr issues the write that clears the interrupt.
DmIssueClear ==
    /\ dpc = "clr"
    /\ clearing' = TRUE
    /\ dpc' = "decwfi"
    /\ UNCHANGED <<ring, mutex, request, dm_wfi, mcip, do_exit, dma, client>>

\* wfi_dm: __atomic_add_fetch(&dm_p->dm_wfi, -1)
DmDecWfi ==
    /\ dpc = "decwfi"
    /\ dm_wfi' = dm_wfi - 1
    /\ dpc' = LoopOrExit
    /\ UNCHANGED <<ring, mutex, request, irq, do_exit, dma, client>>

DmCore ==
    \/ DmFill \/ DmStart \/ DmDec \/ DmStat \/ DmSwitch \/ DmValid \/ DmClear
    \/ DmCheckFill \/ DmCheckStat
    \/ DmIncWfi \/ DmWake \/ DmIssueClear \/ DmDecWfi

\* The clear reaches the cluster peripheral.
ClearLands ==
    /\ clearing
    /\ mcip' = FALSE
    /\ clearing' = FALSE
    /\ UNCHANGED <<ring, mutex, request, dm_wfi, dpc, do_exit, dma, client>>

\* The DMA engine completes a transfer; transfers may overtake each other.
DmaComplete ==
    /\ \E t \in active : active' = active \ {t} /\ done' = done \cup {t}
    /\ UNCHANGED <<ring, mutex, request, dm_wfi, irq, dpc, do_exit, client>>

-----------------------------------------------------------------------------
\* The clients: the dm_* functions.

core == <<dpc, do_exit>>

\* What each function does first.
Entry(o) ==
    IF o = "memcpy" THEN "poll"
    ELSE IF o = "ready" THEN "lock"
    ELSE IF o = "exit" THEN "request"
    ELSE "wake"

\* The clients in dm_memcpy_async whose copy is not counted yet.
Queueing ==
    {c \in Clients : op[c] = "memcpy"
                     /\ pc[c] \in {"poll", "lock", "insert", "count"}}

\* A client calls a function.  A copy "is not started unless dm_start or
\* dm_wait is issued", so the clients do not queue more copies than the ring
\* holds without issuing one: the caller would block forever.  dm_exit ends
\* the session: it is called when the other clients are through, and nothing
\* is called after it.
Call(c) ==
    /\ pc[c] = "idle"
    /\ \A d \in Clients : op[d] # "exit"
    /\ \E o \in Ops[c] :
         /\ o = "memcpy" => /\ left[c] > 0
                            /\ unannounced + Cardinality(Queueing) < QSize
         /\ o = "exit" => \A d \in Clients : pc[d] = "idle"
         /\ op' = [op EXCEPT ![c] = o]
         /\ pc' = [pc EXCEPT ![c] = Entry(o)]
    /\ UNCHANGED <<ring, mutex, request, dm_wfi, irq, core, dma, usage>>

Goto(c, l) == pc' = [pc EXCEPT ![c] = l] /\ UNCHANGED op

\* dm_memcpy_async: do s = queue_fill while (s >= DM_TASK_QUEUE_SIZE)
Poll(c) ==
    /\ pc[c] = "poll"
    /\ queue_fill < QSize
    /\ Goto(c, "lock")
    /\ UNCHANGED <<ring, mutex, request, dm_wfi, irq, core, dma, usage>>

\* _dm_mtx_lock(): the amoswap that finds the mutex free.
Lock(c) ==
    /\ pc[c] = "lock"
    /\ ~mutex
    /\ mutex' = TRUE
    /\ Goto(c, IF op[c] = "memcpy" THEN "insert" ELSE "invalid")
    /\ UNCHANGED <<ring, request, dm_wfi, irq, core, dma, usage>>

\* dm_memcpy_async: fill in the task at queue_front
Insert(c) ==
    /\ pc[c] = "insert"
    /\ queue' = [queue EXCEPT ![queue_front] = <<c, left[c]>>]
    /\ Goto(c, "count")
    /\ UNCHANGED <<queue_back, queue_front, queue_fill, mutex, request, dm_wfi,
                   irq, core, dma, usage>>

\* dm_memcpy_async: __atomic_add_fetch(&dm_p->queue_fill, 1)
Count(c) ==
    /\ pc[c] = "count"
    /\ queue_fill' = queue_fill + 1
    /\ left' = [left EXCEPT ![c] = @ - 1]
    /\ unannounced' = unannounced + 1
    /\ Goto(c, "front")
    /\ UNCHANGED <<queue, queue_back, queue_front, mutex, request, dm_wfi, irq,
                   core, dma>>

\* As Front, but the index runs past the end of the ring.
FrontStuck(c) ==
    /\ pc[c] = "front"
    /\ queue_front' = IF queue_front = QSize - 1 THEN queue_front ELSE queue_front + 1
    /\ Goto(c, "unlock")
    /\ UNCHANGED <<queue, queue_back, queue_fill, mutex, request, dm_wfi, irq,
                   core, dma, usage>>

\* dm_memcpy_async: queue_front = (queue_front + 1) % DM_TASK_QUEUE_SIZE
Front(c) ==
    /\ pc[c] = "front"
    /\ queue_front' = Bump(queue_front)
    /\ Goto(c, "unlock")
    /\ UNCHANGED <<queue, queue_back, queue_fill, mutex, request, dm_wfi, irq,
                   core, dma, usage>>

\* _dm_mtx_release(), the last access of dm_memcpy_async, dm_wait and
\* dm_wait_ready
Unlock(c) ==
    /\ pc[c] = "unlock"
    /\ mutex' = FALSE
    /\ Goto(c, "idle")
    /\ UNCHANGED <<ring, request, dm_wfi, irq, core, dma, usage>>

\* wake_dm: while (!dm_wfi), at the start of dm_start and dm_wait ("wake") or
\* after a request ("rewake")
Wake(c) ==
    /\ pc[c] \in {"wake", "rewake"}
    /\ dm_wfi # 0
    /\ Goto(c, IF pc[c] = "wake" THEN "set" ELSE "reset")
    /\ UNCHANGED <<ring, mutex, request, dm_wfi, irq, core, dma, usage>>

\* wake_dm: snrt_int_cluster_set sets the DM core's interrupt
SetIrq(c) ==
    /\ pc[c] \in {"set", "reset"}
    /\ mcip' = TRUE
    /\ unannounced' = 0
    /\ Goto(c, IF op[c] \in {"start", "exit"} THEN "idle"
               ELSE IF pc[c] = "set" THEN "drain" ELSE "answer")
    /\ UNCHANGED <<ring, mutex, request, dm_wfi, clearing, core, dma, left>>

\* dm_wait: do s = queue_fill while (s != 0)
Drain(c) ==
    /\ pc[c] = "drain"
    /\ queue_fill = 0
    /\ Goto(c, "noreq")
    /\ UNCHANGED <<ring, mutex, request, dm_wfi, irq, core, dma, usage>>

\* dm_wait: while (dm_p->stat_q)
NoRequest(c) ==
    /\ pc[c] = "noreq"
    /\ stat_q = "none"
    /\ Goto(c, "lock")
    /\ UNCHANGED <<ring, mutex, request, dm_wfi, irq, core, dma, usage>>

\* dm_wait, dm_wait_ready: stat_pvalid = 0
Invalidate(c) ==
    /\ pc[c] = "invalid"
    /\ stat_pvalid' = FALSE
    /\ Goto(c, "request")
    /\ UNCHANGED <<ring, mutex, stat_q, dm_wfi, irq, core, dma, usage>>

\* The request each function writes to stat_q.
RequestOf(o) == IF o = "wait" THEN "wait_idle" ELSE o

\* dm_wait, dm_wait_ready, dm_exit: write stat_q
Request(c) ==
    /\ pc[c] = "request"
    /\ stat_q' = RequestOf(op[c])
    /\ Goto(c, "rewake")
    /\ UNCHANGED <<ring, mutex, stat_pvalid, dm_wfi, irq, core, dma, usage>>

\* dm_wait, dm_wait_ready: while (!dm_p->stat_pvalid)
Answer(c) ==
    /\ pc[c] = "answer"
    /\ stat_pvalid
    /\ Goto(c, "unlock")
    /\ UNCHANGED <<ring, mutex, request, dm_wfi, irq, core, dma, usage>>

InCall(c) ==
    \/ Poll(c) \/ Lock(c) \/ Insert(c) \/ Count(c) \/ Front(c) \/ Unlock(c)
    \/ Wake(c) \/ SetIrq(c) \/ Drain(c) \/ NoRequest(c)
    \/ Invalidate(c) \/ Request(c) \/ Answer(c)

Next ==
    \/ DmCore \/ ClearLands \/ DmaComplete
    \/ \E c \in Clients : Call(c) \/ InCall(c)

Spec == Init /\ [][Next]_vars

\* The DM core, the interrupt write, the DMA and a hart that is in a call all
\* keep going.  Nothing is assumed of a poll that is true only now and then.
FairSpec ==
    /\ Spec
    /\ WF_vars(DmCore) /\ WF_vars(ClearLands) /\ WF_vars(DmaComplete)
    /\ \A c \in Clients : WF_vars(InCall(c))

-----------------------------------------------------------------------------
\* The copies in the ring, oldest first: the DM core has bumped queue_back
\* before it counts the task it has started off queue_fill.
Pending ==
    LET n == IF dpc = "dec" THEN queue_fill - 1 ELSE queue_fill
    IN  [i \in 1 .. n |-> queue[(queue_back + i - 1) % QSize]]

Waiting == {c \in Clients : op[c] = "wait" /\ pc[c] # "idle"}

Abs == INSTANCE CopyQueue WITH pending <- Pending, waiting <- Waiting

\* The ring, the DMA and the stat_q handshake keep the data mover's promise:
\* no copy is lost, doubled or reordered, and dm_wait returns only when all
\* the copies its caller queued are complete.
ImplementsCopyQueue == Abs!Spec

\* The DM core does not sleep through work: while it is in wfi with no
\* interrupt pending, the ring holds only copies queued since the last wakeup,
\* and the author of a request has yet to send its wakeup.
NoSleepOverWork ==
    dpc = "wfi" /\ ~mcip =>
        /\ queue_fill <= unannounced
        /\ stat_q # "none" => \E c \in Clients : pc[c] \in {"rewake", "reset"}

\* No hart but c has called the data mover.
Alone(c) == \A d \in Clients \ {c} : op[d] = "none"

\* Every call of a dm_* function returns as long as one hart drives the data
\* mover alone, and every copy it queued before a dm_start or dm_wait is carried
\* out.  (A second hart that keeps calling can starve the first: both poll dm_wfi
\* for a moment in which the DM core sleeps.)
CallsReturn ==
    /\ \A c \in Clients : (Alone(c) /\ pc[c] # "idle") ~> (~Alone(c) \/ pc[c] = "idle")
    /\ \A t \in Tasks :
          LET c == OwnerOf(t)
          IN  (Alone(c) /\ op[c] \in {"start", "wait"} /\ t \in Range(Pending) \cup active)
                  ~> (~Alone(c) \/ t \in done)

\* DM_TASK_QUEUE_SIZE is the number of outstanding transactions the queue
\* buffers: a copy is queued only into a free slot, a caller blocks otherwise.
QueueNotOverrun == queue_fill <= QSize

\* dm_exit sends the data mover to exit(): dm_main returns.
DataMoverExits == \A c \in Clients : op[c] = "exit" ~> dpc = "exited"

\* dm_exit itself returns to its caller.
ExitReturns ==
    \A c \in Clients : op[c] = "exit" ~> (op[c] = "exit" /\ pc[c] = "idle")
=============================================================================
