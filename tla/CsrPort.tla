------------------------------ MODULE CsrPort ------------------------------
(***************************************************************************)
(* The way of a SNAX control register access: from the core through the    *)
(* spill register of the offload port, the translator                      *)
(* (snax_intf_translator.sv) and the demultiplexer                         *)
(* (snax_csr_mux_demux.sv) to one of two managers (ReqRspManager.scala),   *)
(* port 0 of the streamers and port 1 of the accelerator, and back.        *)
(* One step is one clock cycle.                                            *)
(***************************************************************************)
EXTENDS Integers, Sequences

CONSTANTS
    Ids,        \* the integer registers that CSRs are read into
    Values,     \* of a configuration, 0 among them
    Mixed       \* whether reads of both ports may be outstanding at once

Ports == {0, 1}
Room == 2       \* of a spill register
NumOutstandingLoads == 4

VARIABLES
    reqs,           \* i_spill_register_acc_demux_req
    ids,            \* i_rsp_fifo of the translator
    regs,           \* the configuration in each manager
    readRegBusy, readRegBuffer,
    active,         \* whether what a port controls runs a job
    rsps,           \* i_spill_register_acc_demux_resp
    written,        \* history: the configuration the program has written
    due,            \* history: what each outstanding read shall return
    orders          \* history: the jobs the program has ordered, until they are launched

portVars == <<reqs, ids, regs, readRegBusy, readRegBuffer, active, rsps, written, due, orders>>

NoAnswer == [port |-> -1]
Outstanding == {id \in Ids : due[id] # NoAnswer}

Read(p, id) == [kind |-> "read", port |-> p, id |-> id]
Write(p, v) == [kind |-> "write", port |-> p, val |-> v]
Start(p) == [kind |-> "start", port |-> p]

-----------------------------------------------------------------------------
(* The request in this cycle.                                              *)

snax_qvalid == reqs # <<>>
req == Head(reqs)

\* Mutant: a manager takes a start whatever its accelerator does.
req_ready_Start(p) == ~readRegBusy[p]

\* A manager is ready unless an answer of its own waits, or, for a start, its
\* accelerator runs.
req_ready(p) == ~readRegBusy[p] /\ (req.kind = "start" => ~active[p])

Accepts(kind, p) == snax_qvalid /\ req.kind = kind /\ req.port = p /\ req_ready(p)

-----------------------------------------------------------------------------
(* The response in this cycle.                                             *)

\* Mutant: an answer that was not taken is not kept.
rsp_valid_Live(p) == Accepts("read", p)

rsp_valid(p) == Accepts("read", p) \/ readRegBusy[p]
rsp_data(p) == IF Accepts("read", p) THEN [port |-> p, val |-> regs[p]] ELSE readRegBuffer[p]

\* The port whose response the core gets.
csr_rsp_port == IF rsp_valid(1) THEN 1 ELSE 0
csr_rsp_valid == rsp_valid(csr_rsp_port)

rsp_fifo_full == Len(ids) = NumOutstandingLoads
rsp_handshake(snax_pready) == csr_rsp_valid /\ snax_pready

rsp_fifo_push(snax_pready) ==
    (\E p \in Ports : Accepts("read", p)) /\ ~rsp_handshake(snax_pready) /\ ~rsp_fifo_full

rsp_fifo_pop(snax_pready) == rsp_handshake(snax_pready) /\ ids # <<>>

\* Mutant: a read at the input gives its id to whatever response there is.
rsp_ids_Live ==
    IF snax_qvalid /\ req.kind = "read" THEN {req.id}
    ELSE IF ids # <<>> THEN {Head(ids)} ELSE Ids

\* The id that goes with the response; with neither an id in the fifo nor a read
\* at the input, what is left at the input.
rsp_ids ==
    IF ids # <<>> THEN {Head(ids)}
    ELSE IF snax_qvalid /\ req.kind = "read" THEN {req.id} ELSE Ids

-----------------------------------------------------------------------------
(* A clock cycle of each part.                                             *)

\* The translator and the managers.
Translate(snax_pready) ==
    LET rsp_ready(p) == p = csr_rsp_port /\ snax_pready /\ ~rsp_fifo_full
        popped == IF rsp_fifo_pop(snax_pready) THEN Tail(ids) ELSE ids
    IN  /\ ids' = IF rsp_fifo_push(snax_pready) THEN Append(popped, req.id) ELSE popped
        /\ readRegBusy' = [p \in Ports |-> rsp_valid(p) /\ ~rsp_ready(p)]
        /\ readRegBuffer' = [p \in Ports |-> IF readRegBusy'[p] THEN rsp_data(p) ELSE NoAnswer]
        /\ regs' = [p \in Ports |-> IF Accepts("write", p) THEN req.val ELSE regs[p]]

\* What a port controls takes a job if it runs none, and ends by itself.
Fire(p) == Accepts("start", p) /\ ~active[p]
Launch == [p \in Ports |-> IF Fire(p) THEN Tail(orders[p]) ELSE orders[p]]
Run(finished) == active' = [p \in Ports |-> Fire(p) \/ (active[p] /\ p \notin finished)]

\* The core's next instruction: it waits for its destination register, and
\* unless Mixed for the answers of the other port.
Executable(r) ==
    r.kind = "read" =>
        /\ r.id \notin Outstanding
        /\ Mixed \/ \A id \in Outstanding : due[id].port = r.port

Requests == {Read(p, id) : p \in Ports, id \in Ids} \cup {Write(p, v) : p \in Ports, v \in Values}
                \cup {Start(p) : p \in Ports}

\* Responses reach the core in the cycles in which nothing else is written back.
Retire(takes) == takes /\ rsps # <<>>
Retired(takes) ==
    IF Retire(takes) THEN [due EXCEPT ![Head(rsps).id] = NoAnswer] ELSE due

Left == IF snax_qvalid /\ req_ready(req.port) THEN Tail(reqs) ELSE reqs

Execute(r, takes) ==
    /\ Len(reqs) < Room /\ Executable(r)
    /\ reqs' = Append(Left, r)
    /\ written' = IF r.kind = "write" THEN [written EXCEPT ![r.port] = r.val] ELSE written
    /\ due' = IF r.kind = "read"
              THEN [Retired(takes) EXCEPT ![r.id] = [port |-> r.port, val |-> written[r.port]]]
              ELSE Retired(takes)
    /\ orders' = IF r.kind = "start"
                 THEN [Launch EXCEPT ![r.port] = Append(@, written[r.port])] ELSE Launch

Idle(takes) ==
    /\ reqs' = Left
    /\ due' = Retired(takes)
    /\ orders' = Launch
    /\ UNCHANGED written

\* Other coprocessors' responses may win the arbiter and fill the spill register.
Respond(snax_pready, takes) ==
    LET held == IF Retire(takes) THEN Tail(rsps) ELSE rsps
    IN  /\ snax_pready => Len(rsps) < Room
        /\ IF rsp_handshake(snax_pready)
           THEN \E id \in rsp_ids : rsps' = Append(held, [id |-> id, data |-> rsp_data(csr_rsp_port)])
           ELSE rsps' = held

PortInit ==
    /\ reqs = <<>> /\ ids = <<>> /\ rsps = <<>>
    /\ regs = [p \in Ports |-> 0] /\ written = regs
    /\ readRegBusy = [p \in Ports |-> FALSE] /\ readRegBuffer = [p \in Ports |-> NoAnswer]
    /\ active = [p \in Ports |-> FALSE] /\ orders = [p \in Ports |-> <<>>]
    /\ due = [id \in Ids |-> NoAnswer]

PortClock(snax_pready, takes, finished) ==
    /\ Translate(snax_pready)
    /\ Respond(snax_pready, takes)
    /\ Run(finished)
    /\ Idle(takes) \/ \E r \in Requests : Execute(r, takes)

PortNext == \E snax_pready, takes \in BOOLEAN, finished \in SUBSET Ports : PortClock(snax_pready, takes, finished)

\* Again and again a cycle in which the core takes a response, the spill register
\* is open to the next one if it has room, and the jobs end.
PortPrompt == PortClock(Len(rsps) < Room, TRUE, Ports)

PortSpec == PortInit /\ [][PortNext]_portVars /\ WF_portVars(PortPrompt)

-----------------------------------------------------------------------------
(* Properties                                                              *)

\* A response that is on its way to the core is for a register that waits for one,
\* holds what the program has to find in that control register at that place (the
\* last value written before the read), and is the only one for its register.
AnswersRight ==
    \A i \in DOMAIN rsps :
        /\ due[rsps[i].id] = rsps[i].data
        /\ \A j \in DOMAIN rsps : rsps[j].id = rsps[i].id => j = i

\* A port launches the jobs in the order in which the program has ordered them,
\* each with the configuration the program had written by then, whatever it
\* writes, reads and starts at either port while a start waits.
LaunchesAsOrdered ==
    [][\A p \in Ports : active'[p] /\ ~active[p] => regs[p] = Head(orders[p])]_portVars

\* A read is answered, if jobs end: a start that waits for the end of a job holds
\* up the accesses behind it, also those to the other port, but not the answers.
Answered == \A id \in Ids : id \in Outstanding ~> id \notin Outstanding
=============================================================================
