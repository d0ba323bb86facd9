------------------------------ MODULE Streamer ------------------------------
(***************************************************************************)
(* The streamer (Streamer.scala): its state machine, the configuration it  *)
(* keeps for a job while the core writes the next one, the delayed starts, *)
(* and its movers, between a core that launches one job after the other    *)
(* and an accelerator that takes a word from every reader in use and gives *)
(* one to the writer.                                                      *)
(***************************************************************************)
EXTENDS StreamMovers

CONSTANTS
    Delayed,    \* the readers with a start of their own
    Jobs        \* configurations of all movers

ASSUME DelayedAssumption == Delayed \subseteq Readers

VARIABLES
    regs,       \* the configuration in the CSR manager
    startCsr,   \* the start registers of the delayed readers
    state, csrCfgReg,
    haveStarted,    \* delayedStreamersHaveStarted
    acc,        \* the accelerator: the job's words it has taken, what it holds, whether it runs
    core,       \* the core: the next job, and the writes to launch it
    stored      \* history: what the job has stored

vars == <<moverVars, regs, startCsr, state, csrCfgReg, haveStarted, acc, core, stored>>

-----------------------------------------------------------------------------
(* A job by the documentation: nested loops over addresses.                *)

Count(cfg) == cfg.bounds[1] * cfg.bounds[2]
Used(job) == {m \in Movers : Count(job[m]) # 0}
UsedReaders(job) == Used(job) \cap Readers

\* The i-th word of a stream, from 0.
Word(cfg, i, c) ==
    cfg.ptr + (i % cfg.bounds[1]) * cfg.strides[1] + (i \div cfg.bounds[1]) * cfg.strides[2] + c

Result(job, i, c) == [m \in UsedReaders(job) |-> Word(job[m], i, c)]

Expected(job) ==
    UNION {{[addr |-> Word(job[w], i, c), word |-> Result(job, i, c)] :
               i \in 0 .. Count(job[w]) - 1, c \in Channels} : w \in Used(job) \cap Writers}

-----------------------------------------------------------------------------
(* The accelerator.                                                        *)

Running == acc.left # 0 \/ acc.out # <<>>

Given == IF acc.out = <<>> THEN {} ELSE {m \in Used(acc.job) \cap Writers : InReady(m)}
Gives == [m \in Given |-> acc.out[1]]

CanTake == acc.left # 0 /\ acc.out = <<>> /\ \A m \in UsedReaders(acc.job) : OutValid(m)
Takes(takes) == IF takes /\ CanTake THEN UsedReaders(acc.job) ELSE {}

Taken == [c \in Channels |-> [m \in UsedReaders(acc.job) |-> Head(data[m][c])]]

Accelerate(takes, begin) ==
    acc' = IF begin
           THEN [job |-> csrCfgReg, left |-> Count(csrCfgReg[CHOOSE w \in Writers : TRUE]), out |-> <<>>]
           ELSE IF Takes(takes) # {} THEN [acc EXCEPT !.left = @ - 1, !.out = <<Taken>>]
           ELSE IF Given # {} THEN [acc EXCEPT !.out = <<>>]
           ELSE acc

-----------------------------------------------------------------------------
(* The core's writes, and what they do to the streamer.                    *)

\* The configuration of each mover in any order, both starts, then the delayed
\* starts the job needs, which are taken back before the core waits for the end.
Program(job) ==
    <<"start", "accelerate">>
        \o (IF Delayed \cap Used(job) # {} THEN <<"delayed", "clear", "wait">> ELSE <<>>)

Does(write) == core.unset = {} /\ core.writes # <<>> /\ Head(core.writes) = write

Done == [core EXCEPT !.writes = Tail(@)]

\* The next job, of which nothing has been written.
Plan(job) == [job |-> job, unset |-> Movers, writes |-> Program(job)]

streamer_config_fire(steps) == steps /\ Does("start") /\ state = "sIDLE"

csrCfg(steps) == IF streamer_config_fire(steps) THEN regs ELSE csrCfgReg

CoreSteps(steps) ==
    \/ /\ ~steps
       /\ UNCHANGED <<core, regs, startCsr>>
    \/ /\ steps /\ core.writes = <<>>
       /\ \E job \in Jobs : core' = Plan(job)
       /\ UNCHANGED <<regs, startCsr>>
    \/ /\ steps /\ core.unset # {}
       /\ \E m \in core.unset :
             /\ core' = [core EXCEPT !.unset = @ \ {m}]
             /\ regs' = [regs EXCEPT ![m] = core.job[m]]
       /\ UNCHANGED startCsr
    \/ /\ steps /\ Does("start")
       /\ core' = IF state = "sIDLE" THEN Done ELSE core
       /\ UNCHANGED <<regs, startCsr>>
    \/ /\ steps /\ Does("accelerate")
       /\ core' = IF Running THEN core ELSE Done
       /\ UNCHANGED <<regs, startCsr>>
    \/ /\ steps /\ Does("delayed")
       /\ core' = Done
       /\ startCsr' = [m \in Delayed |-> m \in Used(core.job)]
       /\ UNCHANGED regs
    \/ /\ steps /\ Does("clear")
       /\ core' = Done
       /\ startCsr' = [m \in Delayed |-> FALSE]
       /\ UNCHANGED regs
    \/ /\ steps /\ Does("wait")
       /\ core' = IF Running \/ state = "sBUSY" THEN core ELSE Done
       /\ UNCHANGED <<regs, startCsr>>

-----------------------------------------------------------------------------
(* The streamer.                                                           *)

\* Mutant: the end of the writers is not waited for.
streamer_finish_Readers == \A m \in Readers : ~Busy(m)

streamer_finish == \A m \in Movers : ~Busy(m)

\* Mutant: a delayed reader starts again as long as its register is set.
delayedStartPulses_Level == {m \in Delayed : startCsr[m] /\ state = "sBUSY"}

delayedStartPulses == {m \in Delayed : startCsr[m] /\ ~haveStarted[m] /\ state = "sBUSY"}

Starts(steps) == delayedStartPulses \cup (IF streamer_config_fire(steps) THEN Movers \ Delayed ELSE {})

Control(steps) ==
    /\ state' = IF state = "sIDLE" THEN IF streamer_config_fire(steps) THEN "sBUSY" ELSE "sIDLE"
                ELSE IF streamer_finish THEN "sIDLE" ELSE "sBUSY"
    /\ csrCfgReg' = IF streamer_config_fire(steps) THEN regs ELSE csrCfgReg
    /\ haveStarted' = [m \in Delayed |->
                         IF state = "sBUSY" THEN haveStarted[m] \/ startCsr[m] ELSE FALSE]

\* A clock cycle.
Clock(steps, takes, grants) ==
    /\ Move(csrCfg(steps), Starts(steps), Takes(takes), Gives, grants)
    /\ Control(steps)
    /\ Accelerate(takes, steps /\ Does("accelerate") /\ ~Running)
    /\ CoreSteps(steps)
    /\ stored' = IF streamer_config_fire(steps) THEN {} ELSE stored \cup Stores(grants)

Disabled == [ptr |-> 0, bounds |-> <<0, 0>>, strides |-> <<0, 0>>]
NoJob == [m \in Movers |-> Disabled]

Init ==
    /\ MoversInit
    /\ regs = NoJob /\ csrCfgReg = NoJob
    /\ startCsr = [m \in Delayed |-> FALSE] /\ haveStarted = [m \in Delayed |-> FALSE]
    /\ state = "sIDLE"
    /\ acc = [job |-> NoJob, left |-> 0, out |-> <<>>]
    /\ \E job \in Jobs : core = Plan(job)
    /\ stored = {}

Next ==
    \E steps, takes \in BOOLEAN :
        \E grants \in SUBSET Requests(csrCfg(steps), Takes(takes)) : Clock(steps, takes, grants)

\* Again and again everybody goes on who can.
Prompt == Clock(TRUE, TRUE, Requests(csrCfg(TRUE), Takes(TRUE)))

Spec == Init /\ [][Next]_vars /\ WF_vars(Prompt)

-----------------------------------------------------------------------------
(* Properties                                                              *)

\* What a reader offers to the accelerator is the next word of the job's loops, in
\* all its channels, though the core may already write the next configuration; the
\* response of the TCDM always finds room in the reader's queue, which cannot
\* refuse it (streamer_design.md, TCDM interface).
DataInOrder ==
    /\ acc.left # 0 =>
          \A m \in UsedReaders(acc.job) : OutValid(m) =>
              \A c \in Channels :
                  Head(data[m][c]) = Word(acc.job[m], Count(acc.job[m]) - acc.left, c)
    /\ \A m \in Readers, c \in Channels : Len(data[m][c]) + Len(response[m][c]) <= DataDepth

\* When the streamer reports the end of a job, everything of it is in the memory, and
\* no word is left over for the next one.
AllStored ==
    state = "sIDLE" =>
        /\ stored = Expected(csrCfgReg)
        /\ \A m \in Readers, c \in Channels : data[m][c] = <<>> /\ response[m][c] = <<>>

\* A job ends: no mover, delayed or not, waits for a start that does not come, for
\* room or for a word that has been lost.
JobsEnd == state = "sBUSY" ~> state = "sIDLE"

\* "Disable all other streamers by setting bound to 0": such a mover asks for nothing.
DisabledAsksNothing ==
    \A m \in Movers, c \in Channels : 0 \in {csrCfgReg[m].bounds[i] : i \in {1, 2}} => addrs[m][c] = <<>>
=============================================================================
