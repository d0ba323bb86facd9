---------------------------- MODULE StreamMovers ----------------------------
(***************************************************************************)
(* The readers and writers of a streamer: an address generator, a queue of *)
(* addresses and one of data per channel, and towards the TCDM a request   *)
(* per channel (AddressGenUnit, Reader, Writer, DataRequestor,             *)
(* DataResponser, HandShakeRepeater).  One step is one clock cycle.        *)
(*                                                                         *)
(* Two temporal loops, the inner one first, stand for the loops of a       *)
(* generator; a word is known by its address.                              *)
(***************************************************************************)
EXTENDS Integers, Sequences

CONSTANTS
    Readers, Writers,
    Channels,       \* of each of them, 0 .. n
    AddressDepth,   \* of the queues of addresses
    DataDepth       \* of the queues of data

Movers == Readers \cup Writers

VARIABLES
    agu,        \* whether the generator is in sBUSY
    counters,   \* its loops
    addrs,      \* outputBuffer
    data,       \* dataBuffer
    credit,     \* fifoUtilizationCounter of the readers
    response,   \* what the TCDM answers in this cycle
    repeat      \* dataRepeatCounter of the readers

moverVars == <<agu, counters, addrs, data, credit, response, repeat>>

-----------------------------------------------------------------------------
(* The address generator, under a configuration [ptr, bounds, strides].    *)

Ceil(m, cfg) ==
    [cfg.bounds EXCEPT ![1] = IF m \in Readers /\ cfg.strides[1] = 0 THEN 1 ELSE @]

Address(m, cfg, c) == cfg.ptr + counters[m][1] * cfg.strides[1] + counters[m][2] * cfg.strides[2] + c

InnerLast(m, cfg) == counters[m][1] = Ceil(m, cfg)[1] - 1
OuterLast(m, cfg) == counters[m][2] = Ceil(m, cfg)[2] - 1

Tick(m, cfg) ==
    IF InnerLast(m, cfg)
    THEN <<0, IF OuterLast(m, cfg) THEN 0 ELSE counters[m][2] + 1>>
    ELSE <<counters[m][1] + 1, counters[m][2]>>

\* A queue with pipe takes a word when it is full if one leaves it.
AddressFire(m, grants) ==
    /\ agu[m]
    /\ \A c \in Channels : Len(addrs[m][c]) < AddressDepth \/ <<m, c>> \in grants

\* Whether the generator has addresses to generate, or they are still in its queue.
Busy(m) == agu[m] \/ \E c \in Channels : addrs[m][c] # <<>>

Generate(cfg, start, grants) ==
    /\ agu' = [m \in Movers |->
                 IF m \in start /\ \A i \in {1, 2} : Ceil(m, cfg[m])[i] # 0 THEN TRUE
                 ELSE agu[m] /\ ~(AddressFire(m, grants) /\ InnerLast(m, cfg[m]) /\ OuterLast(m, cfg[m]))]
    /\ counters' = [m \in Movers |->
                 IF m \in start THEN <<0, 0>>
                 ELSE IF AddressFire(m, grants) THEN Tick(m, cfg[m]) ELSE counters[m]]
    /\ addrs' = [m \in Movers |-> [c \in Channels |->
                 LET rest == IF <<m, c>> \in grants THEN Tail(addrs[m][c]) ELSE addrs[m][c]
                 IN  IF AddressFire(m, grants) THEN Append(rest, Address(m, cfg[m], c)) ELSE rest]]

-----------------------------------------------------------------------------
(* The data of a reader, offered repeat_times to the accelerator.          *)

OutValid(m) == \A c \in Channels : data[m][c] # <<>>

repeat_times(cfg) == IF cfg.strides[1] = 0 THEN cfg.bounds[1] ELSE 1

\* Mutant: the last repetition is never reached.
Popped_After(m, cfg, takes) == m \in takes /\ repeat[m] = repeat_times(cfg)

Popped(m, cfg, takes) == m \in takes /\ repeat[m] = repeat_times(cfg) - 1

rspReady(m, c, cfg, takes) == credit[m][c] # DataDepth \/ Popped(m, cfg, takes)

\* The channels that have a request for the TCDM.
Requests(cfg, takes) ==
    {r \in Movers \X Channels :
        /\ addrs[r[1]][r[2]] # <<>>
        /\ IF r[1] \in Readers THEN rspReady(r[1], r[2], cfg[r[1]], takes) ELSE data[r[1]][r[2]] # <<>>}

Credit(m, c, popped, grants) ==
    IF popped = (<<m, c>> \in grants) THEN credit[m][c]
    ELSE IF popped THEN credit[m][c] - 1 ELSE credit[m][c] + 1

\* A response comes in the cycle after its request, and is lost if it finds no room.
Received(m, c, popped) ==
    LET rest == IF popped THEN Tail(data[m][c]) ELSE data[m][c]
    IN  IF Len(data[m][c]) < DataDepth \/ popped THEN rest \o response[m][c] ELSE rest

Repeat(m, cfg, start, takes) ==
    IF m \in start THEN 0
    ELSE IF m \in takes THEN IF repeat[m] < repeat_times(cfg) - 1 THEN repeat[m] + 1 ELSE 0
    ELSE repeat[m]

Read(cfg, start, takes, grants) ==
    /\ response' = [m \in Readers |-> [c \in Channels |->
                      IF <<m, c>> \in grants THEN <<Head(addrs[m][c])>> ELSE <<>>]]
    /\ credit' = [m \in Readers |-> [c \in Channels |->
                      Credit(m, c, Popped(m, cfg[m], takes), grants)]]
    /\ repeat' = [m \in Readers |-> Repeat(m, cfg[m], start, takes)]

-----------------------------------------------------------------------------
(* The data of a writer, which leave with their addresses.                 *)

InReady(m) == \A c \in Channels : Len(data[m][c]) < DataDepth

\* The accelerator gives a word for each channel to some of the writers.
Sent(m, c, gives, grants) ==
    (IF <<m, c>> \in grants THEN Tail(data[m][c]) ELSE data[m][c])
        \o (IF m \in DOMAIN gives THEN <<gives[m][c]>> ELSE <<>>)

Stores(grants) ==
    {[addr |-> Head(addrs[r[1]][r[2]]), word |-> Head(data[r[1]][r[2]])] :
        r \in {g \in grants : g[1] \in Writers}}

-----------------------------------------------------------------------------
MoversInit ==
    /\ agu = [m \in Movers |-> FALSE]
    /\ counters = [m \in Movers |-> <<0, 0>>]
    /\ addrs = [m \in Movers |-> [c \in Channels |-> <<>>]]
    /\ data = [m \in Movers |-> [c \in Channels |-> <<>>]]
    /\ credit = [m \in Readers |-> [c \in Channels |-> 0]]
    /\ response = [m \in Readers |-> [c \in Channels |-> <<>>]]
    /\ repeat = [m \in Readers |-> 0]

\* A clock cycle in which the movers in start begin with cfg, the accelerator takes
\* from the readers in takes and gives to the writers in the domain of gives, and the
\* TCDM grants the requests in grants.
Move(cfg, start, takes, gives, grants) ==
    /\ grants \subseteq Requests(cfg, takes)
    /\ Generate(cfg, start, grants)
    /\ Read(cfg, start, takes, grants)
    /\ data' = [m \in Movers |-> [c \in Channels |->
                   IF m \in Readers THEN Received(m, c, Popped(m, cfg[m], takes))
                   ELSE Sent(m, c, gives, grants)]]
=============================================================================
