--------------------------- MODULE StreamerProofs ---------------------------
(***************************************************************************)
(* Proofs about the streamer, for any readers, channels, depths and jobs:  *)
(* a reader offers the words of its job's loops in order, and a job that   *)
(* has ended is in the memory to its last word.                            *)
(***************************************************************************)
EXTENDS Streamer, SequenceTheorems, TLAPS

-----------------------------------------------------------------------------
(* The jobs.                                                               *)

Cfgs == [ptr : Int, bounds : Nat \X Nat, strides : Int \X Int]

\* All movers of a job walk over as many words, and those without a word are switched
\* off: no loop of theirs is made one iteration long by its stride of 0.
Fits(job) ==
    /\ job \in [Movers -> Cfgs]
    /\ \A m \in Used(job), w \in Writers : Count(job[m]) = Count(job[w])
    /\ \A m \in Movers \ Used(job) : 0 \in {Ceil(m, job[m])[i] : i \in {1, 2}}

\* A streamer with one writer, which every job uses.
JobsFit ==
    /\ \E w \in Writers : Writers = {w}
    /\ Readers \cap Writers = {}
    /\ Channels \subseteq Int /\ Channels # {} /\ DataDepth \in Nat
    /\ \A job \in Jobs : Fits(job) /\ Writers \subseteq Used(job)

W1 == CHOOSE w \in Writers : TRUE

\* The words of the job, the repetitions of a word, the addresses of a mover.
N(job) == Count(job[W1])
Total(m, cfg) == Ceil(m, cfg)[1] * Ceil(m, cfg)[2]
AddressOf(m, cfg, c) ==
    [i \in Nat |-> cfg.ptr + (i % Ceil(m, cfg)[1]) * cfg.strides[1]
                           + (i \div Ceil(m, cfg)[1]) * cfg.strides[2] + c]
ResultOf(job, c) == [i \in Nat |-> Result(job, i, c)]

-----------------------------------------------------------------------------
(* The inductive invariant.                                                *)

\* The addresses mover m has generated; a delayed reader has none before its start.
Waits(m) == m \in Delayed /\ state = "sBUSY" /\ ~haveStarted[m]
Gen(m) ==
    IF agu[m] THEN counters[m][1] + counters[m][2] * Ceil(m, csrCfgReg[m])[1]
    ELSE IF Waits(m) THEN 0
    ELSE Total(m, csrCfgReg[m])

\* The words that have left mover m for the TCDM, and those that have left a reader.
Granted(m, c) == Gen(m) - Len(addrs[m][c])
Gone(m, c) == Granted(m, c) - Len(response[m][c]) - Len(data[m][c])

\* The words the accelerator has taken: none as long as the core has yet to start it.
AccPending == Does("accelerate")
TakenWords == IF AccPending THEN 0 ELSE N(csrCfgReg) - acc.left

\* The sequence q holds the values of f from the i-th.
Segment(q, f, i) == \A k \in 1 .. Len(q) : q[k] = f[i + k - 1]

Results == UNION {[R -> Int] : R \in SUBSET Readers}
Items == Int \cup Results

Writes ==
    {<<"start", "accelerate", "delayed", "clear", "wait">>, <<"start", "accelerate">>,
     <<"accelerate", "delayed", "clear", "wait">>, <<"accelerate">>,
     <<"delayed", "clear", "wait">>, <<"clear", "wait">>, <<"wait">>, <<>>}

Types ==
    /\ agu \in [Movers -> BOOLEAN]
    /\ counters \in [Movers -> Nat \X Nat]
    /\ addrs \in [Movers -> [Channels -> Seq(Items)]]
    /\ data \in [Movers -> [Channels -> Seq(Items)]]
    /\ credit \in [Readers -> [Channels -> Int]]
    /\ response \in [Readers -> [Channels -> Seq(Items)]]
    /\ repeat \in [Readers -> Nat]
    /\ state \in {"sIDLE", "sBUSY"}
    /\ haveStarted \in [Delayed -> BOOLEAN]
    /\ startCsr \in [Delayed -> BOOLEAN]
    /\ regs \in [Movers -> Cfgs]

\* The configuration in use is a job's that fits, and one with words to store when busy.
CfgOK ==
    /\ Fits(csrCfgReg)
    /\ state = "sBUSY" => Writers \subseteq Used(csrCfgReg)

CoreOK ==
    /\ DOMAIN core = {"job", "unset", "writes"}
    /\ core.job \in Jobs
    /\ core.writes \in Writes
    /\ core.unset # {} => core.writes # <<>> /\ Head(core.writes) = "start"
    /\ core.writes = <<>> \/ Head(core.writes) # "start" => csrCfgReg = core.job
    /\ \A m \in Movers \ core.unset : regs[m] = core.job[m]
    /\ \A m \in Delayed : startCsr[m] => m \in Used(csrCfgReg) /\ core.writes = <<"clear", "wait">>

AguOK ==
    \A m \in Movers : agu[m] =>
        /\ state = "sBUSY" /\ (m \in Delayed => haveStarted[m])
        /\ counters[m][1] < Ceil(m, csrCfgReg[m])[1]
        /\ counters[m][2] < Ceil(m, csrCfgReg[m])[2]

\* The addresses, the responses and the data of a reader are its stream without a gap.
AddrsOK ==
    \A m \in Movers, c \in Channels :
        /\ Granted(m, c) >= 0
        /\ Segment(addrs[m][c], AddressOf(m, csrCfgReg[m], c), Granted(m, c))

ReadersOK ==
    \A m \in Readers, c \in Channels :
        /\ Len(response[m][c]) <= 1
        /\ credit[m][c] = Len(response[m][c]) + Len(data[m][c])
        /\ credit[m][c] <= DataDepth
        /\ Gone(m, c) >= 0
        /\ Segment(data[m][c], AddressOf(m, csrCfgReg[m], c), Gone(m, c))
        /\ Segment(response[m][c], AddressOf(m, csrCfgReg[m], c), Gone(m, c) + Len(data[m][c]))

\* A word is taken repeat_times, and stays in the queue until the last time.
RepeatsOK ==
    \A m \in Readers :
        IF m \in Used(csrCfgReg)
        THEN /\ repeat[m] < repeat_times(csrCfgReg[m])
             /\ \A c \in Channels :
                  /\ TakenWords = repeat[m] + repeat_times(csrCfgReg[m]) * Gone(m, c)
                  /\ repeat[m] # 0 => data[m][c] # <<>>
        ELSE repeat[m] = 0

WriterOK ==
    \A m \in Writers, c \in Channels :
        /\ Granted(m, c) = TakenWords - Len(acc.out) - Len(data[m][c])
        /\ Segment(data[m][c], ResultOf(csrCfgReg, c), Granted(m, c))

AccOK ==
    /\ DOMAIN acc = {"job", "left", "out"}
    /\ acc.left \in 0 .. N(csrCfgReg)
    /\ acc.out \in Seq([Channels -> Items]) /\ Len(acc.out) <= 1
    /\ acc.out # <<>> => acc.out[1] = [c \in Channels |-> Result(csrCfgReg, TakenWords - 1, c)]
    /\ Running => acc.job = csrCfgReg /\ state = "sBUSY"
    /\ AccPending => state = "sBUSY" /\ ~Running

\* The first n words of a channel in their places.
StoredBy(job, m, c, n) ==
    {[addr |-> AddressOf(m, job[m], c)[i], word |-> Result(job, i, c)] : i \in 0 .. n - 1}

StoredOK ==
    stored = UNION {UNION {StoredBy(csrCfgReg, m, c, Granted(m, c)) : c \in Channels} : m \in Writers}

\* Between two jobs the streamer is empty.
IdleOK ==
    state = "sIDLE" =>
        /\ \A m \in Movers : ~agu[m] /\ \A c \in Channels : addrs[m][c] = <<>> /\ data[m][c] = <<>>
        /\ \A m \in Readers : repeat[m] = 0 /\ \A c \in Channels : response[m][c] = <<>>

IInv ==
    /\ Types /\ CfgOK /\ CoreOK /\ AguOK /\ AddrsOK /\ ReadersOK
    /\ RepeatsOK /\ WriterOK /\ AccOK /\ StoredOK /\ IdleOK

-----------------------------------------------------------------------------
(* Segments of a stream.                                                   *)

LEMMA SegmentTail ==
  ASSUME NEW S, NEW q \in Seq(S), NEW f, NEW i \in Int, Segment(q, f, i), q # <<>>
  PROVE  /\ Tail(q) \in Seq(S) /\ Len(Tail(q)) = Len(q) - 1
         /\ Head(q) = f[i] /\ Head(q) \in S
         /\ Segment(Tail(q), f, i + 1)
<1>1. Len(q) \in Nat /\ Len(q) >= 1 /\ Len(Tail(q)) = Len(q) - 1 /\ Tail(q) \in Seq(S)
  OBVIOUS
<1>2. \A k \in 1 .. Len(Tail(q)) : Tail(q)[k] = q[k + 1]
  OBVIOUS
<1>3. Head(q) = f[i] /\ Head(q) \in S
  <2>1. Head(q) = q[1] /\ q[1] \in S
    BY <1>1
  <2>2. q[1] = f[i + 1 - 1]
    BY <1>1 DEF Segment
  <2>3. i + 1 - 1 = i
    OBVIOUS
  <2> QED
    BY <2>1, <2>2, <2>3
<1>4. ASSUME NEW k \in 1 .. Len(Tail(q)) PROVE Tail(q)[k] = f[(i + 1) + k - 1]
  <2>1. k + 1 \in 1 .. Len(q)
    BY <1>1
  <2>2. q[k + 1] = f[i + (k + 1) - 1]
    BY <2>1 DEF Segment
  <2>3. i + (k + 1) - 1 = (i + 1) + k - 1
    OBVIOUS
  <2> QED
    BY <1>2, <2>2, <2>3
<1> QED
  BY <1>1, <1>3, <1>4 DEF Segment

LEMMA SegmentConcat ==
  ASSUME NEW S, NEW q \in Seq(S), NEW r \in Seq(S), NEW f, NEW i \in Int,
         Segment(q, f, i), Segment(r, f, i + Len(q))
  PROVE  /\ q \o r \in Seq(S) /\ Len(q \o r) = Len(q) + Len(r)
         /\ Segment(q \o r, f, i)
<1>1. Len(q) \in Nat /\ Len(r) \in Nat /\ q \o r \in Seq(S) /\ Len(q \o r) = Len(q) + Len(r)
  OBVIOUS
<1>2. ASSUME NEW k \in 1 .. Len(q \o r) PROVE (q \o r)[k] = f[i + k - 1]
  <2>1. CASE k <= Len(q)
    BY <1>1, <2>1 DEF Segment
  <2>2. CASE k > Len(q)
    <3>1. k - Len(q) \in 1 .. Len(r) /\ (q \o r)[k] = r[k - Len(q)]
      BY <1>1, <2>2
    <3>2. r[k - Len(q)] = f[(i + Len(q)) + (k - Len(q)) - 1]
      BY <3>1 DEF Segment
    <3>3. (i + Len(q)) + (k - Len(q)) - 1 = i + k - 1
      BY <1>1
    <3> QED
      BY <3>1, <3>2, <3>3
  <2> QED
    BY <1>1, <2>1, <2>2
<1> QED
  BY <1>1, <1>2 DEF Segment

LEMMA SegmentOne ==
  ASSUME NEW S, NEW f, NEW i \in Int, NEW x \in S, x = f[i]
  PROVE  <<x>> \in Seq(S) /\ Len(<<x>>) = 1 /\ Segment(<<x>>, f, i)
<1>1. <<x>> \in Seq(S) /\ Len(<<x>>) = 1 /\ <<x>>[1] = x
  OBVIOUS
<1>2. i + 1 - 1 = i
  OBVIOUS
<1>3. \A k \in 1 .. 1 : k = 1
  OBVIOUS
<1> QED
  BY <1>1, <1>2, <1>3 DEF Segment

LEMMA SegmentEmpty ==
  ASSUME NEW S, NEW f, NEW i
  PROVE  <<>> \in Seq(S) /\ Len(<<>>) = 0 /\ Segment(<<>>, f, i)
BY DEF Segment

LEMMA SegmentAppend ==
  ASSUME NEW S, NEW q \in Seq(S), NEW f, NEW i \in Int, NEW x \in S,
         Segment(q, f, i), x = f[i + Len(q)]
  PROVE  /\ Append(q, x) \in Seq(S) /\ Len(Append(q, x)) = Len(q) + 1
         /\ Segment(Append(q, x), f, i)
<1>1. Len(q) \in Nat /\ Append(q, x) \in Seq(S) /\ Len(Append(q, x)) = Len(q) + 1
  OBVIOUS
<1>2. ASSUME NEW k \in 1 .. Len(Append(q, x)) PROVE Append(q, x)[k] = f[i + k - 1]
  <2>1. CASE k <= Len(q)
    BY <1>1, <2>1 DEF Segment
  <2>2. CASE k > Len(q)
    <3>1. k = Len(q) + 1 /\ Append(q, x)[k] = x
      BY <1>1, <2>2
    <3>2. i + k - 1 = i + Len(q)
      BY <1>1, <3>1
    <3> QED
      BY <3>1, <3>2
  <2> QED
    BY <1>1, <2>1, <2>2
<1> QED
  BY <1>1, <1>2 DEF Segment

\* What is taken from a queue, by taker's condition, leaves the rest.
LEMMA SegmentRest ==
  ASSUME NEW S, NEW q \in Seq(S), NEW f, NEW i \in Int, NEW b \in BOOLEAN,
         Segment(q, f, i), b => q # <<>>
  PROVE  /\ (IF b THEN Tail(q) ELSE q) \in Seq(S)
         /\ Len(IF b THEN Tail(q) ELSE q) = Len(q) - (IF b THEN 1 ELSE 0)
         /\ Segment(IF b THEN Tail(q) ELSE q, f, i + (IF b THEN 1 ELSE 0))
<1>1. CASE b
  BY <1>1, SegmentTail
<1>2. CASE ~b
  <2>1. i + 0 = i /\ Len(q) - 0 = Len(q)
    OBVIOUS
  <2> QED
    BY <1>2, <2>1
<1> QED
  BY <1>1, <1>2

-----------------------------------------------------------------------------
(* Loops.                                                                  *)

\* A number has one quotient and one remainder.
LEMMA DivModUnique ==
  ASSUME NEW b \in Nat, NEW a \in Nat, a < b, NEW q \in Nat
  PROVE  (a + q * b) % b = a /\ (a + q * b) \div b = q
<1> DEFINE x == a + q * b
           d == x \div b
           r == x % b
<1>1. q * b \in Nat /\ x \in Nat
  OBVIOUS
<1>2. d \in Int /\ r \in Int /\ 0 <= r /\ r < b /\ x = b * d + r
  BY <1>1, b > 0
<1> HIDE DEF d, r
<1>3. q = d
  <2>1. CASE q < d
    <3>1. q + 1 <= d
      BY <1>2, <2>1
    <3>2. b * (q + 1) <= b * d
      BY <1>2, <3>1
    <3>3. b * (q + 1) = q * b + b
      OBVIOUS
    <3> QED
      BY <1>1, <1>2, <3>2, <3>3
  <2>2. CASE q > d
    <3>1. d + 1 <= q
      BY <1>2, <2>2
    <3>2. b * (d + 1) <= b * q
      BY <1>2, <3>1
    <3>3. b * (d + 1) = b * d + b /\ b * q = q * b
      BY <1>2
    <3> QED
      BY <1>1, <1>2, <3>2, <3>3
  <2> QED
    BY <1>2, <2>1, <2>2
<1>4. b * d = q * b
  BY <1>3
<1>5. r = a
  BY <1>1, <1>2, <1>4
<1> QED
  BY <1>3, <1>5 DEF d, r

LEMMA TheWriter ==
  ASSUME JobsFit
  PROVE  /\ Writers = {W1} /\ W1 \in Writers /\ W1 \in Movers /\ W1 \notin Readers
         /\ \A m \in Writers : m = W1
         /\ \A m \in Writers : m \notin Readers /\ m \notin Delayed
         /\ \A m \in Movers : m \in Readers \/ m \in Writers
         /\ Writers \subseteq Movers /\ Readers \subseteq Movers /\ Delayed \subseteq Readers
<1>1. PICK w \in Writers : Writers = {w}
  BY DEF JobsFit
<1>2. W1 = w
  BY <1>1 DEF W1
<1> QED
  BY <1>1, <1>2, DelayedAssumption DEF JobsFit, Movers

\* The loops a generator makes.
LEMMA CeilFacts ==
  ASSUME NEW m, NEW cfg \in Cfgs
  PROVE  /\ cfg.ptr \in Int /\ cfg.strides[1] \in Int /\ cfg.strides[2] \in Int
         /\ cfg.bounds[1] \in Nat /\ cfg.bounds[2] \in Nat
         /\ Ceil(m, cfg)[1] = IF m \in Readers /\ cfg.strides[1] = 0 THEN 1 ELSE cfg.bounds[1]
         /\ Ceil(m, cfg)[2] = cfg.bounds[2]
         /\ Ceil(m, cfg)[1] \in Nat /\ Ceil(m, cfg)[2] \in Nat
         /\ repeat_times(cfg) = IF cfg.strides[1] = 0 THEN cfg.bounds[1] ELSE 1
         /\ repeat_times(cfg) \in Nat
         /\ Count(cfg) = cfg.bounds[1] * cfg.bounds[2]
         /\ Count(cfg) \in Nat
         /\ Total(m, cfg) = Ceil(m, cfg)[1] * Ceil(m, cfg)[2]
         /\ Total(m, cfg) \in Nat
<1>1. /\ cfg.ptr \in Int /\ cfg.strides[1] \in Int /\ cfg.strides[2] \in Int
      /\ cfg.bounds[1] \in Nat /\ cfg.bounds[2] \in Nat
      /\ DOMAIN cfg.bounds = {1, 2}
  BY DEF Cfgs
<1>2. /\ Ceil(m, cfg)[1] = IF m \in Readers /\ cfg.strides[1] = 0 THEN 1 ELSE cfg.bounds[1]
      /\ Ceil(m, cfg)[2] = cfg.bounds[2]
  BY <1>1 DEF Ceil
<1>3. Ceil(m, cfg)[1] \in Nat /\ Ceil(m, cfg)[2] \in Nat
  BY <1>1, <1>2
<1>4. repeat_times(cfg) = IF cfg.strides[1] = 0 THEN cfg.bounds[1] ELSE 1
  BY DEF repeat_times
<1>5. repeat_times(cfg) \in Nat
  BY <1>1, <1>4
<1>6. Count(cfg) = cfg.bounds[1] * cfg.bounds[2] /\ Count(cfg) \in Nat
  BY <1>1 DEF Count
<1>7. Total(m, cfg) = Ceil(m, cfg)[1] * Ceil(m, cfg)[2] /\ Total(m, cfg) \in Nat
  BY <1>3 DEF Total
<1> QED
  BY <1>1, <1>2, <1>3, <1>4, <1>5, <1>6, <1>7

LEMMA ProductNotZero ==
  ASSUME NEW a \in Nat, NEW b \in Nat
  PROVE  a * b # 0 <=> a # 0 /\ b # 0
<1>1. CASE a = 0
  BY <1>1
<1>2. CASE b = 0
  BY <1>2
<1>3. CASE a # 0 /\ b # 0
  <2>1. a >= 1 /\ b >= 1
    BY <1>3
  <2>2. a * b >= 1
    BY <2>1
  <2> QED
    BY <1>3, <2>2
<1> QED
  BY <1>1, <1>2, <1>3

\* What a mover in use has to do, and that one that is not has nothing to do.
LEMMA UsedFacts ==
  ASSUME JobsFit, NEW job, Fits(job), NEW m \in Movers
  PROVE  /\ job[m] \in Cfgs
         /\ N(job) \in Nat
         /\ m \in Used(job) =>
              /\ Ceil(m, job[m])[1] # 0 /\ Ceil(m, job[m])[2] # 0
              /\ Total(m, job[m]) # 0 /\ N(job) # 0 /\ Count(job[m]) = N(job)
              /\ repeat_times(job[m]) # 0
              /\ m \in Readers => Total(m, job[m]) * repeat_times(job[m]) = N(job)
         /\ m \notin Used(job) =>
              /\ Ceil(m, job[m])[1] = 0 \/ Ceil(m, job[m])[2] = 0
              /\ Total(m, job[m]) = 0
         /\ m \in Writers => Total(m, job[m]) = N(job) /\ N(job) = Count(job[m])
<1>1. job[m] \in Cfgs /\ job[W1] \in Cfgs
  BY TheWriter DEF Fits
<1>2. N(job) \in Nat
  BY <1>1, CeilFacts DEF N
<1>3. ASSUME m \in Used(job)
      PROVE  /\ Ceil(m, job[m])[1] # 0 /\ Ceil(m, job[m])[2] # 0
             /\ Total(m, job[m]) # 0 /\ N(job) # 0 /\ Count(job[m]) = N(job)
             /\ repeat_times(job[m]) # 0
             /\ m \in Readers => Total(m, job[m]) * repeat_times(job[m]) = N(job)
  <2>1. Count(job[m]) # 0 /\ Count(job[m]) = N(job)
    BY <1>3, TheWriter DEF Fits, N, Used
  <2>2. job[m].bounds[1] # 0 /\ job[m].bounds[2] # 0
    <3>1. job[m].bounds[1] * job[m].bounds[2] # 0
      BY <1>1, <2>1, CeilFacts
    <3> QED
      BY <1>1, <3>1, CeilFacts, ProductNotZero
  <2>3. Ceil(m, job[m])[1] # 0 /\ Ceil(m, job[m])[2] # 0 /\ repeat_times(job[m]) # 0
    BY <1>1, <2>2, CeilFacts
  <2>4. Total(m, job[m]) # 0
    <3>1. Ceil(m, job[m])[1] * Ceil(m, job[m])[2] # 0
      BY <1>1, <2>3, CeilFacts, ProductNotZero
    <3> QED
      BY <1>1, <3>1, CeilFacts
  <2>5. ASSUME m \in Readers PROVE Total(m, job[m]) * repeat_times(job[m]) = N(job)
    <3> DEFINE b1 == job[m].bounds[1]
               b2 == job[m].bounds[2]
    <3>1. b1 \in Nat /\ b2 \in Nat /\ N(job) = b1 * b2
      BY <1>1, <2>1, CeilFacts
    <3>2. CASE job[m].strides[1] = 0
      <4>1. Total(m, job[m]) = 1 * b2 /\ repeat_times(job[m]) = b1
        BY <1>1, <2>5, <3>2, CeilFacts
      <4> HIDE DEF b1, b2
      <4> QED
        BY <3>1, <4>1
    <3>3. CASE job[m].strides[1] # 0
      <4>1. Total(m, job[m]) = b1 * b2 /\ repeat_times(job[m]) = 1
        BY <1>1, <2>5, <3>3, CeilFacts
      <4> HIDE DEF b1, b2
      <4> QED
        BY <3>1, <4>1
    <3> QED
      BY <3>2, <3>3
  <2> QED
    BY <2>1, <2>3, <2>4, <2>5
<1>4. ASSUME m \notin Used(job)
      PROVE  /\ Ceil(m, job[m])[1] = 0 \/ Ceil(m, job[m])[2] = 0
             /\ Total(m, job[m]) = 0
  <2>1. Ceil(m, job[m])[1] = 0 \/ Ceil(m, job[m])[2] = 0
    BY <1>4 DEF Fits
  <2>2. ~(Ceil(m, job[m])[1] * Ceil(m, job[m])[2] # 0)
    BY <1>1, <2>1, CeilFacts, ProductNotZero
  <2> QED
    BY <1>1, <2>1, <2>2, CeilFacts
<1>5. ASSUME m \in Writers PROVE Total(m, job[m]) = N(job) /\ N(job) = Count(job[m])
  <2>1. m = W1 /\ m \notin Readers
    BY <1>5, TheWriter
  <2> QED
    BY <1>1, <2>1, CeilFacts DEF N
<1> QED
  BY <1>1, <1>2, <1>3, <1>4, <1>5

-----------------------------------------------------------------------------
(* The addresses.                                                          *)

\* The generator's sum over its loop counters is the address at their position.
LEMMA AddressAt ==
  ASSUME JobsFit, NEW m, NEW cfg \in Cfgs, NEW c \in Channels,
         NEW a \in Nat, NEW q \in Nat, a < Ceil(m, cfg)[1]
  PROVE  /\ a + q * Ceil(m, cfg)[1] \in Nat
         /\ AddressOf(m, cfg, c)[a + q * Ceil(m, cfg)[1]]
              = cfg.ptr + a * cfg.strides[1] + q * cfg.strides[2] + c
         /\ cfg.ptr + a * cfg.strides[1] + q * cfg.strides[2] + c \in Int
<1> DEFINE b == Ceil(m, cfg)[1]
           i == a + q * b
<1>1. b \in Nat /\ a < b
  BY CeilFacts
<1>2. i % b = a /\ i \div b = q
  BY <1>1, DivModUnique
<1>3. i \in Nat
  BY <1>1
<1>4. AddressOf(m, cfg, c)[i] = cfg.ptr + (i % b) * cfg.strides[1] + (i \div b) * cfg.strides[2] + c
  BY <1>3, Zenon DEF AddressOf
<1>5. cfg.ptr + a * cfg.strides[1] + q * cfg.strides[2] + c \in Int
  BY CeilFacts DEF JobsFit
<1> QED
  BY <1>2, <1>3, <1>4, <1>5, Zenon

\* The word the accelerator takes, the r-th time, is the address of the reader at p.
LEMMA WordOfReader ==
  ASSUME NEW m \in Readers, NEW cfg \in Cfgs, NEW c,
         NEW r \in Nat, NEW p \in Nat, r < repeat_times(cfg)
  PROVE  Word(cfg, r + repeat_times(cfg) * p, c) = AddressOf(m, cfg, c)[p]
<1> DEFINE R == repeat_times(cfg)
           T == r + R * p
           b1 == cfg.bounds[1]
           C1 == Ceil(m, cfg)[1]
<1>0. R \in Nat /\ b1 \in Nat /\ C1 \in Nat
  BY CeilFacts
<1>1. Word(cfg, T, c) = cfg.ptr + (T % b1) * cfg.strides[1] + (T \div b1) * cfg.strides[2] + c
  BY Zenon DEF Word
<1>2. AddressOf(m, cfg, c)[p] = cfg.ptr + (p % C1) * cfg.strides[1] + (p \div C1) * cfg.strides[2] + c
  BY Zenon DEF AddressOf
<1>3. CASE cfg.strides[1] = 0
  <2>1. R = b1 /\ C1 = 1
    BY <1>3, CeilFacts
  <2>2. p % 1 = 0 /\ p \div 1 = p
    BY DivModUnique
  <2>3. T = r + p * b1
    BY <1>0, <2>1
  <2>6. r < b1
    BY <2>1
  <2>7. (r + p * b1) % b1 = r /\ (r + p * b1) \div b1 = p
    BY <1>0, <2>6, DivModUnique
  <2>4. T % b1 = r /\ T \div b1 = p
    BY <2>3, <2>7, Zenon
  <2>5. r * 0 = 0 * 0
    OBVIOUS
  <2> QED
    BY <1>1, <1>2, <1>3, <2>1, <2>2, <2>4, <2>5, Zenon
<1>4. CASE cfg.strides[1] # 0
  <2>1. R = 1 /\ C1 = b1
    BY <1>4, CeilFacts
  <2>2. T = p
    BY <2>1
  <2> QED
    BY <1>1, <1>2, <2>1, <2>2, Zenon
<1> QED
  BY <1>3, <1>4

\* A writer has an address for every word.
LEMMA WordOfWriter ==
  ASSUME NEW m, m \notin Readers, NEW cfg \in Cfgs, NEW c, NEW i \in Nat
  PROVE  Word(cfg, i, c) = AddressOf(m, cfg, c)[i]
<1>1. Ceil(m, cfg)[1] = cfg.bounds[1]
  BY CeilFacts
<1> QED
  BY <1>1, Zenon DEF Word, AddressOf

-----------------------------------------------------------------------------
(* The initial states.                                                     *)

LEMMA NoJobFits == Fits(NoJob) /\ Used(NoJob) = {}
<1>1. Disabled \in Cfgs /\ Disabled.bounds[1] = 0 /\ Disabled.bounds[2] = 0
  BY DEF Disabled, Cfgs
<1>2. NoJob \in [Movers -> Cfgs] /\ \A m \in Movers : NoJob[m] = Disabled
  BY <1>1 DEF NoJob
<1>3. Count(Disabled) = 0
  BY <1>1 DEF Count
<1>4. Used(NoJob) = {}
  BY <1>2, <1>3 DEF Used
<1>5. \A m \in Movers : Ceil(m, NoJob[m])[2] = 0
  BY <1>1, <1>2, CeilFacts
<1>6. \A m \in Movers : 0 \in {Ceil(m, NoJob[m])[i] : i \in {1, 2}}
  BY <1>5
<1> QED
  BY <1>2, <1>4, <1>6 DEF Fits

\* The writes of a job, as they are taken off one by one.
LEMMA ProgramFacts ==
  ASSUME NEW job
  PROVE  /\ Program(job) \in Writes /\ Program(job) # <<>> /\ Head(Program(job)) = "start"
         /\ \A w \in Writes : w # <<>> =>
              /\ Tail(w) \in Writes
              /\ Head(w) = "start" => Tail(w) # <<>> /\ Head(Tail(w)) = "accelerate"
              /\ Head(w) # "start" => Tail(w) = <<>> \/ Head(Tail(w)) \notin {"start", "accelerate"}
              /\ Head(w) = "delayed" => Tail(w) = <<"clear", "wait">>
              /\ Head(w) = "clear" <=> w = <<"clear", "wait">>
              /\ Head(w) = "accelerate" => w # <<"clear", "wait">>
<1>1. CASE Delayed \cap Used(job) # {}
  <2>1. Program(job) = <<"start", "accelerate", "delayed", "clear", "wait">>
    <3> DEFINE q == <<"start", "accelerate">>
               r == <<"delayed", "clear", "wait">>
               t == <<"start", "accelerate", "delayed", "clear", "wait">>
               S == {"start", "accelerate", "delayed", "clear", "wait"}
    <3>1. q \in Seq(S) /\ r \in Seq(S) /\ t \in Seq(S)
          /\ Len(q) = 2 /\ Len(r) = 3 /\ Len(t) = 5
      OBVIOUS
    <3>2. q \o r \in Seq(S) /\ Len(q \o r) = 5
      BY <3>1
    <3>3. \A i \in 1 .. 5 : (q \o r)[i] = IF i <= 2 THEN q[i] ELSE r[i - 2]
      BY <3>1, ConcatProperties
    <3>4. \A i \in 1 .. 5 : i = 1 \/ i = 2 \/ i = 3 \/ i = 4 \/ i = 5
      OBVIOUS
    <3>5. \A i \in 1 .. 5 : (q \o r)[i] = t[i]
      BY <3>3, <3>4
    <3>6. q \o r = t
      <4> HIDE DEF q, r, t
      <4> QED
        BY <3>1, <3>2, <3>5, SeqEqual
    <3> QED
      BY <1>1, <3>6, Zenon DEF Program
  <2> QED
    BY <2>1 DEF Writes
<1>2. CASE Delayed \cap Used(job) = {}
  <2>1. Program(job) = <<"start", "accelerate">>
    <3> DEFINE q == <<"start", "accelerate">>
    <3>1. q \in Seq({"start", "accelerate"})
      OBVIOUS
    <3>2. q \o <<>> = q
      <4> HIDE DEF q
      <4> QED
        BY <3>1, ConcatEmptySeq
    <3> QED
      BY <1>2, <3>2, Zenon DEF Program
  <2> QED
    BY <2>1 DEF Writes
<1> QED
  BY <1>1, <1>2

LEMMA InitIInv == JobsFit /\ Init => IInv
<1> SUFFICES ASSUME JobsFit, Init PROVE IInv
  OBVIOUS
<1>1. PICK job \in Jobs : core = Plan(job)
  BY DEF Init
<1>2. /\ agu = [m \in Movers |-> FALSE] /\ counters = [m \in Movers |-> <<0, 0>>]
      /\ addrs = [m \in Movers |-> [c \in Channels |-> <<>>]]
      /\ data = [m \in Movers |-> [c \in Channels |-> <<>>]]
      /\ credit = [m \in Readers |-> [c \in Channels |-> 0]]
      /\ response = [m \in Readers |-> [c \in Channels |-> <<>>]]
      /\ repeat = [m \in Readers |-> 0]
      /\ regs = NoJob /\ csrCfgReg = NoJob
      /\ startCsr = [m \in Delayed |-> FALSE] /\ haveStarted = [m \in Delayed |-> FALSE]
      /\ state = "sIDLE"
      /\ acc = [job |-> NoJob, left |-> 0, out |-> <<>>]
      /\ stored = {}
  BY Zenon DEF Init, MoversInit
<1>3. core = [job |-> job, unset |-> Movers, writes |-> Program(job)]
  BY <1>1 DEF Plan
<1>4. Types
  <2>1. <<>> \in Seq(Items) /\ NoJob \in [Movers -> Cfgs]
    BY NoJobFits DEF Fits
  <2> QED
    BY <1>2, <2>1 DEF Types
<1>5. CfgOK
  BY <1>2, NoJobFits DEF CfgOK
<1>6. CoreOK
  <2>1. \A m \in Delayed : ~startCsr[m]
    BY <1>2
  <2> QED
    BY <1>3, <2>1, ProgramFacts DEF CoreOK
<1>7. AguOK
  BY <1>2 DEF AguOK
<1>8. ~AccPending /\ TakenWords = 0 /\ N(csrCfgReg) = 0 /\ acc.left = 0 /\ acc.out = <<>>
  <2>1. core.unset # {}
    BY <1>3, TheWriter
  <2>2. N(NoJob) = 0
    <3>1. W1 \notin Used(NoJob) /\ Total(W1, NoJob[W1]) = 0
      BY NoJobFits, UsedFacts, TheWriter
    <3> QED
      BY <3>1, NoJobFits, UsedFacts, TheWriter
  <2>3. ~AccPending
    BY <2>1 DEF AccPending, Does
  <2>4. acc.left = 0 /\ acc.out = <<>>
    BY <1>2
  <2> QED
    BY <1>2, <2>2, <2>3, <2>4 DEF TakenWords
<1>9. \A m \in Movers : Gen(m) = 0
  <2> TAKE m \in Movers
  <2>1. ~agu[m] /\ ~Waits(m)
    BY <1>2 DEF Waits
  <2>2. Total(m, NoJob[m]) = 0
    BY NoJobFits, UsedFacts
  <2> QED
    BY <1>2, <2>1, <2>2 DEF Gen
<1>10. /\ \A m \in Movers, c \in Channels :
            /\ addrs[m][c] = <<>> /\ data[m][c] = <<>>
            /\ Len(addrs[m][c]) = 0 /\ Len(data[m][c]) = 0
       /\ \A m \in Readers, c \in Channels :
            /\ response[m][c] = <<>> /\ Len(response[m][c]) = 0 /\ credit[m][c] = 0
       /\ \A m \in Readers : repeat[m] = 0 /\ m \in Movers
       /\ \A m \in Writers : m \in Movers
  BY <1>2, TheWriter
<1>11. \A m \in Movers, c \in Channels : Granted(m, c) = 0
  BY <1>9, <1>10 DEF Granted
<1>12. \A m \in Readers, c \in Channels : Gone(m, c) = 0
  BY <1>10, <1>11 DEF Gone
<1>13. AddrsOK
  BY <1>10, <1>11, SegmentEmpty DEF AddrsOK
<1>14. ReadersOK
  <2>1. 0 <= DataDepth
    BY DEF JobsFit
  <2> SUFFICES ASSUME NEW m \in Readers, NEW c \in Channels
               PROVE  /\ Len(response[m][c]) <= 1
                      /\ credit[m][c] = Len(response[m][c]) + Len(data[m][c])
                      /\ credit[m][c] <= DataDepth
                      /\ Gone(m, c) >= 0
                      /\ Segment(data[m][c], AddressOf(m, csrCfgReg[m], c), Gone(m, c))
                      /\ Segment(response[m][c], AddressOf(m, csrCfgReg[m], c),
                                 Gone(m, c) + Len(data[m][c]))
    BY DEF ReadersOK
  <2>2. /\ response[m][c] = <<>> /\ Len(response[m][c]) = 0 /\ credit[m][c] = 0
        /\ data[m][c] = <<>> /\ Len(data[m][c]) = 0 /\ Gone(m, c) = 0
    BY <1>10, <1>12
  <2> QED
    BY <2>1, <2>2, SegmentEmpty
<1>15. RepeatsOK
  BY <1>2, <1>10, NoJobFits DEF RepeatsOK
<1>16. WriterOK
  <2>1. Len(acc.out) = 0
    BY <1>8
  <2> QED
    BY <1>8, <1>10, <1>11, <2>1, SegmentEmpty DEF WriterOK
<1>17. AccOK
  <2>1. acc.out \in Seq([Channels -> Items]) /\ Len(acc.out) = 0
    BY <1>8
  <2>2. DOMAIN acc = {"job", "left", "out"}
    BY <1>2
  <2> QED
    BY <1>8, <2>1, <2>2 DEF AccOK, Running
<1>18. StoredOK
  <2>1. \A m \in Writers, c \in Channels : StoredBy(csrCfgReg, m, c, Granted(m, c)) = {}
    BY <1>10, <1>11 DEF StoredBy
  <2> QED
    BY <1>2, <2>1 DEF StoredOK
<1>19. IdleOK
  BY <1>2, <1>10 DEF IdleOK
<1> QED
  BY <1>4, <1>5, <1>6, <1>7, <1>13, <1>14, <1>15, <1>16, <1>17, <1>18, <1>19 DEF IInv

-----------------------------------------------------------------------------
(* A cycle in which no job starts, taken apart.                            *)

Cycle(steps, takes, grants) ==
    /\ grants \subseteq Requests(csrCfg(steps), Takes(takes))
    /\ Clock(steps, takes, grants)
    /\ ~streamer_config_fire(steps)

Bit(b) == IF b THEN 1 ELSE 0
Rest(q, b) == IF b THEN Tail(q) ELSE q

\* What happens to each generator, queue and reader.
LEMMA MoveGenerator ==
  ASSUME NEW cfg, NEW start, NEW takes, NEW gives, NEW grants,
         Move(cfg, start, takes, gives, grants), NEW m \in Movers
  PROVE  /\ agu'[m] = IF m \in start /\ \A i \in {1, 2} : Ceil(m, cfg[m])[i] # 0 THEN TRUE
                      ELSE agu[m] /\ ~(AddressFire(m, grants) /\ InnerLast(m, cfg[m]) /\ OuterLast(m, cfg[m]))
         /\ counters'[m] = IF m \in start THEN <<0, 0>>
                           ELSE IF AddressFire(m, grants) THEN Tick(m, cfg[m]) ELSE counters[m]
<1>1. Generate(cfg, start, grants)
  BY Zenon DEF Move
<1>2. /\ agu' = [n \in Movers |->
                 IF n \in start /\ \A i \in {1, 2} : Ceil(n, cfg[n])[i] # 0 THEN TRUE
                 ELSE agu[n] /\ ~(AddressFire(n, grants) /\ InnerLast(n, cfg[n]) /\ OuterLast(n, cfg[n]))]
      /\ counters' = [n \in Movers |->
                 IF n \in start THEN <<0, 0>>
                 ELSE IF AddressFire(n, grants) THEN Tick(n, cfg[n]) ELSE counters[n]]
  BY <1>1, Zenon DEF Generate
<1> QED
  BY <1>2, Zenon

LEMMA MoveAddrs ==
  ASSUME NEW cfg, NEW start, NEW takes, NEW gives, NEW grants,
         Move(cfg, start, takes, gives, grants), NEW m \in Movers, NEW c \in Channels
  PROVE  addrs'[m][c] = IF AddressFire(m, grants)
                        THEN Append(Rest(addrs[m][c], <<m, c>> \in grants), Address(m, cfg[m], c))
                        ELSE Rest(addrs[m][c], <<m, c>> \in grants)
<1>1. Generate(cfg, start, grants)
  BY Zenon DEF Move
<1>2. addrs' = [n \in Movers |-> [d \in Channels |->
                 IF AddressFire(n, grants)
                 THEN Append(Rest(addrs[n][d], <<n, d>> \in grants), Address(n, cfg[n], d))
                 ELSE Rest(addrs[n][d], <<n, d>> \in grants)]]
  BY <1>1, Zenon DEF Generate, Rest
<1> QED
  BY <1>2, Zenon

LEMMA MoveData ==
  ASSUME NEW cfg, NEW start, NEW takes, NEW gives, NEW grants,
         Move(cfg, start, takes, gives, grants), NEW m \in Movers, NEW c \in Channels
  PROVE  data'[m][c] = IF m \in Readers THEN Received(m, c, Popped(m, cfg[m], takes))
                       ELSE Sent(m, c, gives, grants)
<1>1. data' = [n \in Movers |-> [d \in Channels |->
                 IF n \in Readers THEN Received(n, d, Popped(n, cfg[n], takes))
                 ELSE Sent(n, d, gives, grants)]]
  BY Zenon DEF Move
<1> QED
  BY <1>1, Zenon

LEMMA MoveResponse ==
  ASSUME NEW cfg, NEW start, NEW takes, NEW gives, NEW grants,
         Move(cfg, start, takes, gives, grants), NEW m \in Readers, NEW c \in Channels
  PROVE  response'[m][c] = IF <<m, c>> \in grants THEN <<Head(addrs[m][c])>> ELSE <<>>
<1>1. response' = [n \in Readers |-> [d \in Channels |->
                      IF <<n, d>> \in grants THEN <<Head(addrs[n][d])>> ELSE <<>>]]
  BY Zenon DEF Move, Read
<1> QED
  BY <1>1, Zenon

LEMMA MoveCredit ==
  ASSUME NEW cfg, NEW start, NEW takes, NEW gives, NEW grants,
         Move(cfg, start, takes, gives, grants), NEW m \in Readers, NEW c \in Channels
  PROVE  credit'[m][c] = Credit(m, c, Popped(m, cfg[m], takes), grants)
<1>1. credit' = [n \in Readers |-> [d \in Channels |->
                      Credit(n, d, Popped(n, cfg[n], takes), grants)]]
  BY Zenon DEF Move, Read
<1> QED
  BY <1>1, Zenon

LEMMA MoveRepeat ==
  ASSUME NEW cfg, NEW start, NEW takes, NEW gives, NEW grants,
         Move(cfg, start, takes, gives, grants), NEW m \in Readers
  PROVE  repeat'[m] = Repeat(m, cfg[m], start, takes)
<1>1. repeat' = [n \in Readers |-> Repeat(n, cfg[n], start, takes)]
  BY Zenon DEF Move, Read
<1> QED
  BY <1>1, Zenon

LEMMA CycleParts ==
  ASSUME NEW steps, NEW takes, NEW grants, Cycle(steps, takes, grants)
  PROVE  /\ Move(csrCfgReg, delayedStartPulses, Takes(takes), Gives, grants)
         /\ grants \subseteq Requests(csrCfgReg, Takes(takes))
         /\ csrCfgReg' = csrCfgReg
         /\ state' = IF state = "sIDLE" THEN "sIDLE" ELSE IF streamer_finish THEN "sIDLE" ELSE "sBUSY"
         /\ haveStarted' = [m \in Delayed |->
                              IF state = "sBUSY" THEN haveStarted[m] \/ startCsr[m] ELSE FALSE]
         /\ Accelerate(takes, steps /\ Does("accelerate") /\ ~Running)
         /\ CoreSteps(steps)
         /\ stored' = stored \cup Stores(grants)
<1>1. ~streamer_config_fire(steps)
  BY Zenon DEF Cycle
<1>2. csrCfg(steps) = csrCfgReg
  BY <1>1, Zenon DEF csrCfg
<1>3. Starts(steps) = delayedStartPulses
  BY <1>1 DEF Starts
<1>4. /\ Move(csrCfg(steps), Starts(steps), Takes(takes), Gives, grants)
      /\ Control(steps) /\ CoreSteps(steps)
      /\ Accelerate(takes, steps /\ Does("accelerate") /\ ~Running)
      /\ stored' = IF streamer_config_fire(steps) THEN {} ELSE stored \cup Stores(grants)
      /\ grants \subseteq Requests(csrCfg(steps), Takes(takes))
  BY Zenon DEF Cycle, Clock
<1>5. /\ csrCfgReg' = csrCfgReg
      /\ state' = IF state = "sIDLE" THEN "sIDLE" ELSE IF streamer_finish THEN "sIDLE" ELSE "sBUSY"
      /\ haveStarted' = [m \in Delayed |->
                           IF state = "sBUSY" THEN haveStarted[m] \/ startCsr[m] ELSE FALSE]
  BY <1>1, <1>4, Zenon DEF Control
<1>6. stored' = stored \cup Stores(grants)
  BY <1>1, <1>4, Zenon
<1>7. Move(csrCfgReg, delayedStartPulses, Takes(takes), Gives, grants)
  BY <1>2, <1>3, <1>4, Zenon
<1>8. grants \subseteq Requests(csrCfgReg, Takes(takes))
  BY <1>2, <1>4, Zenon
<1> QED
  BY <1>4, <1>5, <1>6, <1>7, <1>8, Zenon

\* What is granted was requested.
LEMMA GrantFacts ==
  ASSUME NEW grants, NEW takers, grants \subseteq Requests(csrCfgReg, takers), NEW r \in grants
  PROVE  /\ r = <<r[1], r[2]>> /\ r[1] \in Movers /\ r[2] \in Channels
         /\ addrs[r[1]][r[2]] # <<>>
         /\ r[1] \in Readers =>
              credit[r[1]][r[2]] # DataDepth \/ Popped(r[1], csrCfgReg[r[1]], takers)
         /\ r[1] \notin Readers => data[r[1]][r[2]] # <<>>
<1>1. r \in Requests(csrCfgReg, takers)
  OBVIOUS
<1>2. r \in Movers \X Channels
  BY <1>1 DEF Requests
<1>3. /\ addrs[r[1]][r[2]] # <<>>
      /\ IF r[1] \in Readers THEN rspReady(r[1], r[2], csrCfgReg[r[1]], takers) ELSE data[r[1]][r[2]] # <<>>
  BY <1>1, Zenon DEF Requests
<1> QED
  BY <1>2, <1>3 DEF rspReady

\* The accelerator takes only what is offered, and not before it has given what it holds.
LEMMA TakeFacts ==
  ASSUME IInv, NEW takes, NEW m \in Takes(takes)
  PROVE  /\ m \in Readers /\ m \in Used(csrCfgReg)
         /\ acc.left # 0 /\ acc.out = <<>> /\ Running /\ ~AccPending
         /\ acc.job = csrCfgReg /\ state = "sBUSY"
         /\ Takes(takes) = UsedReaders(csrCfgReg)
         /\ \A r \in UsedReaders(csrCfgReg), c \in Channels : data[r][c] # <<>>
<1>1. takes /\ CanTake /\ Takes(takes) = UsedReaders(acc.job)
  BY Zenon DEF Takes
<1>2. /\ acc.left # 0 /\ acc.out = <<>> /\ Running
      /\ \A r \in UsedReaders(acc.job), c \in Channels : data[r][c] # <<>>
  BY <1>1 DEF CanTake, Running, OutValid
<1>3. acc.job = csrCfgReg /\ state = "sBUSY" /\ ~AccPending
  BY <1>2 DEF IInv, AccOK
<1> QED
  BY <1>1, <1>2, <1>3 DEF UsedReaders

-----------------------------------------------------------------------------
(* The generators, and the end of a job.                                   *)

LEMMA LoopPosition ==
  ASSUME NEW b1 \in Nat, NEW b2 \in Nat, NEW a \in Nat, NEW q \in Nat, a < b1, q < b2
  PROVE  /\ a + q * b1 \in Nat /\ a + q * b1 < b1 * b2
         /\ a = b1 - 1 => a + q * b1 + 1 = 0 + (q + 1) * b1
         /\ a = b1 - 1 /\ q = b2 - 1 => a + q * b1 + 1 = b1 * b2
<1>1. q * b1 \in Nat /\ b1 * b2 \in Nat /\ (q + 1) * b1 = q * b1 + b1
  OBVIOUS
<1>2. (q + 1) * b1 <= b2 * b1
  <2>1. q + 1 <= b2
    OBVIOUS
  <2> QED
    BY <2>1
<1>3. b2 * b1 = b1 * b2
  OBVIOUS
<1>4. q = b2 - 1 => (q + 1) * b1 = b1 * b2
  BY <1>3
<1> QED
  BY <1>1, <1>2, <1>3, <1>4

LEMMA ZeroOne == \A n \in Nat : n <= 1 => n \in {0, 1}
OBVIOUS

LEMMA GenFacts ==
  ASSUME JobsFit, IInv, NEW m \in Movers
  PROVE  /\ csrCfgReg[m] \in Cfgs
         /\ Gen(m) \in Nat /\ Gen(m) <= Total(m, csrCfgReg[m])
         /\ m \notin Used(csrCfgReg) => ~agu[m] /\ Gen(m) = 0
         /\ agu[m] => Gen(m) < Total(m, csrCfgReg[m])
<1>1. Fits(csrCfgReg) /\ csrCfgReg[m] \in Cfgs
  BY UsedFacts DEF IInv, CfgOK
<1> DEFINE b1 == Ceil(m, csrCfgReg[m])[1]
           b2 == Ceil(m, csrCfgReg[m])[2]
<1>2. b1 \in Nat /\ b2 \in Nat /\ Total(m, csrCfgReg[m]) = b1 * b2 /\ Total(m, csrCfgReg[m]) \in Nat
  BY <1>1, CeilFacts
<1>3. ASSUME agu[m] PROVE m \in Used(csrCfgReg) /\ Gen(m) \in Nat /\ Gen(m) < b1 * b2
  <2>1. counters[m][1] \in Nat /\ counters[m][2] \in Nat
    BY DEF IInv, Types
  <2>2. counters[m][1] < b1 /\ counters[m][2] < b2
    BY <1>3 DEF IInv, AguOK
  <2>3. b1 # 0 /\ b2 # 0
    BY <1>2, <2>1, <2>2
  <2>4. m \in Used(csrCfgReg)
    BY <1>1, <2>3, UsedFacts
  <2>5. Gen(m) = counters[m][1] + counters[m][2] * b1
    BY <1>3, Zenon DEF Gen
  <2> HIDE DEF b1, b2
  <2>6. /\ counters[m][1] + counters[m][2] * b1 \in Nat
        /\ counters[m][1] + counters[m][2] * b1 < b1 * b2
    BY <1>2, <2>1, <2>2, LoopPosition
  <2> QED
    BY <2>4, <2>5, <2>6
<1>4. ASSUME ~agu[m] PROVE Gen(m) = 0 \/ Gen(m) = Total(m, csrCfgReg[m])
  BY <1>4, Zenon DEF Gen
<1>5. m \notin Used(csrCfgReg) => Total(m, csrCfgReg[m]) = 0
  BY <1>1, UsedFacts
<1> QED
  BY <1>1, <1>2, <1>3, <1>4, <1>5

\* The lengths of the queues and what has left them.
LEMMA QueueFacts ==
  ASSUME JobsFit, IInv, NEW m \in Movers, NEW c \in Channels
  PROVE  /\ addrs[m][c] \in Seq(Items) /\ Len(addrs[m][c]) \in Nat
         /\ data[m][c] \in Seq(Items) /\ Len(data[m][c]) \in Nat
         /\ Granted(m, c) \in Nat /\ Granted(m, c) = Gen(m) - Len(addrs[m][c])
         /\ m \in Readers =>
              /\ response[m][c] \in Seq(Items) /\ Len(response[m][c]) \in Nat
              /\ Gone(m, c) \in Nat
              /\ Gone(m, c) = Gen(m) - Len(addrs[m][c]) - Len(response[m][c]) - Len(data[m][c])
<1>1. /\ addrs[m][c] \in Seq(Items) /\ Len(addrs[m][c]) \in Nat
      /\ data[m][c] \in Seq(Items) /\ Len(data[m][c]) \in Nat
  BY DEF IInv, Types
<1>2. Granted(m, c) = Gen(m) - Len(addrs[m][c]) /\ Granted(m, c) >= 0
  BY DEF IInv, AddrsOK, Granted
<1>3. Granted(m, c) \in Nat
  BY <1>1, <1>2, GenFacts
<1>4. ASSUME m \in Readers
      PROVE  /\ response[m][c] \in Seq(Items) /\ Len(response[m][c]) \in Nat
             /\ Gone(m, c) \in Nat
             /\ Gone(m, c) = Granted(m, c) - Len(response[m][c]) - Len(data[m][c])
  <2>1. Types /\ ReadersOK
    BY Zenon DEF IInv
  <2>2. response[m][c] \in Seq(Items)
    BY <1>4, <2>1 DEF Types
  <2>3. Len(response[m][c]) \in Nat
    BY <2>2
  <2>4. Gone(m, c) = Granted(m, c) - Len(response[m][c]) - Len(data[m][c])
    BY Zenon DEF Gone
  <2>5. Gone(m, c) >= 0
    BY <1>4, <2>1, Zenon DEF ReadersOK
  <2> QED
    BY <1>1, <1>3, <2>2, <2>3, <2>4, <2>5
<1>5. Gen(m) \in Nat
  BY GenFacts
<1>6. CASE m \in Readers
  BY <1>1, <1>2, <1>3, <1>4, <1>5, <1>6
<1> QED
  BY <1>1, <1>2, <1>3, <1>6

LEMMA TakenFacts ==
  ASSUME JobsFit, IInv
  PROVE  /\ N(csrCfgReg) \in Nat /\ acc.left \in Nat /\ acc.left <= N(csrCfgReg)
         /\ TakenWords \in Nat /\ TakenWords <= N(csrCfgReg)
         /\ acc.out \in Seq([Channels -> Items]) /\ Len(acc.out) \in {0, 1}
<1>1. N(csrCfgReg) \in Nat
  BY UsedFacts, TheWriter DEF IInv, CfgOK
<1>2. acc.left \in Nat /\ acc.left <= N(csrCfgReg)
  BY <1>1 DEF IInv, AccOK
<1>3. TakenWords \in Nat /\ TakenWords <= N(csrCfgReg)
  BY <1>1, <1>2 DEF TakenWords
<1>4. acc.out \in Seq([Channels -> Items]) /\ Len(acc.out) \in {0, 1}
  <2>1. acc.out \in Seq([Channels -> Items]) /\ Len(acc.out) <= 1
    BY Zenon DEF IInv, AccOK
  <2>2. Len(acc.out) \in Nat
    BY <2>1
  <2> QED
    BY <2>1, <2>2, ZeroOne, Zenon
<1> QED
  BY <1>1, <1>2, <1>3, <1>4

\* When no mover is busy any more, everything of the job has gone through.
LEMMA FinishFacts ==
  ASSUME JobsFit, IInv, state = "sBUSY", streamer_finish
  PROVE  /\ ~AccPending /\ ~Running
         /\ \A m \in Movers :
              /\ ~agu[m] /\ Gen(m) = Total(m, csrCfgReg[m])
              /\ \A c \in Channels : addrs[m][c] = <<>> /\ data[m][c] = <<>>
         /\ \A m \in Readers : repeat[m] = 0 /\ \A c \in Channels : response[m][c] = <<>>
<1>1. \A m \in Movers : ~agu[m] /\ \A c \in Channels : addrs[m][c] = <<>> /\ Len(addrs[m][c]) = 0
  BY DEF streamer_finish, Busy
<1>2. Fits(csrCfgReg) /\ W1 \in Used(csrCfgReg)
  BY TheWriter DEF IInv, CfgOK
<1>3. N(csrCfgReg) # 0 /\ N(csrCfgReg) = Total(W1, csrCfgReg[W1])
  BY <1>2, UsedFacts, TheWriter
<1>4. Gen(W1) = N(csrCfgReg)
  <2>1. ~agu[W1] /\ ~Waits(W1)
    BY <1>1, TheWriter DEF Waits
  <2> QED
    BY <1>3, <2>1, Zenon DEF Gen
<1>5. \A c \in Channels : /\ Granted(W1, c) = N(csrCfgReg)
                          /\ Granted(W1, c) = TakenWords - Len(acc.out) - Len(data[W1][c])
  <2> TAKE c \in Channels
  <2>1. Granted(W1, c) = TakenWords - Len(acc.out) - Len(data[W1][c])
    BY TheWriter, Zenon DEF IInv, WriterOK
  <2>2. Len(addrs[W1][c]) = 0
    BY <1>1, TheWriter
  <2>3. N(csrCfgReg) - 0 = N(csrCfgReg)
    BY TakenFacts
  <2> QED
    BY <1>4, <2>1, <2>2, <2>3, Zenon DEF Granted
<1>6. TakenWords = N(csrCfgReg) /\ acc.out = <<>> /\ \A c \in Channels : data[W1][c] = <<>>
  <2>1. PICK c0 \in Channels : TRUE
    BY DEF JobsFit
  <2>2. TakenWords = N(csrCfgReg) /\ Len(acc.out) = 0
    BY <1>5, <2>1, QueueFacts, TakenFacts, TheWriter
  <2>3. acc.out = <<>>
    BY <2>2, TakenFacts
  <2>4. ASSUME NEW c \in Channels PROVE data[W1][c] = <<>>
    <3>1. Len(data[W1][c]) = 0
      BY <1>5, <2>2, QueueFacts, TakenFacts, TheWriter
    <3> QED
      BY <3>1, QueueFacts, TheWriter
  <2> QED
    BY <2>2, <2>3, <2>4
<1>7. ~AccPending /\ ~Running
  <2>1. ~AccPending
    BY <1>3, <1>6 DEF TakenWords
  <2>2. acc.left = 0
    BY <1>6, <2>1, TakenFacts DEF TakenWords
  <2> QED
    BY <1>6, <2>1, <2>2 DEF Running
<1>8. ASSUME NEW m \in Readers
      PROVE  /\ Gen(m) = Total(m, csrCfgReg[m]) /\ repeat[m] = 0
             /\ \A c \in Channels : data[m][c] = <<>> /\ response[m][c] = <<>>
  <2>0. m \in Movers
    BY TheWriter
  <2>1. CASE m \in Used(csrCfgReg)
    <3> DEFINE R == repeat_times(csrCfgReg[m])
               S == Total(m, csrCfgReg[m])
    <3>1. R \in Nat /\ R # 0 /\ S \in Nat /\ S * R = N(csrCfgReg)
      BY <1>2, <2>0, <2>1, UsedFacts, CeilFacts
    <3>2. repeat[m] \in Nat /\ repeat[m] < R
      BY <2>1 DEF IInv, Types, RepeatsOK
    <3>3. ASSUME NEW c \in Channels
          PROVE  /\ Gone(m, c) = S /\ repeat[m] = 0 /\ Gen(m) = S
                 /\ data[m][c] = <<>> /\ response[m][c] = <<>>
      <4>1. N(csrCfgReg) = repeat[m] + R * Gone(m, c)
        BY <1>6, <2>1 DEF IInv, RepeatsOK
      <4>2. Gone(m, c) \in Nat /\ Gone(m, c) <= S
        <5> DEFINE g == Gen(m)
                   a == Len(addrs[m][c])
                   r == Len(response[m][c])
                   d == Len(data[m][c])
                   o == Gone(m, c)
        <5>1. o = g - a - r - d
          BY <2>0, QueueFacts
        <5>2. /\ o \in Nat /\ a \in Nat
              /\ r \in Nat /\ d \in Nat
          BY <2>0, QueueFacts
        <5>3. g \in Nat /\ g <= S
          BY <2>0, GenFacts
        <5> HIDE DEF S
        <5> HIDE DEF a, r, d, g, o
        <5>4. o \in Nat /\ o <= S
          BY <3>1, <5>1, <5>2, <5>3
        <5> QED
          BY <5>4 DEF o
      <4> HIDE DEF R, S
      <4>3. Gone(m, c) = S
        <5>1. SUFFICES ASSUME Gone(m, c) + 1 <= S PROVE FALSE
          BY <3>1, <4>2
        <5>2. R * (Gone(m, c) + 1) <= R * S
          BY <3>1, <4>2, <5>1
        <5>3. R * (Gone(m, c) + 1) = R * Gone(m, c) + R /\ R * S = S * R
          BY <3>1, <4>2
        <5>4. R * Gone(m, c) \in Nat
          BY <3>1, <4>2
        <5> QED
          BY <3>1, <3>2, <4>1, <5>2, <5>3, <5>4, TakenFacts
      <4>4. R * Gone(m, c) = S * R
        BY <3>1, <4>3
      <4>5. repeat[m] = 0
        BY <3>1, <3>2, <4>1, <4>4, TakenFacts
      <4>6. Gen(m) = S /\ Len(data[m][c]) = 0 /\ Len(response[m][c]) = 0
        <5> DEFINE g == Gen(m)
                   a == Len(addrs[m][c])
                   r == Len(response[m][c])
                   d == Len(data[m][c])
                   o == Gone(m, c)
        <5>1. o = g - a - r - d
          BY <2>0, QueueFacts
        <5>2. a \in Nat /\ r \in Nat /\ d \in Nat
          BY <2>0, QueueFacts
        <5>3. g \in Nat /\ g <= S
          BY <2>0, GenFacts DEF S
        <5>4. o = S
          BY <4>3
        <5> HIDE DEF a, r, d, g, o
        <5>5. g = S /\ d = 0 /\ r = 0
          BY <3>1, <5>1, <5>2, <5>3, <5>4
        <5> QED
          BY <5>5 DEF g, d, r
      <4>7. data[m][c] = <<>> /\ response[m][c] = <<>>
        BY <2>0, <4>6, QueueFacts
      <4> QED
        BY <4>3, <4>5, <4>6, <4>7
    <3>4. PICK c0 \in Channels : TRUE
      BY DEF JobsFit
    <3> QED
      BY <3>3, <3>4
  <2>2. CASE m \notin Used(csrCfgReg)
    <3>1. Gen(m) = 0 /\ Total(m, csrCfgReg[m]) = 0 /\ repeat[m] = 0
      BY <1>2, <2>0, <2>2, GenFacts, UsedFacts DEF IInv, RepeatsOK
    <3>2. ASSUME NEW c \in Channels PROVE Len(data[m][c]) = 0 /\ Len(response[m][c]) = 0
      <4> DEFINE g == Gen(m)
                 a == Len(addrs[m][c])
                 r == Len(response[m][c])
                 d == Len(data[m][c])
                 o == Gone(m, c)
      <4>1. o = g - a - r - d
        BY <2>0, QueueFacts
      <4>2. o \in Nat /\ a \in Nat /\ r \in Nat /\ d \in Nat
        BY <2>0, QueueFacts
      <4>3. g = 0
        BY <3>1
      <4> HIDE DEF a, r, d, g, o
      <4>4. d = 0 /\ r = 0
        BY <4>1, <4>2, <4>3
      <4> QED
        BY <4>4 DEF d, r
    <3>3. \A c \in Channels : data[m][c] = <<>> /\ response[m][c] = <<>>
      BY <2>0, <3>2, QueueFacts
    <3> QED
      BY <3>1, <3>3
  <2> QED
    BY <2>1, <2>2
<1>9. \A m \in Movers : m \in Readers \/ m = W1
  BY TheWriter
<1> QED
  BY <1>1, <1>3, <1>4, <1>6, <1>7, <1>8, <1>9

\* In a cycle in which no job starts each generator adds the next address or none.
LEMMA GenStep ==
  ASSUME JobsFit, IInv, NEW steps, NEW takes, NEW grants, Cycle(steps, takes, grants),
         NEW m \in Movers
  PROVE  /\ Gen(m)' = Gen(m) + Bit(AddressFire(m, grants))
         /\ agu'[m] \in BOOLEAN /\ counters'[m] \in Nat \X Nat
         /\ agu'[m] =>
              /\ state' = "sBUSY" /\ (m \in Delayed => haveStarted'[m])
              /\ counters'[m][1] < Ceil(m, csrCfgReg[m])[1]
              /\ counters'[m][2] < Ceil(m, csrCfgReg[m])[2]
         /\ m \in delayedStartPulses => m \in Used(csrCfgReg) /\ Gen(m) = 0
         /\ AddressFire(m, grants) => \A c \in Channels :
              /\ Address(m, csrCfgReg[m], c) = AddressOf(m, csrCfgReg[m], c)[Gen(m)]
              /\ Address(m, csrCfgReg[m], c) \in Items
<1> DEFINE cfg == csrCfgReg[m]
           b1 == Ceil(m, cfg)[1]
           b2 == Ceil(m, cfg)[2]
           F == AddressFire(m, grants)
           c1 == counters[m][1]
           c2 == counters[m][2]
<1>1. /\ agu'[m] = IF m \in delayedStartPulses /\ \A i \in {1, 2} : Ceil(m, cfg)[i] # 0 THEN TRUE
                   ELSE agu[m] /\ ~(F /\ InnerLast(m, cfg) /\ OuterLast(m, cfg))
      /\ counters'[m] = IF m \in delayedStartPulses THEN <<0, 0>>
                        ELSE IF F THEN Tick(m, cfg) ELSE counters[m]
  <2>1. Move(csrCfgReg, delayedStartPulses, Takes(takes), Gives, grants)
    BY CycleParts, Zenon
  <2> QED
    BY <2>1, MoveGenerator, Zenon
<1>2. csrCfgReg' = csrCfgReg
  BY CycleParts, Zenon
<1>3. /\ cfg \in Cfgs /\ b1 \in Nat /\ b2 \in Nat /\ Total(m, cfg) = b1 * b2
      /\ Fits(csrCfgReg)
  BY GenFacts, CeilFacts DEF IInv, CfgOK
<1>4. c1 \in Nat /\ c2 \in Nat /\ counters[m] \in Nat \X Nat /\ agu[m] \in BOOLEAN
      /\ counters[m] = <<c1, c2>>
  BY DEF IInv, Types
<1>5. agu[m] =>
        /\ state = "sBUSY" /\ (m \in Delayed => haveStarted[m])
        /\ c1 < b1 /\ c2 < b2
  BY Zenon DEF IInv, AguOK
<1>6. state' = IF state = "sIDLE" THEN "sIDLE" ELSE IF streamer_finish THEN "sIDLE" ELSE "sBUSY"
  BY CycleParts, Zenon
<1>7. state \in {"sIDLE", "sBUSY"}
  BY DEF IInv, Types
<1>8. m \in Delayed => haveStarted'[m] = IF state = "sBUSY" THEN haveStarted[m] \/ startCsr[m] ELSE FALSE
  BY CycleParts, Zenon
<1>9. /\ Gen(m) = IF agu[m] THEN c1 + c2 * b1 ELSE IF Waits(m) THEN 0 ELSE Total(m, cfg)
      /\ Gen(m)' = IF agu'[m] THEN counters'[m][1] + counters'[m][2] * b1
                   ELSE IF Waits(m)' THEN 0 ELSE Total(m, cfg)
  BY <1>2, Zenon DEF Gen
<1>10. /\ Waits(m) <=> m \in Delayed /\ state = "sBUSY" /\ ~haveStarted[m]
       /\ Waits(m)' <=> m \in Delayed /\ state' = "sBUSY" /\ ~haveStarted'[m]
  BY Zenon DEF Waits
<1>11. F => agu[m]
  BY DEF AddressFire
<1>12. Gen(m) \in Nat /\ Total(m, cfg) \in Nat
  BY GenFacts, CeilFacts
<1>13. m \in delayedStartPulses <=> m \in Delayed /\ startCsr[m] /\ ~haveStarted[m] /\ state = "sBUSY"
  BY DEF delayedStartPulses
<1>14. ASSUME F, NEW c \in Channels
       PROVE  /\ Address(m, cfg, c) = AddressOf(m, cfg, c)[Gen(m)]
              /\ Address(m, cfg, c) \in Items
  <2>1. Address(m, cfg, c) = cfg.ptr + c1 * cfg.strides[1] + c2 * cfg.strides[2] + c
    BY Zenon DEF Address
  <2>2. c1 < b1 /\ Gen(m) = c1 + c2 * b1
    BY <1>5, <1>9, <1>11, <1>14
  <2>3. /\ AddressOf(m, cfg, c)[c1 + c2 * b1] = cfg.ptr + c1 * cfg.strides[1] + c2 * cfg.strides[2] + c
        /\ cfg.ptr + c1 * cfg.strides[1] + c2 * cfg.strides[2] + c \in Int
    BY <1>3, <1>4, <2>2, AddressAt
  <2> QED
    BY <2>1, <2>2, <2>3, Zenon DEF Items
<1>15. CASE m \in delayedStartPulses
  <2>1. /\ m \in Delayed /\ startCsr[m] /\ ~haveStarted[m] /\ state = "sBUSY" /\ m \notin Writers
    BY <1>13, <1>15, TheWriter
  <2>2. ~agu[m] /\ Waits(m) /\ Gen(m) = 0 /\ ~F
    BY <1>5, <1>9, <1>10, <1>11, <2>1, Zenon
  <2>3. m \in Used(csrCfgReg)
    BY <2>1, Zenon DEF IInv, CoreOK
  <2>4. b1 # 0 /\ b2 # 0 /\ Total(m, cfg) # 0
    BY <1>3, <2>3, UsedFacts
  <2>5. ~streamer_finish
    BY <2>1, <2>2, <2>4, FinishFacts
  <2>6. state' = "sBUSY" /\ haveStarted'[m]
    BY <1>6, <1>8, <2>1, <2>5
  <2>7. agu'[m] /\ counters'[m] = <<0, 0>>
    <3>1. \A i \in {1, 2} : Ceil(m, cfg)[i] # 0
      BY <2>4
    <3> QED
      BY <1>1, <1>15, <3>1, Zenon
  <2>8. Gen(m)' = 0 /\ counters'[m][1] = 0 /\ counters'[m][2] = 0
    <3>1. counters'[m][1] = 0 /\ counters'[m][2] = 0
      BY <2>7
    <3>2. Gen(m)' = 0 + 0 * b1
      BY <1>9, <2>7, <3>1, Zenon
    <3> HIDE DEF b1
    <3> QED
      BY <1>3, <3>1, <3>2
  <2>9. Bit(F) = 0
    BY <2>2 DEF Bit
  <2>10. 0 < b1 /\ 0 < b2
    BY <1>3, <2>4
  <2>11. counters'[m] \in Nat \X Nat
    BY <2>7
  <2>12. agu'[m] \in BOOLEAN
    BY <2>7, Zenon
  <2> QED
    BY <2>2, <2>3, <2>6, <2>8, <2>9, <2>10, <2>11, <2>12, <1>14
<1>16. CASE m \notin delayedStartPulses /\ agu[m]
  <2>1. state = "sBUSY" /\ c1 < b1 /\ c2 < b2 /\ (m \in Delayed => haveStarted[m])
    BY <1>5, <1>16
  <2>2. ~streamer_finish
    BY <1>16 DEF streamer_finish, Busy
  <2>3. state' = "sBUSY" /\ (m \in Delayed => haveStarted'[m]) /\ ~Waits(m)'
    BY <1>6, <1>8, <1>10, <2>1, <2>2, Zenon
  <2>4. Gen(m) = c1 + c2 * b1
    BY <1>9, <1>16, Zenon
  <2>5. agu'[m] = ~(F /\ InnerLast(m, cfg) /\ OuterLast(m, cfg))
        /\ counters'[m] = IF F THEN Tick(m, cfg) ELSE counters[m]
    BY <1>1, <1>16, Zenon
  <2>6. /\ InnerLast(m, cfg) <=> c1 = b1 - 1
        /\ OuterLast(m, cfg) <=> c2 = b2 - 1
    BY Zenon DEF InnerLast, OuterLast
  <2>7. /\ Tick(m, cfg) = IF c1 = b1 - 1 THEN <<0, IF c2 = b2 - 1 THEN 0 ELSE c2 + 1>> ELSE <<c1 + 1, c2>>
    BY <2>6, Zenon DEF Tick
  <2>8. agu'[m] \in BOOLEAN
    BY <2>5, Zenon
  <2>9. CASE ~F
    <3>1. counters'[m] = counters[m] /\ agu'[m]
      BY <2>5, <2>9, Zenon
    <3>2. Gen(m)' = Gen(m)
      BY <1>9, <2>4, <3>1, Zenon
    <3>3. Gen(m) + Bit(F) = Gen(m)
      BY <1>12, <2>9 DEF Bit
    <3> QED
      BY <1>4, <1>14, <1>16, <2>1, <2>3, <2>8, <3>1, <3>2, <3>3
  <2>10. CASE F
    <3>1. Gen(m) + Bit(F) = c1 + c2 * b1 + 1
      BY <2>4, <2>10 DEF Bit
    <3>2. counters'[m] = Tick(m, cfg)
      BY <2>5, <2>10, Zenon
    <3>3. CASE c1 = b1 - 1 /\ c2 = b2 - 1
      <4>1. ~agu'[m]
        BY <2>5, <2>6, <2>10, <3>3, Zenon
      <4>2. Gen(m)' = b1 * b2
        BY <1>3, <1>9, <2>3, <4>1, Zenon
      <4>3. c1 + c2 * b1 + 1 = b1 * b2
        BY <1>3, <1>4, <2>1, <3>3, LoopPosition
      <4>4. counters'[m] \in Nat \X Nat
        BY <2>7, <3>2, <3>3
      <4> QED
        BY <1>14, <1>16, <2>8, <3>1, <4>1, <4>2, <4>3, <4>4
    <3>4. CASE c1 = b1 - 1 /\ c2 # b2 - 1
      <4>1. agu'[m]
        BY <2>5, <2>6, <3>4, Zenon
      <4>2. counters'[m] = <<0, c2 + 1>>
        BY <2>7, <3>2, <3>4, Zenon
      <4>3. counters'[m][1] = 0 /\ counters'[m][2] = c2 + 1 /\ counters'[m] \in Nat \X Nat
        BY <1>4, <4>2
      <4>4. Gen(m)' = 0 + (c2 + 1) * b1
        BY <1>9, <4>1, <4>3, Zenon
      <4>5. c1 + c2 * b1 + 1 = 0 + (c2 + 1) * b1
        <5>1. c1 = b1 - 1
          BY <3>4
        <5>2. b1 \in Nat /\ b2 \in Nat /\ c1 \in Nat /\ c2 \in Nat /\ c1 < b1 /\ c2 < b2
          BY <1>3, <1>4, <2>1
        <5> HIDE DEF b1, b2, c1, c2
        <5> QED
          BY <5>1, <5>2, LoopPosition
      <4>6. 0 < b1 /\ c2 + 1 < b2
        BY <1>3, <1>4, <2>1, <3>4
      <4> QED
        BY <1>14, <1>16, <2>3, <2>8, <3>1, <4>3, <4>4, <4>5, <4>6
    <3>5. CASE c1 # b1 - 1
      <4>1. agu'[m]
        BY <2>5, <2>6, <3>5, Zenon
      <4>2. counters'[m] = <<c1 + 1, c2>>
        BY <2>7, <3>2, <3>5, Zenon
      <4>3. counters'[m][1] = c1 + 1 /\ counters'[m][2] = c2 /\ counters'[m] \in Nat \X Nat
        BY <1>4, <4>2
      <4>4. Gen(m)' = (c1 + 1) + c2 * b1
        BY <1>9, <4>1, <4>3, Zenon
      <4>5. (c1 + 1) + c2 * b1 = c1 + c2 * b1 + 1
        BY <1>3, <1>4
      <4>6. c1 + 1 < b1 /\ c2 < b2
        BY <1>3, <1>4, <2>1, <3>5
      <4> QED
        BY <1>14, <1>16, <2>3, <2>8, <3>1, <4>3, <4>4, <4>5, <4>6
    <3> QED
      BY <3>3, <3>4, <3>5
  <2> QED
    BY <2>9, <2>10
<1>17. CASE m \notin delayedStartPulses /\ ~agu[m]
  <2>1. ~agu'[m] /\ ~F /\ counters'[m] = counters[m]
    BY <1>1, <1>11, <1>17, Zenon
  <2>2. Gen(m) = IF Waits(m) THEN 0 ELSE Total(m, cfg)
    BY <1>9, <1>17, Zenon
  <2>3. Gen(m)' = IF Waits(m)' THEN 0 ELSE Total(m, cfg)
    BY <1>9, <2>1, Zenon
  <2>4. Gen(m)' = Gen(m)
    <3>1. CASE state = "sIDLE"
      <4>1. ~Waits(m) /\ ~Waits(m)'
        BY <1>6, <1>10, <3>1
      <4> QED
        BY <2>2, <2>3, <4>1, Zenon
    <3>2. CASE state = "sBUSY" /\ streamer_finish
      <4>1. ~Waits(m)'
        BY <1>6, <1>10, <3>2
      <4>2. Gen(m) = Total(m, cfg)
        BY <3>2, FinishFacts
      <4> QED
        BY <2>3, <4>1, <4>2, Zenon
    <3>3. CASE state = "sBUSY" /\ ~streamer_finish
      <4>1. state' = "sBUSY"
        BY <1>6, <3>3
      <4>2. m \in Delayed => haveStarted'[m] = (haveStarted[m] \/ startCsr[m])
        BY <1>8, <3>3, Zenon
      <4>3. Waits(m) <=> Waits(m)'
        BY <1>10, <1>13, <1>17, <3>3, <4>1, <4>2, Zenon
      <4> QED
        BY <2>2, <2>3, <4>3, Zenon
    <3> QED
      BY <1>7, <3>1, <3>2, <3>3
  <2>5. Gen(m) + Bit(F) = Gen(m)
    BY <1>12, <2>1 DEF Bit
  <2>6. agu'[m] \in BOOLEAN
    BY <2>1, <1>1, <1>17, Zenon
  <2> QED
    BY <1>4, <1>14, <1>17, <2>1, <2>4, <2>5, <2>6
<1> QED
  BY <1>4, <1>15, <1>16, <1>17, Zenon

-----------------------------------------------------------------------------
(* The queues in a cycle in which no job starts.                           *)

LEMMA BitFacts == \A b \in BOOLEAN : Bit(b) \in {0, 1} /\ (b => Bit(b) = 1) /\ (~b => Bit(b) = 0)
BY DEF Bit

\* A queue from which the first is taken, and to which the next of the stream is added.
LEMMA QueueStep ==
  ASSUME NEW S, NEW q \in Seq(S), NEW f, NEW i \in Int, NEW g \in BOOLEAN, NEW b \in BOOLEAN, NEW x,
         Segment(q, f, i), g => q # <<>>, b => x = f[i + Len(q)] /\ x \in S
  PROVE  /\ (IF b THEN Append(Rest(q, g), x) ELSE Rest(q, g)) \in Seq(S)
         /\ Len(IF b THEN Append(Rest(q, g), x) ELSE Rest(q, g)) = Len(q) - Bit(g) + Bit(b)
         /\ Segment(IF b THEN Append(Rest(q, g), x) ELSE Rest(q, g), f, i + Bit(g))
<1>1. Rest(q, g) \in Seq(S) /\ Len(Rest(q, g)) = Len(q) - Bit(g) /\ Segment(Rest(q, g), f, i + Bit(g))
  BY SegmentRest DEF Rest, Bit
<1>2. Len(q) \in Nat /\ Bit(g) \in Int /\ i + Bit(g) \in Int
  BY BitFacts
<1>3. CASE b
  <2>1. (i + Bit(g)) + Len(Rest(q, g)) = i + Len(q)
    BY <1>1, <1>2
  <2>2. x \in S /\ x = f[(i + Bit(g)) + Len(Rest(q, g))]
    BY <1>3, <2>1
  <2> DEFINE r == Rest(q, g)
             j == i + Bit(g)
  <2>3. r \in Seq(S) /\ j \in Int /\ Segment(r, f, j) /\ x \in S /\ x = f[j + Len(r)]
    BY <1>1, <1>2, <2>2
  <2> HIDE DEF r, j
  <2>4. Append(r, x) \in Seq(S) /\ Len(Append(r, x)) = Len(r) + 1 /\ Segment(Append(r, x), f, j)
    BY <2>3, SegmentAppend
  <2>5. Len(r) + 1 = Len(q) - Bit(g) + Bit(b)
    BY <1>1, <1>2, <1>3 DEF Bit, r
  <2> QED
    BY <1>3, <2>4, <2>5 DEF r, j
<1>4. CASE ~b
  <2>1. Len(q) - Bit(g) + Bit(b) = Len(q) - Bit(g)
    BY <1>2, <1>4 DEF Bit
  <2> QED
    BY <1>1, <1>4, <2>1
<1> QED
  BY <1>3, <1>4

LEMMA AddrsStep ==
  ASSUME JobsFit, IInv, NEW steps, NEW takes, NEW grants, Cycle(steps, takes, grants),
         NEW m \in Movers, NEW c \in Channels
  PROVE  /\ addrs'[m][c] \in Seq(Items)
         /\ Granted(m, c)' = Granted(m, c) + Bit(<<m, c>> \in grants)
         /\ Granted(m, c)' \in Nat
         /\ Segment(addrs'[m][c], AddressOf(m, csrCfgReg[m], c), Granted(m, c)')
         /\ <<m, c>> \in grants =>
              /\ addrs[m][c] # <<>> /\ Head(addrs[m][c]) \in Items
              /\ Head(addrs[m][c]) = AddressOf(m, csrCfgReg[m], c)[Granted(m, c)]
<1> DEFINE q == addrs[m][c]
           f == AddressOf(m, csrCfgReg[m], c)
           i == Granted(m, c)
           g == <<m, c>> \in grants
           b == AddressFire(m, grants)
           x == Address(m, csrCfgReg[m], c)
           t == addrs'[m][c]
<1>0. Move(csrCfgReg, delayedStartPulses, Takes(takes), Gives, grants)
  BY CycleParts, Zenon
<1>1. grants \subseteq Requests(csrCfgReg, Takes(takes))
  BY CycleParts, Zenon
<1>2. t = IF b THEN Append(Rest(q, g), x) ELSE Rest(q, g)
  BY <1>0, MoveAddrs, Zenon
<1>3. q \in Seq(Items) /\ Len(q) \in Nat /\ i \in Nat /\ i = Gen(m) - Len(q) /\ Gen(m) \in Nat
  BY QueueFacts, GenFacts
<1>4. Segment(q, f, i)
  BY Zenon DEF IInv, AddrsOK
<1>5. g => q # <<>>
  BY <1>1, GrantFacts
<1>6. b => x = f[Gen(m)] /\ x \in Items
  BY GenStep, Zenon
<1>7. g \in BOOLEAN
  OBVIOUS
<1>8. b \in BOOLEAN
  BY Zenon DEF AddressFire
<1>9. Gen(m)' = Gen(m) + Bit(b)
  BY GenStep, Zenon
<1>10. Granted(m, c)' = Gen(m)' - Len(t)
  BY Zenon DEF Granted
<1>11. Bit(g) \in {0, 1} /\ Bit(b) \in {0, 1} /\ (g => Bit(g) = 1)
  BY <1>7, <1>8, BitFacts
<1> HIDE DEF q, f, i, g, b, x, t
<1>12. i + Len(q) = Gen(m)
  BY <1>3
<1>13. b => x = f[i + Len(q)] /\ x \in Items
  BY <1>6, <1>12, Zenon
<1>14. /\ t \in Seq(Items)
       /\ Len(t) = Len(q) - Bit(g) + Bit(b)
       /\ Segment(t, f, i + Bit(g))
  BY <1>2, <1>3, <1>4, <1>5, <1>7, <1>8, <1>13, QueueStep
<1>15. Granted(m, c)' = i + Bit(g) /\ Granted(m, c)' \in Nat
  BY <1>3, <1>9, <1>10, <1>11, <1>14
<1>16. g => Head(q) \in Items /\ Head(q) = f[i]
  BY <1>3, <1>4, <1>5, SegmentTail
<1> QED
  BY <1>5, <1>14, <1>15, <1>16, Zenon DEF q, f, i, g, t

LEMMA ReaderStep ==
  ASSUME JobsFit, IInv, NEW steps, NEW takes, NEW grants, Cycle(steps, takes, grants),
         NEW m \in Readers, NEW c \in Channels
  PROVE  /\ data'[m][c] \in Seq(Items) /\ response'[m][c] \in Seq(Items) /\ credit'[m][c] \in Int
         /\ Len(response'[m][c]) <= 1
         /\ credit'[m][c] = Len(response'[m][c]) + Len(data'[m][c])
         /\ credit'[m][c] <= DataDepth
         /\ Gone(m, c)' = Gone(m, c) + Bit(Popped(m, csrCfgReg[m], Takes(takes)))
         /\ Gone(m, c)' \in Nat
         /\ Segment(data'[m][c], AddressOf(m, csrCfgReg[m], c), Gone(m, c)')
         /\ Segment(response'[m][c], AddressOf(m, csrCfgReg[m], c), Gone(m, c)' + Len(data'[m][c]))
         /\ ~Popped(m, csrCfgReg[m], Takes(takes)) /\ data[m][c] # <<>> => data'[m][c] # <<>>
<1> DEFINE q == data[m][c]
           r == response[m][c]
           a == addrs[m][c]
           k == credit[m][c]
           f == AddressOf(m, csrCfgReg[m], c)
           i == Gone(m, c)
           g == <<m, c>> \in grants
           p == Popped(m, csrCfgReg[m], Takes(takes))
           q1 == data'[m][c]
           r1 == response'[m][c]
           k1 == credit'[m][c]
<1>0. Move(csrCfgReg, delayedStartPulses, Takes(takes), Gives, grants)
  BY CycleParts, Zenon
<1>1. grants \subseteq Requests(csrCfgReg, Takes(takes))
  BY CycleParts, Zenon
<1>2. m \in Movers
  BY TheWriter
<1>3. /\ q1 = IF Len(q) < DataDepth \/ p THEN Rest(q, p) \o r ELSE Rest(q, p)
      /\ r1 = IF g THEN <<Head(a)>> ELSE <<>>
      /\ k1 = IF p = g THEN k ELSE IF p THEN k - 1 ELSE k + 1
  <2>1. q1 = Received(m, c, p)
    BY <1>0, <1>2, MoveData, Zenon
  <2>2. k1 = Credit(m, c, p, grants)
    BY <1>0, MoveCredit
  <2>3. r1 = IF g THEN <<Head(a)>> ELSE <<>>
    BY <1>0, MoveResponse
  <2> QED
    BY <2>1, <2>2, <2>3, Zenon DEF Received, Credit, Rest
<1>4. /\ q \in Seq(Items) /\ Len(q) \in Nat /\ r \in Seq(Items) /\ Len(r) \in Nat /\ i \in Nat
      /\ i = Granted(m, c) - Len(r) - Len(q) /\ Granted(m, c) \in Nat
  <2>1. i = Granted(m, c) - Len(r) - Len(q)
    BY Zenon DEF Gone
  <2> QED
    BY <1>2, <2>1, QueueFacts
<1>5. Len(r) <= 1 /\ k = Len(r) + Len(q) /\ k <= DataDepth
  BY Zenon DEF IInv, ReadersOK
<1>6. Segment(q, f, i) /\ Segment(r, f, i + Len(q))
  BY Zenon DEF IInv, ReadersOK
<1>7. p \in BOOLEAN /\ g \in BOOLEAN
  <2>1. p \in BOOLEAN
    BY Zenon DEF Popped
  <2>2. g \in BOOLEAN
    OBVIOUS
  <2> QED
    BY <2>1, <2>2, Zenon
<1>8. p => q # <<>>
  <2>1. p => m \in Takes(takes)
    BY Zenon DEF Popped
  <2> QED
    BY <2>1, TakeFacts DEF UsedReaders
<1>9. g => (k # DataDepth \/ p) /\ Head(a) \in Items /\ Head(a) = f[Granted(m, c)]
  <2>1. g => k # DataDepth \/ p
    <3> SUFFICES ASSUME g PROVE k # DataDepth \/ p
      OBVIOUS
    <3> DEFINE x == <<m, c>>
    <3>1. x \in grants /\ x[1] = m /\ x[2] = c
      OBVIOUS
    <3> HIDE DEF x
    <3> QED
      BY <1>1, <3>1, GrantFacts, Zenon
  <2>2. g => Head(a) \in Items /\ Head(a) = f[Granted(m, c)]
    BY <1>2, AddrsStep
  <2> QED
    BY <2>1, <2>2, Zenon
<1>10. Granted(m, c)' = Granted(m, c) + Bit(g)
  BY <1>2, AddrsStep, Zenon
<1>11. Gone(m, c)' = Granted(m, c)' - Len(r1) - Len(q1)
  BY Zenon DEF Gone
<1>12. Bit(g) \in {0, 1} /\ Bit(p) \in {0, 1} /\ (g => Bit(g) = 1) /\ (~g => Bit(g) = 0)
      /\ (p => Bit(p) = 1) /\ (~p => Bit(p) = 0)
  BY <1>7, BitFacts, Zenon
<1>13. DataDepth \in Nat
  BY DEF JobsFit
<1> HIDE DEF q, r, a, k, f, i, g, p, q1, r1, k1
<1>14. /\ Rest(q, p) \in Seq(Items) /\ Len(Rest(q, p)) = Len(q) - Bit(p)
       /\ Segment(Rest(q, p), f, i + Bit(p))
  BY <1>4, <1>6, <1>7, <1>8, SegmentRest DEF Rest, Bit
<1>15. q1 = Rest(q, p) \o r
  <2>1. CASE r = <<>>
    <3>1. Rest(q, p) \o r = Rest(q, p)
      BY <1>14, <2>1, ConcatEmptySeq
    <3> QED
      BY <1>3, <3>1, Zenon
  <2>2. CASE r # <<>>
    <3>1. Len(r) # 0
      BY <1>4, <2>2
    <3>2. Len(q) < DataDepth
      BY <1>4, <1>5, <1>13, <3>1
    <3> QED
      BY <1>3, <3>2, Zenon
  <2> QED
    BY <2>1, <2>2
<1>16. /\ q1 \in Seq(Items) /\ Len(q1) = Len(q) - Bit(p) + Len(r)
       /\ Segment(q1, f, i + Bit(p))
  <2> DEFINE t == Rest(q, p)
             j == i + Bit(p)
  <2>1. t \in Seq(Items) /\ j \in Int /\ Segment(t, f, j) /\ Len(t) = Len(q) - Bit(p) /\ q1 = t \o r
    BY <1>4, <1>12, <1>14, <1>15
  <2>2. j + Len(t) = i + Len(q)
    BY <1>4, <1>12, <2>1
  <2> HIDE DEF t, j
  <2>3. Segment(r, f, j + Len(t))
    BY <1>6, <2>2, Zenon
  <2>4. q1 \in Seq(Items) /\ Len(q1) = Len(t) + Len(r) /\ Segment(q1, f, j)
    BY <1>4, <2>1, <2>3, SegmentConcat
  <2> QED
    BY <2>1, <2>4 DEF j
<1>17. Len(r1) = Bit(g) /\ r1 \in Seq(Items)
  <2>1. CASE g
    <3>1. r1 = <<Head(a)>> /\ Bit(g) = 1 /\ Head(a) \in Items
      BY <1>3, <1>9, <1>12, <2>1, Zenon
    <3> QED
      BY <3>1
  <2>2. CASE ~g
    <3>1. r1 = <<>> /\ Bit(g) = 0
      BY <1>3, <1>12, <2>2, Zenon
    <3> QED
      BY <3>1
  <2> QED
    BY <2>1, <2>2
<1>18. Gone(m, c)' = i + Bit(p) /\ Gone(m, c)' \in Nat
  BY <1>4, <1>10, <1>11, <1>12, <1>16, <1>17
<1>19. (i + Bit(p)) + Len(q1) = Granted(m, c)
  BY <1>4, <1>12, <1>16
<1>20. Segment(r1, f, (i + Bit(p)) + Len(q1))
  <2>1. CASE g
    <3>1. r1 = <<Head(a)>> /\ Head(a) \in Items /\ Head(a) = f[Granted(m, c)]
      BY <1>3, <1>9, <2>1, Zenon
    <3>2. Granted(m, c) \in Int
      BY <1>4
    <3>3. Segment(<<Head(a)>>, f, Granted(m, c))
      BY <3>1, <3>2, SegmentOne
    <3> QED
      BY <1>19, <3>1, <3>3, Zenon
  <2>2. CASE ~g
    BY <1>3, <2>2, SegmentEmpty
  <2> QED
    BY <2>1, <2>2
<1>21. k1 = Len(r1) + Len(q1) /\ k1 <= DataDepth /\ k1 \in Int
  <2>0. k \in Nat
    BY <1>4, <1>5
  <2>1. CASE p /\ g
    <3>1. k1 = k /\ Bit(p) = 1 /\ Bit(g) = 1
      BY <1>3, <1>12, <2>1, Zenon
    <3> QED
      BY <1>4, <1>5, <1>13, <1>16, <1>17, <2>0, <3>1
  <2>2. CASE p /\ ~g
    <3>1. k1 = k - 1 /\ Bit(p) = 1 /\ Bit(g) = 0
      BY <1>3, <1>12, <2>2, Zenon
    <3> QED
      BY <1>4, <1>5, <1>13, <1>16, <1>17, <2>0, <3>1
  <2>3. CASE ~p /\ g
    <3>1. k1 = k + 1 /\ Bit(p) = 0 /\ Bit(g) = 1 /\ k # DataDepth
      BY <1>3, <1>9, <1>12, <2>3, Zenon
    <3> QED
      BY <1>4, <1>5, <1>13, <1>16, <1>17, <2>0, <3>1
  <2>4. CASE ~p /\ ~g
    <3>0. p = g
      BY <1>7, <2>4
    <3>1. k1 = k /\ Bit(p) = 0 /\ Bit(g) = 0
      BY <1>3, <1>12, <2>4, <3>0, Zenon
    <3> QED
      BY <1>4, <1>5, <1>13, <1>16, <1>17, <2>0, <3>1
  <2> QED
    BY <2>1, <2>2, <2>3, <2>4, Zenon
<1>22. ~p /\ q # <<>> => q1 # <<>>
  <2> SUFFICES ASSUME ~p, q # <<>> PROVE q1 # <<>>
    OBVIOUS
  <2>1. Len(q) # 0
    BY <1>4
  <2>2. Len(q1) # 0
    BY <1>4, <1>12, <1>16, <2>1
  <2> QED
    BY <2>2
<1>23. Len(r1) <= 1
  BY <1>12, <1>17
<1> QED
  BY <1>16, <1>17, <1>18, <1>20, <1>21, <1>22, <1>23, Zenon DEF q, f, i, p, q1, r1, k1

-----------------------------------------------------------------------------
(* The words that go through the accelerator.                              *)

LEMMA WordType ==
  ASSUME JobsFit, NEW cfg \in Cfgs, cfg.bounds[1] # 0, NEW i \in Nat, NEW c \in Channels
  PROVE  Word(cfg, i, c) \in Int
<1> DEFINE b == cfg.bounds[1]
           r == i % b
           d == i \div b
<1>1. b \in Nat /\ b > 0
  BY CeilFacts
<1>2. r \in Int /\ d \in Int
  <2> HIDE DEF b
  <2> QED
    BY <1>1
<1>3. Word(cfg, i, c) = cfg.ptr + r * cfg.strides[1] + d * cfg.strides[2] + c
  BY Zenon DEF Word
<1>4. cfg.ptr \in Int /\ cfg.strides[1] \in Int /\ cfg.strides[2] \in Int /\ c \in Int
  BY CeilFacts DEF JobsFit
<1> HIDE DEF r, d
<1>5. cfg.ptr + r * cfg.strides[1] + d * cfg.strides[2] + c \in Int
  BY <1>2, <1>4
<1> QED
  BY <1>3, <1>5, Zenon

LEMMA ResultType ==
  ASSUME JobsFit, NEW job, Fits(job), NEW i \in Nat, NEW c \in Channels
  PROVE  Result(job, i, c) \in Items
<1>1. UsedReaders(job) \subseteq Readers
  BY DEF UsedReaders
<1>2. ASSUME NEW m \in UsedReaders(job) PROVE Word(job[m], i, c) \in Int
  <2>1. m \in Movers /\ m \in Readers /\ m \in Used(job)
    BY <1>2 DEF UsedReaders, Used
  <2>2. job[m] \in Cfgs /\ Count(job[m]) # 0
    BY <2>1, UsedFacts DEF Used
  <2>3. job[m].bounds[1] # 0
    <3>1. job[m].bounds[1] * job[m].bounds[2] # 0
      BY <2>2, CeilFacts
    <3> QED
      BY <2>2, <3>1, CeilFacts, ProductNotZero
  <2> QED
    BY <2>2, <2>3, WordType
<1>3. Result(job, i, c) \in [UsedReaders(job) -> Int]
  BY <1>2 DEF Result
<1> QED
  BY <1>1, <1>3, Zenon DEF Items, Results

\* What a reader in use offers is the word the accelerator has to take next.
LEMMA OfferedRight ==
  ASSUME JobsFit, IInv, NEW m \in UsedReaders(csrCfgReg), NEW c \in Channels, data[m][c] # <<>>
  PROVE  Head(data[m][c]) = Word(csrCfgReg[m], TakenWords, c)
<1>1. m \in Readers /\ m \in Movers /\ m \in Used(csrCfgReg)
  BY DEF UsedReaders, Used
<1>2. csrCfgReg[m] \in Cfgs
  BY <1>1, GenFacts
<1>3. repeat[m] \in Nat /\ repeat[m] < repeat_times(csrCfgReg[m])
  BY <1>1 DEF IInv, Types, RepeatsOK
<1>4. TakenWords = repeat[m] + repeat_times(csrCfgReg[m]) * Gone(m, c)
  BY <1>1, Zenon DEF IInv, RepeatsOK
<1>5. Gone(m, c) \in Nat /\ data[m][c] \in Seq(Items)
  BY <1>1, QueueFacts
<1>6. Segment(data[m][c], AddressOf(m, csrCfgReg[m], c), Gone(m, c))
  BY <1>1, Zenon DEF IInv, ReadersOK
<1>7. Gone(m, c) \in Int
  BY <1>5
<1>8. Head(data[m][c]) = AddressOf(m, csrCfgReg[m], c)[Gone(m, c)]
  BY <1>5, <1>6, <1>7, SegmentTail
<1>9. Word(csrCfgReg[m], repeat[m] + repeat_times(csrCfgReg[m]) * Gone(m, c), c)
        = AddressOf(m, csrCfgReg[m], c)[Gone(m, c)]
  BY <1>1, <1>2, <1>3, <1>5, WordOfReader
<1> QED
  BY <1>4, <1>8, <1>9, Zenon

LEMMA CoreStep ==
  ASSUME JobsFit, IInv, NEW steps, NEW takes, NEW grants, Cycle(steps, takes, grants)
  PROVE  /\ CoreOK' /\ regs' \in [Movers -> Cfgs] /\ startCsr' \in [Delayed -> BOOLEAN]
         /\ steps /\ AccPending /\ ~Running => ~AccPending'
         /\ ~(steps /\ AccPending /\ ~Running) => (AccPending' <=> AccPending)
<1> DEFINE U == core.unset
           W == core.writes
           Goal == /\ CoreOK' /\ regs' \in [Movers -> Cfgs] /\ startCsr' \in [Delayed -> BOOLEAN]
                   /\ steps /\ AccPending /\ ~Running => ~AccPending'
                   /\ ~(steps /\ AccPending /\ ~Running) => (AccPending' <=> AccPending)
<1>1. CoreSteps(steps) /\ csrCfgReg' = csrCfgReg /\ ~streamer_config_fire(steps)
  BY CycleParts, Zenon DEF Cycle
<1>2. /\ DOMAIN core = {"job", "unset", "writes"}
      /\ core.job \in Jobs /\ W \in Writes
      /\ U # {} => W # <<>> /\ Head(W) = "start"
      /\ W = <<>> \/ Head(W) # "start" => csrCfgReg = core.job
      /\ \A m \in Movers \ U : regs[m] = core.job[m]
      /\ \A m \in Delayed : startCsr[m] => m \in Used(csrCfgReg) /\ W = <<"clear", "wait">>
  BY Zenon DEF IInv, CoreOK
<1>3. regs \in [Movers -> Cfgs] /\ startCsr \in [Delayed -> BOOLEAN] /\ state \in {"sIDLE", "sBUSY"}
  BY Zenon DEF IInv, Types
<1>4. core.job \in [Movers -> Cfgs]
  BY <1>2 DEF JobsFit, Fits
<1>5. AccPending <=> U = {} /\ W # <<>> /\ Head(W) = "accelerate"
  BY Zenon DEF AccPending, Does
<1>6. AccPending' <=> core'.unset = {} /\ core'.writes # <<>> /\ Head(core'.writes) = "accelerate"
  BY Zenon DEF AccPending, Does
<1>7. CoreOK' <=>
        /\ DOMAIN core' = {"job", "unset", "writes"}
        /\ core'.job \in Jobs /\ core'.writes \in Writes
        /\ core'.unset # {} => core'.writes # <<>> /\ Head(core'.writes) = "start"
        /\ core'.writes = <<>> \/ Head(core'.writes) # "start" => csrCfgReg = core'.job
        /\ \A m \in Movers \ core'.unset : regs'[m] = core'.job[m]
        /\ \A m \in Delayed : startCsr'[m] => m \in Used(csrCfgReg) /\ core'.writes = <<"clear", "wait">>
  BY <1>1, Zenon DEF CoreOK
<1>8. /\ Done.job = core.job /\ Done.unset = U /\ Done.writes = Tail(W)
      /\ DOMAIN Done = {"job", "unset", "writes"}
  BY <1>2 DEF Done
<1>9. W # <<>> =>
        /\ Tail(W) \in Writes
        /\ Head(W) = "start" => Tail(W) # <<>> /\ Head(Tail(W)) = "accelerate"
        /\ Head(W) # "start" => Tail(W) = <<>> \/ Head(Tail(W)) \notin {"start", "accelerate"}
        /\ Head(W) = "delayed" => Tail(W) = <<"clear", "wait">>
        /\ Head(W) = "clear" <=> W = <<"clear", "wait">>
        /\ Head(W) = "accelerate" => W # <<"clear", "wait">>
  BY <1>2, ProgramFacts
<1>10. ASSUME core' = core, regs' = regs, startCsr' = startCsr,
              ~(steps /\ AccPending /\ ~Running)
       PROVE  Goal
  BY <1>2, <1>3, <1>5, <1>6, <1>7, <1>10, Zenon
<1>11. ASSUME steps, W = <<>>, NEW job \in Jobs, core' = Plan(job), regs' = regs, startCsr' = startCsr
       PROVE  Goal
  <2>1. core' = [job |-> job, unset |-> Movers, writes |-> Program(job)]
    BY <1>11, Zenon DEF Plan
  <2>2. /\ DOMAIN core' = {"job", "unset", "writes"} /\ core'.job = job
        /\ core'.unset = Movers /\ core'.writes = Program(job)
    BY <2>1
  <2>3. Program(job) \in Writes /\ Program(job) # <<>> /\ Head(Program(job)) = "start"
    BY ProgramFacts
  <2>4. ~AccPending /\ ~AccPending'
    BY <1>5, <1>6, <1>11, <2>2, <2>3
  <2>5. \A m \in Delayed : ~startCsr'[m]
    BY <1>2, <1>11
  <2>6. \A m \in Movers \ core'.unset : FALSE
    BY <2>2
  <2>7. CoreOK'
    BY <1>7, <2>2, <2>3, <2>5, <2>6, Zenon
  <2> QED
    BY <1>3, <1>11, <2>4, <2>7, Zenon
<1>12. ASSUME steps, U # {}, NEW m \in U, core' = [core EXCEPT !.unset = @ \ {m}],
              regs' = [regs EXCEPT ![m] = core.job[m]], startCsr' = startCsr
       PROVE  Goal
  <2>1. /\ DOMAIN core' = {"job", "unset", "writes"} /\ core'.job = core.job
        /\ core'.unset = U \ {m} /\ core'.writes = W
    BY <1>2, <1>12
  <2>2. \A n \in Movers \ core'.unset : regs'[n] = core'.job[n]
    BY <1>2, <1>3, <1>12, <2>1
  <2>3. regs' \in [Movers -> Cfgs]
    BY <1>3, <1>4, <1>12
  <2>4. W # <<>> /\ Head(W) = "start" /\ ~AccPending /\ ~AccPending'
    BY <1>2, <1>5, <1>6, <1>12, <2>1
  <2>5. CoreOK'
    BY <1>2, <1>7, <1>12, <2>1, <2>2, <2>4, Zenon
  <2> QED
    BY <1>3, <1>12, <2>3, <2>4, <2>5, Zenon
<1>13. ASSUME steps, U = {}, W # <<>>, Head(W) # "start", core' = Done, regs' = regs,
              startCsr' \in [Delayed -> BOOLEAN],
              \A m \in Delayed : startCsr'[m] => m \in Used(csrCfgReg) /\ Tail(W) = <<"clear", "wait">>,
              AccPending => ~Running
       PROVE  Goal
  <2>1. /\ DOMAIN core' = {"job", "unset", "writes"} /\ core'.job = core.job
        /\ core'.unset = {} /\ core'.writes = Tail(W)
    BY <1>8, <1>13, Zenon
  <2>2. Tail(W) \in Writes /\ (Tail(W) = <<>> \/ Head(Tail(W)) \notin {"start", "accelerate"})
    BY <1>9, <1>13
  <2>3. ~AccPending'
    BY <1>6, <2>1, <2>2
  <2>4. CoreOK'
    BY <1>2, <1>7, <1>13, <2>1, <2>2, Zenon
  <2> QED
    BY <1>3, <1>13, <2>3, <2>4, Zenon
<1>14. \A x : Does(x) <=> U = {} /\ W # <<>> /\ Head(W) = x
  BY Zenon DEF Does
<1>15. CASE ~steps /\ UNCHANGED <<core, regs, startCsr>>
  BY <1>10, <1>15, Zenon
<1>16. CASE steps /\ W = <<>> /\ (\E job \in Jobs : core' = Plan(job)) /\ UNCHANGED <<regs, startCsr>>
  BY <1>11, <1>16, Zenon
<1>17. CASE /\ steps /\ U # {}
            /\ \E m \in U : /\ core' = [core EXCEPT !.unset = @ \ {m}]
                            /\ regs' = [regs EXCEPT ![m] = core.job[m]]
            /\ UNCHANGED startCsr
  BY <1>12, <1>17, Zenon
<1>18. CASE /\ steps /\ Does("start") /\ core' = IF state = "sIDLE" THEN Done ELSE core
            /\ UNCHANGED <<regs, startCsr>>
  <2>1. state # "sIDLE"
    BY <1>1, <1>18, Zenon DEF streamer_config_fire
  <2>2. ~AccPending
    BY <1>5, <1>14, <1>18
  <2> QED
    BY <1>10, <1>18, <2>1, <2>2, Zenon
<1>19. CASE /\ steps /\ Does("accelerate") /\ core' = IF Running THEN core ELSE Done
            /\ UNCHANGED <<regs, startCsr>>
  <2>1. U = {} /\ W # <<>> /\ Head(W) = "accelerate"
    BY <1>14, <1>19, Zenon
  <2>2. CASE Running
    BY <1>10, <1>19, <2>2, Zenon
  <2>3. CASE ~Running
    <3>1. \A m \in Delayed : ~startCsr'[m]
      BY <1>2, <1>9, <1>19, <2>1
    <3>2. Head(W) # "start"
      BY <2>1
    <3> QED
      BY <1>3, <1>13, <1>19, <2>1, <2>3, <3>1, <3>2, Zenon
  <2> QED
    BY <2>2, <2>3
<1>20. CASE /\ steps /\ Does("delayed") /\ core' = Done
            /\ startCsr' = [m \in Delayed |-> m \in Used(core.job)] /\ UNCHANGED regs
  <2>1. U = {} /\ W # <<>> /\ Head(W) = "delayed"
    BY <1>14, <1>20, Zenon
  <2>2. Head(W) # "start" /\ ~AccPending /\ csrCfgReg = core.job /\ Tail(W) = <<"clear", "wait">>
    BY <1>2, <1>5, <1>9, <2>1
  <2>3. startCsr' \in [Delayed -> BOOLEAN] /\ \A m \in Delayed : startCsr'[m] => m \in Used(csrCfgReg)
    <3>1. \A m \in Delayed : startCsr'[m] = (m \in Used(csrCfgReg))
      BY <1>20, <2>2, Zenon
    <3>2. \A m \in Delayed : (m \in Used(core.job)) \in BOOLEAN
      OBVIOUS
    <3>3. startCsr' \in [Delayed -> BOOLEAN]
      BY <1>20, <3>2, Zenon
    <3> QED
      BY <3>1, <3>3, Zenon
  <2> QED
    BY <1>13, <1>20, <2>1, <2>2, <2>3, Zenon
<1>21. CASE /\ steps /\ Does("clear") /\ core' = Done
            /\ startCsr' = [m \in Delayed |-> FALSE] /\ UNCHANGED regs
  <2>1. U = {} /\ W # <<>> /\ Head(W) = "clear"
    BY <1>14, <1>21, Zenon
  <2>2. Head(W) # "start" /\ ~AccPending
    BY <1>5, <2>1
  <2>3. startCsr' \in [Delayed -> BOOLEAN] /\ \A m \in Delayed : ~startCsr'[m]
    BY <1>21
  <2> QED
    BY <1>13, <1>21, <2>1, <2>2, <2>3, Zenon
<1>22. CASE /\ steps /\ Does("wait") /\ core' = IF Running \/ state = "sBUSY" THEN core ELSE Done
            /\ UNCHANGED <<regs, startCsr>>
  <2>1. U = {} /\ W # <<>> /\ Head(W) = "wait"
    BY <1>14, <1>22, Zenon
  <2>2. Head(W) # "start" /\ ~AccPending /\ Head(W) # "clear"
    BY <1>5, <2>1
  <2>3. \A m \in Delayed : ~startCsr'[m]
    BY <1>2, <1>9, <1>22, <2>1, <2>2
  <2>4. CASE Running \/ state = "sBUSY"
    BY <1>10, <1>22, <2>2, <2>4, Zenon
  <2>5. CASE ~(Running \/ state = "sBUSY")
    BY <1>3, <1>13, <1>22, <2>1, <2>2, <2>3, <2>5, Zenon
  <2> QED
    BY <2>4, <2>5
<1> QED
  BY <1>1, <1>15, <1>16, <1>17, <1>18, <1>19, <1>20, <1>21, <1>22, Zenon DEF CoreSteps

\* What the accelerator gives, it gives to the writer, and takes nothing meanwhile.
LEMMA GivenFacts ==
  ASSUME JobsFit, IInv, NEW m \in Given
  PROVE  /\ m = W1 /\ acc.out # <<>> /\ Len(acc.out) = 1 /\ Running /\ CanTake = FALSE
         /\ TakenWords - 1 \in Nat
         /\ Gives[m] = [c \in Channels |-> Result(csrCfgReg, TakenWords - 1, c)]
<1>1. acc.out # <<>> /\ m \in Writers
  BY Zenon DEF Given
<1>2. Len(acc.out) = 1
  <2>1. acc.out \in Seq([Channels -> Items]) /\ Len(acc.out) \in {0, 1}
    BY TakenFacts
  <2>2. Len(acc.out) # 0
    BY <1>1, <2>1
  <2> QED
    BY <2>1, <2>2
<1>3. Running /\ CanTake = FALSE
  BY <1>1, Zenon DEF Running, CanTake
<1>4. Gives[m] = acc.out[1]
  BY Zenon DEF Gives
<1>5. acc.out[1] = [c \in Channels |-> Result(csrCfgReg, TakenWords - 1, c)]
  BY <1>1, Zenon DEF IInv, AccOK
<1>6. TakenWords - 1 \in Nat
  <2>1. m \in Movers
    BY <1>1, TheWriter
  <2>2. PICK c \in Channels : TRUE
    BY DEF JobsFit
  <2>3. Granted(m, c) = TakenWords - Len(acc.out) - Len(data[m][c])
    BY <1>1, Zenon DEF IInv, WriterOK
  <2>4. Granted(m, c) \in Nat /\ Len(data[m][c]) \in Nat /\ TakenWords \in Nat
    BY <2>1, QueueFacts, TakenFacts
  <2> DEFINE g == Granted(m, c)
             d == Len(data[m][c])
             t == TakenWords
             o == Len(acc.out)
  <2>5. g = t - o - d /\ g \in Nat /\ d \in Nat /\ t \in Nat /\ o = 1
    BY <1>2, <2>3, <2>4, Zenon
  <2> HIDE DEF g, d, t, o
  <2>6. t - 1 \in Nat
    BY <2>5
  <2> QED
    BY <2>6 DEF t
<1> QED
  BY <1>1, <1>2, <1>3, <1>4, <1>5, <1>6, TheWriter, Zenon

LEMMA BusyStays ==
  ASSUME JobsFit, IInv, NEW steps, NEW takes, NEW grants, Cycle(steps, takes, grants),
         Running \/ AccPending
  PROVE  state = "sBUSY" /\ state' = "sBUSY"
<1>1. state = "sBUSY"
  BY Zenon DEF IInv, AccOK
<1>2. ~streamer_finish
  BY <1>1, FinishFacts
<1> QED
  BY <1>1, <1>2, CycleParts

LEMMA AccStep ==
  ASSUME JobsFit, IInv, NEW steps, NEW takes, NEW grants, Cycle(steps, takes, grants)
  PROVE  /\ AccOK'
         /\ TakenWords' = TakenWords + Bit(Takes(takes) # {})
         /\ TakenWords' - Len(acc'.out) = TakenWords - Len(acc.out) + Bit(Given # {})
<1> DEFINE begin == steps /\ AccPending /\ ~Running
           J == csrCfgReg
           T == TakenWords
<1>1. csrCfgReg' = csrCfgReg /\ Accelerate(takes, steps /\ Does("accelerate") /\ ~Running)
  <2>1. csrCfgReg' = csrCfgReg
    BY CycleParts, Zenon
  <2>2. Accelerate(takes, steps /\ Does("accelerate") /\ ~Running)
    BY Zenon DEF Cycle, Clock
  <2> QED
    BY <2>1, <2>2, Zenon
<1>2. /\ begin => ~AccPending'
      /\ ~begin => (AccPending' <=> AccPending)
  BY CoreStep, Zenon
<1>3. acc' = IF begin THEN [job |-> J, left |-> N(J), out |-> <<>>]
             ELSE IF Takes(takes) # {} THEN [acc EXCEPT !.left = @ - 1, !.out = <<Taken>>]
             ELSE IF Given # {} THEN [acc EXCEPT !.out = <<>>]
             ELSE acc
  BY <1>1, Zenon DEF Accelerate, AccPending, N, W1
<1>4. /\ DOMAIN acc = {"job", "left", "out"}
      /\ acc.out # <<>> => acc.out[1] = [c \in Channels |-> Result(J, T - 1, c)]
      /\ Running => acc.job = J
  BY Zenon DEF IInv, AccOK
<1>5. /\ N(J) \in Nat /\ acc.left \in Nat /\ acc.left <= N(J) /\ T \in Nat
      /\ acc.out \in Seq([Channels -> Items]) /\ Len(acc.out) \in {0, 1}
  BY TakenFacts
<1>6. T = IF AccPending THEN 0 ELSE N(J) - acc.left
  BY Zenon DEF TakenWords
<1>7. TakenWords' = IF AccPending' THEN 0 ELSE N(J) - acc'.left
  BY <1>1, Zenon DEF TakenWords, N
<1>8. Running <=> acc.left # 0 \/ acc.out # <<>>
  BY Zenon DEF Running
<1>9. Running' <=> acc'.left # 0 \/ acc'.out # <<>>
  BY Zenon DEF Running
<1>10. Running \/ AccPending => state' = "sBUSY"
  BY BusyStays, Zenon
<1>11. AccPending => ~Running
  BY Zenon DEF IInv, AccOK
<1>12. AccOK' <=>
         /\ DOMAIN acc' = {"job", "left", "out"}
         /\ acc'.left \in 0 .. N(J)
         /\ acc'.out \in Seq([Channels -> Items]) /\ Len(acc'.out) <= 1
         /\ acc'.out # <<>> => acc'.out[1] = [c \in Channels |-> Result(J, TakenWords' - 1, c)]
         /\ Running' => acc'.job = J /\ state' = "sBUSY"
         /\ AccPending' => state' = "sBUSY" /\ ~Running'
  BY <1>1, Zenon DEF AccOK, N
<1>13. Bit(TRUE) = 1 /\ Bit(FALSE) = 0
  BY DEF Bit
<1>14. Takes(takes) # {} => acc.left # 0 /\ acc.out = <<>> /\ Running /\ ~AccPending
  BY TakeFacts, Zenon
<1>15. Given # {} => acc.out # <<>> /\ Running /\ Len(acc.out) = 1
  BY GivenFacts, Zenon
<1>16. CASE begin
  <2>1. acc' = [job |-> J, left |-> N(J), out |-> <<>>]
    BY <1>3, <1>16, Zenon
  <2>2. acc'.job = J /\ acc'.left = N(J) /\ acc'.out = <<>> /\ DOMAIN acc' = {"job", "left", "out"}
    BY <2>1
  <2>3. ~AccPending' /\ AccPending /\ ~Running
    BY <1>2, <1>16, Zenon
  <2>4. Takes(takes) = {} /\ Given = {} /\ acc.out = <<>> /\ acc.left = 0
    BY <1>8, <1>14, <1>15, <2>3, Zenon
  <2>5. T = 0 /\ TakenWords' = 0
    BY <1>5, <1>6, <1>7, <2>2, <2>3
  <2>6. /\ Len(acc.out) = 0 /\ Len(acc'.out) = 0
        /\ acc'.out \in Seq([Channels -> Items]) /\ acc'.left \in 0 .. N(J)
    BY <1>5, <2>2, <2>4
  <2>7. AccOK'
    <3>1. Len(acc'.out) <= 1
      BY <2>6
    <3> QED
      BY <1>10, <1>12, <2>2, <2>3, <2>6, <3>1, Zenon
  <2>8. Bit(Takes(takes) # {}) = 0 /\ Bit(Given # {}) = 0
    BY <2>4 DEF Bit
  <2> QED
    BY <2>5, <2>6, <2>7, <2>8
<1>17. CASE ~begin /\ Takes(takes) # {}
  <2>1. acc' = [acc EXCEPT !.left = @ - 1, !.out = <<Taken>>]
    BY <1>3, <1>17, Zenon
  <2>2. /\ acc'.job = acc.job /\ acc'.left = acc.left - 1 /\ acc'.out = <<Taken>>
        /\ DOMAIN acc' = {"job", "left", "out"}
    BY <1>4, <2>1
  <2>3. /\ acc.left # 0 /\ acc.out = <<>> /\ Running /\ ~AccPending /\ ~AccPending' /\ Given = {}
        /\ acc.job = J
    BY <1>2, <1>4, <1>14, <1>15, <1>17, Zenon
  <2>4. T = N(J) - acc.left /\ TakenWords' = T + 1
    BY <1>5, <1>6, <1>7, <2>2, <2>3
  <2>5. Taken = [c \in Channels |-> Result(J, T, c)]
    <3>1. \A r \in UsedReaders(J), c \in Channels : data[r][c] # <<>>
      BY <1>17, TakeFacts, Zenon
    <3>2. \A r \in UsedReaders(J), c \in Channels : Head(data[r][c]) = Word(J[r], T, c)
      BY <3>1, OfferedRight, Zenon
    <3>3. Taken = [c \in Channels |-> [r \in UsedReaders(J) |-> Head(data[r][c])]]
      BY <2>3, Zenon DEF Taken
    <3>4. \A c \in Channels : Result(J, T, c) = [r \in UsedReaders(J) |-> Head(data[r][c])]
      BY <3>2 DEF Result
    <3> QED
      BY <3>3, <3>4
  <2>6. Taken \in [Channels -> Items]
    <3>1. Fits(J)
      BY Zenon DEF IInv, CfgOK
    <3> QED
      BY <1>5, <2>5, <3>1, ResultType
  <2>7. /\ acc'.out \in Seq([Channels -> Items]) /\ Len(acc'.out) = 1 /\ acc'.out[1] = Taken
        /\ Len(acc.out) = 0
    BY <2>2, <2>3, <2>6
  <2>8. acc'.left \in 0 .. N(J) /\ TakenWords' - 1 = T /\ Len(acc'.out) <= 1
    BY <1>5, <2>2, <2>3, <2>4, <2>7
  <2>9. AccOK'
    BY <1>10, <1>12, <2>2, <2>3, <2>5, <2>7, <2>8, Zenon
  <2>10. Bit(Takes(takes) # {}) = 1 /\ Bit(Given # {}) = 0
    BY <1>17, <2>3 DEF Bit
  <2> QED
    BY <1>5, <2>4, <2>7, <2>9, <2>10
<1>18. CASE ~begin /\ Takes(takes) = {} /\ Given # {}
  <2>1. acc' = [acc EXCEPT !.out = <<>>]
    BY <1>3, <1>18, Zenon
  <2>2. /\ acc'.job = acc.job /\ acc'.left = acc.left /\ acc'.out = <<>>
        /\ DOMAIN acc' = {"job", "left", "out"}
    BY <1>4, <2>1
  <2>3. acc.out # <<>> /\ Running /\ ~AccPending /\ ~AccPending' /\ Len(acc.out) = 1 /\ acc.job = J
    BY <1>2, <1>4, <1>11, <1>15, <1>18, Zenon
  <2>4. TakenWords' = T
    BY <1>6, <1>7, <2>2, <2>3, Zenon
  <2>5. /\ acc'.out \in Seq([Channels -> Items]) /\ Len(acc'.out) = 0
        /\ Len(acc'.out) <= 1 /\ acc'.left \in 0 .. N(J)
    BY <1>5, <2>2
  <2>6. AccOK'
    BY <1>10, <1>12, <2>2, <2>3, <2>5, Zenon
  <2>7. Bit(Takes(takes) # {}) = 0 /\ Bit(Given # {}) = 1
    BY <1>18 DEF Bit
  <2> QED
    BY <1>5, <2>3, <2>4, <2>5, <2>6, <2>7
<1>19. CASE ~begin /\ Takes(takes) = {} /\ Given = {}
  <2>1. acc' = acc
    BY <1>3, <1>19, Zenon
  <2>2. AccPending' <=> AccPending
    BY <1>2, <1>19, Zenon
  <2>3. TakenWords' = T
    BY <1>6, <1>7, <2>1, <2>2, Zenon
  <2>4. acc.left \in 0 .. N(J) /\ Len(acc.out) <= 1
    BY Zenon DEF IInv, AccOK
  <2>5. Running' <=> Running
    BY <1>8, <1>9, <2>1, Zenon
  <2>6. AccOK'
    BY <1>4, <1>5, <1>10, <1>11, <1>12, <2>1, <2>2, <2>3, <2>4, <2>5, Zenon
  <2>7. Bit(Takes(takes) # {}) = 0 /\ Bit(Given # {}) = 0
    BY <1>19 DEF Bit
  <2> QED
    BY <1>5, <2>1, <2>3, <2>6, <2>7
<1> QED
  BY <1>16, <1>17, <1>18, <1>19, Zenon

LEMMA WriterStep ==
  ASSUME JobsFit, IInv, NEW steps, NEW takes, NEW grants, Cycle(steps, takes, grants),
         NEW m \in Writers, NEW c \in Channels
  PROVE  /\ data'[m][c] \in Seq(Items)
         /\ Granted(m, c)' = TakenWords' - Len(acc'.out) - Len(data'[m][c])
         /\ Segment(data'[m][c], ResultOf(csrCfgReg, c), Granted(m, c)')
         /\ <<m, c>> \in grants => Head(data[m][c]) = Result(csrCfgReg, Granted(m, c), c)
<1> DEFINE q == data[m][c]
           f == ResultOf(csrCfgReg, c)
           i == Granted(m, c)
           g == <<m, c>> \in grants
           b == m \in Given
           x == Gives[m][c]
           t == data'[m][c]
<1>1. m \in Movers /\ m \notin Readers /\ m = W1
  BY TheWriter
<1>2. Move(csrCfgReg, delayedStartPulses, Takes(takes), Gives, grants)
  BY CycleParts, Zenon
<1>3. grants \subseteq Requests(csrCfgReg, Takes(takes))
  BY CycleParts, Zenon
<1>4. q \in Seq(Items) /\ Len(q) \in Nat /\ i \in Nat
  BY <1>1, QueueFacts
<1>5. Segment(q, f, i) /\ i = TakenWords - Len(acc.out) - Len(q)
  BY Zenon DEF IInv, WriterOK
<1>6. g => q # <<>>
  BY <1>1, <1>3, GrantFacts
<1>7. g \in BOOLEAN /\ b \in BOOLEAN
  OBVIOUS
<1>8. b <=> Given # {}
  <2>1. \A n \in Given : n = m
    BY <1>1, GivenFacts
  <2> QED
    BY <2>1
<1>9. TakenWords \in Nat /\ Len(acc.out) \in {0, 1}
  BY TakenFacts
<1>10. ASSUME b PROVE x = f[i + Len(q)] /\ x \in Items
  <2>1. /\ Len(acc.out) = 1 /\ TakenWords - 1 \in Nat
        /\ Gives[m] = [d \in Channels |-> Result(csrCfgReg, TakenWords - 1, d)]
    BY <1>10, GivenFacts, Zenon
  <2>2. i + Len(q) = TakenWords - 1
    BY <1>4, <1>5, <1>9, <2>1
  <2>3. x = Result(csrCfgReg, TakenWords - 1, c)
    BY <2>1, Zenon
  <2>4. f[TakenWords - 1] = Result(csrCfgReg, TakenWords - 1, c)
    BY <2>1, Zenon DEF ResultOf
  <2>5. Fits(csrCfgReg)
    BY Zenon DEF IInv, CfgOK
  <2>6. Result(csrCfgReg, TakenWords - 1, c) \in Items
    BY <2>1, <2>5, ResultType
  <2> QED
    BY <2>2, <2>3, <2>4, <2>6, Zenon
<1>11. t = Rest(q, g) \o (IF b THEN <<x>> ELSE <<>>)
  <2>1. t = Sent(m, c, Gives, grants)
    BY <1>1, <1>2, MoveData
  <2>2. DOMAIN Gives = Given
    BY Zenon DEF Gives
  <2> QED
    BY <2>1, <2>2, Zenon DEF Sent, Rest
<1>12. Granted(m, c)' = i + Bit(g)
  BY <1>1, AddrsStep, Zenon
<1>13. Bit(g) \in {0, 1} /\ Bit(b) \in {0, 1}
  BY <1>7, BitFacts
<1>14. TakenWords' - Len(acc'.out) = TakenWords - Len(acc.out) + Bit(b)
  <2>1. TakenWords' - Len(acc'.out) = TakenWords - Len(acc.out) + Bit(Given # {})
    BY AccStep, Zenon
  <2>2. Bit(Given # {}) = Bit(b)
    BY <1>8 DEF Bit
  <2> QED
    BY <2>1, <2>2, Zenon
<1>15. TakenWords' - Len(acc'.out) - Len(t) = (TakenWords' - Len(acc'.out)) - Len(t)
  OBVIOUS
<1> HIDE DEF q, f, i, g, b, x, t
<1>16. t = IF b THEN Append(Rest(q, g), x) ELSE Rest(q, g)
  <2>1. Rest(q, g) \in Seq(Items)
    BY <1>4, <1>5, <1>6, <1>7, SegmentRest DEF Rest
  <2>2. CASE b
    <3>1. x \in Items /\ t = Rest(q, g) \o <<x>>
      BY <1>10, <1>11, <2>2, Zenon
    <3>2. Append(Rest(q, g), x) = Rest(q, g) \o <<x>>
      BY <2>1, <3>1, AppendIsConcat
    <3> QED
      BY <2>2, <3>1, <3>2, Zenon
  <2>3. CASE ~b
    <3>1. t = Rest(q, g) \o <<>>
      BY <1>11, <2>3, Zenon
    <3>2. Rest(q, g) \o <<>> = Rest(q, g)
      BY <2>1, ConcatEmptySeq
    <3> QED
      BY <2>3, <3>1, <3>2, Zenon
  <2> QED
    BY <2>2, <2>3
<1>17. /\ t \in Seq(Items) /\ Len(t) = Len(q) - Bit(g) + Bit(b)
       /\ Segment(t, f, i + Bit(g))
  BY <1>4, <1>5, <1>6, <1>7, <1>10, <1>16, QueueStep
<1>18. i + Bit(g) = TakenWords' - Len(acc'.out) - Len(t)
  <2> DEFINE u == TakenWords' - Len(acc'.out)
             v == TakenWords - Len(acc.out)
  <2>1. u = v + Bit(b) /\ v \in Int /\ i = v - Len(q)
    BY <1>5, <1>9, <1>14
  <2> HIDE DEF u, v
  <2>2. i + Bit(g) = u - Len(t)
    BY <1>4, <1>13, <1>17, <2>1
  <2> QED
    BY <1>15, <2>2, Zenon DEF u
<1>19. g => Head(q) = Result(csrCfgReg, i, c)
  <2>1. g => Head(q) = f[i]
    BY <1>4, <1>5, <1>6, SegmentTail
  <2>2. f[i] = Result(csrCfgReg, i, c)
    BY <1>4, Zenon DEF f, ResultOf
  <2> QED
    BY <2>1, <2>2, Zenon
<1> QED
  BY <1>12, <1>17, <1>18, <1>19, Zenon DEF q, f, i, g, t

LEMMA RepeatStep ==
  ASSUME JobsFit, IInv, NEW steps, NEW takes, NEW grants, Cycle(steps, takes, grants),
         NEW m \in Readers
  PROVE  /\ repeat'[m] \in Nat
         /\ m \in Used(csrCfgReg) =>
              /\ repeat'[m] < repeat_times(csrCfgReg[m])
              /\ \A c \in Channels :
                   /\ TakenWords' = repeat'[m] + repeat_times(csrCfgReg[m]) * Gone(m, c)'
                   /\ repeat'[m] # 0 => data'[m][c] # <<>>
         /\ m \notin Used(csrCfgReg) => repeat'[m] = 0
<1> DEFINE cfg == csrCfgReg[m]
           R == repeat_times(cfg)
           k == repeat[m]
           p == Popped(m, cfg, Takes(takes))
<1>1. Move(csrCfgReg, delayedStartPulses, Takes(takes), Gives, grants)
  BY CycleParts, Zenon
<1>2. m \in Movers /\ cfg \in Cfgs /\ R \in Nat
  BY TheWriter, GenFacts, CeilFacts
<1>3. repeat'[m] = IF m \in delayedStartPulses THEN 0
                   ELSE IF m \in Takes(takes) THEN IF k < R - 1 THEN k + 1 ELSE 0
                   ELSE k
  <2>1. repeat'[m] = Repeat(m, cfg, delayedStartPulses, Takes(takes))
    BY <1>1, MoveRepeat
  <2> QED
    BY <2>1, Zenon DEF Repeat
<1>4. p <=> m \in Takes(takes) /\ k = R - 1
  BY Zenon DEF Popped
<1>5. k \in Nat
  BY DEF IInv, Types
<1>6. /\ m \in Used(csrCfgReg) =>
           /\ k < R
           /\ \A c \in Channels :
                /\ TakenWords = k + R * Gone(m, c)
                /\ k # 0 => data[m][c] # <<>>
      /\ m \notin Used(csrCfgReg) => k = 0
  BY Zenon DEF IInv, RepeatsOK
<1>7. TakenWords' = TakenWords + Bit(Takes(takes) # {})
  BY AccStep, Zenon
<1>8. TakenWords \in Nat
  BY TakenFacts
<1>9. \A c \in Channels : Gone(m, c) \in Nat
  BY <1>2, QueueFacts
<1>10. \A c \in Channels : Gone(m, c)' = Gone(m, c) + Bit(p)
  BY ReaderStep, Zenon
<1>11. \A c \in Channels : ~p /\ data[m][c] # <<>> => data'[m][c] # <<>>
  BY ReaderStep, Zenon
<1>12. m \in Takes(takes) => m \in Used(csrCfgReg) /\ \A c \in Channels : data[m][c] # <<>>
  BY TakeFacts DEF UsedReaders
<1>13. m \in Used(csrCfgReg) /\ m \notin Takes(takes) => Takes(takes) = {}
  <2> SUFFICES ASSUME m \in Used(csrCfgReg), m \notin Takes(takes), NEW n \in Takes(takes) PROVE FALSE
    OBVIOUS
  <2>1. Takes(takes) = UsedReaders(csrCfgReg)
    BY TakeFacts, Zenon
  <2> QED
    BY <2>1 DEF UsedReaders
<1>14. Bit(TRUE) = 1 /\ Bit(FALSE) = 0
  BY DEF Bit
<1>15. CASE m \in delayedStartPulses
  <2>1. m \in Used(csrCfgReg) /\ Gen(m) = 0
    BY <1>2, <1>15, GenStep, Zenon
  <2>2. ASSUME NEW c \in Channels PROVE Gone(m, c) = 0 /\ data[m][c] = <<>>
    <3> DEFINE o == Gone(m, c)
               a == Len(addrs[m][c])
               r == Len(response[m][c])
               d == Len(data[m][c])
    <3>1. o = Gen(m) - a - r - d
      BY <1>2, QueueFacts
    <3>2. o \in Nat /\ a \in Nat /\ r \in Nat /\ d \in Nat /\ data[m][c] \in Seq(Items)
      BY <1>2, QueueFacts
    <3> HIDE DEF o, a, r, d
    <3>3. o = 0 /\ d = 0
      BY <2>1, <3>1, <3>2
    <3>4. data[m][c] = <<>>
      <4>1. Len(data[m][c]) = 0
        BY <3>3 DEF d
      <4> QED
        BY <3>2, <4>1
    <3> QED
      BY <3>3, <3>4 DEF o
  <2>3. PICK c0 \in Channels : TRUE
    BY DEF JobsFit
  <2>4. m \notin Takes(takes) /\ ~p
    BY <1>4, <1>12, <2>2, <2>3, Zenon
  <2>5. Takes(takes) = {}
    BY <1>13, <2>1, <2>4, Zenon
  <2>6. k = 0
    BY <1>6, <2>1, <2>2, <2>3, Zenon
  <2>7. TakenWords = 0 + R * 0
    BY <1>6, <2>1, <2>2, <2>3, <2>6, Zenon
  <2>8. R * 0 = 0
    <3> HIDE DEF R
    <3> QED
      BY <1>2
  <2>9. TakenWords' = 0
    <3>1. Bit(Takes(takes) # {}) = 0
      BY <2>5 DEF Bit
    <3> QED
      BY <1>7, <2>7, <2>8, <3>1
  <2>10. repeat'[m] = 0
    BY <1>3, <1>15, Zenon
  <2>11. \A c \in Channels : Gone(m, c)' = 0
    <3>1. Bit(p) = 0
      BY <2>4 DEF Bit
    <3>2. \A c \in Channels : Gone(m, c)' = 0 + 0
      BY <1>10, <2>2, <3>1, Zenon
    <3> QED
      BY <3>2
  <2>12. 0 < R
    BY <1>2, <1>6, <2>1, <2>6
  <2>13. \A c \in Channels : TakenWords' = repeat'[m] + R * Gone(m, c)'
    BY <2>7, <2>8, <2>9, <2>10, <2>11
  <2> QED
    BY <2>1, <2>10, <2>12, <2>13
<1>16. CASE m \notin delayedStartPulses /\ m \in Takes(takes)
  <2>1. m \in Used(csrCfgReg) /\ k < R
    BY <1>6, <1>12, <1>16, Zenon
  <2>2. TakenWords' = TakenWords + 1
    <3>1. Bit(Takes(takes) # {}) = 1
      BY <1>16 DEF Bit
    <3> QED
      BY <1>7, <3>1, Zenon
  <2>3. CASE k = R - 1
    <3>1. repeat'[m] = 0
      <4>1. ~(k < R - 1)
        BY <1>2, <2>3
      <4> QED
        BY <1>3, <1>16, <4>1, Zenon
    <3>2. Bit(p) = 1
      BY <1>4, <1>16, <2>3 DEF Bit
    <3>3. ASSUME NEW c \in Channels PROVE TakenWords' = repeat'[m] + R * Gone(m, c)'
      <4> DEFINE o == Gone(m, c)
                 t == TakenWords
      <4>1. o \in Nat /\ t = k + R * o /\ Gone(m, c)' = o + 1 /\ TakenWords' = t + 1 /\ t \in Nat
        BY <1>6, <1>8, <1>9, <1>10, <2>1, <2>2, <3>2, Zenon
      <4> HIDE DEF o, t, R, k
      <4>2. R * (o + 1) = R * o + R
        BY <1>2, <4>1
      <4>3. t + 1 = 0 + R * (o + 1)
        BY <1>2, <1>5, <2>3, <4>1, <4>2
      <4> QED
        BY <3>1, <4>1, <4>3, Zenon DEF R
    <3>4. 0 < R
      BY <1>2, <1>5, <2>1
    <3> QED
      BY <2>1, <3>1, <3>3, <3>4
  <2>4. CASE k # R - 1
    <3>0. k < R - 1
      BY <1>2, <1>5, <2>1, <2>4
    <3>1. repeat'[m] = k + 1
      BY <1>3, <1>16, <3>0, Zenon
    <3>2. ~p /\ Bit(p) = 0
      <4>1. ~p
        BY <1>4, <2>4, Zenon
      <4> QED
        BY <4>1 DEF Bit
    <3>3. ASSUME NEW c \in Channels PROVE TakenWords' = repeat'[m] + R * Gone(m, c)'
      <4> DEFINE o == Gone(m, c)
                 t == TakenWords
      <4>1. o \in Nat /\ t = k + R * o /\ Gone(m, c)' = o + 0 /\ TakenWords' = t + 1 /\ t \in Nat
        BY <1>6, <1>8, <1>9, <1>10, <2>1, <2>2, <3>2, Zenon
      <4> HIDE DEF o, t, R, k
      <4>2. o + 0 = o /\ R * o \in Nat
        BY <1>2, <4>1
      <4>3. t + 1 = (k + 1) + R * o
        BY <1>5, <4>1, <4>2
      <4> QED
        BY <3>1, <4>1, <4>2, <4>3, Zenon DEF R, k
    <3>4. \A c \in Channels : data'[m][c] # <<>>
      BY <1>11, <1>12, <1>16, <3>2, Zenon
    <3>5. k + 1 < R /\ k + 1 \in Nat
      BY <1>2, <1>5, <3>0
    <3> QED
      BY <2>1, <3>1, <3>3, <3>4, <3>5
  <2> QED
    BY <2>3, <2>4
<1>17. CASE m \notin delayedStartPulses /\ m \notin Takes(takes)
  <2>1. repeat'[m] = k
    BY <1>3, <1>17, Zenon
  <2>2. ~p /\ Bit(p) = 0
    <3>1. ~p
      BY <1>4, <1>17, Zenon
    <3> QED
      BY <3>1 DEF Bit
  <2>3. ASSUME m \in Used(csrCfgReg), NEW c \in Channels
        PROVE  TakenWords' = repeat'[m] + R * Gone(m, c)' /\ (repeat'[m] # 0 => data'[m][c] # <<>>)
    <3>1. Takes(takes) = {}
      BY <1>13, <1>17, <2>3, Zenon
    <3>2. Bit(Takes(takes) # {}) = 0
      BY <3>1 DEF Bit
    <3>3. TakenWords' = TakenWords
      BY <1>7, <1>8, <3>2
    <3>4. Gone(m, c)' = Gone(m, c)
      <4>1. Gone(m, c) + 0 = Gone(m, c)
        BY <1>9
      <4> QED
        BY <1>10, <2>2, <4>1, Zenon
    <3> QED
      BY <1>6, <1>11, <2>1, <2>2, <2>3, <3>3, <3>4, Zenon
  <2> QED
    BY <1>5, <1>6, <2>1, <2>3, Zenon
<1> QED
  BY <1>15, <1>16, <1>17


\* What the grants store is the next word of each channel.
LEMMA StoredStep ==
  ASSUME JobsFit, IInv, NEW steps, NEW takes, NEW grants, Cycle(steps, takes, grants)
  PROVE  StoredOK'
<1> DEFINE A(m, c, i) == [addr |-> AddressOf(m, csrCfgReg[m], c)[i], word |-> Result(csrCfgReg, i, c)]
           B(m, c, k) == StoredBy(csrCfgReg, m, c, k)
<1>1. csrCfgReg' = csrCfgReg /\ stored' = stored \cup Stores(grants)
  BY CycleParts, Zenon
<1>2. grants \subseteq Requests(csrCfgReg, Takes(takes))
  BY CycleParts, Zenon
<1>3. stored = UNION {UNION {B(m, c, Granted(m, c)) : c \in Channels} : m \in Writers}
  BY Zenon DEF IInv, StoredOK
<1>4. StoredOK' <=> stored' = UNION {UNION {B(m, c, Granted(m, c)') : c \in Channels} : m \in Writers}
  BY <1>1 DEF StoredOK
<1>5. ASSUME NEW m \in Writers, NEW c \in Channels
      PROVE  /\ Granted(m, c) \in Nat /\ Granted(m, c)' = Granted(m, c) + Bit(<<m, c>> \in grants)
             /\ <<m, c>> \in grants =>
                  [addr |-> Head(addrs[m][c]), word |-> Head(data[m][c])] = A(m, c, Granted(m, c))
  <2>0. m \in Movers
    BY TheWriter
  <2>1. Granted(m, c) \in Nat
    BY <2>0, QueueFacts
  <2>2. Granted(m, c)' = Granted(m, c) + Bit(<<m, c>> \in grants)
    BY <2>0, AddrsStep, Zenon
  <2>3. <<m, c>> \in grants => Head(addrs[m][c]) = AddressOf(m, csrCfgReg[m], c)[Granted(m, c)]
    BY <2>0, AddrsStep
  <2>4. <<m, c>> \in grants => Head(data[m][c]) = Result(csrCfgReg, Granted(m, c), c)
    BY WriterStep, Zenon
  <2> QED
    BY <2>1, <2>2, <2>3, <2>4, Zenon
<1>6. \A m, c, k : B(m, c, k) = {A(m, c, i) : i \in 0 .. k - 1}
  BY Zenon DEF StoredBy
<1>7. ASSUME NEW m \in Writers, NEW c \in Channels, NEW x
      PROVE  x \in B(m, c, Granted(m, c)') <=>
               \/ x \in B(m, c, Granted(m, c))
               \/ <<m, c>> \in grants /\ x = A(m, c, Granted(m, c))
  <2> DEFINE a == Granted(m, c)
             b == Granted(m, c)'
  <2>1. a \in Nat /\ b = a + Bit(<<m, c>> \in grants)
    BY <1>5
  <2>2. CASE <<m, c>> \in grants
    <3>1. b = a + 1
      BY <2>1, <2>2 DEF Bit
    <3> HIDE DEF a, b
    <3>2. \A i : i \in 0 .. b - 1 <=> i \in 0 .. a - 1 \/ i = a
      BY <2>1, <3>1
    <3> HIDE DEF A
    <3>3. x \in {A(m, c, i) : i \in 0 .. b - 1} <=> x \in {A(m, c, i) : i \in 0 .. a - 1} \/ x = A(m, c, a)
      BY <3>2, Zenon
    <3> HIDE DEF B
    <3> QED
      BY <1>6, <2>2, <3>3, Zenon DEF a, b
  <2>3. CASE <<m, c>> \notin grants
    <3>1. b = a
      BY <2>1, <2>3 DEF Bit
    <3> QED
      BY <2>3, <3>1, Zenon
  <2> QED
    BY <2>2, <2>3
<1>8. ASSUME NEW x \in Stores(grants)
      PROVE  \E m \in Writers : \E c \in Channels : <<m, c>> \in grants /\ x = A(m, c, Granted(m, c))
  <2>1. PICK r \in grants : /\ r[1] \in Writers
                            /\ x = [addr |-> Head(addrs[r[1]][r[2]]), word |-> Head(data[r[1]][r[2]])]
    BY <1>8, Zenon DEF Stores
  <2>2. r = <<r[1], r[2]>> /\ r[2] \in Channels
    BY <1>2, <2>1, GrantFacts
  <2>3. <<r[1], r[2]>> \in grants
    BY <2>1, <2>2
  <2> QED
    BY <1>5, <2>1, <2>2, <2>3, Zenon
<1>9. ASSUME NEW m \in Writers, NEW c \in Channels, <<m, c>> \in grants
      PROVE  A(m, c, Granted(m, c)) \in Stores(grants)
  <2> DEFINE r == <<m, c>>
  <2>1. r \in grants /\ r[1] = m /\ r[2] = c
    BY <1>9
  <2> HIDE DEF r
  <2>2. [addr |-> Head(addrs[r[1]][r[2]]), word |-> Head(data[r[1]][r[2]])] \in Stores(grants)
    BY <2>1, Zenon DEF Stores
  <2> QED
    BY <1>5, <1>9, <2>1, <2>2, Zenon
<1> HIDE DEF A, B
<1>10. ASSUME NEW x \in stored \cup Stores(grants)
       PROVE  \E m \in Writers : \E c \in Channels : x \in B(m, c, Granted(m, c)')
  <2>1. CASE x \in stored
    <3>1. \E m \in Writers : \E c \in Channels : x \in B(m, c, Granted(m, c))
      BY <1>3, <2>1
    <3> QED
      BY <1>7, <3>1, Zenon
  <2>2. CASE x \in Stores(grants)
    BY <1>7, <1>8, <2>2, Zenon
  <2> QED
    BY <2>1, <2>2
<1>11. ASSUME NEW m \in Writers, NEW c \in Channels, NEW x \in B(m, c, Granted(m, c)')
       PROVE  x \in stored \cup Stores(grants)
  <2>1. CASE x \in B(m, c, Granted(m, c))
    BY <1>3, <2>1
  <2>2. CASE <<m, c>> \in grants /\ x = A(m, c, Granted(m, c))
    BY <1>9, <2>2, Zenon
  <2> QED
    BY <1>7, <1>11, <2>1, <2>2, Zenon
<1>12. stored \cup Stores(grants) = UNION {UNION {B(m, c, Granted(m, c)') : c \in Channels} : m \in Writers}
  <2>1. \A x : x \in UNION {UNION {B(m, c, Granted(m, c)') : c \in Channels} : m \in Writers}
              <=> \E m \in Writers : \E c \in Channels : x \in B(m, c, Granted(m, c)')
    OBVIOUS
  <2> QED
    BY <1>10, <1>11, <2>1, Zenon
<1> QED
  BY <1>1, <1>4, <1>12, Zenon

\* At the end of a job, and between two, the streamer is empty.
LEMMA IdleStep ==
  ASSUME JobsFit, IInv, NEW steps, NEW takes, NEW grants, Cycle(steps, takes, grants)
  PROVE  IdleOK'
<1> SUFFICES ASSUME state' = "sIDLE" PROVE IdleOK'
  BY Zenon DEF IdleOK
<1>0. state \in {"sIDLE", "sBUSY"}
  BY Zenon DEF IInv, Types
<1>1. /\ \A m \in Movers : ~agu[m] /\ \A c \in Channels : addrs[m][c] = <<>> /\ data[m][c] = <<>>
      /\ \A m \in Readers : repeat[m] = 0 /\ \A c \in Channels : response[m][c] = <<>>
      /\ ~Running /\ ~AccPending
  <2>1. CASE state = "sIDLE"
    <3>1. IdleOK /\ AccOK
      BY Zenon DEF IInv
    <3> QED
      BY <2>1, <3>1 DEF IdleOK, AccOK
  <2>2. CASE state = "sBUSY"
    <3>1. streamer_finish
      BY <2>2, CycleParts
    <3> QED
      BY <2>2, <3>1, FinishFacts, Zenon
  <2> QED
    BY <1>0, <2>1, <2>2
<1>2. Takes(takes) = {}
  BY <1>1, TakeFacts, Zenon
<1>3. Given = {}
  BY <1>1, GivenFacts, Zenon
<1>4. grants = {}
  <2>1. grants \subseteq Requests(csrCfgReg, Takes(takes))
    BY CycleParts, Zenon
  <2> QED
    BY <1>1, <2>1, GrantFacts
<1>5. Move(csrCfgReg, delayedStartPulses, Takes(takes), Gives, grants)
  BY CycleParts, Zenon
<1>6. \A m \in Movers : m \notin delayedStartPulses
  <2> SUFFICES ASSUME NEW m \in Movers, m \in delayedStartPulses PROVE FALSE
    OBVIOUS
  <2>1. m \in Used(csrCfgReg) /\ Gen(m) = 0 /\ state = "sBUSY"
    BY GenStep DEF delayedStartPulses
  <2>2. Gen(m) = Total(m, csrCfgReg[m])
    <3>1. streamer_finish
      BY <2>1, CycleParts
    <3> QED
      BY <2>1, <3>1, FinishFacts
  <2>3. Total(m, csrCfgReg[m]) # 0
    BY <2>1, UsedFacts DEF IInv, CfgOK
  <2> QED
    BY <2>1, <2>2, <2>3
<1>7. ASSUME NEW m \in Movers, NEW c \in Channels
      PROVE  ~AddressFire(m, grants) /\ ~agu'[m] /\ addrs'[m][c] = <<>>
  <2>1. ~AddressFire(m, grants)
    BY <1>1 DEF AddressFire
  <2>2. ~agu'[m]
    BY <1>1, <1>5, <1>6, MoveGenerator
  <2>3. addrs'[m][c] = Rest(addrs[m][c], <<m, c>> \in grants)
    BY <1>5, <2>1, MoveAddrs
  <2> QED
    BY <1>1, <1>4, <2>1, <2>2, <2>3 DEF Rest
<1>8. PICK c0 \in Channels : TRUE
  BY DEF JobsFit
<1>9. ASSUME NEW m \in Readers, NEW c \in Channels
      PROVE  repeat'[m] = 0 /\ response'[m][c] = <<>> /\ data'[m][c] = <<>>
  <2>0. m \in Movers
    BY TheWriter
  <2>1. repeat'[m] = Repeat(m, csrCfgReg[m], delayedStartPulses, Takes(takes))
    BY <1>5, MoveRepeat
  <2>2. repeat'[m] = 0
    <3>1. m \notin Takes(takes) /\ m \notin delayedStartPulses /\ repeat[m] = 0
      BY <1>1, <1>2, <1>6, <2>0
    <3> QED
      BY <2>1, <3>1, Zenon DEF Repeat
  <2>3. response'[m][c] = <<>>
    <3>1. response'[m][c] = IF <<m, c>> \in grants THEN <<Head(addrs[m][c])>> ELSE <<>>
      BY <1>5, MoveResponse
    <3> QED
      BY <1>4, <3>1
  <2>4. data'[m][c] = Received(m, c, Popped(m, csrCfgReg[m], Takes(takes)))
    BY <1>5, <2>0, MoveData
  <2>5. ~Popped(m, csrCfgReg[m], Takes(takes))
    BY <1>2 DEF Popped
  <2>6. data[m][c] = <<>> /\ response[m][c] = <<>>
    BY <1>1, <2>0
  <2>7. <<>> \o <<>> = <<>>
    OBVIOUS
  <2>8. data'[m][c] = <<>>
    BY <2>4, <2>5, <2>6, <2>7, Zenon DEF Received
  <2> QED
    BY <2>2, <2>3, <2>8
<1>10. ASSUME NEW m \in Writers, NEW c \in Channels PROVE data'[m][c] = <<>>
  <2>0. m \in Movers /\ m \notin Readers
    BY TheWriter
  <2>1. data'[m][c] = Sent(m, c, Gives, grants)
    BY <1>5, <2>0, MoveData
  <2>2. m \notin DOMAIN Gives
    BY <1>3 DEF Gives
  <2>3. <<m, c>> \notin grants /\ data[m][c] = <<>>
    BY <1>1, <1>4, <2>0
  <2>4. <<>> \o <<>> = <<>>
    OBVIOUS
  <2> QED
    BY <2>1, <2>2, <2>3, <2>4, Zenon DEF Sent
<1>11. \A m \in Movers, c \in Channels : data'[m][c] = <<>>
  BY <1>9, <1>10, TheWriter
<1>12. \A m \in Movers : ~agu'[m] /\ \A c \in Channels : addrs'[m][c] = <<>>
  BY <1>7, <1>8
<1> QED
  BY <1>8, <1>9, <1>11, <1>12, Zenon DEF IdleOK

-----------------------------------------------------------------------------
(* A cycle keeps the invariant.                                            *)

\* The variables of the movers stay functions on the movers and the channels.
LEMMA MoveTypes ==
  ASSUME NEW cfg, NEW start, NEW takes, NEW gives, NEW grants,
         Move(cfg, start, takes, gives, grants),
         \A m \in Movers :
            /\ agu'[m] \in BOOLEAN /\ counters'[m] \in Nat \X Nat
            /\ \A c \in Channels : addrs'[m][c] \in Seq(Items) /\ data'[m][c] \in Seq(Items),
         \A m \in Readers :
            /\ repeat'[m] \in Nat
            /\ \A c \in Channels : response'[m][c] \in Seq(Items) /\ credit'[m][c] \in Int
  PROVE  /\ agu' \in [Movers -> BOOLEAN] /\ counters' \in [Movers -> Nat \X Nat]
         /\ addrs' \in [Movers -> [Channels -> Seq(Items)]]
         /\ data' \in [Movers -> [Channels -> Seq(Items)]]
         /\ credit' \in [Readers -> [Channels -> Int]]
         /\ response' \in [Readers -> [Channels -> Seq(Items)]]
         /\ repeat' \in [Readers -> Nat]
<1> DEFINE G(m) == IF m \in start /\ \A i \in {1, 2} : Ceil(m, cfg[m])[i] # 0 THEN TRUE
                   ELSE agu[m] /\ ~(AddressFire(m, grants) /\ InnerLast(m, cfg[m]) /\ OuterLast(m, cfg[m]))
           C(m) == IF m \in start THEN <<0, 0>>
                   ELSE IF AddressFire(m, grants) THEN Tick(m, cfg[m]) ELSE counters[m]
           A(m, c) == IF AddressFire(m, grants)
                      THEN Append(Rest(addrs[m][c], <<m, c>> \in grants), Address(m, cfg[m], c))
                      ELSE Rest(addrs[m][c], <<m, c>> \in grants)
           D(m, c) == IF m \in Readers THEN Received(m, c, Popped(m, cfg[m], takes))
                      ELSE Sent(m, c, gives, grants)
           K(m, c) == Credit(m, c, Popped(m, cfg[m], takes), grants)
           R(m, c) == IF <<m, c>> \in grants THEN <<Head(addrs[m][c])>> ELSE <<>>
           P(m) == Repeat(m, cfg[m], start, takes)
<1>1. /\ agu' = [m \in Movers |-> G(m)] /\ counters' = [m \in Movers |-> C(m)]
      /\ addrs' = [m \in Movers |-> [c \in Channels |-> A(m, c)]]
  BY Zenon DEF Move, Generate, Rest
<1>2. /\ response' = [m \in Readers |-> [c \in Channels |-> R(m, c)]]
      /\ credit' = [m \in Readers |-> [c \in Channels |-> K(m, c)]]
      /\ repeat' = [m \in Readers |-> P(m)]
  BY Zenon DEF Move, Read
<1>3. data' = [m \in Movers |-> [c \in Channels |-> D(m, c)]]
  BY Zenon DEF Move
<1> HIDE DEF G, C, A, D, K, R, P
<1>4. agu' \in [Movers -> BOOLEAN]
  BY <1>1, Zenon
<1>5. counters' \in [Movers -> Nat \X Nat]
  BY <1>1, Zenon
<1>6. addrs' \in [Movers -> [Channels -> Seq(Items)]]
  BY <1>1
<1>7. data' \in [Movers -> [Channels -> Seq(Items)]]
  BY <1>3
<1>8. credit' \in [Readers -> [Channels -> Int]]
  BY <1>2
<1>9. response' \in [Readers -> [Channels -> Seq(Items)]]
  BY <1>2
<1>10. repeat' \in [Readers -> Nat]
  BY <1>2, Zenon
<1> QED
  BY <1>4, <1>5, <1>6, <1>7, <1>8, <1>9, <1>10

LEMMA CycleIInv ==
  ASSUME JobsFit, IInv, NEW steps, NEW takes, NEW grants, Cycle(steps, takes, grants)
  PROVE  IInv'
<1>1. csrCfgReg' = csrCfgReg
  BY CycleParts, Zenon
<1>2. Move(csrCfgReg, delayedStartPulses, Takes(takes), Gives, grants)
  BY CycleParts, Zenon
<1>3. state' = IF state = "sIDLE" THEN "sIDLE" ELSE IF streamer_finish THEN "sIDLE" ELSE "sBUSY"
  BY CycleParts, Zenon
<1>4. Types /\ CfgOK
  BY Zenon DEF IInv
<1>5. state \in {"sIDLE", "sBUSY"}
  BY <1>4 DEF Types
<1>6. \A m \in Readers : m \in Movers
  BY TheWriter
<1>7. Types'
  <2>1. \A m \in Movers :
          /\ agu'[m] \in BOOLEAN /\ counters'[m] \in Nat \X Nat
          /\ \A c \in Channels : addrs'[m][c] \in Seq(Items) /\ data'[m][c] \in Seq(Items)
    <3> TAKE m \in Movers
    <3>1. agu'[m] \in BOOLEAN /\ counters'[m] \in Nat \X Nat
      BY GenStep, Zenon
    <3>2. \A c \in Channels : addrs'[m][c] \in Seq(Items)
      BY AddrsStep, Zenon
    <3>3. \A c \in Channels : data'[m][c] \in Seq(Items)
      <4>1. CASE m \in Readers
        BY <4>1, ReaderStep, Zenon
      <4>2. CASE m \in Writers
        BY <4>2, WriterStep, Zenon
      <4> QED
        BY <4>1, <4>2, TheWriter
    <3> QED
      BY <3>1, <3>2, <3>3
  <2>2. \A m \in Readers :
          /\ repeat'[m] \in Nat
          /\ \A c \in Channels : response'[m][c] \in Seq(Items) /\ credit'[m][c] \in Int
    <3> TAKE m \in Readers
    <3>1. repeat'[m] \in Nat
      BY RepeatStep, Zenon
    <3>2. \A c \in Channels : response'[m][c] \in Seq(Items) /\ credit'[m][c] \in Int
      BY ReaderStep, Zenon
    <3> QED
      BY <3>1, <3>2
  <2>3. /\ agu' \in [Movers -> BOOLEAN] /\ counters' \in [Movers -> Nat \X Nat]
        /\ addrs' \in [Movers -> [Channels -> Seq(Items)]]
        /\ data' \in [Movers -> [Channels -> Seq(Items)]]
        /\ credit' \in [Readers -> [Channels -> Int]]
        /\ response' \in [Readers -> [Channels -> Seq(Items)]]
        /\ repeat' \in [Readers -> Nat]
    BY <1>2, <2>1, <2>2, MoveTypes
  <2>4. state' \in {"sIDLE", "sBUSY"}
    BY <1>3, <1>5
  <2>5. haveStarted' \in [Delayed -> BOOLEAN]
    <3> DEFINE H(m) == IF state = "sBUSY" THEN haveStarted[m] \/ startCsr[m] ELSE FALSE
    <3>1. haveStarted' = [m \in Delayed |-> H(m)]
      BY CycleParts, Zenon
    <3>2. \A m \in Delayed : H(m) \in BOOLEAN
      BY Zenon
    <3> QED
      BY <3>1, <3>2, Zenon
  <2>6. startCsr' \in [Delayed -> BOOLEAN] /\ regs' \in [Movers -> Cfgs]
    BY CoreStep, Zenon
  <2> QED
    BY <2>3, <2>4, <2>5, <2>6, Zenon DEF Types
<1>8. CfgOK'
  <2>1. state' = "sBUSY" => state = "sBUSY"
    BY <1>3, <1>5
  <2> QED
    BY <1>1, <1>4, <2>1, Zenon DEF CfgOK
<1>9. CoreOK'
  BY CoreStep, Zenon
<1>10. AguOK'
  BY <1>1, GenStep, Zenon DEF AguOK
<1>11. AddrsOK'
  <2>1. ASSUME NEW m \in Movers, NEW c \in Channels
        PROVE  /\ Granted(m, c)' >= 0
               /\ Segment(addrs'[m][c], AddressOf(m, csrCfgReg[m], c), Granted(m, c)')
    <3>1. /\ Granted(m, c)' \in Nat
          /\ Segment(addrs'[m][c], AddressOf(m, csrCfgReg[m], c), Granted(m, c)')
      BY AddrsStep, Zenon
    <3> QED
      BY <3>1
  <2> QED
    BY <1>1, <2>1, Zenon DEF AddrsOK
<1>12. ReadersOK'
  <2>1. ASSUME NEW m \in Readers, NEW c \in Channels
        PROVE  /\ Len(response'[m][c]) <= 1
               /\ credit'[m][c] = Len(response'[m][c]) + Len(data'[m][c])
               /\ credit'[m][c] <= DataDepth
               /\ Gone(m, c)' >= 0
               /\ Segment(data'[m][c], AddressOf(m, csrCfgReg[m], c), Gone(m, c)')
               /\ Segment(response'[m][c], AddressOf(m, csrCfgReg[m], c), Gone(m, c)' + Len(data'[m][c]))
    <3>1. Gone(m, c)' \in Nat
      BY ReaderStep, Zenon
    <3>2. Gone(m, c)' >= 0
      BY <3>1
    <3> QED
      BY <3>2, ReaderStep, Zenon
  <2> QED
    BY <1>1, <2>1, Zenon DEF ReadersOK
<1>13. RepeatsOK'
  <2>1. ASSUME NEW m \in Readers
        PROVE  IF m \in Used(csrCfgReg)
               THEN /\ repeat'[m] < repeat_times(csrCfgReg[m])
                    /\ \A c \in Channels :
                         /\ TakenWords' = repeat'[m] + repeat_times(csrCfgReg[m]) * Gone(m, c)'
                         /\ repeat'[m] # 0 => data'[m][c] # <<>>
               ELSE repeat'[m] = 0
    BY RepeatStep, Zenon
  <2> QED
    BY <1>1, <2>1, Zenon DEF RepeatsOK
<1>14. WriterOK'
  <2>1. ASSUME NEW m \in Writers, NEW c \in Channels
        PROVE  /\ Granted(m, c)' = TakenWords' - Len(acc'.out) - Len(data'[m][c])
               /\ Segment(data'[m][c], ResultOf(csrCfgReg, c), Granted(m, c)')
    BY WriterStep, Zenon
  <2> QED
    BY <1>1, <2>1, Zenon DEF WriterOK
<1>15. AccOK'
  BY AccStep, Zenon
<1>16. StoredOK'
  BY StoredStep, Zenon
<1>17. IdleOK'
  BY IdleStep, Zenon
<1> QED
  BY <1>7, <1>8, <1>9, <1>10, <1>11, <1>12, <1>13, <1>14, <1>15, <1>16, <1>17, Zenon DEF IInv

-----------------------------------------------------------------------------
(* A job starts: everything is empty, and the counting begins again.       *)

LEMMA NoResponse ==
  ASSUME NEW cfg, NEW start, NEW takes, NEW gives, NEW grants,
         Move(cfg, start, takes, gives, grants), NEW m \in Readers, NEW c \in Channels,
         <<m, c>> \notin grants
  PROVE  response'[m][c] = <<>>
<1>1. response' = [n \in Readers |-> [d \in Channels |->
                      IF <<n, d>> \in grants THEN <<Head(addrs[n][d])>> ELSE <<>>]]
  BY Zenon DEF Move, Read
<1> QED
  BY <1>1, Zenon

LEMMA FireParts ==
  ASSUME JobsFit, IInv, NEW steps, NEW takes, NEW grants,
         grants \subseteq Requests(csrCfg(steps), Takes(takes)),
         Clock(steps, takes, grants), streamer_config_fire(steps)
  PROVE  /\ Move(core.job, Movers \ Delayed, {}, Gives, {})
         /\ grants = {} /\ Given = {} /\ ~Running
         /\ state = "sIDLE" /\ state' = "sBUSY" /\ stored' = {}
         /\ csrCfgReg' = core.job /\ core.job \in Jobs
         /\ haveStarted' = [m \in Delayed |-> FALSE]
         /\ acc' = acc /\ regs' = regs /\ regs = core.job
         /\ startCsr' = startCsr /\ \A m \in Delayed : ~startCsr[m]
         /\ core.unset = {} /\ core.writes # <<>> /\ Head(core.writes) = "start" /\ core' = Done
<1>1. steps /\ Does("start") /\ state = "sIDLE"
  BY Zenon DEF streamer_config_fire
<1>2. core.unset = {} /\ core.writes # <<>> /\ Head(core.writes) = "start"
  BY <1>1, Zenon DEF Does
<1>3. ~Does("accelerate") /\ ~Does("delayed") /\ ~Does("clear") /\ ~Does("wait")
  BY <1>2 DEF Does
<1>4. CoreOK /\ AccOK /\ IdleOK /\ Types
  BY Zenon DEF IInv
<1>5. ~Running
  BY <1>1, <1>4 DEF AccOK
<1>6. acc.left = 0 /\ acc.out = <<>> /\ Given = {} /\ Takes(takes) = {}
  BY <1>5, TakeFacts, GivenFacts, Zenon DEF Running
<1>7. grants = {}
  <2>1. \A m \in Movers, c \in Channels : addrs[m][c] = <<>>
    BY <1>1, <1>4 DEF IdleOK
  <2>2. \A r \in Requests(csrCfg(steps), Takes(takes)) : r[1] \in Movers /\ r[2] \in Channels /\ addrs[r[1]][r[2]] # <<>>
    BY DEF Requests
  <2> QED
    BY <2>1, <2>2
<1>8. /\ core.job \in Jobs /\ \A m \in Movers : regs[m] = core.job[m]
      /\ \A m \in Delayed : ~startCsr[m]
  <2>1. core.writes # <<"clear", "wait">>
    BY <1>2
  <2>2. Movers \ core.unset = Movers
    BY <1>2
  <2> QED
    BY <1>4, <2>1, <2>2, Zenon DEF CoreOK
<1>9. regs = core.job
  <2>1. core.job \in [Movers -> Cfgs] /\ regs \in [Movers -> Cfgs]
    BY <1>4, <1>8 DEF JobsFit, Fits, Types
  <2> QED
    BY <1>8, <2>1
<1>10. csrCfg(steps) = core.job
  BY <1>9, Zenon DEF csrCfg
<1>11. Starts(steps) = Movers \ Delayed
  <2>1. delayedStartPulses = {}
    BY <1>1 DEF delayedStartPulses
  <2> QED
    BY <2>1 DEF Starts
<1>12. /\ Move(csrCfg(steps), Starts(steps), Takes(takes), Gives, grants)
       /\ Control(steps) /\ CoreSteps(steps)
       /\ stored' = IF streamer_config_fire(steps) THEN {} ELSE stored \cup Stores(grants)
  BY Zenon DEF Clock
<1>13. Accelerate(takes, steps /\ Does("accelerate") /\ ~Running)
  BY Zenon DEF Clock
<1>14. acc' = acc
  BY <1>3, <1>6, <1>13, Zenon DEF Accelerate
<1>15. Move(core.job, Movers \ Delayed, {}, Gives, {})
  BY <1>6, <1>7, <1>10, <1>11, <1>12, Zenon
<1>16. stored' = {}
  BY <1>12, Zenon
<1>17. state' = "sBUSY" /\ csrCfgReg' = core.job
  BY <1>1, <1>9, <1>12, Zenon DEF Control
<1>18. haveStarted' = [m \in Delayed |-> FALSE]
  <2>1. state # "sBUSY"
    BY <1>1
  <2> QED
    BY <1>12, <2>1, Zenon DEF Control
<1>19. core' = Done /\ regs' = regs /\ startCsr' = startCsr
  BY <1>1, <1>2, <1>3, <1>12, Zenon DEF CoreSteps
<1> QED
  BY <1>1, <1>2, <1>5, <1>6, <1>7, <1>8, <1>9, <1>14, <1>15, <1>16, <1>17, <1>18, <1>19

LEMMA FireIInv ==
  ASSUME JobsFit, IInv, NEW steps, NEW takes, NEW grants,
         grants \subseteq Requests(csrCfg(steps), Takes(takes)),
         Clock(steps, takes, grants), streamer_config_fire(steps)
  PROVE  IInv'
<1> DEFINE J == core.job
<1>1. /\ Move(J, Movers \ Delayed, {}, Gives, {})
      /\ Given = {} /\ ~Running
      /\ state = "sIDLE" /\ state' = "sBUSY" /\ stored' = {}
      /\ csrCfgReg' = J /\ J \in Jobs
      /\ haveStarted' = [m \in Delayed |-> FALSE]
      /\ acc' = acc /\ regs' = regs /\ regs = J
      /\ startCsr' = startCsr /\ \A m \in Delayed : ~startCsr[m]
      /\ core.unset = {} /\ core.writes # <<>> /\ Head(core.writes) = "start" /\ core' = Done
  BY FireParts, Zenon
<1>2. Types /\ CoreOK /\ AccOK /\ IdleOK /\ ReadersOK
  BY Zenon DEF IInv
<1>3. Fits(J) /\ Writers \subseteq Used(J)
  BY <1>1 DEF JobsFit
<1>4. N(J) \in Nat
  BY <1>3, UsedFacts, TheWriter
<1>5. /\ \A m \in Movers : ~agu[m] /\ \A c \in Channels : addrs[m][c] = <<>> /\ data[m][c] = <<>>
      /\ \A m \in Readers : repeat[m] = 0 /\ \A c \in Channels : response[m][c] = <<>>
  BY <1>1, <1>2, Zenon DEF IdleOK
<1>6. <<>> \o <<>> = <<>> /\ Len(<<>>) = 0 /\ <<>> \in Seq(Items)
  OBVIOUS
<1>7. /\ DOMAIN core' = {"job", "unset", "writes"} /\ core'.job = J
      /\ core'.unset = {} /\ core'.writes = Tail(core.writes)
  BY <1>1, <1>2 DEF CoreOK, Done
<1>8. Tail(core.writes) \in Writes /\ Tail(core.writes) # <<>> /\ Head(Tail(core.writes)) = "accelerate"
  BY <1>1, <1>2, ProgramFacts DEF CoreOK
<1>9. AccPending'
  BY <1>7, <1>8, Zenon DEF AccPending, Does
<1>10. TakenWords' = 0
  BY <1>9, Zenon DEF TakenWords
<1>11. acc.left = 0 /\ acc.out = <<>>
  BY <1>1 DEF Running
<1>12. ASSUME NEW m \in Movers, NEW c \in Channels
       PROVE  addrs'[m][c] = <<>>
  <2> DEFINE none == {}
  <2>1. Move(J, Movers \ Delayed, none, Gives, none) /\ ~AddressFire(m, none) /\ <<m, c>> \notin none
    BY <1>1, <1>5 DEF AddressFire
  <2> HIDE DEF none
  <2>2. addrs'[m][c] = Rest(addrs[m][c], <<m, c>> \in none)
    BY <2>1, MoveAddrs
  <2> QED
    BY <1>5, <2>1, <2>2 DEF Rest
<1>13. ASSUME NEW m \in Movers
       PROVE  /\ agu'[m] = (m \notin Delayed /\ \A i \in {1, 2} : Ceil(m, J[m])[i] # 0)
              /\ counters'[m] \in Nat \X Nat
              /\ agu'[m] => counters'[m][1] = 0 /\ counters'[m][2] = 0
  <2>1. ~AddressFire(m, {}) /\ ~agu[m]
    BY <1>5 DEF AddressFire
  <2>2. /\ agu'[m] = IF m \in Movers \ Delayed /\ \A i \in {1, 2} : Ceil(m, J[m])[i] # 0 THEN TRUE
                     ELSE agu[m] /\ ~(AddressFire(m, {}) /\ InnerLast(m, J[m]) /\ OuterLast(m, J[m]))
        /\ counters'[m] = IF m \in Movers \ Delayed THEN <<0, 0>>
                          ELSE IF AddressFire(m, {}) THEN Tick(m, J[m]) ELSE counters[m]
    BY <1>1, MoveGenerator, Zenon
  <2>3. agu'[m] = (m \notin Delayed /\ \A i \in {1, 2} : Ceil(m, J[m])[i] # 0)
    BY <2>1, <2>2, Zenon
  <2>4. counters'[m] = IF m \notin Delayed THEN <<0, 0>> ELSE counters[m]
    BY <2>1, <2>2, Zenon
  <2>5. counters[m] \in Nat \X Nat
    BY <1>2 DEF Types
  <2>6. counters'[m] \in Nat \X Nat
    BY <2>4, <2>5
  <2>7. agu'[m] => counters'[m] = <<0, 0>>
    BY <2>3, <2>4, Zenon
  <2> QED
    BY <2>3, <2>6, <2>7
<1>14. ASSUME NEW m \in Movers PROVE Gen(m)' = 0
  <2>1. Gen(m)' = IF agu'[m] THEN counters'[m][1] + counters'[m][2] * Ceil(m, J[m])[1]
                  ELSE IF m \in Delayed /\ state' = "sBUSY" /\ ~haveStarted'[m] THEN 0
                  ELSE Total(m, J[m])
    BY <1>1, Zenon DEF Gen, Waits
  <2>2. Ceil(m, J[m])[1] \in Nat /\ Ceil(m, J[m])[2] \in Nat
    BY <1>3, UsedFacts, CeilFacts
  <2>3. CASE agu'[m]
    <3> DEFINE b == Ceil(m, J[m])[1]
    <3>1. Gen(m)' = 0 + 0 * b
      BY <1>13, <2>1, <2>3, Zenon
    <3> HIDE DEF b
    <3> QED
      BY <2>2, <3>1 DEF b
  <2>4. CASE ~agu'[m] /\ m \in Delayed
    <3>1. ~haveStarted'[m]
      BY <1>1, <2>4
    <3> QED
      BY <1>1, <2>1, <2>4, <3>1, Zenon
  <2>5. CASE ~agu'[m] /\ m \notin Delayed
    <3>1. Ceil(m, J[m])[1] = 0 \/ Ceil(m, J[m])[2] = 0
      BY <1>13, <2>5
    <3>2. m \notin Used(J)
      BY <1>3, <3>1, UsedFacts
    <3>3. Total(m, J[m]) = 0
      BY <1>3, <3>2, UsedFacts
    <3> QED
      BY <2>1, <2>5, <3>3, Zenon
  <2> QED
    BY <2>3, <2>4, <2>5, Zenon
<1>15. ASSUME NEW m \in Movers, NEW c \in Channels PROVE Granted(m, c)' = 0
  <2>1. Granted(m, c)' = Gen(m)' - Len(addrs'[m][c])
    BY Zenon DEF Granted
  <2>2. Gen(m)' = 0 /\ Len(addrs'[m][c]) = 0
    BY <1>6, <1>12, <1>14, Zenon
  <2> QED
    BY <2>1, <2>2
<1>16. ASSUME NEW m \in Readers, NEW c \in Channels
       PROVE  data'[m][c] = <<>> /\ response'[m][c] = <<>> /\ credit'[m][c] = 0 /\ Gone(m, c)' = 0
  <2>0. m \in Movers
    BY TheWriter
  <2>1. data[m][c] = <<>> /\ response[m][c] = <<>> /\ credit[m][c] = 0
    <3>1. credit[m][c] = Len(response[m][c]) + Len(data[m][c])
      BY <1>2, Zenon DEF ReadersOK
    <3>2. data[m][c] = <<>> /\ response[m][c] = <<>>
      BY <1>5, <2>0
    <3> QED
      BY <3>1, <3>2
  <2>2. ~Popped(m, J[m], {})
    BY DEF Popped
  <2>3. response'[m][c] = <<>>
    <3> DEFINE none == {}
    <3>1. Move(J, Movers \ Delayed, none, Gives, none) /\ <<m, c>> \notin none
      BY <1>1
    <3> HIDE DEF none
    <3> QED
      BY <3>1, NoResponse
  <2>4. data'[m][c] = <<>>
    <3>1. data'[m][c] = Received(m, c, Popped(m, J[m], {}))
      BY <1>1, <2>0, MoveData
    <3> QED
      BY <1>6, <2>1, <2>2, <3>1, Zenon DEF Received
  <2>5. credit'[m][c] = 0
    <3>1. credit'[m][c] = Credit(m, c, Popped(m, J[m], {}), {})
      BY <1>1, MoveCredit
    <3>2. Popped(m, J[m], {}) = (<<m, c>> \in {})
      BY DEF Popped
    <3> QED
      BY <2>1, <3>1, <3>2, Zenon DEF Credit
  <2>6. Gone(m, c)' = Granted(m, c)' - Len(response'[m][c]) - Len(data'[m][c])
    BY Zenon DEF Gone
  <2>7. Gone(m, c)' = 0 - 0 - 0
    BY <1>6, <1>15, <2>0, <2>3, <2>4, <2>6, Zenon
  <2> QED
    BY <2>3, <2>4, <2>5, <2>7
<1>17. ASSUME NEW m \in Writers, NEW c \in Channels PROVE data'[m][c] = <<>>
  <2>0. m \in Movers /\ m \notin Readers
    BY TheWriter
  <2>1. data'[m][c] = Sent(m, c, Gives, {})
    BY <1>1, <2>0, MoveData
  <2>2. m \notin DOMAIN Gives
    BY <1>1 DEF Gives
  <2>3. <<m, c>> \notin {} /\ data[m][c] = <<>>
    BY <1>5, <2>0
  <2> QED
    BY <1>6, <2>1, <2>2, <2>3, Zenon DEF Sent
<1>18. ASSUME NEW m \in Readers PROVE repeat'[m] = 0
  <2>1. repeat'[m] = Repeat(m, J[m], Movers \ Delayed, {})
    BY <1>1, MoveRepeat
  <2> QED
    BY <1>5, <2>1 DEF Repeat
<1>19. Types'
  <2>1. \A m \in Movers :
          /\ agu'[m] \in BOOLEAN /\ counters'[m] \in Nat \X Nat
          /\ \A c \in Channels : addrs'[m][c] \in Seq(Items) /\ data'[m][c] \in Seq(Items)
    <3> TAKE m \in Movers
    <3>1. agu'[m] \in BOOLEAN /\ counters'[m] \in Nat \X Nat
      BY <1>13, Zenon
    <3>2. \A c \in Channels : addrs'[m][c] = <<>> /\ data'[m][c] = <<>>
      BY <1>12, <1>16, <1>17, TheWriter
    <3> QED
      BY <1>6, <3>1, <3>2
  <2>2. \A m \in Readers :
          /\ repeat'[m] \in Nat
          /\ \A c \in Channels : response'[m][c] \in Seq(Items) /\ credit'[m][c] \in Int
    <3> TAKE m \in Readers
    <3>1. repeat'[m] \in Nat
      BY <1>18
    <3>2. \A c \in Channels : response'[m][c] = <<>> /\ credit'[m][c] = 0
      BY <1>16, Zenon
    <3>3. 0 \in Int
      OBVIOUS
    <3> QED
      BY <1>6, <3>1, <3>2, <3>3, Zenon
  <2>3. /\ agu' \in [Movers -> BOOLEAN] /\ counters' \in [Movers -> Nat \X Nat]
        /\ addrs' \in [Movers -> [Channels -> Seq(Items)]]
        /\ data' \in [Movers -> [Channels -> Seq(Items)]]
        /\ credit' \in [Readers -> [Channels -> Int]]
        /\ response' \in [Readers -> [Channels -> Seq(Items)]]
        /\ repeat' \in [Readers -> Nat]
    BY <1>1, <2>1, <2>2, MoveTypes
  <2>4. haveStarted' \in [Delayed -> BOOLEAN] /\ state' \in {"sIDLE", "sBUSY"}
    BY <1>1
  <2>5. startCsr' \in [Delayed -> BOOLEAN] /\ regs' \in [Movers -> Cfgs]
    BY <1>1, <1>2 DEF Types
  <2> QED
    BY <2>3, <2>4, <2>5, Zenon DEF Types
<1>20. CfgOK'
  BY <1>1, <1>3, Zenon DEF CfgOK
<1>21. CoreOK'
  <2>1. \A m \in Delayed : ~startCsr'[m]
    BY <1>1
  <2> QED
    BY <1>1, <1>7, <1>8, <2>1, Zenon DEF CoreOK
<1>22. AguOK'
  <2>1. ASSUME NEW m \in Movers, agu'[m]
        PROVE  /\ state' = "sBUSY" /\ m \notin Delayed
               /\ counters'[m][1] < Ceil(m, J[m])[1] /\ counters'[m][2] < Ceil(m, J[m])[2]
    <3>1. Ceil(m, J[m])[1] \in Nat /\ Ceil(m, J[m])[2] \in Nat
      BY <1>3, UsedFacts, CeilFacts
    <3>2. m \notin Delayed /\ Ceil(m, J[m])[1] # 0 /\ Ceil(m, J[m])[2] # 0
      BY <1>13, <2>1
    <3>3. counters'[m][1] = 0 /\ counters'[m][2] = 0
      BY <1>13, <2>1
    <3> QED
      BY <1>1, <3>1, <3>2, <3>3
  <2> QED
    BY <1>1, <2>1, Zenon DEF AguOK
<1>23. AddrsOK'
  <2>1. ASSUME NEW m \in Movers, NEW c \in Channels
        PROVE  /\ Granted(m, c)' >= 0
               /\ Segment(addrs'[m][c], AddressOf(m, J[m], c), Granted(m, c)')
    BY <1>12, <1>15, SegmentEmpty
  <2> QED
    BY <1>1, <2>1, Zenon DEF AddrsOK
<1>24. ReadersOK'
  <2>1. ASSUME NEW m \in Readers, NEW c \in Channels
        PROVE  /\ Len(response'[m][c]) <= 1
               /\ credit'[m][c] = Len(response'[m][c]) + Len(data'[m][c])
               /\ credit'[m][c] <= DataDepth
               /\ Gone(m, c)' >= 0
               /\ Segment(data'[m][c], AddressOf(m, J[m], c), Gone(m, c)')
               /\ Segment(response'[m][c], AddressOf(m, J[m], c), Gone(m, c)' + Len(data'[m][c]))
    <3>1. 0 <= DataDepth
      BY DEF JobsFit
    <3>2. data'[m][c] = <<>> /\ response'[m][c] = <<>> /\ credit'[m][c] = 0 /\ Gone(m, c)' = 0
      BY <1>16
    <3>3. Len(data'[m][c]) = 0 /\ Len(response'[m][c]) = 0
      BY <3>2
    <3> QED
      BY <3>1, <3>2, <3>3, SegmentEmpty
  <2> QED
    BY <1>1, <2>1, Zenon DEF ReadersOK
<1>25. RepeatsOK'
  <2>1. ASSUME NEW m \in Readers
        PROVE  IF m \in Used(J)
               THEN /\ repeat'[m] < repeat_times(J[m])
                    /\ \A c \in Channels :
                         /\ TakenWords' = repeat'[m] + repeat_times(J[m]) * Gone(m, c)'
                         /\ repeat'[m] # 0 => data'[m][c] # <<>>
               ELSE repeat'[m] = 0
    <3>1. repeat'[m] = 0
      BY <1>18
    <3>2. m \in Movers
      BY TheWriter
    <3>3. repeat_times(J[m]) \in Nat
      BY <1>3, <3>2, UsedFacts, CeilFacts
    <3>4. m \in Used(J) => repeat_times(J[m]) # 0
      BY <1>3, <3>2, UsedFacts
    <3>5. repeat_times(J[m]) * 0 = 0
      BY <3>3
    <3>6. \A c \in Channels : TakenWords' = repeat'[m] + repeat_times(J[m]) * Gone(m, c)'
      BY <1>10, <1>16, <3>1, <3>5
    <3> QED
      BY <3>1, <3>3, <3>4, <3>6
  <2> QED
    BY <1>1, <2>1, Zenon DEF RepeatsOK
<1>26. WriterOK'
  <2>1. ASSUME NEW m \in Writers, NEW c \in Channels
        PROVE  /\ Granted(m, c)' = TakenWords' - Len(acc'.out) - Len(data'[m][c])
               /\ Segment(data'[m][c], ResultOf(J, c), Granted(m, c)')
    <3>1. Granted(m, c)' = 0
      BY <1>15, TheWriter
    <3>2. data'[m][c] = <<>> /\ Len(data'[m][c]) = 0 /\ Len(acc'.out) = 0
      BY <1>1, <1>11, <1>17
    <3> QED
      <4>1. Segment(data'[m][c], ResultOf(J, c), Granted(m, c)')
        BY <3>2, SegmentEmpty, Zenon
      <4>2. Granted(m, c)' = TakenWords' - Len(acc'.out) - Len(data'[m][c])
        <5>1. 0 = 0 - 0 - 0
          OBVIOUS
        <5> QED
          BY <1>10, <3>1, <3>2, <5>1, Zenon
      <4> QED
        BY <4>1, <4>2
  <2> QED
    BY <1>1, <2>1, Zenon DEF WriterOK
<1>27. AccOK'
  <2>1. ~Running'
    BY <1>1, Zenon DEF Running
  <2>2. acc.left \in 0 .. N(J)
    BY <1>4, <1>11
  <2>3. /\ DOMAIN acc = {"job", "left", "out"}
        /\ acc.out \in Seq([Channels -> Items]) /\ Len(acc.out) <= 1
    BY <1>2, Zenon DEF AccOK
  <2> QED
    BY <1>1, <1>11, <2>1, <2>2, <2>3, Zenon DEF AccOK
<1>28. StoredOK'
  <2>1. \A m \in Writers, c \in Channels : StoredBy(J, m, c, Granted(m, c)') = {}
    <3> TAKE m \in Writers, c \in Channels
    <3>1. Granted(m, c)' = 0
      BY <1>15, TheWriter
    <3> QED
      BY <3>1 DEF StoredBy
  <2>2. UNION {UNION {StoredBy(J, m, c, Granted(m, c)') : c \in Channels} : m \in Writers} = {}
    BY <2>1
  <2> QED
    BY <1>1, <2>2 DEF StoredOK
<1>29. IdleOK'
  BY <1>1 DEF IdleOK
<1> QED
  BY <1>19, <1>20, <1>21, <1>22, <1>23, <1>24, <1>25, <1>26, <1>27, <1>28, <1>29, Zenon DEF IInv

-----------------------------------------------------------------------------
(* The theorems.                                                           *)

LEMMA StepIInv == JobsFit /\ IInv /\ [Next]_vars => IInv'
<1> SUFFICES ASSUME JobsFit, IInv, [Next]_vars PROVE IInv'
  OBVIOUS
<1>1. CASE Next
  <2>0. PICK steps \in BOOLEAN, takes \in BOOLEAN :
          \E grants \in SUBSET Requests(csrCfg(steps), Takes(takes)) : Clock(steps, takes, grants)
    BY <1>1, Zenon DEF Next
  <2>1. PICK grants \in SUBSET Requests(csrCfg(steps), Takes(takes)) : Clock(steps, takes, grants)
    BY <2>0, Zenon
  <2>2. grants \subseteq Requests(csrCfg(steps), Takes(takes))
    BY <2>1
  <2>3. CASE streamer_config_fire(steps)
    BY <2>1, <2>2, <2>3, FireIInv
  <2>4. CASE ~streamer_config_fire(steps)
    BY <2>1, <2>2, <2>4, CycleIInv DEF Cycle
  <2> QED
    BY <2>3, <2>4
<1>2. CASE UNCHANGED vars
  <2>1. /\ agu' = agu /\ counters' = counters /\ addrs' = addrs /\ data' = data
        /\ credit' = credit /\ response' = response /\ repeat' = repeat
        /\ regs' = regs /\ startCsr' = startCsr /\ state' = state /\ csrCfgReg' = csrCfgReg
        /\ haveStarted' = haveStarted /\ acc' = acc /\ core' = core /\ stored' = stored
    BY <1>2 DEF vars, moverVars
  <2>2. /\ \A m : Gen(m)' = Gen(m)
        /\ \A m, c : Granted(m, c)' = Granted(m, c)
        /\ \A m, c : Gone(m, c)' = Gone(m, c)
        /\ (AccPending' <=> AccPending) /\ TakenWords' = TakenWords /\ (Running' <=> Running)
    BY <2>1 DEF Gen, Waits, Granted, Gone, AccPending, Does, TakenWords, Running
  <2>3. Types' /\ CfgOK' /\ CoreOK' /\ AguOK' /\ IdleOK'
    BY <2>1 DEF IInv, Types, CfgOK, CoreOK, AguOK, IdleOK
  <2>4. AddrsOK' /\ ReadersOK'
    BY <2>1, <2>2, Zenon DEF IInv, AddrsOK, ReadersOK
  <2>5. RepeatsOK' /\ WriterOK'
    BY <2>1, <2>2, Zenon DEF IInv, RepeatsOK, WriterOK
  <2>6. AccOK' /\ StoredOK'
    BY <2>1, <2>2 DEF IInv, AccOK, StoredOK
  <2> QED
    BY <2>3, <2>4, <2>5, <2>6, Zenon DEF IInv
<1> QED
  BY <1>1, <1>2

LEMMA IInvInOrder == JobsFit /\ IInv => DataInOrder
<1> SUFFICES ASSUME JobsFit, IInv PROVE DataInOrder
  OBVIOUS
<1>1. ASSUME acc.left # 0, NEW m \in UsedReaders(acc.job), OutValid(m), NEW c \in Channels
      PROVE  Head(data[m][c]) = Word(acc.job[m], Count(acc.job[m]) - acc.left, c)
  <2>1. Running
    BY <1>1 DEF Running
  <2>2. acc.job = csrCfgReg /\ ~AccPending
    BY <2>1 DEF IInv, AccOK
  <2>3. data[m][c] # <<>>
    BY <1>1 DEF OutValid
  <2>4. Head(data[m][c]) = Word(csrCfgReg[m], TakenWords, c)
    BY <1>1, <2>2, <2>3, OfferedRight
  <2>5. m \in Movers /\ m \in Used(csrCfgReg)
    BY <1>1, <2>2 DEF UsedReaders, Used
  <2>6. Count(csrCfgReg[m]) = N(csrCfgReg)
    BY <2>5, UsedFacts DEF IInv, CfgOK
  <2>7. TakenWords = N(csrCfgReg) - acc.left
    BY <2>2, Zenon DEF TakenWords
  <2> QED
    BY <2>2, <2>4, <2>6, <2>7, Zenon
<1>2. ASSUME NEW m \in Readers, NEW c \in Channels
      PROVE  Len(data[m][c]) + Len(response[m][c]) <= DataDepth
  <2>1. credit[m][c] = Len(response[m][c]) + Len(data[m][c]) /\ credit[m][c] <= DataDepth
    BY Zenon DEF IInv, ReadersOK
  <2>2. Len(response[m][c]) \in Nat /\ Len(data[m][c]) \in Nat
    BY QueueFacts, TheWriter
  <2> DEFINE r == Len(response[m][c])
             d == Len(data[m][c])
             k == credit[m][c]
  <2> HIDE DEF r, d, k
  <2>3. d + r <= DataDepth
    <3>1. k = r + d /\ k <= DataDepth /\ r \in Nat /\ d \in Nat
      BY <2>1, <2>2 DEF k, r, d
    <3> QED
      BY <3>1
  <2> QED
    BY <2>3 DEF r, d
<1> QED
  BY <1>1, <1>2, Zenon DEF DataInOrder

LEMMA IInvStored == JobsFit /\ IInv => AllStored
<1> SUFFICES ASSUME JobsFit, IInv, state = "sIDLE"
             PROVE  /\ stored = Expected(csrCfgReg)
                    /\ \A m \in Readers, c \in Channels : data[m][c] = <<>> /\ response[m][c] = <<>>
  BY DEF AllStored
<1> DEFINE J == csrCfgReg
           A(m, c, i) == [addr |-> AddressOf(m, J[m], c)[i], word |-> Result(J, i, c)]
           E(w, c, i) == [addr |-> Word(J[w], i, c), word |-> Result(J, i, c)]
<1>1. Fits(J) /\ IdleOK
  BY Zenon DEF IInv, CfgOK
<1>2. ASSUME NEW m \in Writers, NEW c \in Channels
      PROVE  /\ Granted(m, c) = Count(J[m]) /\ Count(J[m]) \in Nat
             /\ m \notin Used(J) => Count(J[m]) = 0
             /\ \A i \in Nat : A(m, c, i) = E(m, c, i)
  <2>0. m \in Movers /\ m \notin Readers
    BY TheWriter
  <2>1. ~agu[m] /\ ~Waits(m) /\ Len(addrs[m][c]) = 0
    BY <1>1, <2>0 DEF IdleOK, Waits
  <2>2. J[m] \in Cfgs /\ Total(m, J[m]) = Count(J[m]) /\ Count(J[m]) \in Nat
    BY <1>1, <2>0, UsedFacts, CeilFacts
  <2>3. Granted(m, c) = Count(J[m]) - 0
    BY <2>1, <2>2, Zenon DEF Granted, Gen
  <2>4. Granted(m, c) = Count(J[m])
    BY <2>2, <2>3
  <2>5. m \notin Used(J) => Count(J[m]) = 0
    BY <2>0 DEF Used
  <2>6. \A i \in Nat : A(m, c, i) = E(m, c, i)
    BY <2>0, <2>2, WordOfWriter, Zenon
  <2> QED
    BY <2>2, <2>4, <2>5, <2>6
<1>3. stored = UNION {UNION {StoredBy(J, m, c, Granted(m, c)) : c \in Channels} : m \in Writers}
  BY Zenon DEF IInv, StoredOK
<1>4. \A m, c, k : StoredBy(J, m, c, k) = {A(m, c, i) : i \in 0 .. k - 1}
  BY Zenon DEF StoredBy
<1>5. Expected(J) = UNION {{E(w, c, i) : i \in 0 .. Count(J[w]) - 1, c \in Channels} : w \in Used(J) \cap Writers}
  BY DEF Expected
<1> HIDE DEF A, E
<1>6. ASSUME NEW x \in stored PROVE x \in Expected(J)
  <2>1. PICK m \in Writers : \E c \in Channels : x \in StoredBy(J, m, c, Granted(m, c))
    BY <1>3
  <2>2. PICK c \in Channels : x \in StoredBy(J, m, c, Granted(m, c))
    BY <2>1
  <2>3. PICK i \in 0 .. Count(J[m]) - 1 : x = A(m, c, i)
    <3>1. x \in {A(m, c, i) : i \in 0 .. Granted(m, c) - 1}
      BY <1>4, <2>2, Zenon
    <3>2. x \in {A(m, c, i) : i \in 0 .. Count(J[m]) - 1}
      BY <1>2, <3>1, Zenon
    <3> QED
      BY <3>2, Zenon
  <2>4. i \in Nat /\ m \in Used(J)
    BY <1>2, <2>3
  <2>5. x = E(m, c, i)
    BY <1>2, <2>3, <2>4, Zenon
  <2>6. x \in {E(m, d, k) : k \in 0 .. Count(J[m]) - 1, d \in Channels}
    BY <2>3, <2>5
  <2>7. m \in Used(J) \cap Writers
    BY <2>4
  <2> QED
    BY <1>5, <2>6, <2>7
<1>7. ASSUME NEW x \in Expected(J) PROVE x \in stored
  <2>1. PICK w \in Used(J) \cap Writers : x \in {E(w, c, i) : i \in 0 .. Count(J[w]) - 1, c \in Channels}
    BY <1>5
  <2>2. PICK i \in 0 .. Count(J[w]) - 1, c \in Channels : x = E(w, c, i)
    BY <2>1
  <2>3. w \in Writers /\ i \in Nat /\ i \in 0 .. Granted(w, c) - 1
    BY <1>2, <2>2
  <2>4. x = A(w, c, i)
    BY <1>2, <2>2, <2>3, Zenon
  <2>5. x \in StoredBy(J, w, c, Granted(w, c))
    <3>1. x \in {A(w, c, k) : k \in 0 .. Granted(w, c) - 1}
      BY <2>3, <2>4
    <3> QED
      BY <1>4, <3>1, Zenon
  <2> QED
    BY <1>3, <2>3, <2>5
<1>8. stored = Expected(J)
  BY <1>6, <1>7, Zenon
<1>9. \A m \in Readers, c \in Channels : data[m][c] = <<>> /\ response[m][c] = <<>>
  BY <1>1, TheWriter DEF IdleOK
<1> QED
  BY <1>8, <1>9

(***************************************************************************)
(* For any job that fits the streamer, and any readers, channels and       *)
(* depths: a reader in use offers the accelerator the next word of the     *)
(* job's loops in every channel, repeated as often as the loops say, and   *)
(* no response of the TCDM meets a full queue.                             *)
(***************************************************************************)
THEOREM ReadersOfferInOrder == JobsFit => (Spec => []DataInOrder)
<1> SUFFICES ASSUME JobsFit PROVE Spec => []DataInOrder
  OBVIOUS
<1>1. Init => IInv
  BY InitIInv
<1>2. IInv /\ [Next]_vars => IInv'
  BY StepIInv
<1>3. IInv => DataInOrder
  BY IInvInOrder
<1> QED
  BY <1>1, <1>2, <1>3, PTL DEF Spec

(***************************************************************************)
(* When the streamer goes back to sIDLE the memory holds exactly what the  *)
(* loops of the job say, each result at its address, and the readers have  *)
(* kept nothing that the next job could take for its own.                  *)
(***************************************************************************)
THEOREM JobsAreStored == JobsFit => (Spec => []AllStored)
<1> SUFFICES ASSUME JobsFit PROVE Spec => []AllStored
  OBVIOUS
<1>1. Init => IInv
  BY InitIInv
<1>2. IInv /\ [Next]_vars => IInv'
  BY StepIInv
<1>3. IInv => AllStored
  BY IInvStored
<1> QED
  BY <1>1, <1>2, <1>3, PTL DEF Spec
=============================================================================
