------------------------------ MODULE OffloadProofs ------------------------------
(***************************************************************************)
(* Proofs about the two ways on which a Snitch core hands work over.       *)
(*                                                                         *)
(* The FPU sequencer, for any programs, any depth of its ring and of its   *)
(* configuration buffer: what the FPU is issued is the program with its    *)
(* loops unrolled.                                                         *)
(* The trace script beside it works out the same from the lines of the     *)
(* simulation.                                                             *)
(*                                                                         *)
(* The way of the SNAX control register accesses, for any registers, any   *)
(* values and any behaviour of the core, the arbiter and the accelerators: *)
(* a port launches its jobs with the configuration that the program had    *)
(* written when it ordered them, and as long as reads of both ports are    *)
(* not outstanding at once every answer is the right one.                  *)
(***************************************************************************)
EXTENDS SeqTrace, CsrPort, FiniteSetTheorems, SequenceTheorems, TLAPS
-----------------------------------------------------------------------------
(* Numbers: induction, and remainders.                                     *)

\* Induction over the natural numbers, for a set of them.
LEMMA NatSetInduction ==
  ASSUME NEW T, 0 \in T, \A n \in Nat : n \in T => n + 1 \in T
  PROVE  \A n \in Nat : n \in T
<1> DEFINE Bad == {n \in Nat : n \notin T}
<1> SUFFICES ASSUME Bad # {} PROVE FALSE
  OBVIOUS
<1>1. \E m \in Bad : \A n \in Bad : ~ (<<n, m>> \in OpToRel(<, Nat))
  <2>1. Bad \subseteq Nat
    OBVIOUS
  <2> HIDE DEF Bad
  <2> QED
    BY <2>1, WFMin, NatLessThanWellFounded
<1>2. PICK m \in Bad : \A n \in Bad : ~ (<<n, m>> \in OpToRel(<, Nat))
  BY <1>1
<1>3. m \in Nat /\ m # 0 /\ m - 1 \in Nat
  OBVIOUS
<1>4. m - 1 \in Bad
  BY <1>3
<1>5. <<m - 1, m>> \in OpToRel(<, Nat)
  BY <1>3 DEF OpToRel
<1> QED
  BY <1>2, <1>4, <1>5

LEMMA DivModUnique ==
  ASSUME NEW b \in Nat, NEW a \in Nat, a < b, NEW q \in Nat
  PROVE  (a + q * b) % b = a /\ (a + q * b) \div b = q
<1> DEFINE x == a + q * b
           d == x \div b
           r == x % b
<1>1. q * b \in Nat /\ x \in Nat
  OBVIOUS
<1>2. d \in Int /\ r \in Int /\ 0 <= r /\ r < b /\ x = b * d + r
  BY <1>1, b > 0
<1> HIDE DEF d, r
<1>3. q = d
  <2>1. CASE q < d
    <3>1. q + 1 <= d
      BY <1>2, <2>1
    <3>2. b * (q + 1) <= b * d
      BY <1>2, <3>1
    <3>3. b * (q + 1) = q * b + b
      OBVIOUS
    <3> QED
      BY <1>1, <1>2, <3>2, <3>3
  <2>2. CASE q > d
    <3>1. d + 1 <= q
      BY <1>2, <2>2
    <3>2. b * (d + 1) <= b * q
      BY <1>2, <3>1
    <3>3. b * (d + 1) = b * d + b /\ b * q = q * b
      BY <1>2
    <3> QED
      BY <1>1, <1>2, <3>2, <3>3
  <2> QED
    BY <1>2, <2>1, <2>2
<1>4. b * d = q * b
  BY <1>3
<1>5. r = a
  BY <1>1, <1>2, <1>4
<1> QED
  BY <1>3, <1>5 DEF d, r


\* A number is its remainder and a multiple.
LEMMA DivModSplit ==
  ASSUME NEW a \in Nat, NEW d \in Nat \ {0}
  PROVE  a % d \in 0 .. d - 1 /\ a \div d \in Nat /\ a = (a % d) + (a \div d) * d
<1> DEFINE q == a \div d
           r == a % d
<1>1. q \in Int /\ r \in Int /\ 0 <= r /\ r < d /\ a = d * q + r
  BY d > 0
<1> HIDE DEF q, r
<1>2. q >= 0
  <2> SUFFICES ASSUME q < 0 PROVE FALSE
    BY <1>1
  <2>1. q + 1 <= 0
    BY <1>1
  <2>2. d * (q + 1) <= 0
    BY <1>1, <2>1
  <2>3. d * (q + 1) = d * q + d
    BY <1>1
  <2> QED
    BY <1>1, <2>2, <2>3
<1>3. d * q = q * d
  BY <1>1
<1>4. q \in Nat /\ r \in 0 .. d - 1 /\ a = r + q * d
  BY <1>1, <1>2, <1>3
<1> QED
  BY <1>4 DEF q, r

\* Numbers less than d apart have different remainders.
LEMMA ModEqual ==
  ASSUME NEW d \in Nat \ {0}, NEW a \in Nat, NEW b \in Nat, a <= b, b - a < d, a % d = b % d
  PROVE  a = b
<1> DEFINE qa == a \div d
           qb == b \div d
           r == a % d
<1>1. qa \in Nat /\ qb \in Nat /\ r \in 0 .. d - 1 /\ a = r + qa * d /\ b = r + qb * d
  BY DivModSplit
<1> HIDE DEF qa, qb, r
<1>2. CASE qa < qb
  <2>1. qa + 1 <= qb
    BY <1>1, <1>2
  <2>2. (qa + 1) * d <= qb * d
    BY <1>1, <2>1
  <2>3. (qa + 1) * d = qa * d + d
    BY <1>1
  <2> QED
    BY <1>1, <2>2, <2>3
<1>3. CASE qb < qa
  <2>1. qb + 1 <= qa
    BY <1>1, <1>3
  <2>2. (qb + 1) * d <= qa * d
    BY <1>1, <2>1
  <2>3. (qb + 1) * d = qb * d + d
    BY <1>1
  <2> QED
    BY <1>1, <2>2, <2>3
<1> QED
  BY <1>1, <1>2, <1>3

LEMMA ModAdd ==
  ASSUME NEW d \in Nat \ {0}, NEW a \in Nat, NEW n \in Nat
  PROVE  ((a % d) + n) % d = (a + n) % d
<1> DEFINE q == a \div d
           r == a % d
           q2 == (r + n) \div d
           r2 == (r + n) % d
<1>1. q \in Nat /\ r \in 0 .. d - 1 /\ a = r + q * d
  BY DivModSplit
<1> HIDE DEF q, r
<1>2. r + n \in Nat
  BY <1>1
<1>3. q2 \in Nat /\ r2 \in 0 .. d - 1 /\ r + n = r2 + q2 * d
  BY <1>2, DivModSplit
<1> HIDE DEF q2, r2
<1>4. q2 * d + q * d = (q2 + q) * d /\ q2 + q \in Nat /\ q2 * d \in Nat /\ q * d \in Nat
  BY <1>1, <1>3
<1>5. a + n = r2 + (q2 + q) * d
  BY <1>1, <1>3, <1>4
<1>6. (r2 + (q2 + q) * d) % d = r2
  <2> DEFINE q3 == q2 + q
  <2>1. q3 \in Nat /\ d \in Nat /\ r2 \in Nat /\ r2 < d
    BY <1>3, <1>4
  <2> HIDE DEF q3
  <2>2. (r2 + q3 * d) % d = r2
    BY <2>1, DivModUnique, Zenon
  <2> QED
    BY <2>2 DEF q3
<1>7. (a + n) % d = r2
  BY <1>5, <1>6
<1> QED
  BY <1>7 DEF r2, r

LEMMA ModTwice ==
  ASSUME NEW d \in Nat \ {0}, NEW a \in Nat
  PROVE  (a % (2 * d)) % d = a % d
<1> DEFINE e == 2 * d
           q == a \div e
           r == a % e
           q2 == r \div d
           r2 == r % d
<1>0. e \in Nat \ {0} /\ e = 2 * d
  OBVIOUS
<1> HIDE DEF e
<1>1. q \in Nat /\ r \in 0 .. e - 1 /\ a = r + q * e
  BY <1>0, DivModSplit
<1> HIDE DEF q, r
<1> r \in Nat
  BY <1>0, <1>1
<1>2. q2 \in Nat /\ r2 \in 0 .. d - 1 /\ r = r2 + q2 * d
  BY DivModSplit
<1> HIDE DEF q2, r2
<1>3. q * e = (2 * q) * d /\ q2 * d + (2 * q) * d = (q2 + 2 * q) * d /\ q2 + 2 * q \in Nat
      /\ q2 * d \in Nat /\ (2 * q) * d \in Nat
  BY <1>0, <1>1, <1>2
<1>4. a = r2 + (q2 + 2 * q) * d
  BY <1>1, <1>2, <1>3
<1>5. (r2 + (q2 + 2 * q) * d) % d = r2
  <2> DEFINE q3 == q2 + 2 * q
  <2>1. q3 \in Nat /\ d \in Nat /\ r2 \in Nat /\ r2 < d
    BY <1>2, <1>3
  <2> HIDE DEF q3
  <2>2. (r2 + q3 * d) % d = r2
    BY <2>1, DivModUnique, Zenon
  <2> QED
    BY <2>2 DEF q3
<1>6. a % d = r2
  BY <1>4, <1>5
<1> QED
  BY <1>6 DEF r2, r, e

LEMMA RemainderType ==
  \A k \in Nat, d \in Nat \ {0} : k % d \in Nat /\ k \div d \in Nat
<1> TAKE k \in Nat, d \in Nat \ {0}
<1>1. k % d \in 0 .. d - 1 /\ k \div d \in Nat
  BY DivModSplit
<1> DEFINE r == k % d
<1>2. r \in 0 .. d - 1
  BY <1>1
<1> HIDE DEF r
<1>3. r \in Nat
  BY <1>2
<1> QED
  BY <1>1, <1>3 DEF r

\* Two counters, the first counting up to n for each value of the second up to m.
LEMMA TwoCounters ==
  ASSUME NEW n \in Nat, NEW m \in Nat, NEW a \in 0 .. n, NEW b \in 0 .. m
  PROVE  /\ a + b * (n + 1) \in Nat /\ a + b * (n + 1) < (n + 1) * (m + 1)
         /\ (a + b * (n + 1)) % (n + 1) = a /\ (a + b * (n + 1)) \div (n + 1) = b
         /\ a < n => a + b * (n + 1) + 1 = (a + 1) + b * (n + 1)
         /\ a = n /\ b < m => a + b * (n + 1) + 1 = 0 + (b + 1) * (n + 1)
         /\ a = n /\ b = m => a + b * (n + 1) + 1 = (n + 1) * (m + 1)
<1> DEFINE c == n + 1
           x == b * c
<1>1. c \in Nat /\ a \in Nat /\ b \in Nat /\ a < c /\ b + 1 <= m + 1 /\ c = n + 1
  OBVIOUS
<1> HIDE DEF c
<1>2. x \in Nat /\ (b + 1) * c = x + c
  BY <1>1
<1>3. (b + 1) * c <= (m + 1) * c /\ (m + 1) * c = c * (m + 1)
  BY <1>1
<1>4. (a + b * c) % c = a /\ (a + b * c) \div c = b
  BY <1>1, DivModUnique
<1>8. b = m => (b + 1) * c = c * (m + 1)
  BY <1>3
<1> DEFINE y == (b + 1) * c
           z == c * (m + 1)
<1>9. y = x + c /\ y <= z /\ z = z /\ (b = m => y = z)
  BY <1>2, <1>3, <1>8
<1> HIDE DEF x, y, z
<1>5. a + x \in Nat /\ a + x < z
  <2>1. c * (m + 1) \in Int /\ z = c * (m + 1)
    BY <1>1 DEF z
  <2>2. z \in Int
    BY <2>1
  <2> QED
    BY <1>1, <1>2, <1>9, <2>2
<1>6. a < n => a + x + 1 = (a + 1) + x
  BY <1>1, <1>2
<1>7. a = n => a + x + 1 = 0 + y
  BY <1>1, <1>2, <1>9
<1>10. a = n /\ b = m => a + x + 1 = z
  <2>1. 0 + y = y
    BY <1>1, <1>2, <1>9
  <2> QED
    BY <1>7, <1>9, <2>1
<1> QED
  BY <1>4, <1>5, <1>6, <1>7, <1>10 DEF c, x, y, z

LEMMA ModNext ==
  ASSUME NEW x \in Nat, NEW m \in Nat
  PROVE  (x + 1) % (m + 1) = IF x % (m + 1) = m THEN 0 ELSE (x % (m + 1)) + 1
<1> DEFINE d == m + 1
           q == x \div d
           r == x % d
<1>1. d \in Nat \ {0} /\ d = m + 1
  OBVIOUS
<1> HIDE DEF d
<1>2. r \in 0 .. d - 1 /\ q \in Nat /\ x = r + q * d
  BY <1>1, DivModSplit
<1> HIDE DEF q, r
<1>3. CASE r = m
  <2>1. q + 1 \in Nat /\ (q + 1) * d = q * d + d /\ q * d \in Nat
    BY <1>1, <1>2
  <2>2. x + 1 = 0 + (q + 1) * d
    BY <1>1, <1>2, <1>3, <2>1
  <2>3. (0 + (q + 1) * d) % d = 0
    <3> DEFINE u == q + 1
    <3>1. u \in Nat /\ 0 \in Nat /\ 0 < d /\ d \in Nat
      BY <1>1, <2>1
    <3> HIDE DEF u
    <3>2. (0 + u * d) % d = 0
      BY <3>1, DivModUnique, Zenon
    <3> QED
      BY <3>2 DEF u
  <2> QED
    BY <1>3, <2>2, <2>3 DEF d, r
<1>4. CASE r # m
  <2> DEFINE u == r + 1
  <2>1. u \in Nat /\ u < d /\ d \in Nat
    BY <1>1, <1>2, <1>4
  <2>2. x + 1 = u + q * d
    <3>1. q * d \in Nat
      BY <1>1, <1>2
    <3> QED
      BY <1>2, <3>1
  <2> HIDE DEF u
  <2>3. (u + q * d) % d = u
    BY <1>2, <2>1, DivModUnique, Zenon
  <2> QED
    BY <1>4, <2>2, <2>3 DEF d, r, u
<1> QED
  BY <1>3, <1>4

-----------------------------------------------------------------------------
(* Counting the instructions of a program.                                 *)

\* How many instructions of a kind stand before place i.
Before(p, kind, i) == Cardinality({j \in 1 .. i - 1 : p[j].kind = kind})
PlainsBefore(p, i) == Before(p, "plain", i)
LoopsBefore(p, i) == Before(p, "frep", i)

LEMMA BeforeFacts ==
  ASSUME NEW p, NEW kind, NEW i \in Nat \ {0}
  PROVE  /\ Before(p, kind, i) \in Nat
         /\ Before(p, kind, i + 1) = Before(p, kind, i) + (IF p[i].kind = kind THEN 1 ELSE 0)
<1> DEFINE S == {j \in 1 .. i - 1 : p[j].kind = kind}
           T == {j \in 1 .. (i + 1) - 1 : p[j].kind = kind}
<1>1. IsFiniteSet(S)
  <2>1. S \subseteq 1 .. i - 1
    OBVIOUS
  <2> HIDE DEF S
  <2>2. 1 \in Int /\ i - 1 \in Int
    OBVIOUS
  <2>3. IsFiniteSet(1 .. i - 1)
    BY <2>2, FS_Interval
  <2> QED
    BY <2>1, <2>3, FS_Subset
<1>2. T = IF p[i].kind = kind THEN S \cup {i} ELSE S
  <2>1. ASSUME NEW j PROVE j \in T <=> j \in S \/ (j = i /\ p[i].kind = kind)
    OBVIOUS
  <2> HIDE DEF S, T
  <2> QED
    BY <2>1
<1>3. i \notin S
  OBVIOUS
<1>4. Before(p, kind, i) = Cardinality(S) /\ Before(p, kind, i + 1) = Cardinality(T)
  BY Zenon DEF Before
<1> HIDE DEF S, T
<1>5. Cardinality(S) \in Nat
  BY <1>1, FS_CardinalityType
<1>6. Cardinality(S \cup {i}) = Cardinality(S) + 1
  BY <1>1, <1>3, FS_AddElement
<1> QED
  BY <1>2, <1>4, <1>5, <1>6

LEMMA BeforeFirst ==
  ASSUME NEW p, NEW kind
  PROVE  Before(p, kind, 1) = 0
<1>1. {j \in 1 .. 1 - 1 : p[j].kind = kind} = {}
  OBVIOUS
<1> QED
  BY <1>1, FS_EmptySet DEF Before

LEMMA BeforeMonotone ==
  ASSUME NEW p, NEW kind, NEW i \in Nat \ {0}, NEW j \in Nat, i <= j
  PROVE  Before(p, kind, i) <= Before(p, kind, j)
<1> DEFINE Good == {n \in Nat : Before(p, kind, i) <= Before(p, kind, i + n)}
<1>1. 0 \in Good
  BY BeforeFacts
<1>2. ASSUME NEW n \in Nat, n \in Good PROVE n + 1 \in Good
  <2>1. Before(p, kind, i + n) \in Nat
        /\ Before(p, kind, (i + n) + 1) = Before(p, kind, i + n) + (IF p[i + n].kind = kind THEN 1 ELSE 0)
    <3>1. i + n \in Nat \ {0}
      OBVIOUS
    <3> QED
      BY <3>1, BeforeFacts, Zenon
  <2>2. Before(p, kind, i) \in Nat /\ Before(p, kind, i) <= Before(p, kind, i + n)
    BY <1>2, BeforeFacts
  <2>3. (i + n) + 1 = i + (n + 1)
    OBVIOUS
  <2>4. Before(p, kind, i) <= Before(p, kind, i + (n + 1))
    BY <2>1, <2>2, <2>3
  <2> QED
    BY <2>4
<1>3. \A n \in Nat : n \in Good
  <2> HIDE DEF Good
  <2> QED
    BY <1>1, <1>2, NatSetInduction
<1>4. j - i \in Nat /\ i + (j - i) = j
  OBVIOUS
<1> QED
  BY <1>3, <1>4

LEMMA BeforeStrict ==
  ASSUME NEW p, NEW kind, NEW i \in Nat \ {0}, NEW j \in Nat, i < j, p[i].kind = kind
  PROVE  Before(p, kind, i) + 1 <= Before(p, kind, j)
<1>1. Before(p, kind, i + 1) = Before(p, kind, i) + 1
  BY BeforeFacts
<1>2. i + 1 \in Nat \ {0} /\ i + 1 <= j
  OBVIOUS
<1>3. Before(p, kind, i + 1) <= Before(p, kind, j)
  BY <1>2, BeforeMonotone
<1> QED
  BY <1>1, <1>3

\* n instructions of one kind in a row.
LEMMA BeforeRun ==
  ASSUME NEW p, NEW kind, NEW i \in Nat \ {0}, NEW n \in Nat,
         \A j \in i .. i + n - 1 : p[j].kind = kind
  PROVE  Before(p, kind, i + n) = Before(p, kind, i) + n
<1> DEFINE Good == {m \in Nat : m <= n => Before(p, kind, i + m) = Before(p, kind, i) + m}
<1>0. Before(p, kind, i) \in Nat
  BY BeforeFacts
<1>1. 0 \in Good
  BY <1>0
<1>2. ASSUME NEW m \in Nat, m \in Good PROVE m + 1 \in Good
  <2> SUFFICES ASSUME m + 1 <= n PROVE Before(p, kind, i + (m + 1)) = Before(p, kind, i) + (m + 1)
    OBVIOUS
  <2>1. Before(p, kind, i + m) = Before(p, kind, i) + m
    BY <1>2
  <2>2. i + m \in Nat \ {0} /\ p[i + m].kind = kind
    OBVIOUS
  <2>3. Before(p, kind, (i + m) + 1) = Before(p, kind, i + m) + 1
    BY <2>2, BeforeFacts
  <2>4. (i + m) + 1 = i + (m + 1)
    OBVIOUS
  <2> QED
    BY <1>0, <2>1, <2>3, <2>4
<1>3. \A m \in Nat : m \in Good
  <2> HIDE DEF Good
  <2> QED
    BY <1>1, <1>2, NatSetInduction
<1> QED
  BY <1>3

LEMMA BeforeOthers ==
  ASSUME NEW p, NEW kind, NEW i \in Nat \ {0}, NEW n \in Nat,
         \A j \in i .. i + n - 1 : p[j].kind # kind
  PROVE  Before(p, kind, i + n) = Before(p, kind, i)
<1> DEFINE Good == {m \in Nat : m <= n => Before(p, kind, i + m) = Before(p, kind, i)}
<1>0. Before(p, kind, i) \in Nat
  BY BeforeFacts
<1>1. 0 \in Good
  OBVIOUS
<1>2. ASSUME NEW m \in Nat, m \in Good PROVE m + 1 \in Good
  <2> SUFFICES ASSUME m + 1 <= n PROVE Before(p, kind, i + (m + 1)) = Before(p, kind, i)
    OBVIOUS
  <2>1. Before(p, kind, i + m) = Before(p, kind, i)
    BY <1>2
  <2>2. i + m \in Nat \ {0} /\ p[i + m].kind # kind
    OBVIOUS
  <2>3. Before(p, kind, (i + m) + 1) = Before(p, kind, i + m) + 0
    BY <2>2, BeforeFacts, Zenon
  <2>4. (i + m) + 1 = i + (m + 1)
    OBVIOUS
  <2> QED
    BY <1>0, <2>1, <2>3, <2>4
<1>3. \A m \in Nat : m \in Good
  <2> HIDE DEF Good
  <2> QED
    BY <1>1, <1>2, NatSetInduction
<1> QED
  BY <1>3

-----------------------------------------------------------------------------
(* What a program has issued.                                              *)

Issue == [op : Nat, stagger : Nat]

IsLoop(p, i) == i <= Len(p) /\ p[i].kind = "frep"
Repetitions(p, i) == IF p[i].is_streamctl THEN p[i].tokens ELSE p[i].max_rpt + 1
Size(p, i) == (p[i].max_inst + 1) * Repetitions(p, i)

\* The issue of the loop at place i after k others.
Issued(p, i, k) ==
    LET n == p[i].max_inst + 1
    IN  [op |-> i + 1 + (IF p[i].is_outer THEN k % n ELSE k \div Repetitions(p, i)),
         stagger |-> IF ~p[i].stagger_mask THEN 0
                     ELSE (IF p[i].is_outer THEN k \div n ELSE k) % (p[i].stagger_max + 1)]

\* All that is issued from place i on, and from the k-th issue of the loop there.
Unfolds(p, g) ==
    g = [i \in 1 .. Len(p) + 1 |->
            IF i > Len(p) THEN <<>>
            ELSE IF p[i].kind = "frep" THEN Loop(p, i) \o g[i + p[i].max_inst + 2]
            ELSE <<[op |-> i, stagger |-> 0]>> \o g[i + 1]]
IssuesFrom(p) == CHOOSE g : Unfolds(p, g)

Rest(p, i, k) ==
    IF IsLoop(p, i)
    THEN SubSeq(Loop(p, i), k + 1, Size(p, i)) \o IssuesFrom(p)[i + p[i].max_inst + 2]
    ELSE IssuesFrom(p)[i]

LEMMA LoopType ==
  ASSUME NEW p, NEW i \in Nat, FrepFits(p, i)
  PROVE  /\ p[i].is_streamctl \in BOOLEAN /\ p[i].is_outer \in BOOLEAN /\ p[i].stagger_mask \in BOOLEAN
         /\ p[i].max_inst \in Nat /\ p[i].max_rpt \in Nat /\ p[i].stagger_max \in Nat
         /\ Repetitions(p, i) \in Nat /\ (~p[i].is_streamctl => Repetitions(p, i) = p[i].max_rpt + 1)
         /\ (p[i].is_streamctl => /\ p[i].tokens \in Nat /\ p[i].is_outer /\ p[i].max_inst = 0
                                  /\ ~p[i].stagger_mask /\ Repetitions(p, i) = p[i].tokens)
         /\ Size(p, i) \in Nat
<1>1. /\ p[i].is_streamctl \in BOOLEAN /\ p[i].is_outer \in BOOLEAN /\ p[i].stagger_mask \in BOOLEAN
      /\ p[i].max_inst \in Nat /\ p[i].max_rpt \in Nat /\ p[i].stagger_max \in Nat
  BY DEF FrepFits
<1>2. p[i].is_streamctl => p[i].tokens \in Nat /\ p[i].is_outer /\ p[i].max_inst = 0 /\ ~p[i].stagger_mask
  BY DEF FrepFits
<1>3. Repetitions(p, i) \in Nat /\ (~p[i].is_streamctl => Repetitions(p, i) = p[i].max_rpt + 1)
      /\ (p[i].is_streamctl => Repetitions(p, i) = p[i].tokens)
  BY <1>1, <1>2 DEF Repetitions
<1>4. Size(p, i) \in Nat
  <2> DEFINE n == p[i].max_inst
             r == Repetitions(p, i)
  <2>1. n \in Nat /\ r \in Nat
    BY <1>1, <1>3
  <2> HIDE DEF n, r
  <2>2. (n + 1) * r \in Nat
    BY <2>1
  <2> QED
    BY <2>2 DEF Size, n, r
<1> QED
  BY <1>1, <1>2, <1>3, <1>4

\* The k-th issue is one: remainders and quotients are numbers.
LEMMA IssuedType ==
  ASSUME NEW p, NEW i \in Nat, FrepFits(p, i), NEW k \in Nat, k < Size(p, i)
  PROVE  Issued(p, i, k) \in Issue
<1> DEFINE n == p[i].max_inst + 1
           r == Repetitions(p, i)
           s == p[i].stagger_max + 1
           place == i + 1 + (IF p[i].is_outer THEN k % n ELSE k \div r)
           st == IF ~p[i].stagger_mask THEN 0 ELSE (IF p[i].is_outer THEN k \div n ELSE k) % s
<1>1. n \in Nat \ {0} /\ r \in Nat /\ s \in Nat \ {0}
  BY LoopType
<1>2. r # 0
  <2>1. n * r = Size(p, i)
    BY DEF Size
  <2>2. Size(p, i) # 0
    BY LoopType
  <2> HIDE DEF n, r
  <2>3. r = 0 => n * r = 0
    BY <1>1
  <2> QED
    BY <2>1, <2>2, <2>3
<1>3. Issued(p, i, k) = [op |-> place, stagger |-> st]
  BY Zenon DEF Issued
<1> HIDE DEF n, r, s
<1>4. k % n \in Nat /\ k \div n \in Nat
  BY <1>1, RemainderType
<1>7. k \div r \in Nat
  BY <1>1, <1>2, RemainderType
<1>5. k % s \in Nat /\ (k \div n) % s \in Nat
  BY <1>1, <1>4, RemainderType
<1>6. place \in Nat /\ st \in Nat
  BY <1>4, <1>5, <1>7
<1> HIDE DEF place, st
<1> QED
  BY <1>3, <1>6 DEF Issue

LEMMA LoopFacts ==
  ASSUME NEW p, NEW i \in Nat, FrepFits(p, i)
  PROVE  /\ Loop(p, i) \in Seq(Issue) /\ Len(Loop(p, i)) = Size(p, i) /\ Size(p, i) \in Nat
         /\ \A k \in 0 .. Size(p, i) - 1 : Loop(p, i)[k + 1] = Issued(p, i, k)
<1> DEFINE N == Size(p, i)
           F(j) == IF p[i].is_outer
                   THEN [op |-> i + (((j - 1) % (p[i].max_inst + 1)) + 1),
                         stagger |-> IF p[i].stagger_mask
                                     THEN ((j - 1) \div (p[i].max_inst + 1)) % (p[i].stagger_max + 1) ELSE 0]
                   ELSE [op |-> i + (((j - 1) \div Repetitions(p, i)) + 1),
                         stagger |-> IF p[i].stagger_mask THEN (j - 1) % (p[i].stagger_max + 1) ELSE 0]
<1>1. Loop(p, i) = [j \in 1 .. N |-> F(j)]
  BY Zenon DEF Loop, Size, Repetitions
<1>2. N \in Nat
  BY LoopType
<1>3. ASSUME NEW j \in 1 .. N PROVE F(j) = Issued(p, i, j - 1)
  <2> DEFINE k == j - 1
             n == p[i].max_inst + 1
             r == Repetitions(p, i)
             s == p[i].stagger_max + 1
             a == k % n
             b == k \div r
             c == (k \div n) % s
             d == k % s
  <2>1. F(j) = IF p[i].is_outer
               THEN [op |-> i + (a + 1), stagger |-> IF p[i].stagger_mask THEN c ELSE 0]
               ELSE [op |-> i + (b + 1), stagger |-> IF p[i].stagger_mask THEN d ELSE 0]
    BY Zenon
  <2>2. Issued(p, i, k) = [op |-> i + 1 + (IF p[i].is_outer THEN a ELSE b),
                           stagger |-> IF ~p[i].stagger_mask THEN 0 ELSE IF p[i].is_outer THEN c ELSE d]
    <3>1. (IF p[i].is_outer THEN k \div n ELSE k) % s = IF p[i].is_outer THEN c ELSE d
      BY Zenon
    <3> QED
      BY <3>1, Zenon DEF Issued
  <2>3. k \in Nat /\ n \in Nat \ {0} /\ r \in Nat
    BY <1>2, LoopType
  <2>4. p[i].is_outer => a \in Nat
    BY <2>3, RemainderType
  <2>5. ~p[i].is_outer => b \in Nat
    <3>1. ~p[i].is_outer => r \in Nat \ {0}
      BY LoopType
    <3> QED
      BY <2>3, <3>1, RemainderType
  <2> HIDE DEF a, b, c, d
  <2>6. p[i].is_outer => i + (a + 1) = i + 1 + a
    BY <2>4
  <2>7. ~p[i].is_outer => i + (b + 1) = i + 1 + b
    BY <2>5
  <2> HIDE DEF F, k
  <2>8. F(j) = Issued(p, i, k)
    <3>1. CASE p[i].is_outer
      BY <2>1, <2>2, <2>6, <3>1
    <3>2. CASE ~p[i].is_outer
      BY <2>1, <2>2, <2>7, <3>2
    <3> QED
      BY <3>1, <3>2
  <2> QED
    BY <2>8 DEF k
<1> HIDE DEF F
<1>4. Loop(p, i) = [j \in 1 .. N |-> Issued(p, i, j - 1)]
  BY <1>1, <1>3
<1>5. \A j \in 1 .. N : Issued(p, i, j - 1) \in Issue
  BY <1>2, IssuedType
<1> HIDE DEF N
<1>6. Loop(p, i) \in [1 .. N -> Issue]
  BY <1>4, <1>5
<1>7. Loop(p, i) \in Seq(Issue) /\ Len(Loop(p, i)) = N
  BY <1>2, <1>6
<1>8. ASSUME NEW k \in 0 .. N - 1 PROVE Loop(p, i)[k + 1] = Issued(p, i, k)
  <2>1. k + 1 \in 1 .. N /\ (k + 1) - 1 = k
    BY <1>2
  <2> QED
    BY <1>4, <2>1
<1> QED
  BY <1>2, <1>7, <1>8 DEF N

\* The place behind what starts at place i.
Behind(p, i) == IF p[i].kind = "frep" THEN i + p[i].max_inst + 2 ELSE i + 1

LEMMA BehindType ==
  ASSUME NEW p, ProgramFits(p), NEW i \in 1 .. Len(p)
  PROVE  Len(p) \in Nat /\ Behind(p, i) \in i + 1 .. Len(p) + 1
<1>1. Len(p) \in Nat /\ (p[i].kind = "frep" => FrepFits(p, i))
  BY DEF ProgramFits
<1>2. CASE p[i].kind = "frep"
  <2>1. p[i].max_inst \in Nat
    BY <1>1, <1>2, LoopType
  <2>2. i + p[i].max_inst + 1 <= Len(p)
    BY <1>1, <1>2 DEF FrepFits
  <2> QED
    BY <1>1, <1>2, <2>1, <2>2 DEF Behind
<1>3. CASE p[i].kind # "frep"
  BY <1>1, <1>3 DEF Behind
<1> QED
  BY <1>2, <1>3

LEMMA IssuesExist ==
  ASSUME NEW p, ProgramFits(p)
  PROVE  \E g : Unfolds(p, g)
<1> DEFINE L == Len(p)
           Part(i) == IF p[i].kind = "frep" THEN Loop(p, i) ELSE <<[op |-> i, stagger |-> 0]>>
           Body(g, i) == IF i > L THEN <<>> ELSE Part(i) \o g[Behind(p, i)]
           Right(g, n) == \A i \in 1 .. L + 1 : i + n > L + 1 => g[i] = Body(g, i)
           Good == {n \in Nat : n <= L + 1 => \E g : Right(g, n)}
<1>0. L \in Nat
  BY DEF ProgramFits
<1>1. ASSUME NEW g, NEW h, NEW i \in 1 .. L + 1, \A j \in i + 1 .. L + 1 : g[j] = h[j]
      PROVE  Body(g, i) = Body(h, i)
  <2>1. i <= L => Behind(p, i) \in i + 1 .. L + 1
    BY <1>0, BehindType
  <2>2. i <= L => g[Behind(p, i)] = h[Behind(p, i)]
    BY <1>1, <2>1
  <2>3. i > L \/ i <= L
    BY <1>0
  <2> HIDE DEF Part, L
  <2> QED
    BY <2>2, <2>3
<1> HIDE DEF Body, L
<1>2. 0 \in Good
  BY <1>0
<1>3. ASSUME NEW n \in Nat, n \in Good PROVE n + 1 \in Good
  <2> SUFFICES ASSUME n + 1 <= L + 1 PROVE \E g : Right(g, n + 1)
    OBVIOUS
  <2>1. PICK g : Right(g, n)
    BY <1>0, <1>3
  <2> DEFINE x == L + 1 - n
             h == [j \in 1 .. L + 1 |-> IF j = x THEN Body(g, x) ELSE g[j]]
  <2>2. x \in 1 .. L + 1
    BY <1>0
  <2>3. \A j \in 1 .. L + 1 : h[j] = IF j = x THEN Body(g, x) ELSE g[j]
    OBVIOUS
  <2> HIDE DEF h
  <2>4. ASSUME NEW i \in 1 .. L + 1, i + (n + 1) > L + 1 PROVE h[i] = Body(h, i)
    <3>1. \A j \in i + 1 .. L + 1 : g[j] = h[j]
      BY <1>0, <2>2, <2>3, <2>4
    <3>2. Body(g, i) = Body(h, i)
      BY <1>1, <3>1
    <3>3. h[i] = Body(g, i)
      <4>1. CASE i = x
        BY <2>3, <4>1
      <4>2. CASE i # x
        <5>1. i + n > L + 1
          BY <1>0, <2>4, <4>2
        <5> QED
          BY <2>1, <2>3, <4>2, <5>1
      <4> QED
        BY <4>1, <4>2
    <3> QED
      BY <3>2, <3>3
  <2>5. Right(h, n + 1)
    BY <2>4
  <2> QED
    BY <2>5
<1>4. \A n \in Nat : n \in Good
  <2> HIDE DEF Good
  <2> QED
    BY <1>2, <1>3, NatSetInduction
<1>5. PICK h : Right(h, L + 1)
  BY <1>0, <1>4
<1> DEFINE g == [i \in 1 .. L + 1 |-> h[i]]
<1>6. \A i \in 1 .. L + 1 : h[i] = Body(h, i)
  BY <1>0, <1>5
<1>7. \A i \in 1 .. L + 1 : g[i] = h[i]
  OBVIOUS
<1>8. ASSUME NEW i \in 1 .. L + 1 PROVE Body(g, i) = Body(h, i)
  <2> HIDE DEF g
  <2>1. \A j \in i + 1 .. L + 1 : j \in 1 .. L + 1
    BY <1>0
  <2> QED
    BY <1>1, <1>7, <2>1
<1>9. g = [i \in 1 .. L + 1 |-> Body(g, i)]
  <2>1. \A i \in 1 .. L + 1 : h[i] = Body(g, i)
    BY <1>6, <1>8
  <2> DEFINE b == [i \in 1 .. L + 1 |-> Body(g, i)]
  <2>2. \A i \in 1 .. L + 1 : b[i] = Body(g, i)
    OBVIOUS
  <2>3. \A i \in 1 .. L + 1 : g[i] = b[i]
    BY <1>7, <2>1, <2>2
  <2> QED
    BY <2>3
<1>10. \A i \in 1 .. L + 1 :
          Body(g, i) = IF i > Len(p) THEN <<>>
                       ELSE IF p[i].kind = "frep" THEN Loop(p, i) \o g[i + p[i].max_inst + 2]
                       ELSE <<[op |-> i, stagger |-> 0]>> \o g[i + 1]
  <2> HIDE DEF g
  <2> QED
    BY Zenon DEF Body, L, Behind
<1> HIDE DEF g
<1>11. Unfolds(p, g)
  BY <1>9, <1>10 DEF Unfolds, L
<1> QED
  BY <1>11

LEMMA IssuesUnfold ==
  ASSUME NEW p, ProgramFits(p)
  PROVE  /\ Issues(p) = IssuesFrom(p)[1]
         /\ \A i \in Nat \ {0} : i = Len(p) + 1 => IssuesFrom(p)[i] = <<>>
         /\ \A i \in 1 .. Len(p) :
              IssuesFrom(p)[i] = (IF p[i].kind = "frep" THEN Loop(p, i) ELSE <<[op |-> i, stagger |-> 0]>>)
                                 \o IssuesFrom(p)[Behind(p, i)]
<1> DEFINE g == IssuesFrom(p)
<1>1. Unfolds(p, g)
  BY IssuesExist DEF IssuesFrom
<1>2. Issues(p) = g[1]
  BY DEF Issues, IssuesFrom, Unfolds
<1> HIDE DEF g
<1>3. Len(p) \in Nat
  BY DEF ProgramFits
<1>4. \A i \in 1 .. Len(p) + 1 :
         g[i] = IF i > Len(p) THEN <<>>
                ELSE IF p[i].kind = "frep" THEN Loop(p, i) \o g[i + p[i].max_inst + 2]
                ELSE <<[op |-> i, stagger |-> 0]>> \o g[i + 1]
  BY <1>1, Zenon DEF Unfolds
<1>5. ASSUME NEW i \in 1 .. Len(p)
      PROVE  g[i] = (IF p[i].kind = "frep" THEN Loop(p, i) ELSE <<[op |-> i, stagger |-> 0]>>)
                    \o g[Behind(p, i)]
  <2>1. i \in 1 .. Len(p) + 1 /\ ~(i > Len(p))
    BY <1>3
  <2> QED
    BY <1>4, <2>1, Zenon DEF Behind
<1>6. ASSUME NEW i \in Nat \ {0}, i = Len(p) + 1 PROVE g[i] = <<>>
  <2>1. i \in 1 .. Len(p) + 1 /\ i > Len(p)
    BY <1>3, <1>6
  <2> QED
    BY <1>4, <2>1, Zenon
<1> QED
  BY <1>2, <1>5, <1>6 DEF g

LEMMA IssuesType ==
  ASSUME NEW p, ProgramFits(p)
  PROVE  \A i \in 1 .. Len(p) + 1 : IssuesFrom(p)[i] \in Seq(Issue)
<1> DEFINE L == Len(p)
           g == IssuesFrom(p)
           Good == {n \in Nat : \A i \in 1 .. L + 1 : i + n >= L + 1 => g[i] \in Seq(Issue)}
<1>0. L \in Nat
  BY DEF ProgramFits
<1>1. 0 \in Good
  <2> SUFFICES ASSUME NEW i \in 1 .. L + 1, i >= L + 1 PROVE g[i] \in Seq(Issue)
    OBVIOUS
  <2>1. i \in Nat \ {0} /\ i = Len(p) + 1
    BY <1>0
  <2>2. g[i] = <<>>
    BY <2>1, IssuesUnfold
  <2> QED
    BY <2>2, EmptySeq
<1>2. ASSUME NEW n \in Nat, n \in Good PROVE n + 1 \in Good
  <2> SUFFICES ASSUME NEW i \in 1 .. L + 1, i + (n + 1) >= L + 1 PROVE g[i] \in Seq(Issue)
    OBVIOUS
  <2>1. CASE i + n >= L + 1
    BY <1>2, <2>1
  <2>2. CASE i + n < L + 1
    <3>1. i \in 1 .. Len(p)
      BY <1>0, <2>2
    <3> DEFINE part == IF p[i].kind = "frep" THEN Loop(p, i) ELSE <<[op |-> i, stagger |-> 0]>>
               j == Behind(p, i)
    <3>2. g[i] = part \o g[j]
      BY <3>1, IssuesUnfold
    <3>3. j \in i + 1 .. L + 1
      BY <3>1, BehindType
    <3>4. part \in Seq(Issue)
      <4>1. CASE p[i].kind = "frep"
        BY <3>1, <4>1, LoopFacts DEF ProgramFits
      <4>2. CASE p[i].kind # "frep"
        <5>1. [op |-> i, stagger |-> 0] \in Issue
          BY DEF Issue
        <5> QED
          BY <4>2, <5>1
      <4> QED
        BY <4>1, <4>2
    <3> HIDE DEF j, part
    <3>5. j \in 1 .. L + 1 /\ j + n >= L + 1
      BY <1>0, <3>3
    <3>6. g[j] \in Seq(Issue)
      BY <1>2, <3>5
    <3> QED
      BY <3>2, <3>4, <3>6, ConcatProperties
  <2> QED
    BY <1>0, <2>1, <2>2
<1>3. \A n \in Nat : n \in Good
  <2> HIDE DEF Good
  <2> QED
    BY <1>1, <1>2, NatSetInduction
<1>4. L + 1 \in Good
  <2> L + 1 \in Nat
    BY <1>0
  <2> HIDE DEF Good
  <2> QED
    BY <1>3
<1> QED
  BY <1>0, <1>4

LEMMA RestStart ==
  ASSUME NEW p, ProgramFits(p), NEW i \in 1 .. Len(p) + 1
  PROVE  Rest(p, i, 0) = IssuesFrom(p)[i] /\ Rest(p, i, 0) \in Seq(Issue)
<1>1. CASE IsLoop(p, i)
  <2>1. i \in 1 .. Len(p) /\ p[i].kind = "frep" /\ FrepFits(p, i) /\ Len(p) \in Nat
    BY <1>1 DEF IsLoop, ProgramFits
  <2> DEFINE l == Loop(p, i)
             n == Size(p, i)
  <2>2. l \in Seq(Issue) /\ Len(l) = n
    BY <2>1, LoopFacts
  <2>3. SubSeq(l, 1, n) = l
    BY <2>2, SubSeqFull
  <2>4. Rest(p, i, 0) = SubSeq(l, 1, n) \o IssuesFrom(p)[i + p[i].max_inst + 2]
    <3>1. 0 + 1 = 1
      OBVIOUS
    <3> QED
      BY <1>1, <3>1, Zenon DEF Rest
  <2>5. IssuesFrom(p)[i] = l \o IssuesFrom(p)[Behind(p, i)]
    BY <2>1, IssuesUnfold
  <2>6. Behind(p, i) = i + p[i].max_inst + 2
    BY <2>1 DEF Behind
  <2> QED
    BY <2>3, <2>4, <2>5, <2>6, IssuesType, Zenon
<1>2. CASE ~IsLoop(p, i)
  BY <1>2, IssuesType DEF Rest
<1> QED
  BY <1>1, <1>2

LEMMA RestOfPlain ==
  ASSUME NEW p, ProgramFits(p), NEW i \in 1 .. Len(p), p[i].kind # "frep"
  PROVE  Rest(p, i, 0) = <<[op |-> i, stagger |-> 0]>> \o Rest(p, i + 1, 0)
<1>1. Len(p) \in Nat
  BY DEF ProgramFits
<1>2. i \in 1 .. Len(p) + 1 /\ i + 1 \in 1 .. Len(p) + 1
  BY <1>1
<1>3. Behind(p, i) = i + 1
  BY DEF Behind
<1>4. IssuesFrom(p)[i] = <<[op |-> i, stagger |-> 0]>> \o IssuesFrom(p)[i + 1]
  BY <1>3, IssuesUnfold
<1>5. Rest(p, i, 0) = IssuesFrom(p)[i]
  BY <1>2, RestStart
<1>6. Rest(p, i + 1, 0) = IssuesFrom(p)[i + 1]
  BY <1>2, RestStart
<1> QED
  BY <1>4, <1>5, <1>6

LEMMA RestOfLoop ==
  ASSUME NEW p, ProgramFits(p), NEW i \in 1 .. Len(p), p[i].kind = "frep",
         NEW k \in 0 .. Size(p, i)
  PROVE  /\ Rest(p, i, k) \in Seq(Issue)
         /\ k < Size(p, i) => /\ Rest(p, i, k) = <<Issued(p, i, k)>> \o Rest(p, i, k + 1)
                              /\ Issued(p, i, k) \in Issue
         /\ k = Size(p, i) => Rest(p, i, k) = Rest(p, Behind(p, i), 0)
<1> DEFINE l == Loop(p, i)
           n == Size(p, i)
           j == Behind(p, i)
           t == IssuesFrom(p)[j]
<1>1. Len(p) \in Nat /\ FrepFits(p, i) /\ i \in Nat
  BY DEF ProgramFits
<1>2. l \in Seq(Issue) /\ Len(l) = n /\ n \in Nat /\ \A x \in 0 .. n - 1 : l[x + 1] = Issued(p, i, x)
  BY <1>1, LoopFacts
<1>3. j \in 1 .. Len(p) + 1 /\ j = i + p[i].max_inst + 2
  BY <1>1, BehindType DEF Behind
<1>4. t \in Seq(Issue) /\ Rest(p, j, 0) = t
  BY <1>3, IssuesType, RestStart
<1>5. \A x : Rest(p, i, x) = SubSeq(l, x + 1, n) \o t
  <2>1. IsLoop(p, i)
    BY <1>1 DEF IsLoop
  <2> QED
    BY <1>3, <2>1, Zenon DEF Rest
<1>6. ASSUME NEW x \in 0 .. n PROVE SubSeq(l, x + 1, n) \in Seq(Issue)
  <2>1. \A y \in x + 1 .. n : l[y] \in Issue
    BY <1>2, ElementOfSeq
  <2> HIDE DEF l, n
  <2>2. x + 1 \in Int /\ n \in Int
    BY <1>2
  <2> QED
    BY <2>1, <2>2, SubSeqProperties
<1> k \in 0 .. n
  OBVIOUS
<1> HIDE DEF l, n, j, t
<1>7. Rest(p, i, k) \in Seq(Issue)
  <2>1. SubSeq(l, k + 1, n) \in Seq(Issue)
    BY <1>6
  <2> QED
    BY <1>4, <1>5, <2>1, ConcatProperties
<1>8. ASSUME k < n PROVE Rest(p, i, k) = <<Issued(p, i, k)>> \o Rest(p, i, k + 1) /\ Issued(p, i, k) \in Issue
  <2>1. k + 1 \in 1 .. Len(l) /\ n \in k + 1 .. Len(l) /\ (k + 1) + 1 = (k + 1) + 1 /\ k + 1 \in 0 .. n
    BY <1>2, <1>8
  <2>2. SubSeq(l, k + 1, n) = <<l[k + 1]>> \o SubSeq(l, (k + 1) + 1, n)
    BY <1>2, <2>1, SubSeqRecursiveFirst
  <2>3. l[k + 1] = Issued(p, i, k) /\ l[k + 1] \in Issue
    BY <1>2, <2>1, ElementOfSeq
  <2> DEFINE s == SubSeq(l, (k + 1) + 1, n)
  <2>4. s \in Seq(Issue)
    BY <1>6, <2>1
  <2> HIDE DEF s
  <2>5. <<l[k + 1]>> \in Seq(Issue)
    BY <2>3
  <2>6. (<<l[k + 1]>> \o s) \o t = <<l[k + 1]>> \o (s \o t)
    BY <1>4, <2>4, <2>5, ConcatAssociative
  <2>7. Rest(p, i, k) = (<<l[k + 1]>> \o s) \o t
    BY <1>5, <2>2, Zenon DEF s
  <2>8. Rest(p, i, k + 1) = s \o t
    BY <1>5, Zenon DEF s
  <2> QED
    BY <2>3, <2>6, <2>7, <2>8
<1>9. ASSUME k = n PROVE Rest(p, i, k) = Rest(p, j, 0)
  <2>1. n < n + 1 /\ n \in Int /\ n + 1 \in Int
    BY <1>2
  <2>2. SubSeq(l, n + 1, n) = <<>>
    BY <2>1, SubSeqEmpty
  <2>3. <<>> \o t = t
    BY <1>4, ConcatEmptySeq
  <2> QED
    BY <1>4, <1>5, <1>9, <2>2, <2>3
<1> QED
  BY <1>7, <1>8, <1>9 DEF n, j

\* What is issued next moves from the front of the rest to the end of the history.
LEMMA HandOver ==
  ASSUME NEW s \in Seq(Issue), NEW e \in Issue, NEW t \in Seq(Issue)
  PROVE  Append(s, e) \in Seq(Issue) /\ Append(s, e) \o t = s \o (<<e>> \o t)
<1>1. Append(s, e) = s \o <<e>>
  BY AppendIsConcat
<1>2. <<e>> \in Seq(Issue)
  OBVIOUS
<1>3. (s \o <<e>>) \o t = s \o (<<e>> \o t)
  BY <1>2, ConcatAssociative
<1> QED
  BY <1>1, <1>3, AppendProperties

LEMMA FrontOfConcat ==
  ASSUME NEW s \in Seq(Issue), NEW t \in Seq(Issue)
  PROVE  Len(s) <= Len(s \o t) /\ s = SubSeq(s \o t, 1, Len(s))
<1>1. /\ s \o t \in Seq(Issue) /\ Len(s \o t) = Len(s) + Len(t)
      /\ \A i \in 1 .. Len(s) + Len(t) : (s \o t)[i] = IF i <= Len(s) THEN s[i] ELSE t[i - Len(s)]
  BY ConcatProperties
<1> DEFINE u == s \o t
           v == SubSeq(u, 1, Len(s))
<1>2. Len(s) \in Nat /\ Len(t) \in Nat
  BY LenProperties
<1>3. \A i \in 1 .. Len(s) : u[i] = s[i] /\ u[i] \in Issue
  BY <1>1, <1>2, ElementOfSeq
<1> HIDE DEF u
<1>4. v \in Seq(Issue) /\ Len(v) = (IF 1 <= Len(s) THEN Len(s) - 1 + 1 ELSE 0)
      /\ \A i \in 1 .. Len(s) - 1 + 1 : v[i] = u[1 + i - 1]
  BY <1>2, <1>3, SubSeqProperties
<1>5. Len(v) = Len(s) /\ \A i \in 1 .. Len(s) : v[i] = s[i]
  BY <1>2, <1>3, <1>4
<1> HIDE DEF v
<1>6. v = s
  BY <1>4, <1>5, SeqEqual
<1> QED
  BY <1>1, <1>2, <1>6 DEF u, v

-----------------------------------------------------------------------------
(* The tokens of the stream controller.                                    *)

IsStreamLoop(p, i) == p[i].kind = "frep" /\ p[i].is_streamctl

\* The tokens of one stream loop, and those of all up to place i.
LoopTokens(p, i) == [k \in 1 .. p[i].tokens + 1 |-> k = p[i].tokens + 1]
TokensUnfold(p, g) ==
    g = [i \in 0 .. Len(p) |->
            IF i = 0 THEN <<>>
            ELSE IF p[i].kind = "frep" /\ p[i].is_streamctl
                 THEN g[i - 1] \o [k \in 1 .. p[i].tokens + 1 |-> k = p[i].tokens + 1]
                 ELSE g[i - 1]]
TokensTo(p) == CHOOSE g : TokensUnfold(p, g)

LEMMA TokensExist ==
  ASSUME NEW p, ProgramFits(p)
  PROVE  \E g : TokensUnfold(p, g)
<1> DEFINE L == Len(p)
           Body(g, i) == IF i = 0 THEN <<>>
                         ELSE IF IsStreamLoop(p, i) THEN g[i - 1] \o LoopTokens(p, i) ELSE g[i - 1]
           Right(g, n) == \A i \in 0 .. L : i < n => g[i] = Body(g, i)
           Good == {n \in Nat : \E g : Right(g, n)}
<1>0. L \in Nat
  BY DEF ProgramFits
<1>1. ASSUME NEW g, NEW h, NEW i \in 0 .. L, \A j \in 0 .. i - 1 : g[j] = h[j]
      PROVE  Body(g, i) = Body(h, i)
  <2>1. i # 0 => g[i - 1] = h[i - 1]
    BY <1>0, <1>1
  <2> HIDE DEF L
  <2> QED
    BY <2>1
<1> HIDE DEF Body, L
<1>2. 0 \in Good
  BY <1>0
<1>3. ASSUME NEW n \in Nat, n \in Good PROVE n + 1 \in Good
  <2> SUFFICES \E g : Right(g, n + 1)
    OBVIOUS
  <2>1. PICK g : Right(g, n)
    BY <1>0, <1>3
  <2> DEFINE h == [j \in 0 .. L |-> IF j = n THEN Body(g, n) ELSE g[j]]
  <2>3. \A j \in 0 .. L : h[j] = IF j = n THEN Body(g, n) ELSE g[j]
    OBVIOUS
  <2> HIDE DEF h
  <2>4. ASSUME NEW i \in 0 .. L, i < n + 1 PROVE h[i] = Body(h, i)
    <3>1. \A j \in 0 .. i - 1 : g[j] = h[j]
      BY <1>0, <2>3, <2>4
    <3>2. Body(g, i) = Body(h, i)
      BY <1>1, <3>1
    <3>3. h[i] = Body(g, i)
      <4>1. CASE i = n
        BY <2>3, <4>1
      <4>2. CASE i # n
        <5>1. i < n
          BY <1>0, <2>4, <4>2
        <5> QED
          BY <2>1, <2>3, <4>2, <5>1
      <4> QED
        BY <4>1, <4>2
    <3> QED
      BY <3>2, <3>3
  <2>5. Right(h, n + 1)
    BY <2>4
  <2> QED
    BY <2>5
<1>4. \A n \in Nat : n \in Good
  <2> HIDE DEF Good
  <2> QED
    BY <1>2, <1>3, NatSetInduction
<1>5. PICK h : Right(h, L + 1)
  BY <1>0, <1>4
<1> DEFINE g == [i \in 0 .. L |-> h[i]]
<1>6. \A i \in 0 .. L : h[i] = Body(h, i)
  BY <1>0, <1>5
<1>7. \A i \in 0 .. L : g[i] = h[i]
  OBVIOUS
<1>8. ASSUME NEW i \in 0 .. L PROVE Body(g, i) = Body(h, i)
  <2> HIDE DEF g
  <2>1. \A j \in 0 .. i - 1 : j \in 0 .. L
    BY <1>0
  <2> QED
    BY <1>1, <1>7, <2>1
<1>9. g = [i \in 0 .. L |-> Body(g, i)]
  <2>1. \A i \in 0 .. L : h[i] = Body(g, i)
    BY <1>6, <1>8
  <2> DEFINE b == [i \in 0 .. L |-> Body(g, i)]
  <2>2. \A i \in 0 .. L : b[i] = Body(g, i)
    OBVIOUS
  <2>3. \A i \in 0 .. L : g[i] = b[i]
    BY <1>7, <2>1, <2>2
  <2> QED
    BY <2>3
<1>10. \A i \in 0 .. L :
          Body(g, i) = IF i = 0 THEN <<>>
                       ELSE IF p[i].kind = "frep" /\ p[i].is_streamctl
                            THEN g[i - 1] \o [k \in 1 .. p[i].tokens + 1 |-> k = p[i].tokens + 1]
                            ELSE g[i - 1]
  <2> HIDE DEF g
  <2> QED
    BY Zenon DEF Body, IsStreamLoop, LoopTokens
<1> HIDE DEF g
<1>11. TokensUnfold(p, g)
  BY <1>9, <1>10 DEF TokensUnfold, L
<1> QED
  BY <1>11

LEMMA TokensUnfolded ==
  ASSUME NEW p, ProgramFits(p)
  PROVE  /\ Tokens(p) = TokensTo(p)[Len(p)]
         /\ TokensTo(p)[0] = <<>>
         /\ \A i \in 1 .. Len(p) :
              TokensTo(p)[i] = IF IsStreamLoop(p, i) THEN TokensTo(p)[i - 1] \o LoopTokens(p, i)
                               ELSE TokensTo(p)[i - 1]
<1> DEFINE g == TokensTo(p)
<1>1. TokensUnfold(p, g)
  BY TokensExist DEF TokensTo
<1>2. Tokens(p) = g[Len(p)]
  BY DEF Tokens, TokensTo, TokensUnfold
<1> HIDE DEF g
<1>3. Len(p) \in Nat
  BY DEF ProgramFits
<1>4. \A i \in 0 .. Len(p) :
         g[i] = IF i = 0 THEN <<>>
                ELSE IF p[i].kind = "frep" /\ p[i].is_streamctl
                     THEN g[i - 1] \o [k \in 1 .. p[i].tokens + 1 |-> k = p[i].tokens + 1]
                     ELSE g[i - 1]
  BY <1>1, Zenon DEF TokensUnfold
<1>5. ASSUME NEW i \in 1 .. Len(p)
      PROVE  g[i] = IF IsStreamLoop(p, i) THEN g[i - 1] \o LoopTokens(p, i) ELSE g[i - 1]
  <2>1. i \in 0 .. Len(p) /\ i # 0
    BY <1>3
  <2> QED
    BY <1>4, <2>1, Zenon DEF IsStreamLoop, LoopTokens
<1>6. g[0] = <<>>
  <2>1. 0 \in 0 .. Len(p)
    BY <1>3
  <2> QED
    BY <1>4, <2>1, Zenon
<1> QED
  BY <1>2, <1>5, <1>6 DEF g

LEMMA LoopTokensFacts ==
  ASSUME NEW p, NEW i, p[i].tokens \in Nat
  PROVE  /\ LoopTokens(p, i) \in Seq(BOOLEAN) /\ Len(LoopTokens(p, i)) = p[i].tokens + 1
         /\ \A k \in 0 .. p[i].tokens : LoopTokens(p, i)[k + 1] = (k = p[i].tokens)
<1> DEFINE n == p[i].tokens + 1
           l == LoopTokens(p, i)
<1>1. n \in Nat /\ l = [k \in 1 .. n |-> k = n]
  BY DEF LoopTokens
<1> HIDE DEF n, l
<1>2. l \in [1 .. n -> BOOLEAN]
  BY <1>1
<1>3. l \in Seq(BOOLEAN) /\ Len(l) = n
  BY <1>1, <1>2
<1>4. \A k \in 1 .. n : l[k] = (k = n)
  BY <1>1
<1>5. ASSUME NEW k \in 0 .. p[i].tokens PROVE l[k + 1] = (k = p[i].tokens)
  <2>1. k + 1 \in 1 .. n /\ (k + 1 = n <=> k = p[i].tokens)
    BY DEF n
  <2> QED
    BY <1>4, <2>1
<1> QED
  BY <1>3, <1>5 DEF n, l

LEMMA TokensType ==
  ASSUME NEW p, ProgramFits(p)
  PROVE  \A i \in 0 .. Len(p) : TokensTo(p)[i] \in Seq(BOOLEAN)
<1> DEFINE L == Len(p)
           g == TokensTo(p)
           Good == {n \in Nat : n <= L => g[n] \in Seq(BOOLEAN)}
<1>0. L \in Nat
  BY DEF ProgramFits
<1>1. 0 \in Good
  <2>1. g[0] = <<>>
    BY TokensUnfolded
  <2>2. <<>> \in Seq(BOOLEAN)
    OBVIOUS
  <2> HIDE DEF g
  <2> QED
    BY <2>1, <2>2
<1>2. ASSUME NEW n \in Nat, n \in Good PROVE n + 1 \in Good
  <2> SUFFICES ASSUME n + 1 <= L PROVE g[n + 1] \in Seq(BOOLEAN)
    OBVIOUS
  <2>1. n + 1 \in 1 .. Len(p) /\ (n + 1) - 1 = n
    BY <1>0
  <2>2. g[n + 1] = IF IsStreamLoop(p, n + 1) THEN g[n] \o LoopTokens(p, n + 1) ELSE g[n]
    BY <2>1, TokensUnfolded
  <2>3. g[n] \in Seq(BOOLEAN)
    BY <1>0, <1>2
  <2>4. IsStreamLoop(p, n + 1) => LoopTokens(p, n + 1) \in Seq(BOOLEAN)
    <3> SUFFICES ASSUME IsStreamLoop(p, n + 1) PROVE p[n + 1].tokens \in Nat
      BY LoopTokensFacts
    <3>1. FrepFits(p, n + 1) /\ p[n + 1].is_streamctl
      BY <2>1 DEF IsStreamLoop, ProgramFits
    <3> QED
      BY <3>1, LoopType
  <2> HIDE DEF g
  <2> QED
    BY <2>2, <2>3, <2>4, ConcatProperties
<1>3. \A n \in Nat : n \in Good
  <2> HIDE DEF Good
  <2> QED
    BY <1>1, <1>2, NatSetInduction
<1> QED
  BY <1>0, <1>3

\* What the stream controller hands out for the loops up to place i comes first.
LEMMA TokensGrow ==
  ASSUME NEW p, ProgramFits(p), NEW i \in 0 .. Len(p)
  PROVE  /\ Len(TokensTo(p)[i]) <= Len(Tokens(p))
         /\ \A x \in 1 .. Len(TokensTo(p)[i]) : Tokens(p)[x] = TokensTo(p)[i][x]
<1> DEFINE L == Len(p)
           g == TokensTo(p)
           a == Len(g[i])
           Good == {n \in Nat : i + n <= L => /\ a <= Len(g[i + n])
                                             /\ \A x \in 1 .. a : g[i + n][x] = g[i][x]}
<1>0. L \in Nat
  BY DEF ProgramFits
<1>1. \A j \in 0 .. L : g[j] \in Seq(BOOLEAN)
  BY TokensType
<1>2. a \in Nat
  BY <1>1, LenProperties
<1>3. 0 \in Good
  BY <1>2
<1>4. ASSUME NEW n \in Nat, n \in Good PROVE n + 1 \in Good
  <2> SUFFICES ASSUME i + (n + 1) <= L
               PROVE  /\ a <= Len(g[i + (n + 1)])
                      /\ \A x \in 1 .. a : g[i + (n + 1)][x] = g[i][x]
    OBVIOUS
  <2> DEFINE j == i + (n + 1)
             h == i + n
  <2>1. j \in 1 .. Len(p) /\ j - 1 = h /\ h \in 0 .. L
    BY <1>0
  <2>2. g[j] = IF IsStreamLoop(p, j) THEN g[h] \o LoopTokens(p, j) ELSE g[h]
    BY <2>1, TokensUnfolded
  <2>3. g[h] \in Seq(BOOLEAN) /\ a <= Len(g[h]) /\ \A x \in 1 .. a : g[h][x] = g[i][x]
    <3>1. i + n <= L
      BY <1>0
    <3>2. a <= Len(g[i + n]) /\ \A x \in 1 .. a : g[i + n][x] = g[i][x]
      BY <1>4, <3>1
    <3> QED
      BY <1>1, <2>1, <3>2
  <2>4. IsStreamLoop(p, j) => LoopTokens(p, j) \in Seq(BOOLEAN)
    <3> SUFFICES ASSUME IsStreamLoop(p, j) PROVE p[j].tokens \in Nat
      BY LoopTokensFacts
    <3>1. FrepFits(p, j) /\ p[j].is_streamctl /\ j \in Nat
      BY <2>1 DEF IsStreamLoop, ProgramFits
    <3> QED
      BY <3>1, LoopType
  <2> HIDE DEF g, a, j, h
  <2>5. CASE IsStreamLoop(p, j)
    <3> DEFINE t == LoopTokens(p, j)
               s == g[h]
    <3>1. t \in Seq(BOOLEAN) /\ s \in Seq(BOOLEAN) /\ g[j] = s \o t
      BY <2>2, <2>3, <2>4, <2>5
    <3> HIDE DEF t, s
    <3>2. /\ Len(s) \in Nat /\ Len(t) \in Nat /\ Len(s \o t) = Len(s) + Len(t)
          /\ \A x \in 1 .. Len(s) + Len(t) : (s \o t)[x] = IF x <= Len(s) THEN s[x] ELSE t[x - Len(s)]
      BY <3>1, ConcatProperties, LenProperties
    <3>3. a <= Len(s) /\ \A x \in 1 .. a : s[x] = g[i][x]
      BY <2>3 DEF s
    <3> QED
      BY <1>2, <3>1, <3>2, <3>3 DEF j
  <2>6. CASE ~IsStreamLoop(p, j)
    BY <2>2, <2>3, <2>6 DEF j
  <2> QED
    BY <2>5, <2>6
<1>5. \A n \in Nat : n \in Good
  <2> HIDE DEF Good
  <2> QED
    BY <1>3, <1>4, NatSetInduction
<1>6. L - i \in Nat /\ i + (L - i) = L /\ i + (L - i) <= L
  BY <1>0
<1>7. L - i \in Good
  <2> HIDE DEF Good
  <2> QED
    BY <1>5, <1>6
<1>8. a <= Len(g[L]) /\ \A x \in 1 .. a : g[L][x] = g[i][x]
  BY <1>6, <1>7
<1> QED
  BY <1>8, TokensUnfolded

\* The tokens of the stream loop at place i.
LEMMA TokensOfLoop ==
  ASSUME NEW p, ProgramFits(p), NEW i \in 1 .. Len(p), IsStreamLoop(p, i)
  PROVE  /\ Len(TokensTo(p)[i - 1]) \in Nat
         /\ Len(TokensTo(p)[i]) = Len(TokensTo(p)[i - 1]) + p[i].tokens + 1
         /\ \A k \in 0 .. p[i].tokens :
              /\ Len(TokensTo(p)[i - 1]) + k + 1 <= Len(Tokens(p))
              /\ Tokens(p)[Len(TokensTo(p)[i - 1]) + k + 1] = (k = p[i].tokens)
<1> DEFINE s == TokensTo(p)[i - 1]
           t == LoopTokens(p, i)
           u == TokensTo(p)[i]
           n == p[i].tokens
<1>1. Len(p) \in Nat /\ FrepFits(p, i) /\ p[i].is_streamctl /\ i \in Nat
  BY DEF IsStreamLoop, ProgramFits
<1>2. n \in Nat
  BY <1>1, LoopType
<1>3. u = s \o t
  BY TokensUnfolded
<1>4. s \in Seq(BOOLEAN) /\ i \in 0 .. Len(p)
  BY <1>1, TokensType
<1>5. t \in Seq(BOOLEAN) /\ Len(t) = n + 1 /\ \A k \in 0 .. n : t[k + 1] = (k = n)
  BY <1>2, LoopTokensFacts
<1>6. Len(u) <= Len(Tokens(p)) /\ (\A x \in 1 .. Len(u) : Tokens(p)[x] = u[x])
  BY <1>4, TokensGrow
<1>7. Len(Tokens(p)) \in Nat
  <2>1. Len(p) \in 0 .. Len(p)
    BY <1>1
  <2> QED
    BY <2>1, TokensType, TokensUnfolded, LenProperties
<1> HIDE DEF s, t, u, n
<1>8. /\ Len(s) \in Nat /\ Len(u) = Len(s) + (n + 1)
      /\ \A x \in 1 .. Len(s) + (n + 1) : u[x] = IF x <= Len(s) THEN s[x] ELSE t[x - Len(s)]
  <2>1. /\ Len(s \o t) = Len(s) + Len(t)
        /\ \A x \in 1 .. Len(s) + Len(t) : (s \o t)[x] = IF x <= Len(s) THEN s[x] ELSE t[x - Len(s)]
    <3>1. s \in Seq(BOOLEAN)
      BY <1>4
    <3>2. t \in Seq(BOOLEAN)
      BY <1>5
    <3> QED
      BY <3>1, <3>2, ConcatProperties
  <2>2. Len(s) \in Nat
    BY <1>4, LenProperties
  <2> QED
    BY <1>3, <1>5, <2>1, <2>2, Zenon
<1>9. ASSUME NEW k \in 0 .. n
      PROVE  Len(s) + k + 1 <= Len(Tokens(p)) /\ Tokens(p)[Len(s) + k + 1] = (k = n)
  <2> DEFINE x == Len(s) + k + 1
  <2>1. x \in 1 .. Len(u) /\ ~(x <= Len(s)) /\ x - Len(s) = k + 1 /\ x <= Len(Tokens(p))
    BY <1>2, <1>6, <1>7, <1>8
  <2> HIDE DEF x
  <2>2. Tokens(p)[x] = u[x]
    BY <1>6, <2>1
  <2>3. u[x] = t[k + 1]
    BY <1>8, <2>1
  <2>4. x <= Len(Tokens(p)) /\ Tokens(p)[x] = (k = n)
    BY <1>5, <2>1, <2>2, <2>3
  <2> QED
    BY <2>4 DEF x
<1>10. Len(s) + (n + 1) = Len(s) + n + 1
  BY <1>2, <1>8
<1> QED
  BY <1>8, <1>9, <1>10 DEF s, u, n

\* The instructions of a loop's body take no tokens.
LEMMA TokensOfBody ==
  ASSUME NEW p, ProgramFits(p), NEW i \in 1 .. Len(p), p[i].kind = "frep"
  PROVE  Behind(p, i) - 1 \in 0 .. Len(p) /\ TokensTo(p)[Behind(p, i) - 1] = TokensTo(p)[i]
<1> DEFINE n == p[i].max_inst + 1
           g == TokensTo(p)
           Good == {s \in Nat : s <= n => g[i + s] = g[i]}
<1>1. Len(p) \in Nat /\ FrepFits(p, i) /\ i \in Nat
  BY DEF ProgramFits
<1>2. n \in Nat /\ i + n <= Len(p) /\ \A j \in i + 1 .. i + n : p[j].kind = "plain"
  <2>1. p[i].max_inst \in Nat
    BY <1>1, LoopType
  <2>2. /\ i + p[i].max_inst + 1 <= Len(p)
        /\ \A j \in i + 1 .. i + p[i].max_inst + 1 : p[j].kind = "plain"
    BY <1>1 DEF FrepFits
  <2>3. i + n = i + p[i].max_inst + 1
    BY <1>1, <2>1
  <2> QED
    BY <1>1, <2>1, <2>2, <2>3
<1>3. Behind(p, i) - 1 = i + n
  <2>1. p[i].max_inst \in Nat
    BY <1>1, LoopType
  <2> QED
    BY <1>1, <2>1 DEF Behind
<1> HIDE DEF n
<1>4. 0 \in Good
  BY <1>1
<1>5. ASSUME NEW s \in Nat, s \in Good PROVE s + 1 \in Good
  <2> SUFFICES ASSUME s + 1 <= n PROVE g[i + (s + 1)] = g[i]
    OBVIOUS
  <2> DEFINE j == i + (s + 1)
  <2>1. j \in 1 .. Len(p) /\ j - 1 = i + s /\ p[j].kind = "plain"
    BY <1>1, <1>2
  <2>2. g[j] = IF IsStreamLoop(p, j) THEN g[j - 1] \o LoopTokens(p, j) ELSE g[j - 1]
    BY <2>1, TokensUnfolded
  <2>3. ~IsStreamLoop(p, j)
    BY <2>1 DEF IsStreamLoop
  <2>4. g[i + s] = g[i]
    BY <1>2, <1>5
  <2> HIDE DEF g, j
  <2>5. g[j] = g[i]
    BY <2>1, <2>2, <2>3, <2>4
  <2> QED
    BY <2>5 DEF j
<1>6. \A s \in Nat : s \in Good
  <2> HIDE DEF Good
  <2> QED
    BY <1>4, <1>5, NatSetInduction
<1>7. n \in Good
  <2> HIDE DEF Good
  <2> QED
    BY <1>2, <1>6
<1>8. g[i + n] = g[i] /\ i + n \in 0 .. Len(p)
  BY <1>1, <1>2, <1>7
<1> QED
  BY <1>3, <1>8

-----------------------------------------------------------------------------
(* The inductive invariant.                                                *)

\* What is in the configuration buffer for the loop at place i.
Entered(i) ==
    [f \in DOMAIN NoCfg |-> IF f = "base_pointer" THEN PlainsBefore(program, i) % (2 * Depth) ELSE program[i][f]]
Configurations == {Entered(i) : i \in {j \in 1 .. Len(program) : program[j].kind = "frep"}}

CoreInv ==
    /\ program \in Programs
    /\ pc \in 1 .. Len(program) + 1
    /\ inp_qvalid_i \in BOOLEAN /\ (inp_qvalid_i => pc <= Len(program))
    /\ cfgs \in Seq(Configurations)
    /\ issued \in Seq(Issue)

\* The places from i to before q have been offloaded and not left: the ring holds
\* their instructions, the configuration buffer their loops.
SlotsFit(i, q, m) ==
    /\ m \in [0 .. Depth - 1 -> Nat]
    /\ \A j \in i .. q - 1 :
           /\ program[j].kind # "direct"
           /\ program[j].kind = "plain" => m[PlainsBefore(program, j) % Depth] = j

CfgsFit(i, q, c) ==
    /\ Len(c) = LoopsBefore(program, q) - LoopsBefore(program, i)
    /\ \A j \in i .. q - 1 :
           program[j].kind = "frep" => c[LoopsBefore(program, j) - LoopsBefore(program, i) + 1] = Entered(j)

\* The loop at place i is in the configuration buffer.
Begun(i, q) == i < q /\ program[i].kind = "frep"

\* The counters stand at the k-th issue of the loop at place i.
CountersFit(i, k, q, inst, rpt, stagger) ==
    /\ inst \in Nat /\ rpt \in Nat /\ stagger \in Nat
    /\ PlainsBefore(program, i) + inst <= PlainsBefore(program, q)
    /\ ~Begun(i, q) => k = 0 /\ inst = 0 /\ rpt = 0 /\ stagger = 0
    /\ Begun(i, q) =>
           /\ inst <= program[i].max_inst
           /\ program[i].is_streamctl => k <= program[i].tokens
           /\ ~program[i].is_streamctl =>
                  /\ rpt <= program[i].max_rpt
                  /\ k = IF program[i].is_outer THEN inst + rpt * (program[i].max_inst + 1)
                                                ELSE rpt + inst * (program[i].max_rpt + 1)
                  /\ stagger = (IF program[i].is_outer THEN rpt ELSE k) % (program[i].stagger_max + 1)

\* The tokens of the loops before place i have been taken, and of a stream loop k.
Taken(i, k) ==
    Len(TokensTo(program)[i - 1]) + (IF IsLoop(program, i) /\ program[i].is_streamctl THEN k ELSE 0)

FrontAt(i, k) ==
    /\ rd_pointer = PlainsBefore(program, i) % (2 * Depth)
    /\ wr_pointer = PlainsBefore(program, pc) % (2 * Depth)
    /\ PlainsBefore(program, pc) <= PlainsBefore(program, i) + Depth
    /\ SlotsFit(i, pc, mem)
    /\ CfgsFit(i, pc, cfgs)
    /\ CountersFit(i, k, pc, inst_cnt, rpt_cnt, stagger_cnt)
    /\ stream = SubSeq(Tokens(program), Taken(i, k) + 1, Len(Tokens(program)))
    /\ streamctl_valid_i \in BOOLEAN /\ (streamctl_valid_i => stream # <<>>)
    /\ issued \o Rest(program, i, k) = Issues(program)

\* The ring and the buffer hold what has been offloaded from place i on; what
\* stands there has been issued k times, and all before it.
SInv == CoreInv /\ \E i \in 1 .. pc, k \in Nat : FrontAt(i, k)

-----------------------------------------------------------------------------
(* What the invariant says of the signals.                                 *)

LEMMA Basics ==
  ASSUME CoreInv
  PROVE  /\ ProgramFits(program) /\ Len(program) \in Nat
         /\ pc \in Nat \ {0} /\ pc <= Len(program) + 1
         /\ Depth \in Nat \ {0} /\ 2 * Depth \in Nat \ {0}
         /\ \A j \in 1 .. Len(program) : /\ program[j].kind \in {"plain", "direct", "frep"}
                                         /\ program[j].kind = "frep" => FrepFits(program, j)
<1>1. ProgramFits(program) /\ Depth \in Nat \ {0}
  BY SequencerAssumption DEF CoreInv
<1>2. Len(program) \in Nat
  BY <1>1 DEF ProgramFits
<1>6. \A j \in 1 .. Len(program) : /\ program[j].kind \in {"plain", "direct", "frep"}
                                   /\ program[j].kind = "frep" => FrepFits(program, j)
  BY <1>1 DEF ProgramFits
<1>3. pc \in 1 .. Len(program) + 1
  BY DEF CoreInv
<1>4. 2 * Depth \in Nat \ {0}
  BY <1>1
<1>5. pc \in Nat \ {0} /\ pc <= Len(program) + 1
  BY <1>2, <1>3
<1> QED
  BY <1>1, <1>2, <1>4, <1>5, <1>6, Zenon

LEMMA Counts ==
  ASSUME CoreInv
  PROVE  /\ \A j \in Nat \ {0} : PlainsBefore(program, j) \in Nat /\ LoopsBefore(program, j) \in Nat
         /\ \A j \in Nat \ {0} :
              /\ program[j].kind = "plain" => /\ PlainsBefore(program, j + 1) = PlainsBefore(program, j) + 1
                                              /\ LoopsBefore(program, j + 1) = LoopsBefore(program, j)
              /\ program[j].kind = "frep" => /\ PlainsBefore(program, j + 1) = PlainsBefore(program, j)
                                             /\ LoopsBefore(program, j + 1) = LoopsBefore(program, j) + 1
              /\ program[j].kind = "direct" => /\ PlainsBefore(program, j + 1) = PlainsBefore(program, j)
                                               /\ LoopsBefore(program, j + 1) = LoopsBefore(program, j)
         /\ \A i, j \in Nat \ {0} : i <= j => /\ PlainsBefore(program, i) <= PlainsBefore(program, j)
                                              /\ LoopsBefore(program, i) <= LoopsBefore(program, j)
         /\ \A i, j \in Nat \ {0} : i < j =>
              /\ program[i].kind = "plain" => PlainsBefore(program, i) + 1 <= PlainsBefore(program, j)
              /\ program[i].kind = "frep" => LoopsBefore(program, i) + 1 <= LoopsBefore(program, j)
<1>1. \A j \in Nat \ {0} : PlainsBefore(program, j) \in Nat /\ LoopsBefore(program, j) \in Nat
  BY BeforeFacts DEF PlainsBefore, LoopsBefore
<1>2. \A j \in Nat \ {0} :
         /\ PlainsBefore(program, j + 1) = PlainsBefore(program, j) + (IF program[j].kind = "plain" THEN 1 ELSE 0)
         /\ LoopsBefore(program, j + 1) = LoopsBefore(program, j) + (IF program[j].kind = "frep" THEN 1 ELSE 0)
  BY BeforeFacts, Zenon DEF PlainsBefore, LoopsBefore
<1>3. ASSUME NEW j \in Nat \ {0}
      PROVE  /\ program[j].kind = "plain" => /\ PlainsBefore(program, j + 1) = PlainsBefore(program, j) + 1
                                             /\ LoopsBefore(program, j + 1) = LoopsBefore(program, j)
             /\ program[j].kind = "frep" => /\ PlainsBefore(program, j + 1) = PlainsBefore(program, j)
                                            /\ LoopsBefore(program, j + 1) = LoopsBefore(program, j) + 1
             /\ program[j].kind = "direct" => /\ PlainsBefore(program, j + 1) = PlainsBefore(program, j)
                                              /\ LoopsBefore(program, j + 1) = LoopsBefore(program, j)
  <2>1. "plain" # "frep" /\ "plain" # "direct" /\ "frep" # "direct"
    OBVIOUS
  <2>2. /\ program[j].kind = "plain" => program[j].kind # "frep"
        /\ program[j].kind = "frep" => program[j].kind # "plain"
        /\ program[j].kind = "direct" => program[j].kind # "plain" /\ program[j].kind # "frep"
    BY <2>1
  <2>3. /\ program[j].kind # "plain" => PlainsBefore(program, j + 1) = PlainsBefore(program, j)
        /\ program[j].kind # "frep" => LoopsBefore(program, j + 1) = LoopsBefore(program, j)
        /\ program[j].kind = "plain" => PlainsBefore(program, j + 1) = PlainsBefore(program, j) + 1
        /\ program[j].kind = "frep" => LoopsBefore(program, j + 1) = LoopsBefore(program, j) + 1
    BY <1>1, <1>2
  <2> QED
    BY <2>2, <2>3, Zenon
<1>4. \A i, j \in Nat \ {0} : i <= j => /\ PlainsBefore(program, i) <= PlainsBefore(program, j)
                                        /\ LoopsBefore(program, i) <= LoopsBefore(program, j)
  BY BeforeMonotone DEF PlainsBefore, LoopsBefore
<1>5. \A i, j \in Nat \ {0} : i < j =>
         /\ program[i].kind = "plain" => PlainsBefore(program, i) + 1 <= PlainsBefore(program, j)
         /\ program[i].kind = "frep" => LoopsBefore(program, i) + 1 <= LoopsBefore(program, j)
  BY BeforeStrict DEF PlainsBefore, LoopsBefore
<1> QED
  BY <1>1, <1>3, <1>4, <1>5

\* The ring never holds more than Depth instructions: its pointers are equal only
\* when it is empty, and Depth apart only when it is full.
LEMMA PointersEqual ==
  ASSUME CoreInv, NEW a \in Nat, NEW b \in Nat, a <= b, b <= a + Depth,
         a % (2 * Depth) = b % (2 * Depth)
  PROVE  a = b
<1> DEFINE E == 2 * Depth
<1>1. E \in Nat \ {0} /\ Depth < E
  BY Basics
<1>2. b - a < E
  BY <1>1, Basics
<1>3. a % E = b % E
  OBVIOUS
<1> HIDE DEF E
<1> QED
  BY <1>1, <1>2, <1>3, ModEqual

LEMMA PointersApart ==
  ASSUME CoreInv, NEW a \in Nat, NEW b \in Nat, a <= b, b <= a + Depth
  PROVE  (b % (2 * Depth) = ((a % (2 * Depth)) + Depth) % (2 * Depth)) <=> (b = a + Depth)
<1> DEFINE E == 2 * Depth
<1>1. E \in Nat \ {0} /\ Depth < E /\ Depth \in Nat
  BY Basics
<1> HIDE DEF E
<1>2. ((a % E) + Depth) % E = (a + Depth) % E
  BY <1>1, ModAdd
<1>3. b % E = (a + Depth) % E => b = a + Depth
  <2>1. a + Depth \in Nat /\ b <= a + Depth /\ (a + Depth) - b < E
    BY <1>1
  <2> QED
    BY <1>1, <2>1, ModEqual
<1> QED
  BY <1>2, <1>3 DEF E

LEMMA EnteredFields ==
  ASSUME NEW i
  PROVE  /\ DOMAIN Entered(i) = DOMAIN NoCfg
         /\ Entered(i).base_pointer = PlainsBefore(program, i) % (2 * Depth)
         /\ Entered(i).is_streamctl = program[i].is_streamctl
         /\ Entered(i).is_outer = program[i].is_outer
         /\ Entered(i).max_inst = program[i].max_inst
         /\ Entered(i).max_rpt = program[i].max_rpt
         /\ Entered(i).stagger_max = program[i].stagger_max
         /\ Entered(i).stagger_mask = program[i].stagger_mask
<1> DEFINE e == Entered(i)
           base == PlainsBefore(program, i) % (2 * Depth)
           G(f) == IF f = "base_pointer" THEN base ELSE program[i][f]
           D == DOMAIN NoCfg
<1>1. e = [f \in D |-> G(f)]
  BY Zenon DEF Entered
<1>2. D = {"is_streamctl", "is_outer", "max_inst", "max_rpt", "stagger_max", "stagger_mask", "base_pointer"}
  BY DEF NoCfg
<1> HIDE DEF e, D, base
<1>3. \A f \in D : e[f] = G(f)
  BY <1>1
<1>4. /\ e["base_pointer"] = base /\ e["is_streamctl"] = program[i]["is_streamctl"]
      /\ e["is_outer"] = program[i]["is_outer"] /\ e["max_inst"] = program[i]["max_inst"]
      /\ e["max_rpt"] = program[i]["max_rpt"] /\ e["stagger_max"] = program[i]["stagger_max"]
      /\ e["stagger_mask"] = program[i]["stagger_mask"]
  BY <1>2, <1>3
<1> QED
  BY <1>1, <1>4 DEF e, D, base

LEMMA Signals ==
  ASSUME CoreInv, NEW i \in 1 .. pc, NEW k \in Nat, FrontAt(i, k)
  PROVE  /\ i \in Nat \ {0} /\ i <= pc
         /\ rb_contains_instructions <=> PlainsBefore(program, i) # PlainsBefore(program, pc)
         /\ rb_empty <=> PlainsBefore(program, i) + inst_cnt = PlainsBefore(program, pc)
         /\ rb_full <=> PlainsBefore(program, pc) = PlainsBefore(program, i) + Depth
         /\ rb_rd_data = mem[(PlainsBefore(program, i) + inst_cnt) % Depth]
         /\ inst_cnt \in Nat /\ PlainsBefore(program, i) + inst_cnt <= PlainsBefore(program, pc)
<1> DEFINE a == PlainsBefore(program, i)
           b == PlainsBefore(program, pc)
<1>1. i \in Nat \ {0} /\ i <= pc /\ pc \in Nat \ {0}
  BY Basics
<1>2. a \in Nat /\ b \in Nat /\ a <= b
  BY <1>1, Counts
<1>3. /\ rd_pointer = a % (2 * Depth) /\ wr_pointer = b % (2 * Depth) /\ b <= a + Depth
      /\ inst_cnt \in Nat /\ a + inst_cnt <= b
  BY Zenon DEF FrontAt, CountersFit
<1>4. Depth \in Nat \ {0} /\ 2 * Depth \in Nat \ {0}
  BY Basics
<1> HIDE DEF a, b
<1>5. rb_contains_instructions <=> a # b
  <2>1. a % (2 * Depth) = b % (2 * Depth) => a = b
    BY <1>2, <1>3, PointersEqual
  <2> QED
    BY <1>3, <2>1, Zenon DEF rb_contains_instructions
<1>6. rb_rd_pointer = (a + inst_cnt) % (2 * Depth)
  <2>1. ((a % (2 * Depth)) + inst_cnt) % (2 * Depth) = (a + inst_cnt) % (2 * Depth)
    <3> DEFINE E == 2 * Depth
    <3>1. E \in Nat \ {0}
      BY <1>4
    <3> HIDE DEF E
    <3>2. ((a % E) + inst_cnt) % E = (a + inst_cnt) % E
      BY <1>2, <1>3, <3>1, ModAdd
    <3> QED
      BY <3>2 DEF E
  <2> QED
    BY <1>3, <2>1, Zenon DEF rb_rd_pointer, Move
<1>7. rb_empty <=> a + inst_cnt = b
  <2> DEFINE c == a + inst_cnt
  <2>1. c \in Nat /\ c <= b /\ b <= c + Depth
    BY <1>2, <1>3, <1>4
  <2>2. c % (2 * Depth) = b % (2 * Depth) => c = b
    <3> HIDE DEF c
    <3> QED
      BY <1>2, <2>1, PointersEqual
  <2> QED
    BY <1>3, <1>6, <2>2, Zenon DEF rb_empty
<1>8. rb_full <=> b = a + Depth
  <2>1. (b % (2 * Depth) = ((a % (2 * Depth)) + Depth) % (2 * Depth)) <=> (b = a + Depth)
    BY <1>2, <1>3, PointersApart
  <2> QED
    BY <1>3, <2>1, Zenon DEF rb_full, Move
<1>9. rb_rd_data = mem[(a + inst_cnt) % Depth]
  <2> DEFINE c == a + inst_cnt
  <2>1. c \in Nat
    BY <1>2, <1>3
  <2> HIDE DEF c
  <2>2. (c % (2 * Depth)) % Depth = c % Depth
    BY <1>4, <2>1, ModTwice
  <2> QED
    BY <1>6, <2>2, Zenon DEF rb_rd_data, c
<1> QED
  BY <1>1, <1>3, <1>5, <1>7, <1>8, <1>9 DEF a, b

\* The first loop from place i on.
LEMMA FirstLoop ==
  ASSUME CoreInv, NEW i \in Nat \ {0}, NEW q \in Nat \ {0}, i <= q,
         LoopsBefore(program, i) # LoopsBefore(program, q)
  PROVE  \E j \in i .. q - 1 : program[j].kind = "frep" /\ LoopsBefore(program, j) = LoopsBefore(program, i)
<1> DEFINE c == LoopsBefore(program, i)
           Found(n) == \E j \in i .. i + n - 1 : program[j].kind = "frep" /\ LoopsBefore(program, j) = c
           Good == {n \in Nat : LoopsBefore(program, i + n) = c \/ Found(n)}
<1>1. 0 \in Good
  OBVIOUS
<1>2. ASSUME NEW n \in Nat, n \in Good PROVE n + 1 \in Good
  <2>0. i + n \in Nat \ {0} /\ (i + n) + 1 = i + (n + 1)
    OBVIOUS
  <2>1. CASE Found(n)
    BY <2>1
  <2>2. CASE LoopsBefore(program, i + n) = c
    <3>1. CASE program[i + n].kind = "frep"
      <4>1. i + n \in i .. i + (n + 1) - 1
        OBVIOUS
      <4>2. Found(n + 1)
        BY <2>2, <3>1, <4>1, Zenon
      <4>3. n + 1 \in Nat
        OBVIOUS
      <4> QED
        BY <4>2, <4>3, Zenon
    <3>2. CASE program[i + n].kind # "frep"
      <4>1. LoopsBefore(program, (i + n) + 1) = LoopsBefore(program, i + n) + 0
        <5>1. PICK j \in Nat \ {0} : j = i + n
          BY <2>0
        <5>2. Before(program, "frep", j + 1) = Before(program, "frep", j) + (IF program[j].kind = "frep" THEN 1 ELSE 0)
          BY BeforeFacts, Zenon
        <5>3. program[j].kind # "frep"
          BY <3>2, <5>1, Zenon
        <5> QED
          BY <5>1, <5>2, <5>3, Zenon DEF LoopsBefore
      <4>2. LoopsBefore(program, i + n) \in Nat
        BY <2>0, Counts
      <4>3. LoopsBefore(program, i + (n + 1)) = c
        BY <2>0, <2>2, <4>1, <4>2
      <4> QED
        BY <4>3
    <3> QED
      BY <3>1, <3>2
  <2> QED
    BY <1>2, <2>1, <2>2
<1>3. \A n \in Nat : n \in Good
  <2> HIDE DEF Good
  <2> QED
    BY <1>1, <1>2, NatSetInduction
<1>4. q - i \in Nat /\ i + (q - i) = q
  OBVIOUS
<1>5. q - i \in Good
  <2> HIDE DEF Good
  <2> QED
    BY <1>3, <1>4
<1> QED
  BY <1>4, <1>5

\* The configuration at the front of the buffer is that of the loop being worked on,
\* if there is one: that of a later loop has another base pointer.
LEMMA Config ==
  ASSUME CoreInv, NEW i \in 1 .. pc, NEW k \in Nat, FrontAt(i, k)
  PROVE  /\ seq_cfg_buffer_valid <=> Begun(i, pc)
         /\ Begun(i, pc) => cfgs # <<>> /\ curr_cfg = Entered(i)
         /\ ~Begun(i, pc) => curr_cfg.max_inst = 0 /\ curr_cfg.max_rpt = 0
<1>1. i \in Nat \ {0} /\ i <= pc /\ pc \in Nat \ {0} /\ pc <= Len(program) + 1 /\ Len(program) \in Nat
  BY Basics
<1>2. /\ rd_pointer = PlainsBefore(program, i) % (2 * Depth)
      /\ PlainsBefore(program, pc) <= PlainsBefore(program, i) + Depth
      /\ SlotsFit(i, pc, mem) /\ CfgsFit(i, pc, cfgs)
  BY DEF FrontAt
<1>3. cfgs \in Seq(Configurations) /\ Len(cfgs) = LoopsBefore(program, pc) - LoopsBefore(program, i)
  BY <1>2 DEF CoreInv, CfgsFit
<1>4. LoopsBefore(program, i) \in Nat /\ LoopsBefore(program, pc) \in Nat
  BY <1>1, Counts
<1>5. cfgs # <<>> => Head(cfgs) = cfgs[1] /\ LoopsBefore(program, pc) # LoopsBefore(program, i)
  <2>1. cfgs # <<>> => Len(cfgs) \in Nat \ {0}
    BY <1>3, EmptySeq
  <2>2. Head(cfgs) = cfgs[1]
    BY <1>3
  <2> QED
    BY <1>3, <1>4, <2>1, <2>2
<1>6. ASSUME NEW j \in i .. pc - 1, program[j].kind = "frep",
             LoopsBefore(program, j) = LoopsBefore(program, i), cfgs # <<>>
      PROVE  Head(cfgs) = Entered(j)
  <2>1. cfgs[LoopsBefore(program, j) - LoopsBefore(program, i) + 1] = Entered(j)
    BY <1>2, <1>6 DEF CfgsFit
  <2>2. LoopsBefore(program, j) - LoopsBefore(program, i) + 1 = 1
    BY <1>4, <1>6
  <2> QED
    BY <1>5, <1>6, <2>1, <2>2
<1>7. ASSUME Begun(i, pc) PROVE cfgs # <<>> /\ Head(cfgs) = Entered(i)
  <2>1. i < pc /\ program[i].kind = "frep"
    BY <1>7 DEF Begun
  <2>2. LoopsBefore(program, i) + 1 <= LoopsBefore(program, pc)
    BY <1>1, <2>1, Counts
  <2>3. cfgs # <<>>
    BY <1>3, <1>4, <2>2, EmptySeq
  <2> QED
    BY <1>1, <1>6, <2>1, <2>3
<1>8. ASSUME ~Begun(i, pc), seq_cfg_buffer_valid PROVE FALSE
  <2>1. cfgs # <<>> /\ Head(cfgs).base_pointer = rd_pointer
    BY <1>8, Zenon DEF seq_cfg_buffer_valid
  <2>2. PICK j \in i .. pc - 1 : program[j].kind = "frep" /\ LoopsBefore(program, j) = LoopsBefore(program, i)
    BY <1>1, <1>5, <2>1, FirstLoop
  <2>3. Head(cfgs) = Entered(j)
    BY <1>6, <2>1, <2>2
  <2>4. PlainsBefore(program, j) % (2 * Depth) = PlainsBefore(program, i) % (2 * Depth)
    BY <1>2, <2>1, <2>3, EnteredFields
  <2>5. i < pc /\ j \in Nat \ {0} /\ j <= pc /\ i <= j
    BY <1>1
  <2>6. program[i].kind # "frep"
    BY <1>8, <2>5 DEF Begun
  <2>7. program[i].kind = "plain"
    <3>1. i \in i .. pc - 1 /\ i \in 1 .. Len(program)
      BY <1>1, <2>5
    <3>2. program[i].kind # "direct"
      BY <1>2, <3>1 DEF SlotsFit
    <3> QED
      BY <2>6, <3>1, <3>2, Basics
  <2>8. i < j
    BY <1>1, <2>2, <2>5, <2>6
  <2>9. PlainsBefore(program, i) + 1 <= PlainsBefore(program, j)
    BY <1>1, <2>5, <2>7, <2>8, Counts
  <2>10. /\ PlainsBefore(program, i) \in Nat /\ PlainsBefore(program, j) \in Nat
         /\ PlainsBefore(program, pc) \in Nat
         /\ PlainsBefore(program, j) <= PlainsBefore(program, pc)
    BY <1>1, <2>5, Counts
  <2> DEFINE a == PlainsBefore(program, i)
             b == PlainsBefore(program, j)
             c == PlainsBefore(program, pc)
  <2>11. a \in Nat /\ b \in Nat /\ c \in Nat /\ b <= c /\ a + 1 <= b /\ c <= a + Depth /\ Depth \in Nat
         /\ a % (2 * Depth) = b % (2 * Depth)
    BY <1>2, <2>4, <2>9, <2>10, Basics
  <2> HIDE DEF a, b, c
  <2>12. a <= b /\ b <= a + Depth /\ a # b
    BY <2>11
  <2> QED
    BY <2>11, <2>12, PointersEqual
<1>9. Begun(i, pc) => seq_cfg_buffer_valid
  BY <1>2, <1>7, EnteredFields DEF seq_cfg_buffer_valid
<1>10. ASSUME ~Begun(i, pc) PROVE curr_cfg.max_inst = 0 /\ curr_cfg.max_rpt = 0
  <2>1. ~seq_cfg_buffer_valid
    BY <1>8, <1>10
  <2> DEFINE c == IF cfgs # <<>> THEN Head(cfgs) ELSE NoCfg
  <2>2. curr_cfg = [c EXCEPT !.max_inst = 0, !.max_rpt = 0]
    BY <2>1, Zenon DEF curr_cfg
  <2>3. "max_inst" \in DOMAIN NoCfg /\ "max_rpt" \in DOMAIN NoCfg
    BY DEF NoCfg
  <2>4. DOMAIN c = DOMAIN NoCfg
    <3>1. CASE cfgs # <<>>
      <4>1. Head(cfgs) \in Configurations
        BY <1>3, <3>1
      <4>2. PICK j : Head(cfgs) = Entered(j)
        BY <4>1 DEF Configurations
      <4> QED
        BY <3>1, <4>2, EnteredFields
    <3> QED
      BY <3>1
  <2> HIDE DEF c
  <2> QED
    BY <2>2, <2>3, <2>4
<1> QED
  BY <1>7, <1>8, <1>9, <1>10, Zenon DEF curr_cfg

\* The instructions of a loop's body count, and nothing else.
LEMMA Body ==
  ASSUME CoreInv, NEW i \in 1 .. Len(program), program[i].kind = "frep", NEW s \in Nat, s <= program[i].max_inst + 1
  PROVE  /\ PlainsBefore(program, i + 1 + s) = PlainsBefore(program, i) + s
         /\ LoopsBefore(program, i + 1 + s) = LoopsBefore(program, i) + 1
         /\ s <= program[i].max_inst => program[i + 1 + s].kind = "plain"
<1>1. i \in Nat \ {0} /\ i + 1 \in Nat \ {0} /\ FrepFits(program, i)
  BY Basics
<1>2. program[i].max_inst \in Nat
  BY <1>1, LoopType
<1>3. \A j \in i + 1 .. i + program[i].max_inst + 1 : program[j].kind = "plain"
  BY <1>1 DEF FrepFits
<1>4. \A j \in i + 1 .. i + 1 + s - 1 : program[j].kind = "plain"
  BY <1>1, <1>2, <1>3
<1>5. PlainsBefore(program, i + 1) = PlainsBefore(program, i) /\ LoopsBefore(program, i + 1) = LoopsBefore(program, i) + 1
  BY <1>1, Counts
<1> DEFINE b == i + 1
<1>6. PlainsBefore(program, b + s) = PlainsBefore(program, b) + s
  <2>1. b \in Nat \ {0} /\ \A j \in b .. b + s - 1 : program[j].kind = "plain"
    BY <1>1, <1>4
  <2> HIDE DEF b
  <2>2. Before(program, "plain", b + s) = Before(program, "plain", b) + s
    BY <2>1, BeforeRun
  <2> QED
    BY <2>2, Zenon DEF PlainsBefore
<1>7. LoopsBefore(program, b + s) = LoopsBefore(program, b)
  <2>1. b \in Nat \ {0} /\ \A j \in b .. b + s - 1 : program[j].kind # "frep"
    BY <1>1, <1>4
  <2> HIDE DEF b
  <2>2. Before(program, "frep", b + s) = Before(program, "frep", b)
    BY <2>1, BeforeOthers
  <2> QED
    BY <2>2, Zenon DEF LoopsBefore
<1>8. s <= program[i].max_inst => program[i + 1 + s].kind = "plain"
  BY <1>1, <1>2, <1>3
<1> QED
  BY <1>5, <1>6, <1>7, <1>8

\* An instruction of the body that is in the ring has been offloaded.
LEMMA InRing ==
  ASSUME CoreInv, NEW i \in 1 .. pc, NEW k \in Nat, FrontAt(i, k), Begun(i, pc),
         NEW s \in Nat, s <= program[i].max_inst, PlainsBefore(program, i) + s < PlainsBefore(program, pc)
  PROVE  i + 1 + s < pc /\ mem[(PlainsBefore(program, i) + s) % Depth] = i + 1 + s
<1>1. i \in Nat \ {0} /\ pc \in Nat \ {0} /\ pc <= Len(program) + 1 /\ i < pc /\ program[i].kind = "frep"
      /\ Len(program) \in Nat
  BY Basics DEF Begun
<1>2. i \in 1 .. Len(program) /\ FrepFits(program, i)
  BY <1>1, Basics
<1>3. program[i].max_inst \in Nat
  BY <1>1, <1>2, LoopType
<1>4. PlainsBefore(program, i + 1 + s) = PlainsBefore(program, i) + s /\ program[i + 1 + s].kind = "plain"
  BY <1>1, <1>2, <1>3, Body
<1>5. i + 1 + s < pc
  <2> SUFFICES ASSUME pc <= i + 1 + s PROVE FALSE
    BY <1>1
  <2>1. i + 1 + s \in Nat \ {0}
    BY <1>1
  <2>2. PlainsBefore(program, pc) <= PlainsBefore(program, i + 1 + s)
    BY <1>1, <2>1, Counts
  <2>3. PlainsBefore(program, i) \in Nat /\ PlainsBefore(program, pc) \in Nat
    BY <1>1, Counts
  <2> QED
    BY <1>4, <2>2, <2>3
<1>6. SlotsFit(i, pc, mem)
  BY DEF FrontAt
<1>7. i + 1 + s \in i .. pc - 1
  BY <1>1, <1>5
<1>8. mem[PlainsBefore(program, i + 1 + s) % Depth] = i + 1 + s
  BY <1>4, <1>6, <1>7 DEF SlotsFit
<1> QED
  BY <1>4, <1>5, <1>8

\* After the last instruction of the body the loop is left, with its configuration.
LEMMA LoopLeft ==
  ASSUME CoreInv, NEW i \in 1 .. pc, NEW k \in Nat, FrontAt(i, k), Begun(i, pc),
         PlainsBefore(program, i) + program[i].max_inst < PlainsBefore(program, pc)
  PROVE  /\ Behind(program, i) \in i + 1 .. pc
         /\ Move(rd_pointer, curr_cfg.max_inst + 1) = PlainsBefore(program, Behind(program, i)) % (2 * Depth)
         /\ Tail(cfgs) \in Seq(Configurations) /\ CfgsFit(Behind(program, i), pc, Tail(cfgs))
<1> DEFINE n == program[i].max_inst
           q == Behind(program, i)
<1>1. i \in Nat \ {0} /\ pc \in Nat \ {0} /\ pc <= Len(program) + 1 /\ i < pc /\ program[i].kind = "frep"
      /\ Len(program) \in Nat
  BY Basics DEF Begun
<1>2. i \in 1 .. Len(program) /\ FrepFits(program, i)
  BY <1>1, Basics
<1>3. n \in Nat /\ q = i + 1 + (n + 1)
  BY <1>1, <1>2, LoopType DEF Behind
<1>4. i + 1 + n < pc
  BY <1>3, InRing
<1>5. q \in i + 1 .. pc /\ q \in Nat \ {0}
  BY <1>1, <1>3, <1>4
<1>6. PlainsBefore(program, q) = PlainsBefore(program, i) + (n + 1)
      /\ LoopsBefore(program, q) = LoopsBefore(program, i) + 1
  <2> DEFINE m == n + 1
  <2>1. m \in Nat /\ m <= program[i].max_inst + 1
    BY <1>3
  <2> HIDE DEF m
  <2>2. PlainsBefore(program, i + 1 + m) = PlainsBefore(program, i) + m
        /\ LoopsBefore(program, i + 1 + m) = LoopsBefore(program, i) + 1
    BY <1>1, <1>2, <2>1, Body
  <2> QED
    BY <1>3, <2>2 DEF m
<1>7. PlainsBefore(program, i) \in Nat /\ LoopsBefore(program, i) \in Nat /\ LoopsBefore(program, pc) \in Nat
      /\ \A j \in q .. pc - 1 : LoopsBefore(program, j) \in Nat /\ LoopsBefore(program, q) <= LoopsBefore(program, j)
  BY <1>1, <1>5, Counts
<1>8. cfgs # <<>> /\ curr_cfg.max_inst = n
  BY Config, EnteredFields
<1>9. rd_pointer = PlainsBefore(program, i) % (2 * Depth) /\ CfgsFit(i, pc, cfgs) /\ cfgs \in Seq(Configurations)
  BY DEF FrontAt, CoreInv
<1> HIDE DEF n, q
<1>10. Move(rd_pointer, n + 1) = PlainsBefore(program, q) % (2 * Depth)
  <2> DEFINE m == n + 1
             E == 2 * Depth
             a == PlainsBefore(program, i)
  <2>1. m \in Nat /\ E \in Nat \ {0} /\ a \in Nat
    BY <1>3, <1>7, Basics
  <2> HIDE DEF m, E, a
  <2>2. ((a % E) + m) % E = (a + m) % E
    BY <2>1, ModAdd
  <2> QED
    BY <1>6, <1>9, <2>2, Zenon DEF Move, m, E, a
<1>11. Tail(cfgs) \in Seq(Configurations) /\ Len(Tail(cfgs)) = Len(cfgs) - 1
       /\ \A x \in 1 .. Len(Tail(cfgs)) : Tail(cfgs)[x] = cfgs[x + 1]
  BY <1>8, <1>9, HeadTailProperties
<1>12. Len(cfgs) = LoopsBefore(program, pc) - LoopsBefore(program, i)
  BY <1>9 DEF CfgsFit
<1>13. ASSUME NEW j \in q .. pc - 1, program[j].kind = "frep"
       PROVE  Tail(cfgs)[LoopsBefore(program, j) - LoopsBefore(program, q) + 1] = Entered(j)
  <2> DEFINE x == LoopsBefore(program, j) - LoopsBefore(program, q) + 1
  <2>1. j \in i .. pc - 1 /\ j \in Nat \ {0} /\ j < pc
    BY <1>1, <1>5
  <2>2. LoopsBefore(program, j) + 1 <= LoopsBefore(program, pc)
    BY <1>1, <1>13, <2>1, Counts
  <2>3. x \in 1 .. Len(Tail(cfgs)) /\ x + 1 = LoopsBefore(program, j) - LoopsBefore(program, i) + 1
    <3> DEFINE lj == LoopsBefore(program, j)
               lq == LoopsBefore(program, q)
               li == LoopsBefore(program, i)
               lp == LoopsBefore(program, pc)
               t  == Len(Tail(cfgs))
    <3>1. lj \in Nat /\ lq <= lj /\ lq = li + 1 /\ li \in Nat /\ lp \in Nat /\ lj + 1 <= lp
      BY <1>6, <1>7, <2>2, Zenon
    <3>2. t = lp - li - 1
      BY <1>11, <1>12, Zenon
    <3> HIDE DEF lj, lq, li, lp, t
    <3>3. lj - lq + 1 \in 1 .. t /\ (lj - lq + 1) + 1 = lj - li + 1
      BY <3>1, <3>2
    <3> QED
      BY <3>3 DEF lj, lq, li, t
  <2> HIDE DEF x
  <2>4. cfgs[LoopsBefore(program, j) - LoopsBefore(program, i) + 1] = Entered(j)
    BY <1>9, <1>13, <2>1 DEF CfgsFit
  <2>5. Tail(cfgs)[x] = Entered(j)
    BY <1>11, <2>3, <2>4
  <2> QED
    BY <2>5 DEF x
<1>14. Len(Tail(cfgs)) = LoopsBefore(program, pc) - LoopsBefore(program, q)
  BY <1>6, <1>7, <1>11, <1>12
<1>15. CfgsFit(q, pc, Tail(cfgs))
  BY <1>13, <1>14 DEF CfgsFit
<1> QED
  BY <1>5, <1>8, <1>10, <1>11, <1>15 DEF q

-----------------------------------------------------------------------------
(* The output side of a cycle.                                             *)

Leaves(oup_qready_i) == (seq_last /\ SeqNext(oup_qready_i)) \/ seq_done
CfgPop(oup_qready_i) == (seq_last /\ SeqNext(oup_qready_i) /\ seq_cfg_buffer_valid) \/ seq_done
Passes(oup_qready_i) ==
    ~rb_contains_instructions /\ inp_qvalid_i /\ Instr.kind = "direct" /\ oup_qready_i

OutputSide(oup_qready_i) ==
    /\ rd_pointer' = IF Leaves(oup_qready_i) THEN Move(rd_pointer, curr_cfg.max_inst + 1) ELSE rd_pointer
    /\ Count(SeqNext(oup_qready_i))
    /\ Control(Streamed /\ (SeqNext(oup_qready_i) \/ seq_done))
    /\ issued' = IF SeqNext(oup_qready_i) THEN Append(issued, oup) ELSE issued
    /\ UNCHANGED program

\* After it the front is place i, with the k-th issue of the loop there.
GoesTo(i, k, popped) ==
    /\ rd_pointer' = PlainsBefore(program, i) % (2 * Depth)
    /\ popped \in Seq(Configurations) /\ CfgsFit(i, pc, popped)
    /\ CountersFit(i, k, pc, inst_cnt', rpt_cnt', stagger_cnt')
    /\ stream' = SubSeq(Tokens(program), Taken(i, k) + 1, Len(Tokens(program)))
    /\ streamctl_valid_i' \in BOOLEAN /\ (streamctl_valid_i' => stream' # <<>>)
    /\ issued' \in Seq(Issue) /\ issued' \o Rest(program, i, k) = Issues(program)

\* What a cycle that leaves the core at place q issues, and how it moves the front.
Moves(i, k, i2, k2, q) ==
    \/ issued' = issued /\ i2 = i /\ k2 = k
    \/ /\ i \in 1 .. Len(program) /\ program[i].kind # "frep" /\ k = 0 /\ i < q
       /\ issued' = Append(issued, [op |-> i, stagger |-> 0])
       /\ i2 = i + 1 /\ k2 = 0
    \/ /\ i \in 1 .. Len(program) /\ program[i].kind = "frep" /\ ~program[i].is_streamctl
       /\ i < q /\ k < Size(program, i) /\ Issued(program, i, k).op < q
       /\ issued' = Append(issued, Issued(program, i, k))
       /\ IF k + 1 = Size(program, i) THEN i2 = Behind(program, i) /\ k2 = 0 ELSE i2 = i /\ k2 = k + 1
    \/ i \in 1 .. Len(program) /\ IsStreamLoop(program, i)

\* A loop that is worked on has issues left.
LEMMA CountShort ==
  ASSUME CoreInv, NEW i \in 1 .. Len(program), program[i].kind = "frep", ~program[i].is_streamctl,
         NEW q, Begun(i, q), NEW k \in Nat, NEW x, NEW y, NEW z, CountersFit(i, k, q, x, y, z)
  PROVE  k < Size(program, i)
<1>1. ProgramFits(program) /\ FrepFits(program, i) /\ i \in Nat
  BY Basics
<1> DEFINE n == program[i].max_inst
           m == program[i].max_rpt
           g == Size(program, i)
<1>2. n \in Nat /\ m \in Nat /\ g \in Nat /\ Repetitions(program, i) = m + 1
  BY <1>1, LoopType
<1>3. g = (n + 1) * (m + 1)
  BY <1>2, Zenon DEF Size
<1>4. /\ x \in Nat /\ y \in Nat /\ x <= n /\ y <= m
      /\ k = IF program[i].is_outer THEN x + y * (n + 1) ELSE y + x * (m + 1)
  BY Zenon DEF CountersFit
<1> HIDE DEF n, m, g
<1>5. x \in 0 .. n /\ y \in 0 .. m
  BY <1>2, <1>4
<1>6. x + y * (n + 1) < (n + 1) * (m + 1)
  BY <1>2, <1>5, TwoCounters
<1>7. y + x * (m + 1) < (m + 1) * (n + 1)
  BY <1>2, <1>5, TwoCounters
<1>8. (m + 1) * (n + 1) = (n + 1) * (m + 1)
  BY <1>2
<1>9. k < g
  BY <1>3, <1>4, <1>6, <1>7, <1>8, Zenon
<1> QED
  BY <1>9 DEF g

LEMMA ControlKeeps ==
  ASSUME streamctl_valid_i \in BOOLEAN, NEW r \in BOOLEAN, ~r, Control(r)
  PROVE  stream' = stream /\ streamctl_valid_i' \in BOOLEAN /\ (streamctl_valid_i' => stream' # <<>>)
<1>1. stream' = stream
      /\ streamctl_valid_i' \in (IF stream = <<>> THEN {FALSE}
                                 ELSE IF streamctl_valid_i /\ ~r THEN {TRUE} ELSE BOOLEAN)
  BY Zenon DEF Control
<1>2. streamctl_valid_i' \in BOOLEAN
  BY <1>1
<1>3. stream = <<>> => ~streamctl_valid_i'
  BY <1>1
<1> QED
  BY <1>1, <1>2, <1>3

LEMMA ControlTakes ==
  ASSUME streamctl_valid_i, NEW r \in BOOLEAN, r, Control(r)
  PROVE  stream' = Tail(stream) /\ streamctl_valid_i' \in BOOLEAN /\ (streamctl_valid_i' => stream' # <<>>)
<1> DEFINE t == Tail(stream)
<1>1. stream' = t
      /\ streamctl_valid_i' \in (IF t = <<>> THEN {FALSE}
                                 ELSE IF streamctl_valid_i /\ ~r THEN {TRUE} ELSE BOOLEAN)
  BY Zenon DEF Control
<1> HIDE DEF t
<1>2. streamctl_valid_i' \in BOOLEAN
  BY <1>1
<1>3. t = <<>> => ~streamctl_valid_i'
  BY <1>1
<1> QED
  BY <1>1, <1>2, <1>3 DEF t

\* The loops before place i have taken their tokens.
LEMMA TakenNext ==
  ASSUME CoreInv, NEW i \in 1 .. Len(program)
  PROVE  /\ Taken(i, 0) \in Nat
         /\ ~IsStreamLoop(program, i) => \A k \in Nat : Taken(Behind(program, i), 0) = Taken(i, k)
         /\ IsStreamLoop(program, i) =>
              /\ Taken(Behind(program, i), 0) = Taken(i, 0) + program[i].tokens + 1
              /\ \A k \in Nat : Taken(i, k) = Taken(i, 0) + k
              /\ \A k \in 0 .. program[i].tokens :
                   /\ Taken(i, 0) + k + 1 <= Len(Tokens(program))
                   /\ Tokens(program)[Taken(i, 0) + k + 1] = (k = program[i].tokens)
<1> DEFINE g == TokensTo(program)
           a == Len(g[i - 1])
           b == Behind(program, i)
           c == Len(g[b - 1])
<1>1. ProgramFits(program) /\ Len(program) \in Nat /\ i \in Nat \ {0}
  BY Basics
<1>2. i - 1 \in 0 .. Len(program) /\ b \in Nat /\ b - 1 \in 0 .. Len(program)
  BY <1>1, BehindType
<1>3. a \in Nat /\ c \in Nat
  BY <1>1, <1>2, TokensType, LenProperties
<1>4. g[b - 1] = g[i]
  <2>1. CASE program[i].kind = "frep"
    BY <1>1, <2>1, TokensOfBody
  <2>2. CASE program[i].kind # "frep"
    <3>1. b - 1 = i
      BY <1>1, <2>2 DEF Behind
    <3> QED
      BY <3>1
  <2> QED
    BY <2>1, <2>2
<1>5. IsLoop(program, i) /\ program[i].is_streamctl <=> IsStreamLoop(program, i)
  BY <1>1 DEF IsLoop, IsStreamLoop
<1>6. \A k : Taken(i, k) = a + (IF IsStreamLoop(program, i) THEN k ELSE 0)
  BY <1>5, Zenon DEF Taken
<1>7. Taken(b, 0) = c
  <2>1. Taken(b, 0) = c + 0
    BY Zenon DEF Taken
  <2> QED
    BY <1>3, <2>1
<1> HIDE DEF a, b, c, g
<1>8. ASSUME ~IsStreamLoop(program, i), NEW k \in Nat PROVE Taken(b, 0) = Taken(i, k)
  <2>1. g[i] = g[i - 1]
    BY <1>1, <1>8, TokensUnfolded DEF g
  <2>2. c = a
    BY <1>4, <2>1 DEF a, c
  <2> QED
    BY <1>3, <1>6, <1>7, <1>8, <2>2
<1>9. ASSUME IsStreamLoop(program, i)
      PROVE  /\ Taken(b, 0) = Taken(i, 0) + program[i].tokens + 1
             /\ \A k \in Nat : Taken(i, k) = Taken(i, 0) + k
             /\ \A k \in 0 .. program[i].tokens :
                  /\ Taken(i, 0) + k + 1 <= Len(Tokens(program))
                  /\ Tokens(program)[Taken(i, 0) + k + 1] = (k = program[i].tokens)
  <2>1. Taken(i, 0) = a /\ \A k \in Nat : Taken(i, k) = a + k
    BY <1>3, <1>6, <1>9
  <2>2. /\ Len(g[i]) = a + program[i].tokens + 1
        /\ \A k \in 0 .. program[i].tokens : /\ a + k + 1 <= Len(Tokens(program))
                                             /\ Tokens(program)[a + k + 1] = (k = program[i].tokens)
    <3>1. /\ Len(TokensTo(program)[i]) = Len(TokensTo(program)[i - 1]) + program[i].tokens + 1
          /\ \A k \in 0 .. program[i].tokens :
               /\ Len(TokensTo(program)[i - 1]) + k + 1 <= Len(Tokens(program))
               /\ Tokens(program)[Len(TokensTo(program)[i - 1]) + k + 1] = (k = program[i].tokens)
      BY <1>1, <1>9, TokensOfLoop, SMTT(60)
    <3> QED
      BY <3>1, Zenon DEF a, g
  <2>3. c = Len(g[i])
    BY <1>4 DEF c
  <2> QED
    BY <1>7, <2>1, <2>2, <2>3, Zenon
<1>10. Taken(i, 0) \in Nat
  BY <1>3, <1>6
<1> QED
  BY <1>8, <1>9, <1>10, Zenon DEF b

\* A new front: nothing of what stands there has been issued yet.
LEMMA FreshCounters ==
  ASSUME CoreInv, NEW q \in 1 .. Len(program) + 1, NEW i \in 1 .. q
  PROVE  CountersFit(i, 0, q, 0, 0, 0)
<1>1. i \in Nat \ {0} /\ i <= q /\ q \in Nat \ {0} /\ q <= Len(program) + 1 /\ Len(program) \in Nat
  BY Basics
<1>2. PlainsBefore(program, i) \in Nat /\ PlainsBefore(program, i) + 0 <= PlainsBefore(program, q)
  <2>1. PlainsBefore(program, i) \in Nat /\ PlainsBefore(program, i) <= PlainsBefore(program, q)
    BY <1>1, Counts
  <2> QED
    BY <2>1
<1>3. ASSUME Begun(i, q)
      PROVE  /\ 0 <= program[i].max_inst
             /\ program[i].is_streamctl => 0 <= program[i].tokens
             /\ ~program[i].is_streamctl =>
                  /\ 0 <= program[i].max_rpt
                  /\ 0 = IF program[i].is_outer THEN 0 + 0 * (program[i].max_inst + 1)
                                                ELSE 0 + 0 * (program[i].max_rpt + 1)
                  /\ 0 = (IF program[i].is_outer THEN 0 ELSE 0) % (program[i].stagger_max + 1)
  <2>1. i \in 1 .. Len(program) /\ program[i].kind = "frep"
    BY <1>1, <1>3 DEF Begun
  <2>2. FrepFits(program, i)
    BY <2>1, Basics
  <2> DEFINE n == program[i].max_inst
             m == program[i].max_rpt
             s == program[i].stagger_max
  <2>3. n \in Nat /\ m \in Nat /\ s \in Nat /\ (program[i].is_streamctl => program[i].tokens \in Nat)
    BY <1>1, <2>2, LoopType
  <2> HIDE DEF n, m, s
  <2>4. 0 % (s + 1) = 0
    BY <2>3
  <2>5. 0 + 0 * (n + 1) = 0 /\ 0 + 0 * (m + 1) = 0
    BY <2>3
  <2>6. /\ 0 = IF program[i].is_outer THEN 0 + 0 * (n + 1) ELSE 0 + 0 * (m + 1)
        /\ (IF program[i].is_outer THEN 0 ELSE 0) = 0
    BY <2>5, Zenon
  <2>7. 0 <= n /\ 0 <= m /\ (program[i].is_streamctl => 0 <= program[i].tokens)
    BY <2>3
  <2> QED
    BY <2>4, <2>6, <2>7, Zenon DEF n, m, s
<1> QED
  BY <1>2, <1>3 DEF CountersFit

LEMMA StreamedMeans ==
  ASSUME CoreInv, NEW i \in 1 .. pc, NEW k \in Nat, FrontAt(i, k)
  PROVE  Streamed <=> Begun(i, pc) /\ program[i].is_streamctl
<1>1. CASE Begun(i, pc)
  <2>1. i < pc /\ program[i].kind = "frep" /\ i \in Nat \ {0} /\ pc \in Nat \ {0} /\ pc <= Len(program) + 1
        /\ Len(program) \in Nat
    BY <1>1, Basics DEF Begun
  <2>2. i \in 1 .. Len(program)
    BY <2>1
  <2>3. FrepFits(program, i)
    BY <2>1, <2>2, Basics
  <2>4. program[i].is_streamctl \in BOOLEAN /\ (program[i].is_streamctl => program[i].is_outer)
    BY <2>1, <2>3, LoopType
  <2>5. seq_cfg_buffer_valid /\ curr_cfg.is_outer = program[i].is_outer
        /\ curr_cfg.is_streamctl = program[i].is_streamctl
    BY <1>1, Config, EnteredFields
  <2> QED
    BY <1>1, <2>4, <2>5 DEF Streamed
<1>2. CASE ~Begun(i, pc)
  BY <1>2, Config DEF Streamed
<1> QED
  BY <1>1, <1>2

\* Nothing is issued.
LEMMA OutputWaits ==
  ASSUME CoreInv, NEW i \in 1 .. pc, NEW k \in Nat, FrontAt(i, k), NEW oup_qready_i \in BOOLEAN,
         OutputSide(oup_qready_i), ~SeqNext(oup_qready_i), ~seq_done
  PROVE  GoesTo(i, k, Popped(CfgPop(oup_qready_i))) /\ Moves(i, k, i, k, pc)
<1>1. ~Leaves(oup_qready_i) /\ ~CfgPop(oup_qready_i)
  BY Zenon DEF Leaves, CfgPop
<1>2. Popped(CfgPop(oup_qready_i)) = cfgs
  BY <1>1, Zenon DEF Popped
<1>3. rd_pointer' = rd_pointer /\ issued' = issued /\ UNCHANGED counters
  BY <1>1, Zenon DEF OutputSide, Count
<1>4. inst_cnt' = inst_cnt /\ rpt_cnt' = rpt_cnt /\ stagger_cnt' = stagger_cnt
  BY <1>3 DEF counters
<1>5. stream' = stream /\ streamctl_valid_i' \in BOOLEAN /\ (streamctl_valid_i' => stream' # <<>>)
  <2> DEFINE r == Streamed /\ (SeqNext(oup_qready_i) \/ seq_done)
  <2>1. r \in BOOLEAN /\ ~r
    BY Zenon
  <2>2. Control(r) /\ streamctl_valid_i \in BOOLEAN
    BY Zenon DEF OutputSide, FrontAt
  <2> HIDE DEF r
  <2> QED
    BY <2>1, <2>2, ControlKeeps
<1>6. /\ rd_pointer = PlainsBefore(program, i) % (2 * Depth)
      /\ CfgsFit(i, pc, cfgs) /\ CountersFit(i, k, pc, inst_cnt, rpt_cnt, stagger_cnt)
      /\ stream = SubSeq(Tokens(program), Taken(i, k) + 1, Len(Tokens(program)))
      /\ issued \o Rest(program, i, k) = Issues(program)
  BY Zenon DEF FrontAt
<1>7. cfgs \in Seq(Configurations) /\ issued \in Seq(Issue)
  BY DEF CoreInv
<1> QED
  BY <1>2, <1>3, <1>4, <1>5, <1>6, <1>7, Zenon DEF GoesTo, Moves

\* A plain instruction outside a loop is issued once.
LEMMA OutputPlain ==
  ASSUME CoreInv, NEW i \in 1 .. pc, NEW k \in Nat, FrontAt(i, k), NEW oup_qready_i \in BOOLEAN,
         OutputSide(oup_qready_i), SeqNext(oup_qready_i), ~Begun(i, pc)
  PROVE  i + 1 \in 1 .. pc /\ GoesTo(i + 1, 0, Popped(CfgPop(oup_qready_i))) /\ Moves(i, k, i + 1, 0, pc)
<1>1. ~seq_cfg_buffer_valid /\ ~Streamed /\ ~seq_done /\ rb_contains_instructions
      /\ curr_cfg.max_inst = 0 /\ curr_cfg.max_rpt = 0
  BY Config, StreamedMeans, Zenon DEF seq_done, SeqNext
<1>2. i \in Nat \ {0} /\ i <= pc /\ pc \in Nat \ {0} /\ pc <= Len(program) + 1 /\ Len(program) \in Nat
  BY Basics
<1>3. i < pc
  BY <1>1, <1>2, Signals
<1>4. k = 0 /\ inst_cnt = 0 /\ rpt_cnt = 0 /\ stagger_cnt = 0
  BY Zenon DEF FrontAt, CountersFit
<1>5. i \in 1 .. Len(program) /\ i \in i .. pc - 1 /\ i + 1 \in 1 .. pc
  BY <1>2, <1>3
<1>6. program[i].kind = "plain" /\ mem[PlainsBefore(program, i) % Depth] = i
  <2>1. SlotsFit(i, pc, mem)
    BY DEF FrontAt
  <2>2. program[i].kind # "direct" /\ (program[i].kind = "plain" => mem[PlainsBefore(program, i) % Depth] = i)
    BY <1>5, <2>1 DEF SlotsFit
  <2>3. program[i].kind # "frep"
    BY <1>3 DEF Begun
  <2> QED
    BY <1>5, <2>2, <2>3, Basics
<1>7. PlainsBefore(program, i) \in Nat /\ PlainsBefore(program, i + 1) = PlainsBefore(program, i) + 1
      /\ LoopsBefore(program, i + 1) = LoopsBefore(program, i)
  BY <1>2, <1>6, Counts
<1>8. oup = [op |-> i, stagger |-> 0]
  <2>1. rb_rd_data = mem[(PlainsBefore(program, i) + 0) % Depth]
    BY <1>4, Signals
  <2>2. PlainsBefore(program, i) + 0 = PlainsBefore(program, i)
    BY <1>7
  <2>3. oup = [op |-> rb_rd_data, stagger |-> IF curr_cfg.stagger_mask THEN stagger_cnt ELSE 0]
    BY <1>1, Zenon DEF oup
  <2>4. (IF curr_cfg.stagger_mask THEN stagger_cnt ELSE 0) = 0
    BY <1>4, Zenon
  <2> QED
    BY <1>6, <2>1, <2>2, <2>3, <2>4, Zenon
<1>9. inst_last /\ rpt_last /\ seq_last /\ Leaves(oup_qready_i) /\ ~CfgPop(oup_qready_i)
  <2>1. inst_last /\ rpt_last
    BY <1>1, <1>4 DEF inst_last, rpt_last
  <2>2. seq_last
    BY <1>1, <2>1, Zenon DEF seq_last
  <2> QED
    BY <1>1, <2>1, <2>2, Zenon DEF Leaves, CfgPop
<1>10. Popped(CfgPop(oup_qready_i)) = cfgs
  BY <1>9, Zenon DEF Popped
<1>11. Reset
  <2>1. Count(SeqNext(oup_qready_i))
    BY DEF OutputSide
  <2>2. IF curr_cfg.is_outer THEN CountOuter ELSE CountInner
    BY <1>1, <2>1, Zenon DEF Count
  <2> QED
    BY <1>9, <2>2, Zenon DEF CountOuter, CountInner
<1>12. CountersFit(i + 1, 0, pc, inst_cnt', rpt_cnt', stagger_cnt')
  <2>1. CountersFit(i + 1, 0, pc, 0, 0, 0)
    BY <1>5, FreshCounters DEF CoreInv
  <2> QED
    BY <1>11, <2>1, Zenon DEF Reset
<1>13. rd_pointer' = PlainsBefore(program, i + 1) % (2 * Depth)
  <2>1. rd_pointer' = Move(rd_pointer, 0 + 1)
    BY <1>1, <1>9, Zenon DEF OutputSide
  <2>2. rd_pointer = PlainsBefore(program, i) % (2 * Depth)
    BY DEF FrontAt
  <2> DEFINE E == 2 * Depth
             a == PlainsBefore(program, i)
  <2>3. E \in Nat \ {0} /\ a \in Nat
    BY <1>7, Basics
  <2> HIDE DEF E, a
  <2>4. ((a % E) + 1) % E = (a + 1) % E
    BY <2>3, ModAdd
  <2>5. 0 + 1 = 1
    OBVIOUS
  <2> QED
    BY <1>7, <2>1, <2>2, <2>4, <2>5, Zenon DEF Move, E, a
<1>14. CfgsFit(i + 1, pc, cfgs) /\ cfgs \in Seq(Configurations)
  <2>1. CfgsFit(i, pc, cfgs)
    BY DEF FrontAt
  <2>2. \A j \in i + 1 .. pc - 1 : j \in i .. pc - 1
    BY <1>2
  <2> QED
    BY <1>7, <2>1, <2>2, Zenon DEF CfgsFit, CoreInv
<1>15. stream' = stream /\ streamctl_valid_i' \in BOOLEAN /\ (streamctl_valid_i' => stream' # <<>>)
  <2> DEFINE r == Streamed /\ (SeqNext(oup_qready_i) \/ seq_done)
  <2>1. r \in BOOLEAN /\ ~r
    BY <1>1, Zenon
  <2>2. Control(r) /\ streamctl_valid_i \in BOOLEAN
    BY Zenon DEF OutputSide, FrontAt
  <2> HIDE DEF r
  <2> QED
    BY <2>1, <2>2, ControlKeeps
<1>16. stream = SubSeq(Tokens(program), Taken(i + 1, 0) + 1, Len(Tokens(program)))
  <2>1. ~IsStreamLoop(program, i) /\ Behind(program, i) = i + 1
    BY <1>6 DEF IsStreamLoop, Behind
  <2>2. Taken(i + 1, 0) = Taken(i, k)
    BY <1>5, <2>1, TakenNext
  <2> QED
    BY <2>2, Zenon DEF FrontAt
<1>17. issued' \in Seq(Issue) /\ issued' \o Rest(program, i + 1, 0) = Issues(program)
  <2> DEFINE e == [op |-> i, stagger |-> 0]
             t == Rest(program, i + 1, 0)
  <2>1. ProgramFits(program) /\ i + 1 \in 1 .. Len(program) + 1 /\ program[i].kind # "frep"
    BY <1>2, <1>5, <1>6, Basics
  <2>2. Rest(program, i, 0) = <<e>> \o t /\ t \in Seq(Issue)
    BY <1>5, <2>1, RestOfPlain, RestStart
  <2>3. e \in Issue
    BY <1>2 DEF Issue
  <2>4. issued' = Append(issued, e)
    BY <1>8, Zenon DEF OutputSide
  <2>5. issued \o Rest(program, i, 0) = Issues(program) /\ issued \in Seq(Issue)
    BY <1>4, Zenon DEF FrontAt, CoreInv
  <2> HIDE DEF e, t
  <2>6. Append(issued, e) \in Seq(Issue) /\ Append(issued, e) \o t = issued \o (<<e>> \o t)
    BY <2>2, <2>3, <2>5, HandOver
  <2> QED
    BY <2>2, <2>4, <2>5, <2>6, Zenon DEF t
<1>18. Moves(i, k, i + 1, 0, pc)
  <2>1. issued' = Append(issued, [op |-> i, stagger |-> 0])
    BY <1>8, Zenon DEF OutputSide
  <2>2. program[i].kind # "frep"
    BY <1>6
  <2> QED
    BY <1>3, <1>4, <1>5, <2>1, <2>2, Zenon DEF Moves
<1> QED
  BY <1>5, <1>10, <1>12, <1>13, <1>14, <1>15, <1>16, <1>17, <1>18, Zenon DEF GoesTo

\* What is at the output while a loop is worked on.
LEMMA LoopOutput ==
  ASSUME CoreInv, NEW i \in 1 .. pc, NEW k \in Nat, FrontAt(i, k), Begun(i, pc), ~rb_empty
  PROVE  /\ i \in 1 .. Len(program) /\ program[i].kind = "frep" /\ FrepFits(program, i)
         /\ curr_cfg = Entered(i) /\ seq_cfg_buffer_valid
         /\ inst_cnt \in Nat /\ inst_cnt <= program[i].max_inst
         /\ PlainsBefore(program, i) + inst_cnt < PlainsBefore(program, pc)
         /\ rb_contains_instructions
         /\ oup = [op |-> i + 1 + inst_cnt,
                   stagger |-> IF program[i].stagger_mask THEN stagger_cnt ELSE 0]
<1>1. i \in Nat \ {0} /\ i < pc /\ pc \in Nat \ {0} /\ pc <= Len(program) + 1 /\ Len(program) \in Nat
      /\ program[i].kind = "frep"
  BY Basics DEF Begun
<1>2. i \in 1 .. Len(program)
  BY <1>1
<1>3. FrepFits(program, i)
  BY <1>1, <1>2, Basics
<1>4. seq_cfg_buffer_valid /\ curr_cfg = Entered(i)
  BY Config
<1>5. inst_cnt \in Nat /\ inst_cnt <= program[i].max_inst
  BY Zenon DEF FrontAt, CountersFit
<1>6. PlainsBefore(program, i) \in Nat /\ PlainsBefore(program, pc) \in Nat
  BY <1>1, Counts
<1>7. PlainsBefore(program, i) + inst_cnt <= PlainsBefore(program, pc)
      /\ PlainsBefore(program, i) + inst_cnt # PlainsBefore(program, pc)
  BY Signals
<1>8. PlainsBefore(program, i) + inst_cnt < PlainsBefore(program, pc)
  BY <1>5, <1>6, <1>7
<1>9. rb_contains_instructions
  <2>1. PlainsBefore(program, i) # PlainsBefore(program, pc)
    BY <1>5, <1>6, <1>8
  <2> QED
    BY <2>1, Signals
<1>10. rb_rd_data = i + 1 + inst_cnt
  <2>1. rb_rd_data = mem[(PlainsBefore(program, i) + inst_cnt) % Depth]
    BY Signals
  <2>2. mem[(PlainsBefore(program, i) + inst_cnt) % Depth] = i + 1 + inst_cnt
    BY <1>5, <1>8, InRing
  <2> QED
    BY <2>1, <2>2
<1>11. oup = [op |-> rb_rd_data, stagger |-> IF curr_cfg.stagger_mask THEN stagger_cnt ELSE 0]
  BY <1>9, Zenon DEF oup
<1>12. curr_cfg.stagger_mask = program[i].stagger_mask
  BY <1>4, EnteredFields
<1>13. oup = [op |-> i + 1 + inst_cnt, stagger |-> IF program[i].stagger_mask THEN stagger_cnt ELSE 0]
  BY <1>10, <1>11, <1>12, Zenon
<1> QED
  BY <1>1, <1>2, <1>3, <1>4, <1>5, <1>8, <1>9, <1>13, Zenon

\* The loop's k-th issue goes to the end of the history.
LEMMA LoopIssues ==
  ASSUME CoreInv, NEW i \in 1 .. Len(program), program[i].kind = "frep", NEW k \in Nat, k < Size(program, i),
         issued \o Rest(program, i, k) = Issues(program), issued' = Append(issued, Issued(program, i, k))
  PROVE  /\ issued' \in Seq(Issue) /\ issued' \o Rest(program, i, k + 1) = Issues(program)
         /\ k + 1 = Size(program, i) => issued' \o Rest(program, Behind(program, i), 0) = Issues(program)
<1> DEFINE e == Issued(program, i, k)
           t == Rest(program, i, k + 1)
<1>1. ProgramFits(program) /\ FrepFits(program, i) /\ i \in Nat
  BY Basics
<1>2. Size(program, i) \in Nat
  BY <1>1, LoopType
<1>3. k \in 0 .. Size(program, i) /\ k + 1 \in 0 .. Size(program, i)
  BY <1>2
<1>4. Rest(program, i, k) = <<e>> \o t /\ e \in Issue
  BY <1>1, <1>3, RestOfLoop
<1>5. t \in Seq(Issue) /\ (k + 1 = Size(program, i) => t = Rest(program, Behind(program, i), 0))
  BY <1>1, <1>3, RestOfLoop
<1>6. issued \in Seq(Issue)
  BY DEF CoreInv
<1>7. issued' = Append(issued, e)
  OBVIOUS
<1> HIDE DEF e, t
<1>8. Append(issued, e) \in Seq(Issue) /\ Append(issued, e) \o t = issued \o (<<e>> \o t)
  BY <1>4, <1>5, <1>6, HandOver
<1>9. issued' \in Seq(Issue) /\ issued' \o t = Issues(program)
  BY <1>4, <1>7, <1>8, Zenon
<1> QED
  BY <1>5, <1>9, Zenon DEF t

\* The issue at the output is the one that the counters stand for, and they go on to
\* the next one; the last one of the last repetition is that of both counters.
LEMMA LoopCounts ==
  ASSUME CoreInv, NEW i \in 1 .. pc, NEW k \in Nat, FrontAt(i, k), Begun(i, pc), ~rb_empty,
         ~program[i].is_streamctl, IF curr_cfg.is_outer THEN CountOuter ELSE CountInner
  PROVE  /\ k < Size(program, i) /\ oup = Issued(program, i, k)
         /\ inst_last /\ rpt_last => k + 1 = Size(program, i) /\ Reset
         /\ ~(inst_last /\ rpt_last) => CountersFit(i, k + 1, pc, inst_cnt', rpt_cnt', stagger_cnt')
<1> DEFINE n == program[i].max_inst
           m == program[i].max_rpt
           s == program[i].stagger_max
           x == inst_cnt
           y == rpt_cnt
           z == stagger_cnt
           o == program[i].is_outer
<1>1. /\ i \in 1 .. Len(program) /\ program[i].kind = "frep" /\ FrepFits(program, i)
      /\ curr_cfg = Entered(i)
      /\ oup = [op |-> i + 1 + x, stagger |-> IF program[i].stagger_mask THEN z ELSE 0]
      /\ PlainsBefore(program, i) + x < PlainsBefore(program, pc)
  BY LoopOutput
<1>2. i \in Nat \ {0} /\ pc \in Nat \ {0}
  BY Basics
<1>3. n \in Nat /\ m \in Nat /\ s \in Nat /\ o \in BOOLEAN /\ program[i].stagger_mask \in BOOLEAN
      /\ Repetitions(program, i) = m + 1
  BY <1>1, <1>2, LoopType
<1>4. /\ x \in Nat /\ y \in Nat /\ z \in Nat /\ x <= n /\ y <= m
      /\ k = (IF o THEN x + y * (n + 1) ELSE y + x * (m + 1))
      /\ z = (IF o THEN y ELSE k) % (s + 1)
  BY Zenon DEF FrontAt, CountersFit
<1>5. /\ curr_cfg.max_inst = n /\ curr_cfg.max_rpt = m /\ curr_cfg.stagger_max = s /\ curr_cfg.is_outer = o
  BY <1>1, EnteredFields
<1>6. (inst_last <=> x = n) /\ (rpt_last <=> y = m)
  BY <1>5, Zenon DEF inst_last, rpt_last
<1>7. NextStagger <=> stagger_cnt' = IF z = s THEN 0 ELSE z + 1
  BY <1>5, Zenon DEF NextStagger
<1>8. Size(program, i) = (n + 1) * (m + 1) /\ (n + 1) * (m + 1) = (m + 1) * (n + 1)
  <2>1. Size(program, i) = (n + 1) * (m + 1)
    BY <1>3, Zenon DEF Size
  <2> HIDE DEF n, m
  <2>2. (n + 1) * (m + 1) = (m + 1) * (n + 1)
    BY <1>3
  <2> QED
    BY <2>1, <2>2
<1>9. Issued(program, i, k) =
         [op |-> i + 1 + (IF o THEN k % (n + 1) ELSE k \div (m + 1)),
          stagger |-> IF ~program[i].stagger_mask THEN 0 ELSE (IF o THEN k \div (n + 1) ELSE k) % (s + 1)]
  BY <1>3, Zenon DEF Issued
<1>10. \A k2, x2, y2, z2 :
          /\ x2 \in Nat /\ y2 \in Nat /\ z2 \in Nat /\ x2 <= n /\ y2 <= m
          /\ PlainsBefore(program, i) + x2 <= PlainsBefore(program, pc)
          /\ k2 = IF o THEN x2 + y2 * (n + 1) ELSE y2 + x2 * (m + 1)
          /\ z2 = (IF o THEN y2 ELSE k2) % (s + 1)
          => CountersFit(i, k2, pc, x2, y2, z2)
  BY DEF CountersFit
<1>11. PlainsBefore(program, i) \in Nat /\ PlainsBefore(program, pc) \in Nat
  BY <1>2, Counts
<1>12. \A w \in Nat : (w + 1) % (s + 1) = (IF w % (s + 1) = s THEN 0 ELSE (w % (s + 1)) + 1)
                      /\ (w + 1) % (s + 1) \in Nat
  <2> TAKE w \in Nat
  <2> HIDE DEF s
  <2>1. w + 1 \in Nat /\ s + 1 \in Nat \ {0}
    BY <1>3
  <2>2. (w + 1) % (s + 1) \in Nat
    BY <2>1, RemainderType, Zenon
  <2> QED
    BY <1>3, <2>2, ModNext
<1> DEFINE P == PlainsBefore(program, i)
           Q == PlainsBefore(program, pc)
           S == Size(program, i)
<1>13. CASE o
  <2>1. CountOuter /\ k = x + y * (n + 1) /\ z = y % (s + 1)
    BY <1>4, <1>5, <1>13
  <2>2. IF x = n THEN IF y = m THEN Reset ELSE inst_cnt' = 0 /\ rpt_cnt' = rpt_cnt + 1 /\ NextStagger
        ELSE inst_cnt' = inst_cnt + 1 /\ UNCHANGED <<rpt_cnt, stagger_cnt>>
    BY <1>6, <2>1, Zenon DEF CountOuter
  <2> x \in 0 .. n /\ y \in 0 .. m
    BY <1>3, <1>4
  <2> HIDE DEF n, m, s, x, y, z, o, P, Q, S
  <2>3. /\ x + y * (n + 1) \in Nat /\ x + y * (n + 1) < (n + 1) * (m + 1)
        /\ (x + y * (n + 1)) % (n + 1) = x /\ (x + y * (n + 1)) \div (n + 1) = y
        /\ x < n => x + y * (n + 1) + 1 = (x + 1) + y * (n + 1)
        /\ x = n /\ y < m => x + y * (n + 1) + 1 = 0 + (y + 1) * (n + 1)
        /\ x = n /\ y = m => x + y * (n + 1) + 1 = (n + 1) * (m + 1)
    BY <1>3, TwoCounters
  <2>4. k < S /\ k % (n + 1) = x /\ k \div (n + 1) = y
    BY <1>8, <2>1, <2>3 DEF S
  <2>5. oup = Issued(program, i, k)
    <3>1. (IF o THEN k % (n + 1) ELSE k \div (m + 1)) = x
      BY <1>13, <2>4
    <3>2. (IF o THEN k \div (n + 1) ELSE k) = y
      BY <1>13, <2>4
    <3> QED
      BY <1>1, <1>3, <1>9, <2>1, <3>1, <3>2, Zenon
  <2>6. CASE x = n /\ y = m
    <3>1. k + 1 = S /\ Reset
      BY <1>8, <2>1, <2>2, <2>3, <2>6 DEF S
    <3> QED
      BY <1>6, <2>4, <2>5, <2>6, <3>1, Zenon DEF S
  <2>7. CASE x = n /\ y # m
    <3>1. inst_cnt' = 0 /\ rpt_cnt' = y + 1 /\ stagger_cnt' = (IF z = s THEN 0 ELSE z + 1)
      BY <1>7, <2>2, <2>7, Zenon DEF y
    <3>2. k + 1 = 0 + (y + 1) * (n + 1) /\ y < m
      BY <1>3, <1>4, <2>1, <2>3, <2>7
    <3>3. (y + 1) % (s + 1) = (IF z = s THEN 0 ELSE z + 1) /\ (y + 1) % (s + 1) \in Nat
      BY <1>4, <1>12, <2>1
    <3>4. /\ 0 \in Nat /\ y + 1 \in Nat /\ 0 <= n /\ y + 1 <= m /\ P + 0 <= Q
      BY <1>1, <1>3, <1>4, <1>11, <3>2 DEF P, Q
    <3>5. CountersFit(i, k + 1, pc, 0, y + 1, (y + 1) % (s + 1))
      BY <1>10, <1>13, <3>2, <3>3, <3>4, Zenon DEF P, Q
    <3> QED
      BY <1>6, <2>4, <2>5, <2>7, <3>1, <3>3, <3>5, Zenon DEF S
  <2>8. CASE x # n
    <3>1. inst_cnt' = x + 1 /\ rpt_cnt' = y /\ stagger_cnt' = z
      BY <2>2, <2>8, Zenon DEF x, y, z
    <3>2. k + 1 = (x + 1) + y * (n + 1) /\ x < n
      BY <1>3, <1>4, <2>1, <2>3, <2>8
    <3>4. /\ x + 1 \in Nat /\ x + 1 <= n /\ P + (x + 1) <= Q
      BY <1>1, <1>3, <1>4, <1>11, <3>2 DEF P, Q
    <3>5. CountersFit(i, k + 1, pc, x + 1, y, z)
      BY <1>4, <1>10, <1>13, <2>1, <3>2, <3>4, Zenon DEF P, Q
    <3> QED
      BY <1>6, <2>4, <2>5, <2>8, <3>1, <3>5, Zenon DEF S
  <2> QED
    BY <2>6, <2>7, <2>8
<1>14. CASE ~o
  <2>1. CountInner /\ k = y + x * (m + 1) /\ z = k % (s + 1)
    BY <1>4, <1>5, <1>14
  <2>2. IF y = m THEN IF x = n THEN Reset ELSE rpt_cnt' = 0 /\ inst_cnt' = inst_cnt + 1 /\ NextStagger
        ELSE rpt_cnt' = rpt_cnt + 1 /\ UNCHANGED inst_cnt /\ NextStagger
    BY <1>6, <2>1, Zenon DEF CountInner
  <2> x \in 0 .. n /\ y \in 0 .. m
    BY <1>3, <1>4
  <2> HIDE DEF n, m, s, x, y, z, o, P, Q, S
  <2>3. /\ y + x * (m + 1) \in Nat /\ y + x * (m + 1) < (m + 1) * (n + 1)
        /\ (y + x * (m + 1)) % (m + 1) = y /\ (y + x * (m + 1)) \div (m + 1) = x
        /\ y < m => y + x * (m + 1) + 1 = (y + 1) + x * (m + 1)
        /\ y = m /\ x < n => y + x * (m + 1) + 1 = 0 + (x + 1) * (m + 1)
        /\ y = m /\ x = n => y + x * (m + 1) + 1 = (m + 1) * (n + 1)
    BY <1>3, TwoCounters
  <2>4. k < S /\ k \div (m + 1) = x
    BY <1>8, <2>1, <2>3 DEF S
  <2>5. oup = Issued(program, i, k)
    <3>1. (IF o THEN k % (n + 1) ELSE k \div (m + 1)) = x
      BY <1>14, <2>4
    <3>2. (IF o THEN k \div (n + 1) ELSE k) = k
      BY <1>14
    <3> QED
      BY <1>1, <1>3, <1>9, <2>1, <3>1, <3>2, Zenon
  <2>9. (k + 1) % (s + 1) = (IF z = s THEN 0 ELSE z + 1) /\ (k + 1) % (s + 1) \in Nat
    BY <1>4, <1>12, <2>1
  <2>6. CASE x = n /\ y = m
    <3>1. k + 1 = S /\ Reset
      BY <1>8, <2>1, <2>2, <2>3, <2>6 DEF S
    <3> QED
      BY <1>6, <2>4, <2>5, <2>6, <3>1, Zenon DEF S
  <2>7. CASE y = m /\ x # n
    <3>1. rpt_cnt' = 0 /\ inst_cnt' = x + 1 /\ stagger_cnt' = (IF z = s THEN 0 ELSE z + 1)
      BY <1>7, <2>2, <2>7, Zenon DEF x
    <3>2. k + 1 = 0 + (x + 1) * (m + 1) /\ x < n
      BY <1>3, <1>4, <2>1, <2>3, <2>7
    <3>4. /\ 0 \in Nat /\ x + 1 \in Nat /\ 0 <= m /\ x + 1 <= n /\ P + (x + 1) <= Q
      BY <1>1, <1>3, <1>4, <1>11, <3>2 DEF P, Q
    <3>5. CountersFit(i, k + 1, pc, x + 1, 0, (k + 1) % (s + 1))
      BY <1>10, <1>14, <2>9, <3>2, <3>4, Zenon DEF P, Q
    <3> QED
      BY <1>6, <2>4, <2>5, <2>7, <2>9, <3>1, <3>5, Zenon DEF S
  <2>8. CASE y # m
    <3>1. rpt_cnt' = y + 1 /\ inst_cnt' = x /\ stagger_cnt' = (IF z = s THEN 0 ELSE z + 1)
      BY <1>7, <2>2, <2>8, Zenon DEF x, y
    <3>2. y < m
      BY <1>3, <1>4, <2>8
    <3>3. k + 1 = (y + 1) + x * (m + 1)
      BY <2>1, <2>3, <3>2, Zenon
    <3>4. /\ y + 1 \in Nat /\ y + 1 <= m
      BY <1>3, <1>4, <3>2
    <3>6. P + x <= Q
      BY <1>1, <1>4, <1>11 DEF P, Q
    <3>5. CountersFit(i, k + 1, pc, x, y + 1, (k + 1) % (s + 1))
      BY <1>4, <1>10, <1>14, <2>9, <3>3, <3>4, <3>6, Zenon DEF P, Q
    <3> QED
      BY <1>6, <2>4, <2>5, <2>8, <2>9, <3>1, <3>5, Zenon DEF S
  <2> QED
    BY <2>6, <2>7, <2>8
<1> QED
  BY <1>3, <1>13, <1>14

\* An instruction of a loop that counts is issued.
LEMMA OutputLoop ==
  ASSUME CoreInv, NEW i \in 1 .. pc, NEW k \in Nat, FrontAt(i, k), NEW oup_qready_i \in BOOLEAN,
         OutputSide(oup_qready_i), SeqNext(oup_qready_i), Begun(i, pc), ~program[i].is_streamctl
  PROVE  \E i2 \in i .. pc, k2 \in Nat : GoesTo(i2, k2, Popped(CfgPop(oup_qready_i))) /\ Moves(i, k, i2, k2, pc)
<1>1. ~Streamed /\ ~seq_done /\ ~rb_empty
  BY StreamedMeans, Zenon DEF seq_done, SeqNext, seq_out_valid
<1>2. /\ i \in 1 .. Len(program) /\ program[i].kind = "frep" /\ FrepFits(program, i)
      /\ curr_cfg = Entered(i) /\ seq_cfg_buffer_valid
      /\ PlainsBefore(program, i) + inst_cnt < PlainsBefore(program, pc)
  BY <1>1, LoopOutput
<1>3. i \in Nat \ {0} /\ pc \in Nat \ {0} /\ i <= pc
  BY Basics
<1>4. curr_cfg.is_streamctl = program[i].is_streamctl /\ curr_cfg.max_inst = program[i].max_inst
  BY <1>2, EnteredFields
<1>5. IF curr_cfg.is_outer THEN CountOuter ELSE CountInner
  <2>1. Count(SeqNext(oup_qready_i))
    BY DEF OutputSide
  <2> QED
    BY <1>1, <2>1, Zenon DEF Count
<1>6. /\ k < Size(program, i) /\ oup = Issued(program, i, k)
      /\ inst_last /\ rpt_last => k + 1 = Size(program, i) /\ Reset
      /\ ~(inst_last /\ rpt_last) => CountersFit(i, k + 1, pc, inst_cnt', rpt_cnt', stagger_cnt')
  BY <1>1, <1>5, LoopCounts
<1>7. issued \o Rest(program, i, k) = Issues(program)
      /\ stream = SubSeq(Tokens(program), Taken(i, k) + 1, Len(Tokens(program)))
      /\ rd_pointer = PlainsBefore(program, i) % (2 * Depth) /\ CfgsFit(i, pc, cfgs)
  BY Zenon DEF FrontAt
<1>8. issued' = Append(issued, Issued(program, i, k))
  BY <1>6, Zenon DEF OutputSide
<1>9. /\ issued' \in Seq(Issue) /\ issued' \o Rest(program, i, k + 1) = Issues(program)
      /\ k + 1 = Size(program, i) => issued' \o Rest(program, Behind(program, i), 0) = Issues(program)
  BY <1>2, <1>6, <1>7, <1>8, LoopIssues
<1>10. stream' = stream /\ streamctl_valid_i' \in BOOLEAN /\ (streamctl_valid_i' => stream' # <<>>)
  <2> DEFINE r == Streamed /\ (SeqNext(oup_qready_i) \/ seq_done)
  <2>1. r \in BOOLEAN /\ ~r
    BY <1>1, Zenon
  <2>2. Control(r) /\ streamctl_valid_i \in BOOLEAN
    BY Zenon DEF OutputSide, FrontAt
  <2> HIDE DEF r
  <2> QED
    BY <2>1, <2>2, ControlKeeps
<1>11. ~IsStreamLoop(program, i)
  BY DEF IsStreamLoop
<1>14. i < pc /\ Issued(program, i, k).op < pc
  <2>1. /\ inst_cnt \in Nat /\ inst_cnt <= program[i].max_inst
        /\ oup = [op |-> i + 1 + inst_cnt, stagger |-> IF program[i].stagger_mask THEN stagger_cnt ELSE 0]
    BY <1>1, LoopOutput
  <2>2. Issued(program, i, k).op = i + 1 + inst_cnt
    <3> DEFINE a == i + 1 + inst_cnt
               st == IF program[i].stagger_mask THEN stagger_cnt ELSE 0
    <3>1. Issued(program, i, k) = [op |-> a, stagger |-> st]
      BY <1>6, <2>1, Zenon
    <3> HIDE DEF a, st
    <3>2. Issued(program, i, k).op = a
      BY <3>1
    <3> QED
      BY <3>2 DEF a
  <2>3. i + 1 + inst_cnt < pc
    BY <1>2, <2>1, InRing
  <2> QED
    BY <2>2, <2>3, Zenon DEF Begun
<1>12. CASE inst_last /\ rpt_last
  <2> DEFINE q == Behind(program, i)
  <2>1. seq_last /\ Leaves(oup_qready_i) /\ CfgPop(oup_qready_i)
    BY <1>2, <1>4, <1>12, Zenon DEF seq_last, Leaves, CfgPop
  <2>2. Popped(CfgPop(oup_qready_i)) = Tail(cfgs)
    BY <2>1, Zenon DEF Popped
  <2>3. PlainsBefore(program, i) + program[i].max_inst < PlainsBefore(program, pc)
    BY <1>2, <1>4, <1>12 DEF inst_last
  <2>4. /\ q \in i + 1 .. pc
        /\ Move(rd_pointer, curr_cfg.max_inst + 1) = PlainsBefore(program, q) % (2 * Depth)
        /\ Tail(cfgs) \in Seq(Configurations) /\ CfgsFit(q, pc, Tail(cfgs))
    BY <2>3, LoopLeft
  <2>5. rd_pointer' = PlainsBefore(program, q) % (2 * Depth)
    BY <2>1, <2>4, Zenon DEF OutputSide
  <2>6. q \in 1 .. pc /\ q \in i .. pc
    BY <1>3, <2>4
  <2>7. CountersFit(q, 0, pc, inst_cnt', rpt_cnt', stagger_cnt')
    <3>1. CountersFit(q, 0, pc, 0, 0, 0)
      BY <2>6, FreshCounters DEF CoreInv
    <3> QED
      BY <1>6, <1>12, <3>1, Zenon DEF Reset
  <2>8. Taken(q, 0) = Taken(i, k)
    BY <1>2, <1>11, TakenNext
  <2>9. issued' \o Rest(program, q, 0) = Issues(program)
    BY <1>6, <1>9, <1>12, Zenon
  <2> HIDE DEF q
  <2>10. GoesTo(q, 0, Tail(cfgs))
    BY <1>7, <1>9, <1>10, <2>4, <2>5, <2>7, <2>8, <2>9, Zenon DEF GoesTo
  <2>11. Moves(i, k, q, 0, pc)
    BY <1>2, <1>6, <1>8, <1>12, <1>14, Zenon DEF Moves, q
  <2>12. 0 \in Nat
    OBVIOUS
  <2> QED
    BY <2>2, <2>6, <2>10, <2>11, <2>12, Zenon
<1>13. CASE ~(inst_last /\ rpt_last)
  <2>1. ~seq_last /\ ~Leaves(oup_qready_i) /\ ~CfgPop(oup_qready_i)
    BY <1>1, <1>13, Zenon DEF seq_last, Leaves, CfgPop
  <2>2. Popped(CfgPop(oup_qready_i)) = cfgs /\ cfgs \in Seq(Configurations)
    BY <2>1, Zenon DEF Popped, CoreInv
  <2>3. rd_pointer' = rd_pointer
    BY <2>1, Zenon DEF OutputSide
  <2>4. Taken(i, k + 1) = Taken(i, k)
    <3>1. k + 1 \in Nat
      OBVIOUS
    <3>2. \A k2 \in Nat : Taken(Behind(program, i), 0) = Taken(i, k2)
      BY <1>2, <1>11, TakenNext
    <3> QED
      BY <3>1, <3>2, Zenon
  <2>5. GoesTo(i, k + 1, cfgs)
    BY <1>6, <1>7, <1>9, <1>10, <1>13, <2>2, <2>3, <2>4, Zenon DEF GoesTo
  <2>6. i \in i .. pc /\ k + 1 \in Nat
    BY <1>3
  <2>7. k + 1 < Size(program, i) /\ Size(program, i) \in Nat
    <3>1. CountersFit(i, k + 1, pc, inst_cnt', rpt_cnt', stagger_cnt')
      BY <1>6, <1>13
    <3>2. k + 1 < Size(program, i)
      BY <1>2, <2>6, <3>1, CountShort
    <3> QED
      BY <1>2, <1>3, <3>2, LoopType
  <2>8. k + 1 # Size(program, i)
    BY <2>6, <2>7
  <2>9. Moves(i, k, i, k + 1, pc)
    BY <1>2, <1>6, <1>8, <1>14, <2>8, Zenon DEF Moves
  <2> QED
    BY <2>2, <2>5, <2>6, <2>9, Zenon
<1> QED
  BY <1>12, <1>13

\* What the stream controller says of a stream loop at its k-th token.
LEMMA TokenThere ==
  ASSUME CoreInv, NEW i \in 1 .. pc, NEW k \in Nat, FrontAt(i, k), Begun(i, pc), program[i].is_streamctl,
         streamctl_valid_i
  PROVE  /\ i \in 1 .. Len(program) /\ program[i].kind = "frep" /\ IsStreamLoop(program, i)
         /\ program[i].tokens \in Nat /\ k <= program[i].tokens
         /\ streamctl_done_i <=> k = program[i].tokens
         /\ Tail(stream) = SubSeq(Tokens(program), Taken(i, k) + 2, Len(Tokens(program)))
         /\ Taken(i, k) = Taken(i, 0) + k
<1>1. i \in Nat \ {0} /\ i < pc /\ pc \in Nat \ {0} /\ pc <= Len(program) + 1 /\ Len(program) \in Nat
      /\ program[i].kind = "frep" /\ ProgramFits(program)
  BY Basics DEF Begun
<1>2. i \in 1 .. Len(program)
  BY <1>1
<1>3. FrepFits(program, i) /\ IsStreamLoop(program, i)
  BY <1>1, <1>2, Basics DEF IsStreamLoop
<1>4. program[i].tokens \in Nat
  BY <1>1, <1>3, LoopType
<1>5. k <= program[i].tokens
  BY Zenon DEF FrontAt, CountersFit
<1> DEFINE T == Tokens(program)
           a == Taken(i, 0) + k
           n == Len(T)
<1>6. Taken(i, k) = a /\ Taken(i, 0) \in Nat
  BY <1>2, <1>3, TakenNext
<1>7. a + 1 <= n /\ T[a + 1] = (k = program[i].tokens)
  <2>1. k \in 0 .. program[i].tokens
    BY <1>4, <1>5
  <2> QED
    BY <1>2, <1>3, <2>1, TakenNext
<1>8. T \in Seq(BOOLEAN)
  <2>1. Len(program) \in 0 .. Len(program)
    BY <1>1
  <2> QED
    BY <1>1, <2>1, TokensType, TokensUnfolded
<1>9. n \in Nat /\ a \in Nat
  BY <1>6, <1>8, LenProperties
<1>10. stream = SubSeq(T, a + 1, n)
  BY <1>6, Zenon DEF FrontAt
<1>11. a + 1 \in 1 .. n /\ n \in a + 1 .. n /\ (a + 1) + 1 = a + 2
  BY <1>7, <1>9
<1> HIDE DEF T, a
<1>12. Head(SubSeq(T, a + 1, n)) = T[a + 1] /\ Tail(SubSeq(T, a + 1, n)) = SubSeq(T, (a + 1) + 1, n)
  BY <1>8, <1>11, HeadTailOfSubSeq
<1>13. streamctl_done_i <=> k = program[i].tokens
  BY <1>7, <1>10, <1>12, Zenon DEF streamctl_done_i
<1>14. Tail(stream) = SubSeq(T, a + 2, n)
  BY <1>10, <1>11, <1>12, Zenon
<1> QED
  BY <1>1, <1>2, <1>3, <1>4, <1>5, <1>6, <1>13, <1>14, Zenon DEF T, a

\* An instruction of a stream loop is issued, and takes a token.
LEMMA OutputStream ==
  ASSUME CoreInv, NEW i \in 1 .. pc, NEW k \in Nat, FrontAt(i, k), NEW oup_qready_i \in BOOLEAN,
         OutputSide(oup_qready_i), SeqNext(oup_qready_i), Begun(i, pc), program[i].is_streamctl
  PROVE  GoesTo(i, k + 1, Popped(CfgPop(oup_qready_i))) /\ Moves(i, k, i, k + 1, pc)
<1>1. Streamed /\ ~rb_empty /\ streamctl_valid_i /\ ~streamctl_done_i /\ ~seq_done
  <2>1. Streamed
    BY StreamedMeans
  <2> QED
    BY <2>1, Zenon DEF SeqNext, seq_out_valid, seq_done
<1>2. /\ i \in 1 .. Len(program) /\ program[i].kind = "frep" /\ FrepFits(program, i)
      /\ curr_cfg = Entered(i) /\ seq_cfg_buffer_valid
      /\ inst_cnt \in Nat /\ inst_cnt <= program[i].max_inst
      /\ PlainsBefore(program, i) + inst_cnt < PlainsBefore(program, pc)
      /\ oup = [op |-> i + 1 + inst_cnt, stagger |-> IF program[i].stagger_mask THEN stagger_cnt ELSE 0]
  BY <1>1, LoopOutput
<1>3. i \in Nat \ {0} /\ pc \in Nat \ {0} /\ i <= pc
  BY Basics
<1>4. program[i].is_outer /\ program[i].max_inst = 0 /\ ~program[i].stagger_mask
      /\ Repetitions(program, i) = program[i].tokens /\ program[i].max_rpt \in Nat /\ program[i].stagger_max \in Nat
  BY <1>2, <1>3, LoopType
<1>5. /\ IsStreamLoop(program, i) /\ program[i].tokens \in Nat /\ k < program[i].tokens
      /\ Tail(stream) = SubSeq(Tokens(program), Taken(i, k) + 2, Len(Tokens(program)))
      /\ Taken(i, k) = Taken(i, 0) + k
  <2>1. /\ program[i].tokens \in Nat /\ k <= program[i].tokens
        /\ streamctl_done_i <=> k = program[i].tokens
    BY <1>1, TokenThere
  <2>2. k < program[i].tokens
    BY <1>1, <2>1
  <2> QED
    BY <1>1, <2>1, <2>2, TokenThere
<1>6. inst_cnt = 0 /\ oup = [op |-> i + 1, stagger |-> 0]
  <2>1. inst_cnt = 0
    BY <1>2, <1>4
  <2>2. i + 1 + 0 = i + 1
    BY <1>3
  <2> QED
    BY <1>2, <1>4, <2>1, <2>2, Zenon
<1>7. Size(program, i) = program[i].tokens /\ Issued(program, i, k) = [op |-> i + 1, stagger |-> 0]
  <2> DEFINE t == program[i].tokens
  <2>1. t \in Nat /\ (0 + 1) * t = t /\ 0 + 1 = 1
    BY <1>5
  <2>2. k % 1 = 0 /\ i + 1 + 0 = i + 1
    BY <1>3
  <2>3. Size(program, i) = t
    BY <1>4, <2>1, Zenon DEF Size
  <2>4. Issued(program, i, k) = [op |-> i + 1 + (k % (0 + 1)), stagger |-> 0]
    BY <1>4, Zenon DEF Issued
  <2> QED
    BY <2>1, <2>2, <2>3, <2>4, Zenon
<1>8. issued \o Rest(program, i, k) = Issues(program)
      /\ rd_pointer = PlainsBefore(program, i) % (2 * Depth) /\ CfgsFit(i, pc, cfgs)
  BY Zenon DEF FrontAt
<1>9. issued' \in Seq(Issue) /\ issued' \o Rest(program, i, k + 1) = Issues(program)
  <2>1. issued' = Append(issued, Issued(program, i, k))
    BY <1>6, <1>7, Zenon DEF OutputSide
  <2>2. k < Size(program, i)
    BY <1>5, <1>7
  <2> QED
    BY <1>2, <1>8, <2>1, <2>2, LoopIssues
<1>10. ~seq_last /\ ~Leaves(oup_qready_i) /\ ~CfgPop(oup_qready_i)
  <2>1. seq_cfg_buffer_valid /\ curr_cfg.is_streamctl
    BY <1>1 DEF Streamed
  <2> QED
    BY <1>1, <2>1, Zenon DEF seq_last, Leaves, CfgPop
<1>11. Popped(CfgPop(oup_qready_i)) = cfgs /\ cfgs \in Seq(Configurations) /\ rd_pointer' = rd_pointer
  BY <1>10, Zenon DEF Popped, CoreInv, OutputSide
<1>12. /\ stream' = Tail(stream)
       /\ streamctl_valid_i' \in BOOLEAN /\ (streamctl_valid_i' => stream' # <<>>)
  <2> DEFINE r == Streamed /\ (SeqNext(oup_qready_i) \/ seq_done)
  <2>1. r \in BOOLEAN /\ r
    BY <1>1, Zenon
  <2>2. Control(r)
    BY Zenon DEF OutputSide
  <2> HIDE DEF r
  <2> QED
    BY <1>1, <2>1, <2>2, ControlTakes
<1>13. stream' = SubSeq(Tokens(program), Taken(i, k + 1) + 1, Len(Tokens(program)))
  <2>1. k + 1 \in Nat /\ Taken(i, 0) \in Nat
    BY <1>2, TakenNext
  <2>2. Taken(i, k + 1) = Taken(i, 0) + (k + 1)
    BY <1>2, <1>5, <2>1, TakenNext
  <2>3. Taken(i, k + 1) + 1 = Taken(i, k) + 2
    BY <1>5, <2>1, <2>2
  <2> QED
    BY <1>5, <1>12, <2>3, Zenon
<1>14. CountersFit(i, k + 1, pc, inst_cnt', rpt_cnt', stagger_cnt')
  <2>1. Count(SeqNext(oup_qready_i))
    BY DEF OutputSide
  <2>2. curr_cfg.is_outer /\ curr_cfg.max_inst = 0 /\ curr_cfg.stagger_max = program[i].stagger_max
    BY <1>2, <1>4, EnteredFields
  <2>3. CountOuter /\ inst_last
    BY <1>1, <1>6, <2>1, <2>2, Zenon DEF Count, inst_last
  <2>4. inst_cnt \in Nat /\ rpt_cnt \in Nat /\ stagger_cnt \in Nat
    BY Zenon DEF FrontAt, CountersFit
  <2>5. inst_cnt' = 0 /\ rpt_cnt' \in Nat /\ stagger_cnt' \in Nat
    <3>1. IF rpt_last THEN Reset ELSE inst_cnt' = 0 /\ rpt_cnt' = rpt_cnt + 1 /\ NextStagger
      BY <2>3, Zenon DEF CountOuter
    <3>2. NextStagger => stagger_cnt' \in Nat
      BY <2>4 DEF NextStagger
    <3> QED
      BY <2>4, <3>1, <3>2 DEF Reset
  <2>6. PlainsBefore(program, i) + 0 <= PlainsBefore(program, pc)
    BY <1>2, <1>6, <1>3, Counts
  <2>7. k + 1 <= program[i].tokens /\ 0 <= program[i].max_inst /\ 0 \in Nat
    BY <1>4, <1>5
  <2> QED
    BY <2>5, <2>6, <2>7, Zenon DEF CountersFit
<1> QED
  BY <1>2, <1>5, <1>8, <1>9, <1>11, <1>12, <1>13, <1>14, Zenon DEF GoesTo, Moves

\* The end of the stream ends a stream loop.
LEMMA OutputEnds ==
  ASSUME CoreInv, NEW i \in 1 .. pc, NEW k \in Nat, FrontAt(i, k), NEW oup_qready_i \in BOOLEAN,
         OutputSide(oup_qready_i), seq_done
  PROVE  \E i2 \in i .. pc, k2 \in Nat : GoesTo(i2, k2, Popped(CfgPop(oup_qready_i))) /\ Moves(i, k, i2, k2, pc)
<1>1. Streamed /\ ~rb_empty /\ streamctl_done_i /\ ~SeqNext(oup_qready_i)
  BY Zenon DEF seq_done, SeqNext, seq_out_valid
<1>2. Begun(i, pc) /\ program[i].is_streamctl /\ streamctl_valid_i
  <2>1. streamctl_valid_i
    BY <1>1 DEF streamctl_done_i
  <2> QED
    BY <1>1, <2>1, StreamedMeans
<1> DEFINE q == Behind(program, i)
<1>3. /\ i \in 1 .. Len(program) /\ program[i].kind = "frep" /\ FrepFits(program, i)
      /\ inst_cnt \in Nat
      /\ PlainsBefore(program, i) + inst_cnt < PlainsBefore(program, pc)
  BY <1>1, <1>2, LoopOutput
<1>4. i \in Nat \ {0} /\ pc \in Nat \ {0} /\ i <= pc /\ ProgramFits(program)
  BY Basics
<1>5. program[i].max_inst = 0 /\ Repetitions(program, i) = program[i].tokens
  BY <1>2, <1>3, <1>4, LoopType
<1>6. /\ IsStreamLoop(program, i) /\ program[i].tokens \in Nat /\ k = program[i].tokens
      /\ Tail(stream) = SubSeq(Tokens(program), Taken(i, k) + 2, Len(Tokens(program)))
      /\ Taken(i, k) = Taken(i, 0) + k
  BY <1>1, <1>2, TokenThere
<1>7. PlainsBefore(program, i) + program[i].max_inst < PlainsBefore(program, pc)
  <2>1. PlainsBefore(program, i) \in Nat /\ PlainsBefore(program, pc) \in Nat
    BY <1>4, Counts
  <2> QED
    BY <1>3, <1>5, <2>1
<1>8. /\ q \in i + 1 .. pc
      /\ Move(rd_pointer, curr_cfg.max_inst + 1) = PlainsBefore(program, q) % (2 * Depth)
      /\ Tail(cfgs) \in Seq(Configurations) /\ CfgsFit(q, pc, Tail(cfgs))
  BY <1>2, <1>7, LoopLeft
<1>9. q \in 1 .. pc /\ q \in i .. pc
  BY <1>4, <1>8
<1>10. rd_pointer' = PlainsBefore(program, q) % (2 * Depth)
  BY <1>8, Zenon DEF OutputSide, Leaves
<1>11. Popped(CfgPop(oup_qready_i)) = Tail(cfgs)
  BY Zenon DEF Popped, CfgPop
<1>12. CountersFit(q, 0, pc, inst_cnt', rpt_cnt', stagger_cnt')
  <2>1. CountersFit(q, 0, pc, 0, 0, 0)
    BY <1>9, FreshCounters DEF CoreInv
  <2>2. Reset
    BY Zenon DEF OutputSide, Count
  <2> QED
    BY <2>1, <2>2, Zenon DEF Reset
<1>13. /\ stream' = Tail(stream)
       /\ streamctl_valid_i' \in BOOLEAN /\ (streamctl_valid_i' => stream' # <<>>)
  <2> DEFINE r == Streamed /\ (SeqNext(oup_qready_i) \/ seq_done)
  <2>1. r \in BOOLEAN /\ r
    BY <1>1, Zenon
  <2>2. Control(r)
    BY Zenon DEF OutputSide
  <2> HIDE DEF r
  <2> QED
    BY <1>2, <2>1, <2>2, ControlTakes
<1>14. stream' = SubSeq(Tokens(program), Taken(q, 0) + 1, Len(Tokens(program)))
  <2>1. Taken(q, 0) = Taken(i, 0) + program[i].tokens + 1 /\ Taken(i, 0) \in Nat
    BY <1>3, <1>6, TakenNext
  <2>2. Taken(q, 0) + 1 = Taken(i, k) + 2
    BY <1>6, <2>1
  <2> QED
    BY <1>6, <1>13, <2>2, Zenon
<1>15. issued' \in Seq(Issue) /\ issued' \o Rest(program, q, 0) = Issues(program)
  <2> DEFINE t == program[i].tokens
  <2>1. t \in Nat /\ (0 + 1) * t = t
    BY <1>6
  <2>2. Size(program, i) = t
    BY <1>5, <2>1, Zenon DEF Size
  <2>3. k \in 0 .. Size(program, i) /\ k = Size(program, i)
    BY <1>6, <2>2
  <2>4. Rest(program, i, k) = Rest(program, q, 0)
    BY <1>3, <1>4, <2>3, RestOfLoop
  <2>5. issued' = issued
    BY <1>1, Zenon DEF OutputSide
  <2> QED
    BY <2>4, <2>5, Zenon DEF FrontAt, CoreInv
<1> HIDE DEF q
<1>16. GoesTo(q, 0, Tail(cfgs))
  BY <1>8, <1>10, <1>12, <1>13, <1>14, <1>15, Zenon DEF GoesTo
<1>17. Moves(i, k, q, 0, pc) /\ 0 \in Nat
  BY <1>3, <1>6, Zenon DEF Moves
<1> QED
  BY <1>9, <1>11, <1>16, <1>17, Zenon

\* Whatever the output side does, the front moves on to a place it has reached.
LEMMA Output ==
  ASSUME CoreInv, NEW i \in 1 .. pc, NEW k \in Nat, FrontAt(i, k), NEW oup_qready_i \in BOOLEAN,
         OutputSide(oup_qready_i)
  PROVE  \E i2 \in i .. pc, k2 \in Nat : GoesTo(i2, k2, Popped(CfgPop(oup_qready_i))) /\ Moves(i, k, i2, k2, pc)
<1>1. i \in Nat \ {0} /\ pc \in Nat \ {0} /\ i <= pc
  BY Basics
<1>2. i \in i .. pc /\ k + 1 \in Nat
  BY <1>1
<1>3. CASE seq_done
  BY <1>3, OutputEnds
<1>4. CASE ~seq_done /\ ~SeqNext(oup_qready_i)
  BY <1>2, <1>4, OutputWaits
<1>5. CASE SeqNext(oup_qready_i) /\ ~Begun(i, pc)
  <2>1. i + 1 \in 1 .. pc /\ GoesTo(i + 1, 0, Popped(CfgPop(oup_qready_i))) /\ Moves(i, k, i + 1, 0, pc)
    BY <1>5, OutputPlain
  <2>2. i + 1 \in i .. pc /\ 0 \in Nat
    BY <1>1, <2>1
  <2> QED
    BY <2>1, <2>2
<1>6. CASE SeqNext(oup_qready_i) /\ Begun(i, pc) /\ ~program[i].is_streamctl
  BY <1>6, OutputLoop
<1>7. CASE SeqNext(oup_qready_i) /\ Begun(i, pc) /\ program[i].is_streamctl
  <2>1. GoesTo(i, k + 1, Popped(CfgPop(oup_qready_i))) /\ Moves(i, k, i, k + 1, pc)
    BY <1>7, OutputStream
  <2> QED
    BY <1>2, <2>1
<1> QED
  BY <1>3, <1>4, <1>5, <1>6, <1>7

-----------------------------------------------------------------------------
(* The input side of a cycle, and the invariant.                           *)

\* The program stays, and so does what is said of it.
LEMMA FrontNext ==
  ASSUME program' = program, NEW i, NEW k,
         rd_pointer' = PlainsBefore(program, i) % (2 * Depth),
         wr_pointer' = PlainsBefore(program, pc') % (2 * Depth),
         PlainsBefore(program, pc') <= PlainsBefore(program, i) + Depth,
         SlotsFit(i, pc', mem'), CfgsFit(i, pc', cfgs'),
         CountersFit(i, k, pc', inst_cnt', rpt_cnt', stagger_cnt'),
         stream' = SubSeq(Tokens(program), Taken(i, k) + 1, Len(Tokens(program))),
         streamctl_valid_i' \in BOOLEAN, streamctl_valid_i' => stream' # <<>>,
         issued' \o Rest(program, i, k) = Issues(program)
  PROVE  FrontAt(i, k)'
<1>1. SlotsFit(i, pc, mem)'
  BY DEF SlotsFit
<1>2. CfgsFit(i, pc, cfgs)'
  BY DEF CfgsFit, Entered
<1>3. CountersFit(i, k, pc, inst_cnt, rpt_cnt, stagger_cnt)'
  BY Zenon DEF CountersFit, Begun
<1>4. Taken(i, k)' = Taken(i, k)
  BY Zenon DEF Taken
<1> QED
  BY <1>1, <1>2, <1>3, <1>4, Zenon DEF FrontAt

LEMMA CoreNext ==
  ASSUME CoreInv, program' = program, pc' \in 1 .. Len(program) + 1,
         inp_qvalid_i' \in BOOLEAN, inp_qvalid_i' => pc' <= Len(program),
         cfgs' \in Seq(Configurations), issued' \in Seq(Issue)
  PROVE  CoreInv'
<1>1. Configurations' = Configurations
  BY DEF Configurations, Entered
<1> QED
  BY <1>1 DEF CoreInv

InputSide(popped, oup_qready_i) ==
    \/ /\ inp_qvalid_i /\ Instr.kind = "plain" /\ ~rb_full
       /\ mem' = [mem EXCEPT ![wr_pointer % Depth] = pc]
       /\ wr_pointer' = Move(wr_pointer, 1)
       /\ cfgs' = popped
       /\ Accepted
    \/ /\ inp_qvalid_i /\ Instr.kind = "frep"
       /\ cfgs' = Append(popped,
                    [f \in DOMAIN NoCfg |-> IF f = "base_pointer" THEN wr_pointer ELSE Instr[f]])
       /\ UNCHANGED <<mem, wr_pointer>>
       /\ Accepted
    \/ /\ cfgs' = popped /\ UNCHANGED <<mem, wr_pointer>> /\ NotAccepted

LEMMA AcceptedFits ==
  ASSUME CoreInv, inp_qvalid_i, Accepted
  PROVE  /\ pc \in 1 .. Len(program) /\ pc' = pc + 1 /\ pc' \in 1 .. Len(program) + 1
         /\ inp_qvalid_i' \in BOOLEAN /\ (inp_qvalid_i' => pc' <= Len(program))
<1>1. pc \in 1 .. Len(program) /\ Len(program) \in Nat
  <2>1. pc <= Len(program)
    BY DEF CoreInv
  <2> QED
    BY <2>1, Basics
<1>2. pc' = pc + 1 /\ inp_qvalid_i' \in (IF pc < Len(program) THEN BOOLEAN ELSE {FALSE})
  BY DEF Accepted
<1>3. inp_qvalid_i' \in BOOLEAN
  BY <1>2
<1>4. inp_qvalid_i' => pc < Len(program)
  BY <1>2
<1> QED
  BY <1>1, <1>2, <1>3, <1>4

\* An instruction goes into a free slot of the ring.
LEMMA InputInstruction ==
  ASSUME CoreInv, NEW i \in 1 .. pc, NEW k \in Nat, FrontAt(i, k),
         NEW j \in i .. pc, NEW m \in Nat, NEW popped, GoesTo(j, m, popped), program' = program,
         inp_qvalid_i, Instr.kind = "plain", ~rb_full,
         mem' = [mem EXCEPT ![wr_pointer % Depth] = pc], wr_pointer' = Move(wr_pointer, 1),
         cfgs' = popped, Accepted
  PROVE  CoreInv' /\ FrontAt(j, m)' /\ j \in 1 .. pc'
<1>1. /\ pc \in 1 .. Len(program) /\ pc' = pc + 1 /\ pc' \in 1 .. Len(program) + 1
      /\ inp_qvalid_i' \in BOOLEAN /\ (inp_qvalid_i' => pc' <= Len(program))
  BY AcceptedFits
<1>2. i \in Nat \ {0} /\ i <= pc /\ pc \in Nat \ {0} /\ j \in Nat \ {0} /\ i <= j /\ j <= pc
  BY Basics
<1> DEFINE a == PlainsBefore(program, i)
           b == PlainsBefore(program, j)
           c == PlainsBefore(program, pc)
<1>3. /\ a \in Nat /\ b \in Nat /\ c \in Nat /\ a <= b /\ b <= c
      /\ PlainsBefore(program, pc') = c + 1 /\ LoopsBefore(program, pc') = LoopsBefore(program, pc)
      /\ program[pc].kind = "plain"
  <2>1. program[pc].kind = "plain"
    BY DEF Instr
  <2> QED
    BY <1>1, <1>2, <2>1, Counts
<1>4. c <= a + Depth /\ c # a + Depth /\ wr_pointer = c % (2 * Depth) /\ Depth \in Nat \ {0}
  BY Signals, Basics, Zenon DEF FrontAt
<1>5. c + 1 <= b + Depth
  <2> HIDE DEF a, b, c
  <2> QED
    BY <1>3, <1>4
<1>6. wr_pointer' = (c + 1) % (2 * Depth)
  <2> DEFINE E == 2 * Depth
  <2>1. E \in Nat \ {0}
    BY Basics
  <2> HIDE DEF E, c
  <2>2. ((c % E) + 1) % E = (c + 1) % E
    BY <1>3, <2>1, ModAdd
  <2> QED
    BY <1>4, <2>2, Zenon DEF Move, E
<1>7. wr_pointer % Depth = c % Depth
  <2> HIDE DEF c
  <2>1. (c % (2 * Depth)) % Depth = c % Depth
    BY <1>3, <1>4, ModTwice
  <2> QED
    BY <1>4, <2>1, Zenon
<1>8. SlotsFit(i, pc, mem)
  BY DEF FrontAt
<1>9. mem \in [0 .. Depth - 1 -> Nat] /\ c % Depth \in 0 .. Depth - 1
  <2> HIDE DEF c
  <2> QED
    BY <1>3, <1>4, <1>8, DivModSplit DEF SlotsFit
<1>10. mem' = [mem EXCEPT ![c % Depth] = pc]
  BY <1>7
<1>11. mem' \in [0 .. Depth - 1 -> Nat] /\ mem'[c % Depth] = pc
       /\ \A x \in 0 .. Depth - 1 : x # c % Depth => mem'[x] = mem[x]
  <2> DEFINE y == c % Depth
  <2>1. y \in 0 .. Depth - 1 /\ mem' = [mem EXCEPT ![y] = pc]
    BY <1>9, <1>10
  <2> HIDE DEF y
  <2>2. mem' \in [0 .. Depth - 1 -> Nat] /\ mem'[y] = pc /\ \A x \in 0 .. Depth - 1 : x # y => mem'[x] = mem[x]
    BY <1>2, <1>9, <2>1
  <2> QED
    BY <2>2 DEF y
<1>12. ASSUME NEW x \in j .. pc' - 1
       PROVE  /\ program[x].kind # "direct"
              /\ program[x].kind = "plain" => mem'[PlainsBefore(program, x) % Depth] = x
  <2>1. CASE x = pc
    BY <1>3, <1>11, <2>1
  <2>2. CASE x # pc
    <3>1. x \in i .. pc - 1 /\ x \in Nat \ {0} /\ x < pc /\ j <= x
      BY <1>1, <1>2, <2>2
    <3>2. program[x].kind # "direct" /\ (program[x].kind = "plain" => mem[PlainsBefore(program, x) % Depth] = x)
      BY <1>8, <3>1 DEF SlotsFit
    <3>3. ASSUME program[x].kind = "plain" PROVE mem'[PlainsBefore(program, x) % Depth] = x
      <4> DEFINE d == PlainsBefore(program, x)
      <4>1. d \in Nat /\ d + 1 <= c /\ b <= d
        BY <1>2, <3>1, <3>3, Counts
      <4> HIDE DEF a, b, c, d
      <4>2. d <= c /\ c - d < Depth /\ d # c
        BY <1>3, <1>4, <1>5, <4>1
      <4>3. d % Depth # c % Depth
        BY <1>3, <1>4, <4>1, <4>2, ModEqual
      <4>4. d % Depth \in 0 .. Depth - 1
        BY <1>4, <4>1, DivModSplit
      <4>5. mem'[d % Depth] = mem[d % Depth]
        BY <1>11, <4>3, <4>4
      <4> QED
        BY <3>2, <3>3, <4>5 DEF d
    <3> QED
      BY <3>2, <3>3
  <2> QED
    BY <2>1, <2>2
<1>13. SlotsFit(j, pc', mem')
  BY <1>11, <1>12 DEF SlotsFit
<1>14. CfgsFit(j, pc, popped) /\ popped \in Seq(Configurations)
       /\ CountersFit(j, m, pc, inst_cnt', rpt_cnt', stagger_cnt')
  BY Zenon DEF GoesTo
<1>15. CfgsFit(j, pc', cfgs')
  <2>1. ASSUME NEW x \in j .. pc' - 1, program[x].kind = "frep" PROVE x \in j .. pc - 1
    BY <1>1, <1>2, <1>3, <2>1
  <2> QED
    BY <1>3, <1>14, <2>1, Zenon DEF CfgsFit
<1>16. CountersFit(j, m, pc', inst_cnt', rpt_cnt', stagger_cnt')
  <2>1. Begun(j, pc') <=> Begun(j, pc)
    BY <1>1, <1>2, <1>3 DEF Begun
  <2>2. PlainsBefore(program, j) + inst_cnt' <= PlainsBefore(program, pc')
    <3>1. inst_cnt' \in Nat /\ b + inst_cnt' <= c
      BY <1>14, Zenon DEF CountersFit
    <3> HIDE DEF b, c
    <3>2. b + inst_cnt' <= c + 1
      BY <1>3, <3>1
    <3> QED
      BY <1>3, <3>2, Zenon DEF b
  <2> QED
    BY <1>14, <2>1, <2>2, Zenon DEF CountersFit
<1>17. PlainsBefore(program, pc') <= PlainsBefore(program, j) + Depth
       /\ wr_pointer' = PlainsBefore(program, pc') % (2 * Depth)
  BY <1>3, <1>5, <1>6, Zenon
<1>18. FrontAt(j, m)'
  BY <1>13, <1>15, <1>16, <1>17, FrontNext, Zenon DEF GoesTo
<1>19. CoreInv'
  BY <1>1, <1>14, CoreNext, Zenon DEF GoesTo
<1>20. j \in 1 .. pc'
  BY <1>1, <1>2
<1> QED
  BY <1>18, <1>19, <1>20

\* A loop goes into the configuration buffer.
LEMMA InputConfiguration ==
  ASSUME CoreInv, NEW i \in 1 .. pc, NEW k \in Nat, FrontAt(i, k),
         NEW j \in i .. pc, NEW m \in Nat, NEW popped, GoesTo(j, m, popped), program' = program,
         inp_qvalid_i, Instr.kind = "frep",
         cfgs' = Append(popped,
                    [f \in DOMAIN NoCfg |-> IF f = "base_pointer" THEN wr_pointer ELSE Instr[f]]),
         UNCHANGED <<mem, wr_pointer>>, Accepted
  PROVE  CoreInv' /\ FrontAt(j, m)' /\ j \in 1 .. pc'
<1>1. /\ pc \in 1 .. Len(program) /\ pc' = pc + 1 /\ pc' \in 1 .. Len(program) + 1
      /\ inp_qvalid_i' \in BOOLEAN /\ (inp_qvalid_i' => pc' <= Len(program))
  BY AcceptedFits
<1>2. i \in Nat \ {0} /\ i <= pc /\ pc \in Nat \ {0} /\ j \in Nat \ {0} /\ i <= j /\ j <= pc
  BY Basics
<1> DEFINE a == PlainsBefore(program, i)
           b == PlainsBefore(program, j)
           c == PlainsBefore(program, pc)
<1>3. /\ a \in Nat /\ b \in Nat /\ c \in Nat /\ a <= b /\ b <= c
      /\ PlainsBefore(program, pc') = c /\ LoopsBefore(program, pc') = LoopsBefore(program, pc) + 1
      /\ LoopsBefore(program, pc) \in Nat /\ LoopsBefore(program, j) \in Nat
      /\ program[pc].kind = "frep"
  <2>1. program[pc].kind = "frep"
    BY DEF Instr
  <2> QED
    BY <1>1, <1>2, <2>1, Counts
<1>4. c <= a + Depth /\ wr_pointer = c % (2 * Depth) /\ Depth \in Nat \ {0} /\ SlotsFit(i, pc, mem)
  BY Basics, Zenon DEF FrontAt
<1>5. c <= b + Depth
  <2> HIDE DEF a, b, c
  <2> QED
    BY <1>3, <1>4
<1>6. mem' = mem /\ wr_pointer' = wr_pointer
  OBVIOUS
<1>7. SlotsFit(j, pc', mem')
  <2>1. ASSUME NEW x \in j .. pc' - 1
        PROVE  /\ program[x].kind # "direct"
               /\ program[x].kind = "plain" => mem[PlainsBefore(program, x) % Depth] = x
    <3>1. CASE x = pc
      BY <1>3, <3>1
    <3>2. CASE x # pc
      <4>1. x \in i .. pc - 1
        BY <1>1, <1>2, <3>2
      <4> QED
        BY <1>4, <4>1 DEF SlotsFit
    <3> QED
      BY <3>1, <3>2
  <2> QED
    BY <1>4, <1>6, <2>1 DEF SlotsFit
<1>8. CfgsFit(j, pc, popped) /\ popped \in Seq(Configurations)
      /\ CountersFit(j, m, pc, inst_cnt', rpt_cnt', stagger_cnt')
  BY Zenon DEF GoesTo
<1> DEFINE e == Entered(pc)
<1>9. cfgs' = Append(popped, e) /\ e \in Configurations
  <2>1. [f \in DOMAIN NoCfg |-> IF f = "base_pointer" THEN wr_pointer ELSE Instr[f]] = e
    BY <1>4, Zenon DEF Entered, Instr
  <2>2. pc \in {x \in 1 .. Len(program) : program[x].kind = "frep"}
    BY <1>1, <1>3
  <2>3. e \in Configurations
    BY <2>2 DEF Configurations
  <2> QED
    BY <2>1, <2>3
<1> HIDE DEF e
<1>10. /\ cfgs' \in Seq(Configurations) /\ Len(cfgs') = Len(popped) + 1
       /\ \A x \in 1 .. Len(popped) : cfgs'[x] = popped[x]
       /\ cfgs'[Len(popped) + 1] = e
  BY <1>8, <1>9, AppendProperties
<1>11. Len(popped) = LoopsBefore(program, pc) - LoopsBefore(program, j)
  BY <1>8 DEF CfgsFit
<1>12. ASSUME NEW x \in j .. pc' - 1, program[x].kind = "frep"
       PROVE  cfgs'[LoopsBefore(program, x) - LoopsBefore(program, j) + 1] = Entered(x)
  <2>1. CASE x = pc
    BY <1>10, <1>11, <2>1 DEF e
  <2>2. CASE x # pc
    <3>1. x \in j .. pc - 1 /\ x \in Nat \ {0} /\ x < pc /\ j <= x
      BY <1>1, <1>2, <2>2
    <3>2. popped[LoopsBefore(program, x) - LoopsBefore(program, j) + 1] = Entered(x)
      BY <1>8, <1>12, <3>1 DEF CfgsFit
    <3> DEFINE lx == LoopsBefore(program, x)
               lj == LoopsBefore(program, j)
               lp == LoopsBefore(program, pc)
    <3>3. lx \in Nat /\ lj \in Nat /\ lp \in Nat /\ lx + 1 <= lp /\ lj <= lx
      <4>1. lx \in Nat /\ lj \in Nat /\ lp \in Nat
        BY <1>2, <3>1, Counts
      <4>2. lx + 1 <= lp
        BY <1>2, <1>12, <3>1, Counts
      <4>3. lj <= lx
        BY <1>2, <3>1, Counts
      <4> QED
        BY <4>1, <4>2, <4>3
    <3>4. Len(popped) = lp - lj
      BY <1>11
    <3> HIDE DEF lx, lj, lp
    <3>5. lx - lj + 1 \in 1 .. Len(popped)
      BY <3>3, <3>4
    <3>6. cfgs'[lx - lj + 1] = popped[lx - lj + 1]
      BY <1>10, <3>5
    <3> QED
      BY <3>2, <3>6 DEF lx, lj
  <2> QED
    BY <2>1, <2>2
<1>13. CfgsFit(j, pc', cfgs')
  <2>1. Len(cfgs') = LoopsBefore(program, pc') - LoopsBefore(program, j)
    BY <1>3, <1>10, <1>11
  <2> QED
    BY <1>12, <2>1 DEF CfgsFit
<1>14. CountersFit(j, m, pc', inst_cnt', rpt_cnt', stagger_cnt')
  <2>1. CASE j = pc
    <3>1. ~Begun(j, pc)
      BY <1>2, <2>1 DEF Begun
    <3>2. m = 0 /\ inst_cnt' = 0 /\ rpt_cnt' = 0 /\ stagger_cnt' = 0
      BY <1>8, <3>1, Zenon DEF CountersFit
    <3>3. j \in 1 .. pc'
      BY <1>1, <1>2
    <3>4. CountersFit(j, 0, pc', 0, 0, 0)
      BY <1>1, <3>3, FreshCounters
    <3> QED
      BY <3>2, <3>4, Zenon
  <2>2. CASE j # pc
    <3>1. Begun(j, pc') <=> Begun(j, pc)
      BY <1>1, <1>2, <2>2 DEF Begun
    <3>2. PlainsBefore(program, pc') = PlainsBefore(program, pc)
      BY <1>3
    <3> QED
      BY <1>8, <3>1, <3>2, Zenon DEF CountersFit
  <2> QED
    BY <2>1, <2>2
<1>15. PlainsBefore(program, pc') <= PlainsBefore(program, j) + Depth
       /\ wr_pointer' = PlainsBefore(program, pc') % (2 * Depth)
  BY <1>3, <1>4, <1>5, <1>6, Zenon
<1>16. FrontAt(j, m)'
  BY <1>7, <1>13, <1>14, <1>15, FrontNext, Zenon DEF GoesTo
<1>17. CoreInv'
  BY <1>1, <1>10, CoreNext, Zenon DEF GoesTo
<1>18. j \in 1 .. pc'
  BY <1>1, <1>2
<1> QED
  BY <1>16, <1>17, <1>18

\* Nothing comes in.
LEMMA InputNothing ==
  ASSUME CoreInv, NEW i \in 1 .. pc, NEW k \in Nat, FrontAt(i, k),
         NEW j \in i .. pc, NEW m \in Nat, NEW popped, GoesTo(j, m, popped), program' = program,
         cfgs' = popped, UNCHANGED <<mem, wr_pointer>>, NotAccepted
  PROVE  CoreInv' /\ FrontAt(j, m)' /\ j \in 1 .. pc'
<1>1. pc' = pc /\ inp_qvalid_i' \in (IF inp_qvalid_i THEN {TRUE} ELSE IF Programmed THEN BOOLEAN ELSE {FALSE})
  BY DEF NotAccepted
<1>2. i \in Nat \ {0} /\ i <= pc /\ pc \in Nat \ {0} /\ j \in Nat \ {0} /\ i <= j /\ j <= pc
      /\ pc' \in 1 .. Len(program) + 1
  BY <1>1, Basics DEF CoreInv
<1>3. inp_qvalid_i' \in BOOLEAN
  BY <1>1
<1>4. inp_qvalid_i' => pc' <= Len(program)
  <2>1. inp_qvalid_i' => inp_qvalid_i \/ Programmed
    BY <1>1
  <2>2. inp_qvalid_i \/ Programmed => pc <= Len(program)
    BY DEF CoreInv, Programmed
  <2> QED
    BY <1>1, <2>1, <2>2
<1> DEFINE a == PlainsBefore(program, i)
           b == PlainsBefore(program, j)
           c == PlainsBefore(program, pc)
<1>5. a \in Nat /\ b \in Nat /\ c \in Nat /\ a <= b
  BY <1>2, Counts
<1>6. c <= a + Depth /\ wr_pointer = c % (2 * Depth) /\ Depth \in Nat \ {0} /\ SlotsFit(i, pc, mem)
  BY Basics, Zenon DEF FrontAt
<1>7. c <= b + Depth
  <2> HIDE DEF a, b, c
  <2> QED
    BY <1>5, <1>6
<1>8. mem' = mem /\ wr_pointer' = wr_pointer
  OBVIOUS
<1>9. SlotsFit(j, pc', mem')
  <2>1. \A x \in j .. pc - 1 : x \in i .. pc - 1
    BY <1>2
  <2> QED
    BY <1>1, <1>6, <1>8, <2>1 DEF SlotsFit
<1>10. CfgsFit(j, pc', cfgs') /\ cfgs' \in Seq(Configurations)
       /\ CountersFit(j, m, pc', inst_cnt', rpt_cnt', stagger_cnt')
  BY <1>1, Zenon DEF GoesTo
<1>11. PlainsBefore(program, pc') <= PlainsBefore(program, j) + Depth
       /\ wr_pointer' = PlainsBefore(program, pc') % (2 * Depth)
  BY <1>1, <1>6, <1>7, <1>8, Zenon
<1>12. FrontAt(j, m)'
  BY <1>9, <1>10, <1>11, FrontNext, Zenon DEF GoesTo
<1>13. CoreInv'
  BY <1>2, <1>3, <1>4, <1>10, CoreNext, Zenon DEF GoesTo
<1>14. j \in 1 .. pc'
  BY <1>1, <1>2
<1> QED
  BY <1>12, <1>13, <1>14

\* An instruction goes past the ring only when all before it has been issued.
LEMMA PassesLast ==
  ASSUME CoreInv, NEW i \in 1 .. pc, NEW k \in Nat, FrontAt(i, k),
         inp_qvalid_i, Instr.kind = "direct", ~rb_contains_instructions
  PROVE  i = pc /\ k = 0 /\ inst_cnt = 0 /\ rpt_cnt = 0 /\ stagger_cnt = 0 /\ ~seq_done /\ cfgs = <<>>
<1>1. i \in Nat \ {0} /\ i <= pc /\ pc \in Nat \ {0} /\ pc <= Len(program) + 1 /\ Len(program) \in Nat
  BY Basics
<1>2. PlainsBefore(program, i) = PlainsBefore(program, pc) /\ PlainsBefore(program, i) \in Nat
  BY <1>1, Signals, Counts
<1>3. program[pc].kind = "direct"
  BY DEF Instr
<1>4. i = pc
  <2> SUFFICES ASSUME i < pc PROVE FALSE
    BY <1>1
  <2>1. i \in i .. pc - 1 /\ i \in 1 .. Len(program)
    BY <1>1
  <2>2. program[i].kind # "plain"
    BY <1>1, <1>2, Counts
  <2>3. program[i].kind # "direct"
    BY <2>1 DEF FrontAt, SlotsFit
  <2>4. program[i].kind = "frep"
    BY <2>1, <2>2, <2>3, Basics
  <2>5. FrepFits(program, i)
    BY <2>1, <2>4, Basics
  <2>6. program[i].max_inst \in Nat
    BY <1>1, <2>5, LoopType
  <2> DEFINE s == pc - (i + 1)
  <2>7. s \in Nat /\ i + 1 + s = pc
    BY <1>1
  <2>8. CASE s <= program[i].max_inst
    <3> HIDE DEF s
    <3>0. s <= program[i].max_inst + 1
      BY <2>6, <2>7, <2>8
    <3>1. program[i + 1 + s].kind = "plain"
      BY <2>1, <2>4, <2>7, <2>8, <3>0, Body
    <3> QED
      BY <1>3, <2>7, <3>1
  <2>9. CASE s > program[i].max_inst
    <3>1. 1 \in Nat /\ 1 <= program[i].max_inst + 1 /\ i + 1 + 1 \in Nat \ {0} /\ i + 1 + 1 <= pc
      BY <1>1, <2>6, <2>9
    <3>2. PlainsBefore(program, i + 1 + 1) = PlainsBefore(program, i) + 1
      BY <2>1, <2>4, <3>1, Body
    <3>3. PlainsBefore(program, i + 1 + 1) <= PlainsBefore(program, pc)
      BY <1>1, <3>1, Counts
    <3> QED
      BY <1>2, <3>2, <3>3
  <2> QED
    BY <2>6, <2>7, <2>8, <2>9
<1>5. ~Begun(i, pc)
  BY <1>1, <1>4 DEF Begun
<1>6. k = 0 /\ inst_cnt = 0 /\ rpt_cnt = 0 /\ stagger_cnt = 0
  BY <1>5, Zenon DEF FrontAt, CountersFit
<1>7. ~seq_done
  BY <1>5, StreamedMeans, Zenon DEF seq_done
<1>8. cfgs = <<>>
  <2>1. Len(cfgs) = LoopsBefore(program, pc) - LoopsBefore(program, pc)
    BY <1>4 DEF FrontAt, CfgsFit
  <2>2. LoopsBefore(program, pc) \in Nat
    BY <1>1, Counts
  <2>3. cfgs \in Seq(Configurations) /\ Len(cfgs) = 0
    BY <2>1, <2>2 DEF CoreInv
  <2> QED
    BY <2>3, EmptySeq
<1> QED
  BY <1>4, <1>6, <1>7, <1>8

LEMMA InputPasses ==
  ASSUME CoreInv, NEW i \in 1 .. pc, NEW k \in Nat, FrontAt(i, k), NEW oup_qready_i \in BOOLEAN,
         Passes(oup_qready_i), PassDirect(CfgPop(oup_qready_i), oup_qready_i), program' = program,
         rd_pointer' = (IF Leaves(oup_qready_i) THEN Move(rd_pointer, curr_cfg.max_inst + 1) ELSE rd_pointer),
         Count(SeqNext(oup_qready_i)), Control(Streamed /\ (SeqNext(oup_qready_i) \/ seq_done)),
         issued' = Append(issued, oup), NEW q, q = pc + 1
  PROVE  CoreInv' /\ FrontAt(q, 0)' /\ q \in 1 .. pc' /\ pc' = pc + 1 /\ Moves(i, k, q, 0, pc')
<1>1. inp_qvalid_i /\ Instr.kind = "direct" /\ ~rb_contains_instructions
      /\ cfgs' = Popped(CfgPop(oup_qready_i)) /\ UNCHANGED <<mem, wr_pointer>> /\ Accepted
  BY Zenon DEF PassDirect
<1>2. i = pc /\ k = 0 /\ inst_cnt = 0 /\ rpt_cnt = 0 /\ stagger_cnt = 0 /\ ~seq_done /\ cfgs = <<>>
  BY <1>1, PassesLast
<1>3. /\ pc \in 1 .. Len(program) /\ pc' = pc + 1 /\ pc' \in 1 .. Len(program) + 1
      /\ inp_qvalid_i' \in BOOLEAN /\ (inp_qvalid_i' => pc' <= Len(program))
  BY <1>1, AcceptedFits
<1>4. ~SeqNext(oup_qready_i) /\ ~Leaves(oup_qready_i) /\ ~CfgPop(oup_qready_i)
  BY <1>1, <1>2, Zenon DEF SeqNext, Leaves, CfgPop
<1>5. rd_pointer' = rd_pointer /\ cfgs' = <<>> /\ mem' = mem /\ wr_pointer' = wr_pointer
      /\ inst_cnt' = 0 /\ rpt_cnt' = 0 /\ stagger_cnt' = 0
  <2>1. UNCHANGED counters
    BY <1>2, <1>4, Zenon DEF Count
  <2> QED
    BY <1>1, <1>2, <1>4, <2>1 DEF Popped, counters
<1>6. pc \in Nat \ {0} /\ Len(program) \in Nat /\ ProgramFits(program) /\ Depth \in Nat \ {0}
  BY Basics
<1>7. program[pc].kind = "direct"
  BY <1>1 DEF Instr
<1>8. /\ PlainsBefore(program, pc') = PlainsBefore(program, pc) /\ PlainsBefore(program, pc) \in Nat
      /\ LoopsBefore(program, pc') = LoopsBefore(program, pc) /\ LoopsBefore(program, pc) \in Nat
  BY <1>3, <1>6, <1>7, Counts
<1>9. /\ rd_pointer = PlainsBefore(program, pc) % (2 * Depth) /\ wr_pointer = PlainsBefore(program, pc) % (2 * Depth)
      /\ SlotsFit(pc, pc, mem) /\ issued \o Rest(program, pc, 0) = Issues(program)
      /\ stream = SubSeq(Tokens(program), Taken(pc, 0) + 1, Len(Tokens(program)))
  BY <1>2, Zenon DEF FrontAt
<1>10. rd_pointer' = PlainsBefore(program, pc') % (2 * Depth) /\ wr_pointer' = PlainsBefore(program, pc') % (2 * Depth)
       /\ PlainsBefore(program, pc') <= PlainsBefore(program, pc') + Depth
  <2> DEFINE c == PlainsBefore(program, pc')
  <2>1. c \in Nat
    BY <1>8
  <2> HIDE DEF c
  <2>2. c <= c + Depth
    BY <1>6, <2>1
  <2> QED
    BY <1>5, <1>8, <1>9, <2>2, Zenon DEF c
<1>11. SlotsFit(pc', pc', mem')
  <2>1. \A x \in pc' .. pc' - 1 : FALSE
    BY <1>3, <1>6
  <2> QED
    BY <1>5, <1>9, <2>1 DEF SlotsFit
<1>12. CfgsFit(pc', pc', cfgs')
  <2>1. \A x \in pc' .. pc' - 1 : FALSE
    BY <1>3, <1>6
  <2>2. Len(cfgs') = LoopsBefore(program, pc') - LoopsBefore(program, pc')
    BY <1>5, <1>8
  <2> QED
    BY <2>1, <2>2 DEF CfgsFit
<1>13. CountersFit(pc', 0, pc', inst_cnt', rpt_cnt', stagger_cnt')
  <2>1. pc' \in 1 .. pc'
    BY <1>3, <1>6
  <2> QED
    BY <1>3, <1>5, <2>1, FreshCounters, Zenon
<1>14. stream' = stream /\ streamctl_valid_i' \in BOOLEAN /\ (streamctl_valid_i' => stream' # <<>>)
  <2> DEFINE r == Streamed /\ (SeqNext(oup_qready_i) \/ seq_done)
  <2>1. r \in BOOLEAN /\ ~r
    BY <1>2, <1>4, Zenon
  <2>2. Control(r) /\ streamctl_valid_i \in BOOLEAN
    BY Zenon DEF FrontAt
  <2> HIDE DEF r
  <2> QED
    BY <2>1, <2>2, ControlKeeps
<1>15. Taken(pc', 0) = Taken(pc, 0)
  <2>1. ~IsStreamLoop(program, pc) /\ Behind(program, pc) = pc + 1
    BY <1>7 DEF IsStreamLoop, Behind
  <2> QED
    BY <1>3, <2>1, TakenNext
<1>16. issued' \in Seq(Issue) /\ issued' \o Rest(program, pc', 0) = Issues(program)
  <2> DEFINE e == [op |-> pc, stagger |-> 0]
             t == Rest(program, pc + 1, 0)
  <2>1. Rest(program, pc, 0) = <<e>> \o t /\ t \in Seq(Issue)
    BY <1>3, <1>6, <1>7, RestOfPlain, RestStart
  <2>2. e \in Issue
    BY <1>6 DEF Issue
  <2>3. oup = e
    BY <1>1, Zenon DEF oup
  <2>4. issued \in Seq(Issue)
    BY DEF CoreInv
  <2> HIDE DEF e, t
  <2>5. Append(issued, e) \in Seq(Issue) /\ Append(issued, e) \o t = issued \o (<<e>> \o t)
    BY <2>1, <2>2, <2>4, HandOver
  <2> QED
    BY <1>3, <1>9, <2>1, <2>3, <2>5, Zenon DEF t
<1>17. FrontAt(q, 0)'
  <2>1. stream' = SubSeq(Tokens(program), Taken(pc', 0) + 1, Len(Tokens(program)))
    BY <1>9, <1>14, <1>15, Zenon
  <2>2. pc' = q
    BY <1>3
  <2>3. /\ rd_pointer' = PlainsBefore(program, q) % (2 * Depth)
        /\ PlainsBefore(program, pc') <= PlainsBefore(program, q) + Depth
        /\ SlotsFit(q, pc', mem') /\ CfgsFit(q, pc', cfgs')
        /\ CountersFit(q, 0, pc', inst_cnt', rpt_cnt', stagger_cnt')
        /\ stream' = SubSeq(Tokens(program), Taken(q, 0) + 1, Len(Tokens(program)))
        /\ issued' \o Rest(program, q, 0) = Issues(program)
    BY <1>10, <1>11, <1>12, <1>13, <1>16, <2>1, <2>2, Zenon
  <2> QED
    BY <1>10, <1>14, <2>3, FrontNext, Zenon
<1>18. CoreInv'
  <2>1. <<>> \in Seq(Configurations)
    BY EmptySeq
  <2> QED
    BY <1>3, <1>5, <1>16, <2>1, CoreNext, Zenon
<1>19. q \in 1 .. pc' /\ pc < pc'
  BY <1>3, <1>6
<1>20. Moves(i, k, q, 0, pc')
  <2>1. oup = [op |-> pc, stagger |-> 0]
    BY <1>1, Zenon DEF oup
  <2>2. program[pc].kind # "frep"
    BY <1>7
  <2> QED
    BY <1>2, <1>3, <1>19, <2>1, <2>2, Zenon DEF Moves
<1> QED
  BY <1>3, <1>17, <1>18, <1>19, <1>20

-----------------------------------------------------------------------------
(* The theorem.                                                            *)

\* A cycle in which nothing goes past the ring: its two sides.
LEMMA CycleSides ==
  ASSUME CoreInv, NEW oup_qready_i \in BOOLEAN, Clock(oup_qready_i), ~Passes(oup_qready_i)
  PROVE  OutputSide(oup_qready_i) /\ InputSide(Popped(CfgPop(oup_qready_i)), oup_qready_i)
<1>1. /\ \/ PushInstruction(CfgPop(oup_qready_i))
         \/ PushConfiguration(CfgPop(oup_qready_i))
         \/ PassDirect(CfgPop(oup_qready_i), oup_qready_i)
         \/ InputWaits(CfgPop(oup_qready_i), oup_qready_i)
      /\ rd_pointer' = IF Leaves(oup_qready_i) THEN Move(rd_pointer, curr_cfg.max_inst + 1) ELSE rd_pointer
      /\ Count(SeqNext(oup_qready_i))
      /\ Control(Streamed /\ (SeqNext(oup_qready_i) \/ seq_done))
      /\ issued' = IF oup_qvalid_o /\ oup_qready_i THEN Append(issued, oup) ELSE issued
      /\ UNCHANGED program
  BY Zenon DEF Clock, CfgPop, Leaves
<1>2. oup_qvalid_o /\ oup_qready_i <=> SeqNext(oup_qready_i)
  <2>1. CASE rb_contains_instructions
    BY <2>1, Zenon DEF oup_qvalid_o, SeqNext
  <2>2. CASE ~rb_contains_instructions
    BY <2>2, Zenon DEF oup_qvalid_o, SeqNext, Passes
  <2> QED
    BY <2>1, <2>2
<1>3. issued' = IF SeqNext(oup_qready_i) THEN Append(issued, oup) ELSE issued
  BY <1>1, <1>2, Zenon
<1>4. OutputSide(oup_qready_i)
  BY <1>1, <1>3, Zenon DEF OutputSide
<1>5. ~PassDirect(CfgPop(oup_qready_i), oup_qready_i)
  BY Zenon DEF PassDirect, Passes
<1>6. CASE PushInstruction(CfgPop(oup_qready_i))
  BY <1>4, <1>6, Zenon DEF PushInstruction, InputSide
<1>7. CASE PushConfiguration(CfgPop(oup_qready_i))
  BY <1>4, <1>7, Zenon DEF PushConfiguration, InputSide
<1>8. CASE InputWaits(CfgPop(oup_qready_i), oup_qready_i)
  BY <1>4, <1>8, Zenon DEF InputWaits, InputSide
<1> QED
  BY <1>1, <1>5, <1>6, <1>7, <1>8

\* A cycle in which a direct instruction goes past the ring.
LEMMA CyclePasses ==
  ASSUME CoreInv, NEW oup_qready_i \in BOOLEAN, Clock(oup_qready_i), Passes(oup_qready_i)
  PROVE  /\ PassDirect(CfgPop(oup_qready_i), oup_qready_i) /\ program' = program
         /\ rd_pointer' = (IF Leaves(oup_qready_i) THEN Move(rd_pointer, curr_cfg.max_inst + 1) ELSE rd_pointer)
         /\ Count(SeqNext(oup_qready_i)) /\ Control(Streamed /\ (SeqNext(oup_qready_i) \/ seq_done))
         /\ issued' = Append(issued, oup)
<1>1. /\ \/ PushInstruction(CfgPop(oup_qready_i))
         \/ PushConfiguration(CfgPop(oup_qready_i))
         \/ PassDirect(CfgPop(oup_qready_i), oup_qready_i)
         \/ InputWaits(CfgPop(oup_qready_i), oup_qready_i)
      /\ rd_pointer' = IF Leaves(oup_qready_i) THEN Move(rd_pointer, curr_cfg.max_inst + 1) ELSE rd_pointer
      /\ Count(SeqNext(oup_qready_i))
      /\ Control(Streamed /\ (SeqNext(oup_qready_i) \/ seq_done))
      /\ issued' = IF oup_qvalid_o /\ oup_qready_i THEN Append(issued, oup) ELSE issued
      /\ program' = program
  BY Zenon DEF Clock, CfgPop, Leaves
<1>2. ~rb_contains_instructions /\ inp_qvalid_i /\ Instr.kind = "direct" /\ oup_qready_i
  BY Zenon DEF Passes
<1>3. oup_qvalid_o
  BY <1>2, Zenon DEF oup_qvalid_o
<1>4. Instr.kind # "plain" /\ Instr.kind # "frep"
  BY <1>2
<1>5. PassDirect(CfgPop(oup_qready_i), oup_qready_i)
  BY <1>1, <1>2, <1>4, Zenon DEF PushInstruction, PushConfiguration, InputWaits
<1> QED
  BY <1>1, <1>2, <1>3, <1>5, Zenon


\* One cycle keeps the invariant, and moves the front by what it issues.
LEMMA ClockMoves ==
  ASSUME CoreInv, NEW i \in 1 .. pc, NEW k \in Nat, FrontAt(i, k), NEW oup_qready_i \in BOOLEAN,
         Clock(oup_qready_i)
  PROVE  /\ CoreInv' /\ program' = program /\ pc' \in {pc, pc + 1}
         /\ \E i2 \in 1 .. pc', k2 \in Nat : FrontAt(i2, k2)' /\ Moves(i, k, i2, k2, pc')
<1>1. i \in Nat \ {0} /\ pc \in Nat \ {0} /\ 0 \in Nat
  BY Basics
<1>2. CASE Passes(oup_qready_i)
  <2>1. /\ PassDirect(CfgPop(oup_qready_i), oup_qready_i) /\ program' = program
        /\ rd_pointer' = (IF Leaves(oup_qready_i) THEN Move(rd_pointer, curr_cfg.max_inst + 1) ELSE rd_pointer)
        /\ Count(SeqNext(oup_qready_i)) /\ Control(Streamed /\ (SeqNext(oup_qready_i) \/ seq_done))
        /\ issued' = Append(issued, oup)
    BY <1>2, CyclePasses
  <2>2. PICK q \in Nat : q = pc + 1
    BY <1>1
  <2>3. CoreInv' /\ FrontAt(q, 0)' /\ q \in 1 .. pc' /\ pc' = pc + 1 /\ Moves(i, k, q, 0, pc')
    BY <1>2, <2>1, <2>2, InputPasses
  <2>4. pc' \in {pc, pc + 1}
    BY <2>3
  <2> QED
    BY <1>1, <2>1, <2>3, <2>4, Zenon
<1>3. CASE ~Passes(oup_qready_i)
  <2>1. OutputSide(oup_qready_i) /\ InputSide(Popped(CfgPop(oup_qready_i)), oup_qready_i)
    BY <1>3, CycleSides
  <2>2. PICK j \in i .. pc, m \in Nat : GoesTo(j, m, Popped(CfgPop(oup_qready_i))) /\ Moves(i, k, j, m, pc)
    BY <2>1, Output
  <2>3. j \in Nat
    BY <1>1
  <2>4. program' = program
    BY <2>1, Zenon DEF OutputSide
  <2>5. PICK popped : popped = Popped(CfgPop(oup_qready_i))
    OBVIOUS
  <2>6. GoesTo(j, m, popped) /\ InputSide(popped, oup_qready_i)
    BY <2>1, <2>2, <2>5, Zenon
  <2>7. CoreInv' /\ FrontAt(j, m)' /\ j \in 1 .. pc' /\ pc' \in {pc, pc + 1}
    <3>1. CASE /\ inp_qvalid_i /\ Instr.kind = "plain" /\ ~rb_full
               /\ mem' = [mem EXCEPT ![wr_pointer % Depth] = pc]
               /\ wr_pointer' = Move(wr_pointer, 1)
               /\ cfgs' = popped
               /\ Accepted
      <4>1. CoreInv' /\ FrontAt(j, m)' /\ j \in 1 .. pc'
        BY <2>2, <2>4, <2>6, <3>1, InputInstruction
      <4>2. pc' = pc + 1
        BY <3>1 DEF Accepted
      <4> QED
        BY <4>1, <4>2
    <3>2. CASE /\ inp_qvalid_i /\ Instr.kind = "frep"
               /\ cfgs' = Append(popped,
                            [f \in DOMAIN NoCfg |-> IF f = "base_pointer" THEN wr_pointer ELSE Instr[f]])
               /\ UNCHANGED <<mem, wr_pointer>>
               /\ Accepted
      <4>1. CoreInv' /\ FrontAt(j, m)' /\ j \in 1 .. pc'
        BY <2>2, <2>4, <2>6, <3>2, InputConfiguration
      <4>2. pc' = pc + 1
        BY <3>2 DEF Accepted
      <4> QED
        BY <4>1, <4>2
    <3>3. CASE cfgs' = popped /\ UNCHANGED <<mem, wr_pointer>> /\ NotAccepted
      <4>1. CoreInv' /\ FrontAt(j, m)' /\ j \in 1 .. pc'
        BY <2>2, <2>4, <2>6, <3>3, InputNothing
      <4>2. pc' = pc
        BY <3>3 DEF NotAccepted
      <4> QED
        BY <4>1, <4>2
    <3> QED
      BY <2>6, <3>1, <3>2, <3>3, Zenon DEF InputSide
  <2>8. Moves(i, k, j, m, pc')
    <3>1. \A x \in Nat : x < pc => x < pc'
      BY <1>1, <2>7
    <3>2. ASSUME i \in 1 .. Len(program), program[i].kind = "frep", ~program[i].is_streamctl,
                 Issued(program, i, k).op < pc, k < Size(program, i)
          PROVE  Issued(program, i, k).op < pc'
      <4>1. ProgramFits(program) /\ FrepFits(program, i)
        BY <3>2, Basics
      <4>2. Issued(program, i, k) \in Issue
        BY <1>1, <3>2, <4>1, IssuedType
      <4> QED
        BY <3>1, <3>2, <4>2 DEF Issue
    <3> QED
      BY <1>1, <2>2, <3>1, <3>2, Zenon DEF Moves
  <2> QED
    BY <2>2, <2>4, <2>7, <2>8, Zenon
<1> QED
  BY <1>2, <1>3

LEMMA ClockKeeps ==
  ASSUME SInv, NEW oup_qready_i \in BOOLEAN, Clock(oup_qready_i)
  PROVE  SInv'
<1>1. CoreInv
  BY Zenon DEF SInv
<1>2. PICK i \in 1 .. pc, k \in Nat : FrontAt(i, k)
  BY Zenon DEF SInv
<1>3. CoreInv' /\ \E i2 \in 1 .. pc', k2 \in Nat : FrontAt(i2, k2)' /\ Moves(i, k, i2, k2, pc')
  BY <1>1, <1>2, ClockMoves
<1>4. PICK i2 \in 1 .. pc', k2 \in Nat : FrontAt(i2, k2)'
  BY <1>3
<1> QED
  BY <1>3, <1>4, Zenon DEF SInv

LEMMA InitialSInv == Init => SInv
<1> SUFFICES ASSUME Init PROVE SInv
  OBVIOUS
<1>1. /\ program \in Programs /\ pc = 1 /\ inp_qvalid_i = FALSE
      /\ stream = Tokens(program) /\ streamctl_valid_i = FALSE
      /\ mem = [a \in 0 .. Depth - 1 |-> 0] /\ rd_pointer = 0 /\ wr_pointer = 0
      /\ cfgs = <<>> /\ inst_cnt = 0 /\ rpt_cnt = 0 /\ stagger_cnt = 0 /\ issued = <<>>
  BY Zenon DEF Init
<1>2. CoreInv
  <2>1. Len(program) \in Nat
    BY <1>1, SequencerAssumption DEF ProgramFits
  <2>2. cfgs \in Seq(Configurations) /\ issued \in Seq(Issue)
    BY <1>1, EmptySeq
  <2>3. pc \in 1 .. Len(program) + 1
    BY <1>1, <2>1
  <2> QED
    BY <1>1, <2>2, <2>3, Zenon DEF CoreInv
<1>3. ProgramFits(program) /\ Len(program) \in Nat /\ Depth \in Nat \ {0} /\ 2 * Depth \in Nat \ {0}
  BY <1>2, Basics
<1>4. 1 \in 1 .. pc /\ 1 \in 1 .. Len(program) + 1 /\ \A j \in 1 .. pc - 1 : FALSE
  BY <1>1, <1>3
<1>5. PlainsBefore(program, pc) = 0 /\ LoopsBefore(program, pc) = 0
      /\ PlainsBefore(program, 1) = 0 /\ LoopsBefore(program, 1) = 0
  BY <1>1, BeforeFirst DEF PlainsBefore, LoopsBefore
<1>6. /\ rd_pointer = PlainsBefore(program, 1) % (2 * Depth)
      /\ wr_pointer = PlainsBefore(program, pc) % (2 * Depth)
      /\ PlainsBefore(program, pc) <= PlainsBefore(program, 1) + Depth
  <2>1. 0 % (2 * Depth) = 0
    <3> DEFINE E == 2 * Depth
    <3>1. E \in Nat \ {0}
      BY <1>3
    <3> HIDE DEF E
    <3>2. 0 % E = 0
      BY <3>1
    <3> QED
      BY <3>2 DEF E
  <2>2. 0 <= 0 + Depth
    BY <1>3
  <2> QED
    BY <1>1, <1>5, <2>1, <2>2, Zenon
<1>7. SlotsFit(1, pc, mem)
  <2>1. mem \in [0 .. Depth - 1 -> Nat]
    BY <1>1
  <2> QED
    BY <1>4, <2>1, Zenon DEF SlotsFit
<1>8. CfgsFit(1, pc, cfgs)
  <2>1. Len(cfgs) = LoopsBefore(program, pc) - LoopsBefore(program, 1)
    BY <1>1, <1>5
  <2> QED
    BY <1>4, <2>1, Zenon DEF CfgsFit
<1>9. CountersFit(1, 0, pc, inst_cnt, rpt_cnt, stagger_cnt)
  <2>1. pc \in 1 .. Len(program) + 1
    BY <1>2, Zenon DEF CoreInv
  <2>2. CountersFit(1, 0, pc, 0, 0, 0)
    BY <1>2, <1>4, <2>1, FreshCounters
  <2> QED
    BY <1>1, <2>2, Zenon
<1>10. stream = SubSeq(Tokens(program), Taken(1, 0) + 1, Len(Tokens(program)))
  <2>1. Taken(1, 0) = 0
    <3>1. TokensTo(program)[1 - 1] = <<>>
      BY <1>3, TokensUnfolded
    <3>2. Len(TokensTo(program)[1 - 1]) = 0
      BY <3>1
    <3>3. Taken(1, 0) = 0 + (IF IsLoop(program, 1) /\ program[1].is_streamctl THEN 0 ELSE 0)
      BY <3>2, Zenon DEF Taken
    <3> QED
      BY <3>3
  <2>2. Tokens(program) \in Seq(BOOLEAN)
    <3>1. Len(program) \in 0 .. Len(program)
      BY <1>3
    <3>2. TokensTo(program)[Len(program)] \in Seq(BOOLEAN)
      BY <1>3, <3>1, TokensType
    <3> QED
      BY <1>3, <3>2, TokensUnfolded
  <2>3. SubSeq(Tokens(program), 1, Len(Tokens(program))) = Tokens(program)
    BY <2>2, SubSeqFull
  <2>4. Taken(1, 0) + 1 = 1
    BY <2>1
  <2> QED
    BY <1>1, <2>3, <2>4, Zenon
<1>11. issued \o Rest(program, 1, 0) = Issues(program)
  <2>1. Rest(program, 1, 0) = IssuesFrom(program)[1] /\ Rest(program, 1, 0) \in Seq(Issue)
    BY <1>3, <1>4, RestStart
  <2>2. Issues(program) = IssuesFrom(program)[1]
    BY <1>3, IssuesUnfold
  <2>3. <<>> \o Rest(program, 1, 0) = Rest(program, 1, 0)
    BY <2>1, ConcatEmptySeq
  <2> QED
    BY <1>1, <2>1, <2>2, <2>3, Zenon
<1>12. streamctl_valid_i \in BOOLEAN /\ (streamctl_valid_i => stream # <<>>)
  BY <1>1
<1>13. FrontAt(1, 0)
  BY <1>6, <1>7, <1>8, <1>9, <1>10, <1>11, <1>12, Zenon DEF FrontAt
<1>14. 0 \in Nat
  OBVIOUS
<1> QED
  BY <1>2, <1>4, <1>13, <1>14, Zenon DEF SInv

LEMMA StutterSInv ==
  ASSUME SInv, UNCHANGED vars
  PROVE  SInv'
<1>1. /\ program' = program /\ pc' = pc /\ inp_qvalid_i' = inp_qvalid_i
      /\ stream' = stream /\ streamctl_valid_i' = streamctl_valid_i
      /\ mem' = mem /\ rd_pointer' = rd_pointer /\ wr_pointer' = wr_pointer
      /\ cfgs' = cfgs /\ inst_cnt' = inst_cnt /\ rpt_cnt' = rpt_cnt /\ stagger_cnt' = stagger_cnt
      /\ issued' = issued
  BY DEF vars, core, counters
<1>2. CoreInv
  BY Zenon DEF SInv
<1>3. PICK i \in 1 .. pc, k \in Nat : FrontAt(i, k)
  BY Zenon DEF SInv
<1>4. CoreInv'
  BY <1>1, <1>2, CoreNext, Zenon DEF CoreInv
<1>5. FrontAt(i, k)'
  BY <1>1, <1>3, FrontNext, Zenon DEF FrontAt
<1>6. i \in 1 .. pc'
  BY <1>1
<1> QED
  BY <1>4, <1>5, <1>6, Zenon DEF SInv

\* What is left to be issued is a sequence of issues.
LEMMA RestType ==
  ASSUME CoreInv, NEW i \in 1 .. pc, NEW k \in Nat, FrontAt(i, k)
  PROVE  Rest(program, i, k) \in Seq(Issue)
<1>1. ProgramFits(program) /\ Len(program) \in Nat /\ i \in Nat \ {0} /\ i <= pc
      /\ pc \in Nat \ {0} /\ pc <= Len(program) + 1
  BY Basics
<1>2. CASE ~Begun(i, pc)
  <2>1. k = 0
    BY <1>2, Zenon DEF FrontAt, CountersFit
  <2>2. i \in 1 .. Len(program) + 1
    BY <1>1
  <2> QED
    BY <1>1, <2>1, <2>2, RestStart
<1>3. CASE Begun(i, pc)
  <2>1. i \in 1 .. Len(program) /\ program[i].kind = "frep"
    BY <1>1, <1>3 DEF Begun
  <2>2. FrepFits(program, i)
    BY <2>1, Basics
  <2> DEFINE n == program[i].max_inst
             m == program[i].max_rpt
  <2>3. /\ n \in Nat /\ m \in Nat /\ Size(program, i) \in Nat
        /\ ~program[i].is_streamctl => Repetitions(program, i) = m + 1
        /\ program[i].is_streamctl => n = 0 /\ Repetitions(program, i) = program[i].tokens /\ program[i].tokens \in Nat
    BY <1>1, <2>2, LoopType
  <2>4. Size(program, i) = (n + 1) * Repetitions(program, i)
    BY Zenon DEF Size
  <2>5. CASE program[i].is_streamctl
    <3>1. k <= program[i].tokens
      BY <1>3, <2>5, Zenon DEF FrontAt, CountersFit
    <3>2. Size(program, i) = (0 + 1) * program[i].tokens
      BY <2>3, <2>4, <2>5, Zenon
    <3>3. k \in 0 .. Size(program, i)
      BY <2>3, <2>5, <3>1, <3>2
    <3> QED
      BY <1>1, <2>1, <3>3, RestOfLoop
  <2>6. CASE ~program[i].is_streamctl
    <3>1. CountersFit(i, k, pc, inst_cnt, rpt_cnt, stagger_cnt)
      BY Zenon DEF FrontAt
    <3>2. k < Size(program, i)
      BY <1>3, <2>1, <2>6, <3>1, CountShort
    <3>3. k \in 0 .. Size(program, i)
      BY <2>3, <3>2
    <3> QED
      BY <1>1, <2>1, <3>3, RestOfLoop
  <2> QED
    BY <2>5, <2>6
<1> QED
  BY <1>2, <1>3

LEMMA SInvIssues == SInv => IssuesProgram
<1> SUFFICES ASSUME SInv PROVE IssuesProgram
  OBVIOUS
<1>1. CoreInv
  BY Zenon DEF SInv
<1>2. PICK i \in 1 .. pc, k \in Nat : FrontAt(i, k)
  BY Zenon DEF SInv
<1>3. Rest(program, i, k) \in Seq(Issue)
  BY <1>1, <1>2, RestType
<1>4. issued \in Seq(Issue)
  BY <1>1, Zenon DEF CoreInv
<1>5. issued \o Rest(program, i, k) = Issues(program)
  BY <1>2, Zenon DEF FrontAt
<1>6. Len(issued) <= Len(Issues(program)) /\ issued = SubSeq(Issues(program), 1, Len(issued))
  BY <1>3, <1>4, <1>5, FrontOfConcat
<1> QED
  BY <1>6, Zenon DEF IssuesProgram

\* The ring and the configuration buffer always hold what has been offloaded and
\* not yet left, and the counters say how much of the loop in front is issued.
THEOREM RingHoldsTheRest == Spec => []SInv
<1>1. ASSUME SInv, [Next]_vars PROVE SInv'
  <2>1. CASE Next
    <3>1. PICK oup_qready_i \in BOOLEAN : Clock(oup_qready_i)
      BY <2>1, Zenon DEF Next
    <3> QED
      BY <1>1, <3>1, ClockKeeps
  <2>2. CASE UNCHANGED vars
    BY <1>1, <2>2, StutterSInv
  <2> QED
    BY <1>1, <2>1, <2>2
<1> QED
  BY <1>1, InitialSInv, PTL DEF Spec

\* What the FPU gets is a prefix of the program with its loops unrolled, for any
\* programs, any depth of the ring and of the configuration buffer
\* (snitch_sequencer.sv).
THEOREM IssuesTheProgram == Spec => []IssuesProgram
BY RingHoldsTheRest, SInvIssues, PTL

-----------------------------------------------------------------------------
(* The trace script (SeqTrace): its inductive invariant.                   *)

TraceEntry == [op : Nat, rep : Nat, idx : Int]

\* The places from c to before q.
Places(c, q) == [x \in 1 .. q - c |-> c + x - 1]

\* How many instructions of its body the script has consumed when it has written
\* out k issues of the loop at place i.
Worked(i, k) == IF k <= program[i].max_inst THEN k ELSE program[i].max_inst + 1

\* What it writes out for the k-th issue of the loop at place i, from 0 on.
LoopEntry(i, k) ==
    LET n == program[i].max_inst + 1
        r == program[i].max_rpt + 1
        s == IF program[i].is_outer THEN k % n ELSE k \div r
    IN  Entry(i + 1 + s, IF program[i].is_outer THEN k \div n ELSE k % r, s)

\* How many issues m instructions of the body are replicated to.
Filled(i, m) ==
    IF ~program[i].is_outer THEN m * (program[i].max_rpt + 1)
    ELSE IF m <= program[i].max_inst THEN m
    ELSE (program[i].max_inst + 1) * (program[i].max_rpt + 1)

\* The entries of the issues from a to before b.
Entries(i, a, b) == [x \in 1 .. b - a |-> LoopEntry(i, a + x - 1)]

\* The loop at place i with m instructions consumed and k entries pulled.
Buffer(i, m, k) ==
    [frep |-> i, inst_iter |-> m, fpss_buf |-> Entries(i, k, Filled(i, m)),
     outer_buf |-> Places(i + 1, i + 1 + m)]

\* The first place that is not consumed.
Unconsumed(i, k) == IF k = 0 THEN i ELSE i + 1 + Worked(i, k)

\* How often the instruction at place p is among the first k issues of the loop
\* at place i.
Reps(i, k, p) ==
    LET s == p - (i + 1)
        n == program[i].max_inst + 1
        r == program[i].max_rpt + 1
    IN  IF k = 0 \/ s \notin 0 .. program[i].max_inst THEN 0
        ELSE IF program[i].is_outer THEN (k \div n) + (IF s < k % n THEN 1 ELSE 0)
        ELSE IF s < k \div r THEN r ELSE IF s = k \div r THEN k % r ELSE 0

\* How often the instruction at place p is among the issues s.
Times(s, p) == Cardinality({j \in 1 .. Len(s) : s[j].op = p})

TracedFit(t, s) ==
    /\ t \in Seq(TraceEntry) /\ Len(t) = Len(s)
    /\ \A j \in 1 .. Len(s) :
           /\ t[j].op = s[j].op
           /\ t[j].rep = Cardinality({x \in 1 .. j - 1 : s[x].op = s[j].op})

\* The script is where the hardware is: at the k-th issue of the loop at place i.
TraceAt(i, k) ==
    /\ loop = IF k = 0 THEN NoLoop ELSE Buffer(i, Worked(i, k), k)
    /\ Unconsumed(i, k) <= pc /\ fpss_pcs = Places(Unconsumed(i, k), pc)
    /\ \A p \in Nat : p >= i => Times(issued, p) = Reps(i, k, p)
    /\ TracedFit(traced, issued)

\* An inner loop that repeats several instructions has been offloaded.
MayStop ==
    \E i \in 1 .. pc - 1 : /\ program[i].kind = "frep" /\ ~program[i].is_outer
                           /\ program[i].max_inst > 0 /\ program[i].max_rpt > 0

NoStreams == \A i \in 1 .. Len(program) : ~IsStreamLoop(program, i)

\* As long as it has not stopped, the script follows the hardware.
TInv ==
    /\ CoreInv
    /\ NoStreams =>
           \/ crashed = TRUE /\ MayStop
           \/ crashed = FALSE /\ \E i \in 1 .. pc, k \in Nat : FrontAt(i, k) /\ TraceAt(i, k)

-----------------------------------------------------------------------------
(* Sequences and numbers of the trace script.                              *)

\* A function on 1 .. n is a sequence of length n.
LEMMA FunctionSeq ==
  ASSUME NEW S, NEW n \in Nat, NEW f \in [1 .. n -> S]
  PROVE  f \in Seq(S) /\ Len(f) = n
<1>1. f \in Seq(S)
  BY SeqDef
<1>2. DOMAIN f = 1 .. n
  OBVIOUS
<1>3. Len(f) \in Nat /\ DOMAIN f = 1 .. Len(f)
  BY <1>1, LenProperties
<1> QED
  BY <1>1, <1>2, <1>3

LEMMA PlacesFacts ==
  ASSUME NEW c \in Nat, NEW q \in Nat, c <= q
  PROVE  /\ Places(c, q) \in Seq(Nat) /\ Len(Places(c, q)) = q - c
         /\ \A x \in 1 .. q - c : Places(c, q)[x] = c + x - 1
         /\ Places(c, q) = <<>> <=> c = q
         /\ c < q => Head(Places(c, q)) = c /\ Tail(Places(c, q)) = Places(c + 1, q)
         /\ Append(Places(c, q), q) = Places(c, q + 1)
<1> DEFINE P(a, b) == Places(a, b)
<1>1. ASSUME NEW a \in Nat, NEW b \in Nat, a <= b
      PROVE  /\ P(a, b) \in Seq(Nat) /\ Len(P(a, b)) = b - a
             /\ \A x \in 1 .. b - a : P(a, b)[x] = a + x - 1
  <2>1. b - a \in Nat
    BY <1>1
  <2>2. P(a, b) \in [1 .. b - a -> Nat]
    BY <1>1 DEF Places
  <2>3. \A x \in 1 .. b - a : P(a, b)[x] = a + x - 1
    BY DEF Places
  <2> QED
    BY <2>1, <2>2, <2>3, FunctionSeq
<1> HIDE DEF P
<1>2. P(c, q) \in Seq(Nat) /\ Len(P(c, q)) = q - c /\ \A x \in 1 .. q - c : P(c, q)[x] = c + x - 1
  BY <1>1
<1>3. P(c, q) = <<>> <=> c = q
  <2>1. P(c, q) = <<>> => Len(P(c, q)) = 0
    BY EmptySeq
  <2>2. P(c, q) # <<>> => Len(P(c, q)) \in Nat \ {0}
    BY <1>2, EmptySeq
  <2> QED
    BY <1>2, <2>1, <2>2
<1>4. ASSUME c < q PROVE Head(P(c, q)) = c /\ Tail(P(c, q)) = P(c + 1, q)
  <2>1. P(c, q) # <<>> /\ 1 \in 1 .. q - c
    BY <1>3, <1>4
  <2>2. Head(P(c, q)) = P(c, q)[1]
    BY <2>1, <1>2
  <2>3. Tail(P(c, q)) \in Seq(Nat) /\ Len(Tail(P(c, q))) = q - c - 1
        /\ \A x \in 1 .. Len(Tail(P(c, q))) : Tail(P(c, q))[x] = P(c, q)[x + 1]
    BY <1>2, <2>1, HeadTailProperties
  <2>4. P(c + 1, q) \in Seq(Nat) /\ Len(P(c + 1, q)) = q - (c + 1)
        /\ \A x \in 1 .. q - (c + 1) : P(c + 1, q)[x] = c + 1 + x - 1
    BY <1>1, <1>4
  <2>5. \A x \in 1 .. q - c - 1 : x + 1 \in 1 .. q - c /\ c + (x + 1) - 1 = c + 1 + x - 1
    OBVIOUS
  <2>6. Len(Tail(P(c, q))) = Len(P(c + 1, q)) /\ \A x \in 1 .. Len(Tail(P(c, q))) : Tail(P(c, q))[x] = P(c + 1, q)[x]
    BY <1>2, <2>3, <2>4, <2>5
  <2>7. Tail(P(c, q)) = P(c + 1, q)
    BY <2>3, <2>4, <2>6, SeqEqual
  <2> QED
    BY <1>2, <2>1, <2>2, <2>7
<1>5. Append(P(c, q), q) = P(c, q + 1)
  <2>1. Append(P(c, q), q) \in Seq(Nat) /\ Len(Append(P(c, q), q)) = q - c + 1
        /\ (\A x \in 1 .. q - c : Append(P(c, q), q)[x] = P(c, q)[x]) /\ Append(P(c, q), q)[q - c + 1] = q
    BY <1>2, AppendProperties
  <2>2. P(c, q + 1) \in Seq(Nat) /\ Len(P(c, q + 1)) = q + 1 - c
        /\ \A x \in 1 .. q + 1 - c : P(c, q + 1)[x] = c + x - 1
    BY <1>1
  <2>3. \A x \in 1 .. q - c + 1 : x \in 1 .. q - c \/ x = q - c + 1
    OBVIOUS
  <2>4. \A x \in 1 .. q - c + 1 : Append(P(c, q), q)[x] = c + x - 1
    BY <1>2, <2>1, <2>3
  <2>5. Len(Append(P(c, q), q)) = Len(P(c, q + 1))
        /\ \A x \in 1 .. Len(Append(P(c, q), q)) : Append(P(c, q), q)[x] = P(c, q + 1)[x]
    BY <2>1, <2>2, <2>4
  <2> QED
    BY <2>1, <2>2, <2>5, SeqEqual
<1> QED
  BY <1>2, <1>3, <1>4, <1>5 DEF P

\* Quotient and remainder go on together.
LEMMA DivNext ==
  ASSUME NEW k \in Nat, NEW n \in Nat
  PROVE  /\ k % (n + 1) \in 0 .. n /\ k \div (n + 1) \in Nat
         /\ k % (n + 1) = n => (k + 1) % (n + 1) = 0 /\ (k + 1) \div (n + 1) = (k \div (n + 1)) + 1
         /\ k % (n + 1) # n => /\ (k + 1) % (n + 1) = (k % (n + 1)) + 1
                               /\ (k + 1) \div (n + 1) = k \div (n + 1)
         /\ k <= n => k % (n + 1) = k /\ k \div (n + 1) = 0
<1> DEFINE d == n + 1
           a == k % d
           q == k \div d
<1>1. d \in Nat \ {0}
  OBVIOUS
<1> HIDE DEF d
<1>2. a \in 0 .. d - 1 /\ q \in Nat /\ k = a + q * d
  BY <1>1, DivModSplit
<1>3. a \in 0 .. n
  BY <1>2 DEF d
<1> HIDE DEF a, q
<1>4. ASSUME a = n PROVE (k + 1) % d = 0 /\ (k + 1) \div d = q + 1
  <2>1. n + 1 = d
    BY DEF d
  <2>2. (q + 1) * d = q * d + d
    BY <1>1, <1>2
  <2>3. q * d \in Nat
    BY <1>1, <1>2
  <2>4. k + 1 = 0 + (q + 1) * d
    BY <1>1, <1>2, <1>4, <2>1, <2>2, <2>3
  <2>5. (0 + (q + 1) * d) % d = 0 /\ (0 + (q + 1) * d) \div d = q + 1
    <3>1. q + 1 \in Nat /\ 0 < d /\ d \in Nat /\ 0 \in Nat
      BY <1>1, <1>2
    <3> QED
      BY <3>1, DivModUnique
  <2> QED
    BY <2>4, <2>5
<1>5. ASSUME a # n PROVE (k + 1) % d = a + 1 /\ (k + 1) \div d = q
  <2>1. a + 1 \in Nat /\ a + 1 < d /\ d \in Nat
    BY <1>1, <1>3, <1>5 DEF d
  <2>2. q * d \in Nat
    BY <1>1, <1>2
  <2>3. k + 1 = (a + 1) + q * d
    BY <1>2, <1>3, <2>2
  <2>4. ((a + 1) + q * d) % d = a + 1 /\ ((a + 1) + q * d) \div d = q
    BY <1>2, <2>1, DivModUnique
  <2> QED
    BY <2>3, <2>4
<1>6. ASSUME k <= n PROVE a = k /\ q = 0
  <2>1. k < d /\ d \in Nat
    BY <1>1, <1>6 DEF d
  <2>2. (k + 0 * d) % d = k /\ (k + 0 * d) \div d = 0
    <3>1. 0 \in Nat
      OBVIOUS
    <3> QED
      BY <2>1, <3>1, DivModUnique
  <2>3. k + 0 * d = k
    BY <2>1
  <2> QED
    BY <2>2, <2>3 DEF a, q
<1> QED
  BY <1>2, <1>3, <1>4, <1>5, <1>6 DEF a, q, d

-----------------------------------------------------------------------------
(* The buffer of the trace script.                                         *)

LEMMA LoopNumbers ==
  ASSUME CoreInv, NEW i \in 1 .. Len(program), program[i].kind = "frep", ~program[i].is_streamctl
  PROVE  /\ i \in Nat \ {0} /\ program[i].max_inst \in Nat /\ program[i].max_rpt \in Nat
         /\ program[i].is_outer \in BOOLEAN /\ Size(program, i) \in Nat
         /\ Repetitions(program, i) = program[i].max_rpt + 1
         /\ Size(program, i) = (program[i].max_inst + 1) * (program[i].max_rpt + 1)
         /\ program[i].max_inst + 1 <= Size(program, i)
<1>1. FrepFits(program, i) /\ i \in Nat \ {0}
  BY Basics
<1> DEFINE n == program[i].max_inst
           m == program[i].max_rpt
<1>2. n \in Nat /\ m \in Nat /\ Size(program, i) \in Nat /\ Repetitions(program, i) = m + 1
      /\ program[i].is_outer \in BOOLEAN
  BY <1>1, LoopType
<1>3. Size(program, i) = (n + 1) * (m + 1)
  BY <1>2, Zenon DEF Size
<1> HIDE DEF n, m
<1>4. (n + 1) * (m + 1) = (n + 1) * m + (n + 1) /\ (n + 1) * m \in Nat
  BY <1>2
<1>5. n + 1 <= Size(program, i)
  BY <1>2, <1>3, <1>4
<1> QED
  BY <1>1, <1>2, <1>3, <1>5 DEF n, m

LEMMA LoopEntryFacts ==
  ASSUME CoreInv, NEW i \in 1 .. Len(program), program[i].kind = "frep", ~program[i].is_streamctl, NEW k \in Nat
  PROVE  /\ LoopEntry(i, k) \in TraceEntry
         /\ program[i].is_outer =>
                LoopEntry(i, k) = Entry(i + 1 + (k % (program[i].max_inst + 1)), k \div (program[i].max_inst + 1),
                                        k % (program[i].max_inst + 1))
         /\ ~program[i].is_outer =>
                LoopEntry(i, k) = Entry(i + 1 + (k \div (program[i].max_rpt + 1)), k % (program[i].max_rpt + 1),
                                        k \div (program[i].max_rpt + 1))
         /\ LoopEntry(i, k).op = Issued(program, i, k).op
<1> DEFINE n == program[i].max_inst + 1
           r == program[i].max_rpt + 1
           o == program[i].is_outer
           s == IF o THEN k % n ELSE k \div r
           c == IF o THEN k \div n ELSE k % r
           p == i + 1 + s
<1>1. i \in Nat /\ n \in Nat \ {0} /\ r \in Nat \ {0} /\ Repetitions(program, i) = r
  BY LoopNumbers
<1>2. k % n \in Nat /\ k \div n \in Nat /\ k % r \in Nat /\ k \div r \in Nat
  <2> HIDE DEF n, r
  <2> QED
    BY <1>1, RemainderType
<1>3. LoopEntry(i, k) = Entry(p, c, s)
  BY Zenon DEF LoopEntry
<1>4. o => LoopEntry(i, k) = Entry(i + 1 + (k % n), k \div n, k % n)
  BY <1>3, Zenon
<1>5. ~o => LoopEntry(i, k) = Entry(i + 1 + (k \div r), k % r, k \div r)
  BY <1>3, Zenon
<1>6. Issued(program, i, k).op = p
  <2> DEFINE z == Issued(program, i, k).stagger
             st == IF ~program[i].stagger_mask THEN 0
                   ELSE (IF program[i].is_outer THEN k \div n ELSE k) % (program[i].stagger_max + 1)
  <2>1. Issued(program, i, k) = [op |-> p, stagger |-> st]
    BY <1>1, Zenon DEF Issued
  <2> HIDE DEF p, st
  <2> QED
    BY <2>1
<1>7. s \in Nat /\ c \in Nat
  BY <1>2
<1>8. p \in Nat /\ s \in Int
  BY <1>1, <1>7
<1> HIDE DEF p, c, s
<1>9. Entry(p, c, s) \in TraceEntry /\ Entry(p, c, s).op = p
  BY <1>7, <1>8 DEF Entry, TraceEntry
<1> QED
  BY <1>3, <1>4, <1>5, <1>6, <1>9, Zenon DEF n, r, o

LEMMA EntriesFacts ==
  ASSUME CoreInv, NEW i \in 1 .. Len(program), program[i].kind = "frep", ~program[i].is_streamctl,
         NEW a \in Nat, NEW b \in Nat, a <= b
  PROVE  /\ Entries(i, a, b) \in Seq(TraceEntry) /\ Len(Entries(i, a, b)) = b - a
         /\ \A x \in 1 .. b - a : Entries(i, a, b)[x] = LoopEntry(i, a + x - 1)
<1>1. \A x \in 1 .. b - a : a + x - 1 \in Nat
  OBVIOUS
<1>2. \A x \in 1 .. b - a : LoopEntry(i, a + x - 1) \in TraceEntry
  BY <1>1, LoopEntryFacts
<1>3. Entries(i, a, b) \in [1 .. b - a -> TraceEntry]
  BY <1>2, Zenon DEF Entries
<1>4. \A x \in 1 .. b - a : Entries(i, a, b)[x] = LoopEntry(i, a + x - 1)
  BY Zenon DEF Entries
<1>5. b - a \in Nat
  OBVIOUS
<1> QED
  BY <1>3, <1>4, <1>5, FunctionSeq

\* The first entry is pulled.
LEMMA EntriesPulled ==
  ASSUME CoreInv, NEW i \in 1 .. Len(program), program[i].kind = "frep", ~program[i].is_streamctl,
         NEW a \in Nat, NEW b \in Nat, a < b
  PROVE  Head(Entries(i, a, b)) = LoopEntry(i, a) /\ Tail(Entries(i, a, b)) = Entries(i, a + 1, b)
<1> DEFINE e == Entries(i, a, b)
           t == Entries(i, a + 1, b)
<1>1. e \in Seq(TraceEntry) /\ Len(e) = b - a /\ \A x \in 1 .. b - a : e[x] = LoopEntry(i, a + x - 1)
  <2>1. a <= b
    OBVIOUS
  <2> QED
    BY <2>1, EntriesFacts, Zenon
<1>2. t \in Seq(TraceEntry) /\ Len(t) = b - (a + 1) /\ \A x \in 1 .. b - (a + 1) : t[x] = LoopEntry(i, (a + 1) + x - 1)
  <2>1. a + 1 \in Nat /\ a + 1 <= b
    OBVIOUS
  <2> QED
    BY <2>1, EntriesFacts
<1> HIDE DEF e, t
<1>3. e # <<>>
  BY <1>1
<1>4. Head(e) = LoopEntry(i, a)
  <2>1. Head(e) = e[1] /\ 1 \in 1 .. b - a /\ a + 1 - 1 = a
    BY <1>1, <1>3
  <2> QED
    BY <1>1, <2>1
<1>5. Tail(e) \in Seq(TraceEntry) /\ Len(Tail(e)) = Len(e) - 1 /\ \A x \in 1 .. Len(Tail(e)) : Tail(e)[x] = e[x + 1]
  BY <1>1, <1>3, HeadTailProperties
<1>6. \A x \in 1 .. b - (a + 1) : x + 1 \in 1 .. b - a /\ a + (x + 1) - 1 = (a + 1) + x - 1
  OBVIOUS
<1>7. Len(Tail(e)) = b - (a + 1) /\ b - (a + 1) \in Nat
  BY <1>1, <1>5
<1>8. \A x \in 1 .. b - (a + 1) : Tail(e)[x] = t[x]
  BY <1>1, <1>2, <1>5, <1>6, <1>7, Zenon
<1>9. Tail(e) = t
  BY <1>2, <1>5, <1>7, <1>8, SeqEqual
<1> QED
  BY <1>4, <1>9 DEF e, t

\* More entries are put at the end.
LEMMA EntriesJoined ==
  ASSUME CoreInv, NEW i \in 1 .. Len(program), program[i].kind = "frep", ~program[i].is_streamctl,
         NEW a \in Nat, NEW b \in Nat, NEW c \in Nat, a <= b, b <= c,
         NEW t \in Seq(TraceEntry), Len(t) = c - b, \A x \in 1 .. c - b : t[x] = LoopEntry(i, b + x - 1)
  PROVE  Entries(i, a, b) \o t = Entries(i, a, c)
<1> DEFINE e == Entries(i, a, b)
           f == Entries(i, a, c)
<1>1. e \in Seq(TraceEntry) /\ Len(e) = b - a /\ \A x \in 1 .. b - a : e[x] = LoopEntry(i, a + x - 1)
  BY EntriesFacts
<1>2. f \in Seq(TraceEntry) /\ Len(f) = c - a /\ \A x \in 1 .. c - a : f[x] = LoopEntry(i, a + x - 1)
  <2>1. a <= c
    OBVIOUS
  <2> QED
    BY <2>1, EntriesFacts, Zenon
<1> HIDE DEF e, f
<1>3. e \o t \in Seq(TraceEntry) /\ Len(e \o t) = c - a
      /\ \A x \in 1 .. c - a : (e \o t)[x] = IF x <= b - a THEN e[x] ELSE t[x - (b - a)]
  <2>1. Len(e) + Len(t) = c - a /\ Len(e) = b - a
    BY <1>1
  <2>2. /\ e \o t \in Seq(TraceEntry) /\ Len(e \o t) = Len(e) + Len(t)
        /\ \A x \in 1 .. Len(e) + Len(t) : (e \o t)[x] = IF x <= Len(e) THEN e[x] ELSE t[x - Len(e)]
    BY <1>1, ConcatProperties
  <2> QED
    BY <2>1, <2>2, Zenon
<1>4. ASSUME NEW x \in 1 .. c - a PROVE (e \o t)[x] = f[x]
  <2>1. CASE x <= b - a
    BY <1>1, <1>2, <1>3, <2>1
  <2>2. CASE ~(x <= b - a)
    <3> DEFINE y == x - (b - a)
    <3>1. y \in 1 .. c - b /\ b + y - 1 = a + x - 1
      BY <2>2
    <3>2. (e \o t)[x] = t[y]
      BY <1>3, <2>2
    <3> HIDE DEF y
    <3>3. t[y] = LoopEntry(i, b + y - 1)
      BY <3>1
    <3> QED
      BY <1>2, <3>1, <3>2, <3>3
  <2> QED
    BY <2>1, <2>2
<1>5. e \o t = f
  <2>1. Len(e \o t) = Len(f) /\ \A x \in 1 .. Len(e \o t) : (e \o t)[x] = f[x]
    BY <1>2, <1>3, <1>4
  <2> QED
    BY <1>2, <1>3, <2>1, SeqEqual
<1> QED
  BY <1>5 DEF e, f

\* An inner loop: the repetitions of one instruction.
LEMMA MoreInner ==
  ASSUME CoreInv, NEW i \in 1 .. Len(program), program[i].kind = "frep", ~program[i].is_streamctl,
         ~program[i].is_outer, NEW k \in Nat,
         NEW t, t = [x \in 1 .. program[i].max_rpt + 1 |-> Entry(i + 1 + k, x - 1, k)]
  PROVE  /\ t \in Seq(TraceEntry) /\ Len(t) = program[i].max_rpt + 1
         /\ \A x \in 1 .. program[i].max_rpt + 1 : t[x] = LoopEntry(i, k * (program[i].max_rpt + 1) + x - 1)
<1> DEFINE r == program[i].max_rpt + 1
<1>1. i \in Nat /\ r \in Nat /\ 0 < r
  BY LoopNumbers
<1>2. \A x \in 1 .. r : Entry(i + 1 + k, x - 1, k) \in TraceEntry
  <2>1. \A x \in 1 .. r : x - 1 \in Nat
    BY <1>1
  <2>2. i + 1 + k \in Nat /\ k \in Int
    BY <1>1
  <2> QED
    BY <2>1, <2>2 DEF Entry, TraceEntry
<1>3. t = [x \in 1 .. r |-> Entry(i + 1 + k, x - 1, k)]
  OBVIOUS
<1>4. ASSUME NEW x \in 1 .. r PROVE t[x] = LoopEntry(i, k * r + x - 1)
  <2> DEFINE y == x - 1
             j == k * r + x - 1
  <2>1. y \in Nat /\ y < r
    BY <1>1
  <2>2. k * r \in Nat
    BY <1>1
  <2>3. j = y + k * r /\ j \in Nat
    BY <1>1, <2>2
  <2>4. j % r = y /\ j \div r = k
    <3> HIDE DEF r, y, j
    <3>1. (y + k * r) % r = y /\ (y + k * r) \div r = k
      BY <1>1, <2>1, DivModUnique
    <3> QED
      BY <2>3, <3>1, Zenon
  <2> HIDE DEF j
  <2>5. LoopEntry(i, j) = Entry(i + 1 + (j \div r), j % r, j \div r)
    BY <2>3, LoopEntryFacts
  <2>6. t[x] = Entry(i + 1 + k, y, k)
    BY <1>3, Zenon
  <2> HIDE DEF y, r
  <2>7. t[x] = LoopEntry(i, j)
    BY <2>4, <2>5, <2>6, Zenon
  <2> QED
    BY <2>7 DEF j, r
<1>5. t \in [1 .. r -> TraceEntry]
  BY <1>2, <1>3, Zenon
<1> HIDE DEF r
<1>6. t \in Seq(TraceEntry) /\ Len(t) = r
  BY <1>1, <1>5, FunctionSeq
<1> QED
  BY <1>4, <1>6, Zenon DEF r

\* An outer loop: the first repetition of an instruction.
LEMMA MoreOuter ==
  ASSUME CoreInv, NEW i \in 1 .. Len(program), program[i].kind = "frep", ~program[i].is_streamctl,
         program[i].is_outer, NEW k \in Nat, k <= program[i].max_inst
  PROVE  /\ Entry(i + 1 + k, 0, k) \in TraceEntry /\ Entry(i + 1 + k, 0, k) = LoopEntry(i, k)
<1> DEFINE n == program[i].max_inst
<1>1. i \in Nat /\ n \in Nat
  BY LoopNumbers
<1>2. k % (n + 1) = k /\ k \div (n + 1) = 0
  <2>1. k <= n
    OBVIOUS
  <2> HIDE DEF n
  <2> QED
    BY <1>1, <2>1, DivNext
<1>3. LoopEntry(i, k) = Entry(i + 1 + (k % (n + 1)), k \div (n + 1), k % (n + 1)) /\ LoopEntry(i, k) \in TraceEntry
  BY LoopEntryFacts
<1>4. LoopEntry(i, k) = Entry(i + 1 + k, 0, k)
  BY <1>2, <1>3, Zenon
<1> QED
  BY <1>3, <1>4, Zenon

\* The later repetitions of its whole body.
LaterEntries(i, body) ==
    [j \in 1 .. (program[i].max_inst + 1) * program[i].max_rpt |->
        Entry(body[((j - 1) % (program[i].max_inst + 1)) + 1], ((j - 1) \div (program[i].max_inst + 1)) + 1,
              (j - 1) % (program[i].max_inst + 1))]

LEMMA MoreLast ==
  ASSUME CoreInv, NEW i \in 1 .. Len(program), program[i].kind = "frep", ~program[i].is_streamctl,
         program[i].is_outer,
         NEW body, body = Places(i + 1, i + 1 + (program[i].max_inst + 1))
  PROVE  /\ LaterEntries(i, body) \in Seq(TraceEntry)
         /\ Len(LaterEntries(i, body)) = (program[i].max_inst + 1) * program[i].max_rpt
         /\ \A j \in 1 .. (program[i].max_inst + 1) * program[i].max_rpt :
                LaterEntries(i, body)[j] = LoopEntry(i, (program[i].max_inst + 1) + (j - 1))
<1> DEFINE n == program[i].max_inst + 1
           m == program[i].max_rpt
           g == n * m
           t == LaterEntries(i, body)
<1>1. i \in Nat /\ n \in Nat \ {0} /\ m \in Nat
  BY LoopNumbers
<1>2. g \in Nat
  BY <1>1
<1>3. \A x \in 1 .. n : body[x] = i + x
  <2>1. i + 1 \in Nat /\ i + 1 + n \in Nat /\ i + 1 <= i + 1 + n /\ (i + 1 + n) - (i + 1) = n
    BY <1>1
  <2>2. \A x \in 1 .. (i + 1 + n) - (i + 1) : body[x] = (i + 1) + x - 1
    <3> DEFINE c == i + 1
               q == i + 1 + n
    <3>1. body = Places(c, q)
      BY Zenon
    <3>2. c \in Nat /\ q \in Nat /\ c <= q
      BY <2>1
    <3> HIDE DEF n, c, q
    <3>3. \A x \in 1 .. q - c : Places(c, q)[x] = c + x - 1
      BY <3>2, PlacesFacts
    <3> QED
      BY <3>1, <3>3, Zenon DEF c, q
  <2>3. \A x \in 1 .. n : (i + 1) + x - 1 = i + x
    BY <1>1
  <2> QED
    BY <2>1, <2>2, <2>3, Zenon
<1>4. t = [j \in 1 .. g |-> Entry(body[((j - 1) % n) + 1], ((j - 1) \div n) + 1, (j - 1) % n)]
  BY Zenon DEF LaterEntries
<1>5. ASSUME NEW j \in 1 .. g PROVE t[j] = LoopEntry(i, n + (j - 1)) /\ t[j] \in TraceEntry
  <2> DEFINE y == j - 1
             a == y % n
             q == y \div n
             z == n + y
  <2>1. y \in Nat /\ z \in Nat
    BY <1>1, <1>2
  <2>2. a \in 0 .. n - 1 /\ q \in Nat /\ y = a + q * n
    <3> HIDE DEF n, y
    <3> QED
      BY <1>1, <2>1, DivModSplit
  <2>3. t[j] = Entry(body[a + 1], q + 1, a)
    BY <1>4, Zenon
  <2> HIDE DEF n, g, y, a, q, t
  <2>4. z = a + (q + 1) * n
    <3>1. (q + 1) * n = q * n + n /\ q * n \in Nat
      BY <1>1, <2>2
    <3> QED
      BY <1>1, <2>1, <2>2, <3>1
  <2>5. z % n = a /\ z \div n = q + 1
    <3>1. a \in Nat /\ a < n /\ n \in Nat /\ q + 1 \in Nat
      BY <1>1, <2>2
    <3>2. (a + (q + 1) * n) % n = a /\ (a + (q + 1) * n) \div n = q + 1
      BY <3>1, DivModUnique
    <3> QED
      BY <2>4, <3>2, Zenon
  <2>6. LoopEntry(i, z) = Entry(i + 1 + (z % n), z \div n, z % n) /\ LoopEntry(i, z) \in TraceEntry
    BY <2>1, LoopEntryFacts DEF n
  <2>7. body[a + 1] = i + 1 + a
    <3>1. a + 1 \in 1 .. n /\ i + (a + 1) = i + 1 + a
      BY <1>1, <2>2
    <3> QED
      BY <1>3, <3>1
  <2>8. t[j] = LoopEntry(i, z) /\ t[j] \in TraceEntry
    BY <2>3, <2>5, <2>6, <2>7, Zenon
  <2> QED
    BY <2>8 DEF y
<1> HIDE DEF t
<1>6. t \in [1 .. g -> TraceEntry]
  BY <1>4, <1>5, Zenon
<1> HIDE DEF n, m, g
<1>7. t \in Seq(TraceEntry) /\ Len(t) = g
  BY <1>2, <1>6, FunctionSeq
<1> QED
  BY <1>5, <1>7, Zenon DEF n, m, g, t

\* The next instruction of the body is consumed.
LEMMA FillWorked ==
  ASSUME CoreInv, NEW i \in 1 .. Len(program), program[i].kind = "frep", ~program[i].is_streamctl,
         NEW k \in Nat, k <= program[i].max_inst
  PROVE  /\ Fill(Buffer(i, k, k), i + 1 + k) = Buffer(i, k + 1, k)
         /\ k < Filled(i, k + 1) /\ Filled(i, k + 1) \in Nat
<1> DEFINE n == program[i].max_inst
           m == program[i].max_rpt
           l == Buffer(i, k, k)
           p == i + 1 + k
           body == Places(i + 1, i + 1 + (k + 1))
           inner == [x \in 1 .. m + 1 |-> Entry(p, x - 1, k)]
           first == Entry(p, 0, k)
           later == LaterEntries(i, body)
           more == IF ~program[i].is_outer THEN inner
                   ELSE <<first>> \o (IF k < n THEN <<>> ELSE later)
           a == Filled(i, k)
           b == Filled(i, k + 1)
<1>1. i \in Nat \ {0} /\ n \in Nat /\ m \in Nat /\ program[i].is_outer \in BOOLEAN /\ k <= n
  BY LoopNumbers
<1>2. /\ l.frep = i /\ l.inst_iter = k /\ l.fpss_buf = Entries(i, k, a) /\ l.outer_buf = Places(i + 1, i + 1 + k)
      /\ l = [frep |-> i, inst_iter |-> k, fpss_buf |-> Entries(i, k, a), outer_buf |-> Places(i + 1, i + 1 + k)]
  <2> DEFINE e == Entries(i, k, a)
             o == Places(i + 1, i + 1 + k)
  <2>1. l = [frep |-> i, inst_iter |-> k, fpss_buf |-> e, outer_buf |-> o]
    BY Zenon DEF Buffer
  <2> HIDE DEF l, e, o
  <2>2. l.frep = i /\ l.inst_iter = k /\ l.fpss_buf = e /\ l.outer_buf = o
    BY <2>1
  <2> QED
    BY <2>1, <2>2 DEF e, o
<1>3. Append(l.outer_buf, p) = body
  <2> DEFINE c == i + 1
             q == i + 1 + k
  <2>1. c \in Nat /\ q \in Nat /\ c <= q
    BY <1>1
  <2>2. i + 1 + (k + 1) = q + 1
    BY <1>1
  <2> HIDE DEF c, q, l
  <2>3. Append(Places(c, q), q) = Places(c, q + 1)
    BY <2>1, PlacesFacts
  <2> QED
    BY <1>2, <2>2, <2>3, Zenon DEF c, q
<1>4. Cfg(l) = program[i]
  BY <1>2, Zenon DEF Cfg
<1>5. Fill(l, p) = [l EXCEPT !.inst_iter = l.inst_iter + 1, !.fpss_buf = l.fpss_buf \o more, !.outer_buf = body]
  <2> HIDE DEF l, body
  <2> QED
    BY <1>2, <1>3, <1>4, Zenon DEF Fill, LaterEntries
<1>6. /\ k <= a /\ a <= b /\ k < b /\ a \in Nat /\ b \in Nat
      /\ more \in Seq(TraceEntry) /\ Len(more) = b - a /\ \A x \in 1 .. b - a : more[x] = LoopEntry(i, a + x - 1)
  <2>1. CASE ~program[i].is_outer
    <3> DEFINE r == m + 1
    <3>0. r \in Nat /\ r = 1 + m
      BY <1>1
    <3>1. a = k * r /\ b = (k + 1) * r
      BY <2>1, Zenon DEF Filled
    <3>2. inner \in Seq(TraceEntry) /\ Len(inner) = r /\ \A x \in 1 .. r : inner[x] = LoopEntry(i, k * r + x - 1)
      BY <2>1, MoreInner, Zenon
    <3>3. more = inner
      BY <2>1, Zenon
    <3> HIDE DEF inner, more, a, b, r, m
    <3>4. k * r \in Nat /\ (k + 1) * r = k * r + r
      BY <3>0
    <3>5. k * r = k + k * m /\ k * m \in Nat
      BY <1>1, <3>0
    <3>6. k <= a /\ a <= b /\ k < b /\ a \in Nat /\ b \in Nat /\ b - a = r
      BY <1>1, <3>0, <3>1, <3>4, <3>5
    <3> QED
      BY <3>1, <3>2, <3>3, <3>6, Zenon
  <2>2. CASE program[i].is_outer /\ k < n
    <3>1. k + 1 <= n
      BY <1>1, <2>2
    <3>2. a = k /\ b = k + 1
      BY <1>1, <2>2, <3>1, Zenon DEF Filled
    <3>3. first \in TraceEntry /\ first = LoopEntry(i, k)
      BY <1>1, <2>2, MoreOuter, Zenon
    <3>4. more = <<first>> \o <<>>
      BY <2>2, Zenon
    <3> HIDE DEF first, more, a, b
    <3>5. more = <<first>> /\ more \in Seq(TraceEntry)
      BY <3>3, <3>4
    <3>6. Len(more) = 1 /\ more[1] = first
      BY <3>5
    <3>7. \A x \in 1 .. b - a : x = 1 /\ a + x - 1 = k
      BY <3>2
    <3>8. \A x \in 1 .. b - a : more[x] = LoopEntry(i, a + x - 1)
      BY <3>3, <3>6, <3>7, Zenon
    <3> QED
      BY <3>2, <3>5, <3>6, <3>8
  <2>3. CASE program[i].is_outer /\ ~(k < n)
    <3>1. k = n /\ ~(k + 1 <= n)
      BY <1>1, <2>3
    <3>2. a = n /\ b = (n + 1) * (m + 1)
      BY <1>1, <2>3, <3>1, Zenon DEF Filled
    <3>3. first \in TraceEntry /\ first = LoopEntry(i, k)
      BY <1>1, <2>3, MoreOuter, Zenon
    <3> DEFINE g == (n + 1) * m
    <3>4. later \in Seq(TraceEntry) /\ Len(later) = g /\ \A j \in 1 .. g : later[j] = LoopEntry(i, (n + 1) + (j - 1))
      <4>1. body = Places(i + 1, i + 1 + (n + 1))
        BY <3>1, Zenon
      <4> HIDE DEF body
      <4> HIDE DEF body
      <4> QED
        BY <2>3, <4>1, MoreLast, Zenon
    <3>5. more = <<first>> \o later
      BY <2>3, Zenon
    <3> HIDE DEF first, later, more, a, b, g, n, m
    <3>6. <<first>> \in Seq(TraceEntry) /\ Len(<<first>>) = 1 /\ <<first>>[1] = first
      BY <3>3
    <3>7. g \in Nat /\ (n + 1) * (m + 1) = g + (n + 1)
      BY <1>1 DEF g
    <3>8. more \in Seq(TraceEntry) /\ Len(more) = 1 + g
          /\ \A x \in 1 .. 1 + g : more[x] = IF x <= 1 THEN <<first>>[x] ELSE later[x - 1]
      <4>1. /\ <<first>> \o later \in Seq(TraceEntry) /\ Len(<<first>> \o later) = Len(<<first>>) + Len(later)
            /\ \A x \in 1 .. Len(<<first>>) + Len(later) :
                   (<<first>> \o later)[x] = IF x <= Len(<<first>>) THEN <<first>>[x] ELSE later[x - Len(<<first>>)]
        BY <3>4, <3>6, ConcatProperties
      <4> QED
        BY <3>4, <3>5, <3>6, <4>1, Zenon
    <3>9. b - a = 1 + g /\ a <= b /\ k <= a /\ k < b /\ a \in Nat /\ b \in Nat
      BY <1>1, <3>1, <3>2, <3>7
    <3>10. ASSUME NEW x \in 1 .. 1 + g PROVE more[x] = LoopEntry(i, a + x - 1)
      <4>1. CASE x = 1
        <5>1. a + 1 - 1 = k
          BY <1>1, <3>1, <3>2
        <5> QED
          BY <3>3, <3>6, <3>8, <4>1, <5>1
      <4>2. CASE x # 1
        <5>1. x - 1 \in 1 .. g /\ ~(x <= 1) /\ (n + 1) + ((x - 1) - 1) = a + x - 1
          BY <1>1, <3>2, <3>7, <4>2
        <5>2. more[x] = later[x - 1]
          BY <3>8, <5>1, Zenon
        <5> DEFINE y == x - 1
        <5>3. y \in 1 .. g /\ (n + 1) + (y - 1) = a + x - 1 /\ more[x] = later[y]
          BY <5>1, <5>2
        <5> HIDE DEF y
        <5>4. later[y] = LoopEntry(i, (n + 1) + (y - 1))
          BY <3>4, <5>3, Zenon
        <5> QED
          BY <5>3, <5>4, Zenon
      <4> QED
        BY <4>1, <4>2
    <3> QED
      BY <3>8, <3>9, <3>10, Zenon
  <2> QED
    BY <1>1, <2>1, <2>2, <2>3
<1>7. Entries(i, k, a) \o more = Entries(i, k, b)
  <2> HIDE DEF more, a, b
  <2> QED
    BY <1>6, EntriesJoined, Zenon
<1>8. Fill(l, p) = [frep |-> i, inst_iter |-> k + 1, fpss_buf |-> Entries(i, k, b), outer_buf |-> body]
  <2> DEFINE e == Entries(i, k, a)
             o == Places(i + 1, i + 1 + k)
             f == Entries(i, k, b)
             z == k + 1
  <2>1. Fill(l, p) = [l EXCEPT !.inst_iter = z, !.fpss_buf = f, !.outer_buf = body]
    <3> HIDE DEF l, body, more
    <3> QED
      BY <1>2, <1>5, <1>7, Zenon
  <2>2. l = [frep |-> i, inst_iter |-> k, fpss_buf |-> e, outer_buf |-> o]
    BY <1>2, Zenon
  <2> HIDE DEF l, body, e, f, o, z
  <2>3. Fill(l, p) = [frep |-> i, inst_iter |-> z, fpss_buf |-> f, outer_buf |-> body]
    BY <2>1, <2>2
  <2> QED
    BY <2>3, Zenon DEF f, z
<1>9. Fill(l, p) = Buffer(i, k + 1, k)
  BY <1>8, Zenon DEF Buffer
<1> QED
  BY <1>6, <1>9, Zenon

\* The last entry is that of the last instruction in the last repetition.
LEMMA LastEntry ==
  ASSUME CoreInv, NEW i \in 1 .. Len(program), program[i].kind = "frep", ~program[i].is_streamctl,
         NEW k \in Nat, NEW l, l.frep = i
  PROVE  Ends(l, LoopEntry(i, k)) <=> k + 1 = Size(program, i)
<1> DEFINE n == program[i].max_inst
           m == program[i].max_rpt
           g == Size(program, i)
<1>1. n \in Nat /\ m \in Nat /\ program[i].is_outer \in BOOLEAN /\ g = (n + 1) * (m + 1)
  BY LoopNumbers
<1>2. Ends(l, LoopEntry(i, k)) <=> LoopEntry(i, k).rep = m /\ LoopEntry(i, k).idx = n
  BY Zenon DEF Ends, Cfg
<1>3. ASSUME NEW x \in Nat, NEW y \in Nat
      PROVE  k % (x + 1) = x /\ k \div (x + 1) = y <=> k + 1 = (x + 1) * (y + 1)
  <2> DEFINE d == x + 1
  <2>1. d \in Nat \ {0} /\ x \in Nat /\ x < d
    OBVIOUS
  <2>2. k % d \in 0 .. d - 1 /\ k \div d \in Nat /\ k = (k % d) + (k \div d) * d
    <3> HIDE DEF d
    <3> QED
      BY <2>1, DivModSplit
  <2>3. (x + y * d) % d = x /\ (x + y * d) \div d = y
    <3> HIDE DEF d
    <3> QED
      BY <2>1, DivModUnique
  <2>4. d * (y + 1) = y * d + d /\ y * d \in Nat
    <3> HIDE DEF d
    <3> QED
      BY <2>1
  <2>5. k + 1 = d * (y + 1) <=> k = x + y * d
    <3> DEFINE w == y * d
               v == d * (y + 1)
    <3>1. w \in Nat /\ v = w + x + 1
      BY <2>4
    <3> HIDE DEF w, v, d
    <3>2. k + 1 = v <=> k = x + w
      BY <3>1
    <3> QED
      BY <3>2 DEF w, v
  <2> HIDE DEF d
  <2>6. k % d = x /\ k \div d = y => k = x + y * d
    BY <2>2, Zenon
  <2>7. k = x + y * d => k % d = x /\ k \div d = y
    BY <2>3, Zenon
  <2>8. k % d = x /\ k \div d = y <=> k + 1 = d * (y + 1)
    BY <2>5, <2>6, <2>7, Zenon
  <2> QED
    BY <2>8 DEF d
<1>4. CASE program[i].is_outer
  <2> DEFINE a == k % (n + 1)
             q == k \div (n + 1)
             p == i + 1 + a
  <2>1. LoopEntry(i, k) = Entry(p, q, a)
    BY <1>4, LoopEntryFacts, Zenon
  <2>2. a = n /\ q = m <=> k + 1 = g
    <3>1. a = n /\ q = m <=> k + 1 = (n + 1) * (m + 1)
      BY <1>1, <1>3, Zenon
    <3> QED
      BY <1>1, <3>1, Zenon
  <2> HIDE DEF a, q, p
  <2>3. LoopEntry(i, k).rep = q /\ LoopEntry(i, k).idx = a
    BY <2>1 DEF Entry
  <2> QED
    BY <1>2, <2>2, <2>3, Zenon
<1>5. CASE ~program[i].is_outer
  <2> DEFINE a == k % (m + 1)
             q == k \div (m + 1)
             p == i + 1 + q
  <2>1. LoopEntry(i, k) = Entry(p, a, q)
    BY <1>5, LoopEntryFacts, Zenon
  <2>2. a = m /\ q = n <=> k + 1 = g
    <3>1. (m + 1) * (n + 1) = g
      <4> HIDE DEF n, m, g
      <4> QED
        BY <1>1
    <3>2. a = m /\ q = n <=> k + 1 = (m + 1) * (n + 1)
      BY <1>1, <1>3, Zenon
    <3> QED
      BY <3>1, <3>2, Zenon
  <2> HIDE DEF a, q, p
  <2>3. LoopEntry(i, k).rep = a /\ LoopEntry(i, k).idx = q
    BY <2>1 DEF Entry
  <2> QED
    BY <1>2, <2>2, <2>3, Zenon
<1> QED
  BY <1>1, <1>4, <1>5

-----------------------------------------------------------------------------
(* A cycle of the trace script.                                            *)

\* The issue belongs to the loop that begins at the oldest place, and the loop
\* takes the next instruction of its body.
Begins(pcs) == loop = NoLoop /\ pcs # <<>> /\ program[Head(pcs)].kind = "frep"
Fills(l) == l # NoLoop /\ l.inst_iter <= Cfg(l).max_inst

\* What is issued of the state l of the loop, with the places rest offloaded.
Emulated(l, rest) ==
    \/ l # NoLoop /\ ~Fills(l) /\ Pull(l, rest)
    \/ Fills(l) /\ rest # <<>> /\ Pull(Fill(l, Head(rest)), Tail(rest))
    \/ /\ l = NoLoop /\ rest # <<>>
       /\ fpss_pcs' = Tail(rest)
       /\ traced' = Append(traced, Regular(Head(rest)))
       /\ UNCHANGED <<loop, crashed>>
    \/ /\ rest = <<>> /\ (Fills(l) \/ l = NoLoop)
       /\ crashed' = TRUE
       /\ UNCHANGED <<fpss_pcs, loop, traced>>

LEMMA EmulCases ==
  ASSUME NEW pcs, emul_seq(pcs)
  PROVE  /\ ~Begins(pcs) => Emulated(loop, pcs)
         /\ Begins(pcs) => Emulated([frep |-> Head(pcs), inst_iter |-> 0, fpss_buf |-> <<>>, outer_buf |-> <<>>],
                                    Tail(pcs))
<1>1. ASSUME ~Begins(pcs) PROVE Emulated(loop, pcs)
  BY <1>1, Zenon DEF emul_seq, Begins, Fills, Emulated
<1>2. ASSUME Begins(pcs)
      PROVE  Emulated([frep |-> Head(pcs), inst_iter |-> 0, fpss_buf |-> <<>>, outer_buf |-> <<>>], Tail(pcs))
  BY <1>2, Zenon DEF emul_seq, Begins, Fills, Emulated
<1> QED
  BY <1>1, <1>2

\* An instruction outside a loop.
LEMMA TracePlain ==
  ASSUME NEW i \in Nat, NEW q \in Nat, i < q, program[i].kind # "frep", loop = NoLoop,
         emul_seq(Places(i, q))
  PROVE  /\ traced' = Append(traced, Regular(i)) /\ fpss_pcs' = Places(i + 1, q)
         /\ loop' = loop /\ crashed' = crashed
<1>0. PICK pcs : pcs = Places(i, q)
  OBVIOUS
<1>1. pcs # <<>> /\ Head(pcs) = i /\ Tail(pcs) = Places(i + 1, q)
  <2>1. i <= q /\ i # q
    OBVIOUS
  <2> QED
    BY <1>0, <2>1, PlacesFacts
<1>2. Emulated(loop, pcs)
  <2>1. ~Begins(pcs)
    BY <1>1 DEF Begins
  <2>2. emul_seq(pcs)
    BY <1>0, Zenon
  <2> QED
    BY <2>1, <2>2, EmulCases
<1>3. ~Fills(loop)
  BY DEF Fills
<1> QED
  BY <1>1, <1>2, <1>3 DEF Emulated

\* A loop is not no loop.
LEMMA BufferFields ==
  ASSUME NEW i \in Nat \ {0}, NEW m, NEW k
  PROVE  /\ Buffer(i, m, k) # NoLoop /\ Buffer(i, m, k).frep = i /\ Buffer(i, m, k).inst_iter = m
         /\ Buffer(i, m, k).fpss_buf = Entries(i, k, Filled(i, m))
         /\ Cfg(Buffer(i, m, k)) = program[i]
<1> DEFINE l == Buffer(i, m, k)
           e == Entries(i, k, Filled(i, m))
           o == Places(i + 1, i + 1 + m)
<1>1. l = [frep |-> i, inst_iter |-> m, fpss_buf |-> e, outer_buf |-> o]
  BY Zenon DEF Buffer
<1> HIDE DEF l, e, o
<1>2. l.frep = i /\ l.inst_iter = m /\ l.fpss_buf = e
  BY <1>1
<1>3. NoLoop.frep = 0
  BY DEF NoLoop
<1>4. l # NoLoop
  BY <1>2, <1>3
<1>5. Cfg(l) = program[i]
  BY <1>2, Zenon DEF Cfg
<1> QED
  BY <1>2, <1>4, <1>5 DEF l, e

\* An entry is pulled from the loop's buffer.
LEMMA PullWorked ==
  ASSUME CoreInv, NEW i \in 1 .. Len(program), program[i].kind = "frep", ~program[i].is_streamctl,
         NEW k \in Nat, NEW m, Filled(i, m) \in Nat, k < Filled(i, m), NEW pcs, Pull(Buffer(i, m, k), pcs)
  PROVE  /\ fpss_pcs' = pcs /\ crashed' = crashed /\ traced' = Append(traced, LoopEntry(i, k))
         /\ loop' = IF k + 1 = Size(program, i) THEN NoLoop ELSE Buffer(i, m, k + 1)
<1> DEFINE l == Buffer(i, m, k)
           b == Filled(i, m)
           e == Entries(i, k, b)
           o == Places(i + 1, i + 1 + m)
           t == Entries(i, k + 1, b)
<1>1. i \in Nat \ {0}
  BY LoopNumbers
<1>2. l = [frep |-> i, inst_iter |-> m, fpss_buf |-> e, outer_buf |-> o] /\ l.fpss_buf = e /\ l.frep = i
  BY <1>1, BufferFields, Zenon DEF Buffer
<1>3. Head(e) = LoopEntry(i, k) /\ Tail(e) = t
  <2> HIDE DEF b
  <2> QED
    BY EntriesPulled DEF b
<1>4. /\ fpss_pcs' = pcs /\ traced' = Append(traced, Head(l.fpss_buf)) /\ UNCHANGED crashed
      /\ loop' = IF Ends(l, Head(l.fpss_buf)) THEN NoLoop ELSE [l EXCEPT !.fpss_buf = Tail(l.fpss_buf)]
  <2> HIDE DEF l
  <2>1. Pull(l, pcs)
    BY DEF l
  <2> QED
    BY <2>1, Zenon DEF Pull
<1>5. Ends(l, LoopEntry(i, k)) <=> k + 1 = Size(program, i)
  <2> HIDE DEF l
  <2> QED
    BY <1>2, LastEntry
<1>6. [l EXCEPT !.fpss_buf = Tail(l.fpss_buf)] = Buffer(i, m, k + 1)
  <2>1. Buffer(i, m, k + 1) = [frep |-> i, inst_iter |-> m, fpss_buf |-> t, outer_buf |-> o]
    BY Zenon DEF Buffer
  <2>2. Tail(l.fpss_buf) = t
    BY <1>2, <1>3, Zenon
  <2>3. [l EXCEPT !.fpss_buf = Tail(l.fpss_buf)] = [l EXCEPT !.fpss_buf = t]
    BY <2>2, Zenon
  <2>4. l = [frep |-> i, inst_iter |-> m, fpss_buf |-> e, outer_buf |-> o]
    BY <1>2, Zenon
  <2> HIDE DEF l, e, o, t
  <2>5. [l EXCEPT !.fpss_buf = t] = [frep |-> i, inst_iter |-> m, fpss_buf |-> t, outer_buf |-> o]
    BY <2>4
  <2> QED
    BY <2>1, <2>3, <2>5, Zenon
<1> HIDE DEF l
<1> QED
  BY <1>2, <1>3, <1>4, <1>5, <1>6, Zenon

\* A loop that begins has an empty buffer.
LEMMA EmptyBuffer ==
  ASSUME CoreInv, NEW i \in 1 .. Len(program), program[i].kind = "frep", ~program[i].is_streamctl
  PROVE  Buffer(i, 0, 0) = [frep |-> i, inst_iter |-> 0, fpss_buf |-> <<>>, outer_buf |-> <<>>]
<1>1. i \in Nat \ {0} /\ program[i].max_inst \in Nat /\ program[i].max_rpt \in Nat
  BY LoopNumbers
<1>2. Filled(i, 0) = 0
  <2>1. 0 * (program[i].max_rpt + 1) = 0 /\ 0 <= program[i].max_inst
    BY <1>1
  <2> QED
    BY <2>1, Zenon DEF Filled
<1>3. Entries(i, 0, 0) = <<>>
  <2>1. 0 \in Nat /\ 0 <= 0 /\ 0 - 0 = 0
    OBVIOUS
  <2>2. Entries(i, 0, 0) \in Seq(TraceEntry) /\ Len(Entries(i, 0, 0)) = 0
    BY <2>1, EntriesFacts, Zenon
  <2> QED
    BY <2>2, EmptySeq
<1>4. Places(i + 1, i + 1 + 0) = <<>>
  <2>1. i + 1 \in Nat /\ i + 1 + 0 = i + 1 /\ i + 1 <= i + 1
    BY <1>1
  <2>2. Places(i + 1, i + 1) = <<>>
    BY <2>1, PlacesFacts
  <2> QED
    BY <2>1, <2>2, Zenon
<1> QED
  BY <1>2, <1>3, <1>4, Zenon DEF Buffer

\* The state of the script for the next issue of a loop, which begins with the first.
LEMMA TraceBegun ==
  ASSUME CoreInv, NEW i \in 1 .. Len(program), program[i].kind = "frep", ~program[i].is_streamctl,
         NEW k \in Nat, NEW q \in Nat, i < q,
         loop = (IF k = 0 THEN NoLoop ELSE Buffer(i, Worked(i, k), k)),
         Unconsumed(i, k) <= q, emul_seq(Places(Unconsumed(i, k), q))
  PROVE  /\ Worked(i, k) \in Nat /\ i + 1 + Worked(i, k) <= q
         /\ Emulated(Buffer(i, Worked(i, k), k), Places(i + 1 + Worked(i, k), q))
<1>1. i \in Nat \ {0} /\ program[i].max_inst \in Nat
  BY LoopNumbers
<1>2. Worked(i, k) \in Nat /\ (k = 0 => Worked(i, k) = 0)
  BY <1>1 DEF Worked
<1>3. CASE k = 0
  <2>1. Unconsumed(i, k) = i /\ loop = NoLoop
    BY <1>3, Zenon DEF Unconsumed
  <2>2. PICK pcs : pcs = Places(i, q)
    OBVIOUS
  <2>3. pcs # <<>> /\ Head(pcs) = i /\ Tail(pcs) = Places(i + 1, q)
    <3>1. i <= q /\ i # q
      BY <1>1
    <3> QED
      BY <1>1, <2>2, <3>1, PlacesFacts
  <2>4. Begins(pcs)
    BY <2>1, <2>3 DEF Begins
  <2>5. emul_seq(pcs)
    BY <2>1, <2>2, Zenon
  <2>6. Emulated([frep |-> Head(pcs), inst_iter |-> 0, fpss_buf |-> <<>>, outer_buf |-> <<>>], Tail(pcs))
    BY <2>4, <2>5, EmulCases
  <2>7. Emulated(Buffer(i, 0, 0), Places(i + 1, q))
    BY <2>3, <2>6, EmptyBuffer, Zenon
  <2>8. i + 1 + Worked(i, k) = i + 1
    BY <1>1, <1>2, <1>3
  <2>9. i + 1 + Worked(i, k) <= q
    BY <1>1, <2>8
  <2> QED
    BY <1>2, <1>3, <2>7, <2>8, <2>9, Zenon
<1>4. CASE k # 0
  <2>1. Unconsumed(i, k) = i + 1 + Worked(i, k) /\ loop = Buffer(i, Worked(i, k), k)
    BY <1>4, Zenon DEF Unconsumed
  <2>2. loop # NoLoop
    BY <1>1, <2>1, BufferFields
  <2>3. PICK pcs : pcs = Places(i + 1 + Worked(i, k), q)
    OBVIOUS
  <2>4. ~Begins(pcs) /\ emul_seq(pcs)
    BY <2>1, <2>2, <2>3, Zenon DEF Begins
  <2>5. Emulated(loop, pcs)
    BY <2>4, EmulCases
  <2>6. i + 1 + Worked(i, k) <= q
    BY <2>1, Zenon
  <2> QED
    BY <1>2, <2>1, <2>3, <2>5, <2>6, Zenon
<1> QED
  BY <1>3, <1>4

\* Only an inner loop that repeats several instructions is issued ahead of what
\* has been offloaded.
LEMMA Ahead ==
  ASSUME CoreInv, NEW i \in 1 .. Len(program), program[i].kind = "frep", ~program[i].is_streamctl,
         NEW k \in Nat, k <= program[i].max_inst, NEW q \in Nat,
         Issued(program, i, k).op < q, ~(i + 1 + k < q)
  PROVE  ~program[i].is_outer /\ program[i].max_inst > 0 /\ program[i].max_rpt > 0
<1> DEFINE n == program[i].max_inst
           m == program[i].max_rpt
<1>1. i \in Nat /\ n \in Nat /\ m \in Nat /\ k <= n
  BY LoopNumbers
<1> HIDE DEF n, m
<1>2. LoopEntry(i, k).op < q
  BY LoopEntryFacts
<1>3. ~program[i].is_outer
  <2> SUFFICES ASSUME program[i].is_outer PROVE FALSE
    OBVIOUS
  <2>1. LoopEntry(i, k) = Entry(i + 1 + k, 0, k)
    BY MoreOuter
  <2>2. LoopEntry(i, k).op = i + 1 + k
    BY <2>1 DEF Entry
  <2> QED
    BY <1>2, <2>2
<1>4. k \div (m + 1) < k /\ k \div (m + 1) \in Nat
  <2> DEFINE a == k \div (m + 1)
             c == k % (m + 1)
             p == i + 1 + a
  <2>1. a \in Nat
    BY <1>1, RemainderType
  <2>2. LoopEntry(i, k) = Entry(p, c, a)
    BY <1>3, LoopEntryFacts, Zenon DEF m
  <2> HIDE DEF a, c, p
  <2>3. LoopEntry(i, k).op = p
    BY <2>2 DEF Entry
  <2>4. p < q
    BY <1>2, <2>3
  <2>5. a < k
    BY <1>1, <2>1, <2>4 DEF p
  <2> QED
    BY <2>1, <2>5 DEF a
<1>5. n > 0
  BY <1>1, <1>4
<1>6. m > 0
  <2> SUFFICES ASSUME m = 0 PROVE FALSE
    BY <1>1
  <2>1. k \div 1 < k
    BY <1>4
  <2> QED
    BY <2>1
<1> QED
  BY <1>3, <1>5, <1>6 DEF n, m

\* The script follows the k-th issue of a loop, or stops.
LEMMA TraceLoop ==
  ASSUME CoreInv, NEW i \in 1 .. Len(program), program[i].kind = "frep", ~program[i].is_streamctl,
         NEW k \in Nat, k < Size(program, i), NEW q \in Nat, i < q,
         loop = (IF k = 0 THEN NoLoop ELSE Buffer(i, Worked(i, k), k)),
         Unconsumed(i, k) <= q, Issued(program, i, k).op < q, emul_seq(Places(Unconsumed(i, k), q))
  PROVE  \/ /\ crashed' = TRUE
            /\ ~program[i].is_outer /\ program[i].max_inst > 0 /\ program[i].max_rpt > 0
         \/ /\ traced' = Append(traced, LoopEntry(i, k)) /\ crashed' = crashed
            /\ fpss_pcs' = Places(i + 1 + Worked(i, k + 1), q) /\ i + 1 + Worked(i, k + 1) <= q
            /\ loop' = IF k + 1 = Size(program, i) THEN NoLoop ELSE Buffer(i, Worked(i, k + 1), k + 1)
<1> DEFINE n == program[i].max_inst
<1>1. i \in Nat \ {0} /\ n \in Nat
  BY LoopNumbers
<1>2. PICK w : w = Worked(i, k)
  OBVIOUS
<1>3. w \in Nat /\ i + 1 + w <= q /\ Emulated(Buffer(i, w, k), Places(i + 1 + w, q))
  BY <1>2, TraceBegun, Zenon
<1>4. PICK l, rest : l = Buffer(i, w, k) /\ rest = Places(i + 1 + w, q)
  OBVIOUS
<1>5. l # NoLoop /\ l.inst_iter = w /\ Cfg(l) = program[i]
  BY <1>1, <1>4, BufferFields
<1>6. rest = <<>> <=> i + 1 + w = q
  <2>1. i + 1 + w \in Nat
    BY <1>1, <1>3
  <2> QED
    BY <1>3, <1>4, <2>1, PlacesFacts
<1>7. Fills(l) <=> w <= n
  BY <1>5, Zenon DEF Fills
<1>8. \/ ~Fills(l) /\ Pull(l, rest)
      \/ Fills(l) /\ rest # <<>> /\ Pull(Fill(l, Head(rest)), Tail(rest))
      \/ rest = <<>> /\ Fills(l) /\ crashed' = TRUE
  BY <1>3, <1>4, <1>5, Zenon DEF Emulated
<1>9. CASE k <= n
  <2>1. w = k /\ Worked(i, k + 1) = k + 1
    <3>1. w = k
      BY <1>2, <1>9, Zenon DEF Worked
    <3>2. CASE k + 1 <= n
      BY <3>1, <3>2, Zenon DEF Worked
    <3>3. CASE ~(k + 1 <= n)
      <4>1. n + 1 = k + 1
        BY <1>1, <1>9, <3>3
      <4> QED
        BY <3>1, <3>3, <4>1, Zenon DEF Worked
    <3> QED
      BY <3>2, <3>3, <3>1
  <2>2. CASE rest = <<>>
    <3>1. ~(i + 1 + k < q)
      BY <1>1, <1>6, <2>1, <2>2
    <3>2. ~program[i].is_outer /\ program[i].max_inst > 0 /\ program[i].max_rpt > 0
      BY <1>9, <3>1, Ahead
    <3>3. crashed' = TRUE
      BY <1>7, <1>8, <1>9, <2>1, <2>2
    <3> QED
      BY <3>2, <3>3
  <2>3. CASE rest # <<>>
    <3>1. Pull(Fill(l, Head(rest)), Tail(rest))
      BY <1>7, <1>8, <1>9, <2>1, <2>3
    <3> DEFINE c == i + 1 + k
    <3>2. c \in Nat /\ c < q /\ c <= q /\ i + 1 + (k + 1) = c + 1 /\ i + 1 + (k + 1) <= q
      BY <1>1, <1>3, <1>6, <2>1, <2>3
    <3>3. rest = Places(c, q)
      BY <1>4, <2>1, Zenon
    <3>4. Head(rest) = c /\ Tail(rest) = Places(c + 1, q)
      <4> HIDE DEF c
      <4> QED
        BY <3>2, <3>3, PlacesFacts
    <3>5. l = Buffer(i, k, k)
      BY <1>4, <2>1, Zenon
    <3>6. Fill(l, c) = Buffer(i, k + 1, k) /\ k < Filled(i, k + 1) /\ Filled(i, k + 1) \in Nat
      BY <1>9, <3>5, FillWorked, Zenon
    <3> HIDE DEF c
    <3>7. Pull(Buffer(i, k + 1, k), Places(c + 1, q))
      BY <3>1, <3>4, <3>6, Zenon
    <3>8. PICK m : m = k + 1
      OBVIOUS
    <3>9. /\ fpss_pcs' = Places(c + 1, q) /\ crashed' = crashed /\ traced' = Append(traced, LoopEntry(i, k))
          /\ loop' = IF k + 1 = Size(program, i) THEN NoLoop ELSE Buffer(i, m, k + 1)
      <4>1. PICK pcs : pcs = Places(c + 1, q)
        OBVIOUS
      <4>2. Pull(Buffer(i, m, k), pcs) /\ Filled(i, m) \in Nat /\ k < Filled(i, m)
        BY <3>6, <3>7, <3>8, <4>1, Zenon
      <4> QED
        BY <4>1, <4>2, PullWorked, Zenon
    <3> QED
      BY <2>1, <3>2, <3>8, <3>9, Zenon
  <2> QED
    BY <2>2, <2>3
<1>10. CASE ~(k <= n)
  <2>1. w = n + 1 /\ Worked(i, k + 1) = w
    <3>1. ~(k + 1 <= n)
      BY <1>1, <1>10
    <3> QED
      BY <1>2, <1>10, <3>1, Zenon DEF Worked
  <2>2. ~Fills(l)
    BY <1>1, <1>7, <2>1
  <2>3. Pull(Buffer(i, w, k), rest)
    BY <1>4, <1>8, <2>2, Zenon
  <2>4. Filled(i, w) = Size(program, i)
    <3>1. Size(program, i) = (program[i].max_inst + 1) * (program[i].max_rpt + 1) /\ ~(w <= program[i].max_inst)
      BY <1>1, <2>1, LoopNumbers
    <3> QED
      BY <2>1, <3>1, Zenon DEF Filled
  <2>5. Filled(i, w) \in Nat /\ k < Filled(i, w)
    BY <2>4, LoopNumbers
  <2>6. /\ fpss_pcs' = rest /\ crashed' = crashed /\ traced' = Append(traced, LoopEntry(i, k))
        /\ loop' = IF k + 1 = Size(program, i) THEN NoLoop ELSE Buffer(i, w, k + 1)
    BY <2>3, <2>5, PullWorked, Zenon
  <2> QED
    BY <1>3, <1>4, <2>1, <2>6, Zenon
<1> QED
  BY <1>9, <1>10

-----------------------------------------------------------------------------
(* How often an instruction has been issued.                               *)

\* The next issue of a loop is one more of its instruction, and is written out
\* with the number of the earlier ones.
LEMMA RepsStep ==
  ASSUME CoreInv, NEW i \in 1 .. Len(program), program[i].kind = "frep", ~program[i].is_streamctl,
         NEW k \in Nat, k < Size(program, i)
  PROVE  /\ LoopEntry(i, k).rep = Reps(i, k, LoopEntry(i, k).op)
         /\ \A p \in Nat : Reps(i, k + 1, p) = Reps(i, k, p) + (IF LoopEntry(i, k).op = p THEN 1 ELSE 0)
<1> DEFINE n == program[i].max_inst
           m == program[i].max_rpt
           o == program[i].is_outer
<1>1. i \in Nat /\ n \in Nat /\ m \in Nat /\ Size(program, i) = (n + 1) * (m + 1)
  BY LoopNumbers
<1>2. CASE o
  <2> DEFINE a == k % (n + 1)
             q == k \div (n + 1)
             a2 == (k + 1) % (n + 1)
             q2 == (k + 1) \div (n + 1)
  <2>1. /\ a \in 0 .. n /\ q \in Nat
        /\ a = n => a2 = 0 /\ q2 = q + 1
        /\ a # n => a2 = a + 1 /\ q2 = q
        /\ k <= n => a = k /\ q = 0
    BY <1>1, DivNext
  <2>2. LoopEntry(i, k).op = i + 1 + a /\ LoopEntry(i, k).rep = q
    <3>1. LoopEntry(i, k) = Entry(i + 1 + a, q, a)
      BY <1>2, LoopEntryFacts
    <3> HIDE DEF a, q
    <3> QED
      BY <3>1 DEF Entry
  <2>3. \A p : Reps(i, k, p) = IF k = 0 \/ p - (i + 1) \notin 0 .. n THEN 0
                               ELSE q + (IF p - (i + 1) < a THEN 1 ELSE 0)
    BY <1>2, Zenon DEF Reps
  <2>4. \A p : Reps(i, k + 1, p) = IF k + 1 = 0 \/ p - (i + 1) \notin 0 .. n THEN 0
                                   ELSE q2 + (IF p - (i + 1) < a2 THEN 1 ELSE 0)
    BY <1>2, Zenon DEF Reps
  <2> HIDE DEF a, q, a2, q2, n, m, o
  <2>5. Reps(i, k, i + 1 + a) = q
    BY <1>1, <2>1, <2>3
  <2>6. ASSUME NEW p \in Nat PROVE Reps(i, k + 1, p) = Reps(i, k, p) + (IF i + 1 + a = p THEN 1 ELSE 0)
    <3> DEFINE s == p - (i + 1)
    <3>1. s \in Int /\ (i + 1 + a = p <=> s = a)
      BY <1>1, <2>1
    <3>2. Reps(i, k, p) = IF k = 0 \/ s \notin 0 .. n THEN 0 ELSE q + (IF s < a THEN 1 ELSE 0)
      BY <2>3, Zenon
    <3>3. Reps(i, k + 1, p) = IF k + 1 = 0 \/ s \notin 0 .. n THEN 0 ELSE q2 + (IF s < a2 THEN 1 ELSE 0)
      BY <2>4, Zenon
    <3> HIDE DEF s
    <3>4. Reps(i, k, p) = IF s \notin 0 .. n THEN 0 ELSE q + (IF s < a THEN 1 ELSE 0)
      BY <1>1, <2>1, <3>1, <3>2
    <3>5. Reps(i, k + 1, p) = IF s \notin 0 .. n THEN 0 ELSE q2 + (IF s < a2 THEN 1 ELSE 0)
      BY <3>3
    <3>6. Reps(i, k + 1, p) = Reps(i, k, p) + (IF s = a THEN 1 ELSE 0)
      <4>1. CASE s \notin 0 .. n
        BY <1>1, <2>1, <3>1, <3>4, <3>5, <4>1
      <4>2. CASE s \in 0 .. n /\ a = n
        BY <1>1, <2>1, <3>1, <3>4, <3>5, <4>2
      <4>3. CASE s \in 0 .. n /\ a # n
        BY <1>1, <2>1, <3>1, <3>4, <3>5, <4>3
      <4> QED
        BY <4>1, <4>2, <4>3
    <3> QED
      BY <3>1, <3>6, Zenon
  <2> QED
    BY <2>2, <2>5, <2>6, Zenon
<1>3. CASE ~o
  <2> DEFINE a == k % (m + 1)
             q == k \div (m + 1)
             a2 == (k + 1) % (m + 1)
             q2 == (k + 1) \div (m + 1)
  <2>1. /\ a \in 0 .. m /\ q \in Nat
        /\ a = m => a2 = 0 /\ q2 = q + 1
        /\ a # m => a2 = a + 1 /\ q2 = q
        /\ k <= m => a = k /\ q = 0
    BY <1>1, DivNext
  <2>2. LoopEntry(i, k).op = i + 1 + q /\ LoopEntry(i, k).rep = a
    <3>1. LoopEntry(i, k) = Entry(i + 1 + q, a, q)
      BY <1>3, LoopEntryFacts
    <3> HIDE DEF a, q
    <3> QED
      BY <3>1 DEF Entry
  <2>3. \A p : Reps(i, k, p) = IF k = 0 \/ p - (i + 1) \notin 0 .. n THEN 0
                               ELSE IF p - (i + 1) < q THEN m + 1 ELSE IF p - (i + 1) = q THEN a ELSE 0
    BY <1>3, Zenon DEF Reps
  <2>4. \A p : Reps(i, k + 1, p) = IF k + 1 = 0 \/ p - (i + 1) \notin 0 .. n THEN 0
                                   ELSE IF p - (i + 1) < q2 THEN m + 1 ELSE IF p - (i + 1) = q2 THEN a2 ELSE 0
    BY <1>3, Zenon DEF Reps
  <2>7. q \in 0 .. n
    <3>1. k = a + q * (m + 1)
      <4>1. m + 1 \in Nat \ {0}
        BY <1>1
      <4> HIDE DEF m
      <4> QED
        BY <4>1, DivModSplit
    <3> HIDE DEF a, q, n, m
    <3>2. ASSUME n < q PROVE FALSE
      <4>1. n + 1 <= q /\ m + 1 \in Nat
        BY <1>1, <2>1, <3>2
      <4>2. (n + 1) * (m + 1) <= q * (m + 1)
        BY <1>1, <2>1, <4>1
      <4>3. q * (m + 1) <= k
        <5>1. q * (m + 1) \in Nat
          BY <2>1, <4>1
        <5> QED
          BY <2>1, <3>1, <5>1
      <4> QED
        BY <1>1, <2>1, <4>1, <4>2, <4>3
    <3> QED
      BY <1>1, <2>1, <3>2
  <2> HIDE DEF a, q, a2, q2, n, m, o
  <2>5. Reps(i, k, i + 1 + q) = a
    BY <1>1, <2>1, <2>3, <2>7
  <2>6. ASSUME NEW p \in Nat PROVE Reps(i, k + 1, p) = Reps(i, k, p) + (IF i + 1 + q = p THEN 1 ELSE 0)
    <3> DEFINE s == p - (i + 1)
    <3>1. s \in Int /\ (i + 1 + q = p <=> s = q)
      BY <1>1, <2>1
    <3>2. Reps(i, k, p) = IF k = 0 \/ s \notin 0 .. n THEN 0 ELSE IF s < q THEN m + 1 ELSE IF s = q THEN a ELSE 0
      BY <2>3, Zenon
    <3>3. Reps(i, k + 1, p) = IF k + 1 = 0 \/ s \notin 0 .. n THEN 0
                              ELSE IF s < q2 THEN m + 1 ELSE IF s = q2 THEN a2 ELSE 0
      BY <2>4, Zenon
    <3> HIDE DEF s
    <3>4. Reps(i, k, p) = IF s \notin 0 .. n THEN 0 ELSE IF s < q THEN m + 1 ELSE IF s = q THEN a ELSE 0
      BY <1>1, <2>1, <3>1, <3>2
    <3>5. Reps(i, k + 1, p) = IF s \notin 0 .. n THEN 0 ELSE IF s < q2 THEN m + 1 ELSE IF s = q2 THEN a2 ELSE 0
      BY <3>3
    <3>6. Reps(i, k + 1, p) = Reps(i, k, p) + (IF s = q THEN 1 ELSE 0)
      <4>1. CASE s \notin 0 .. n
        BY <1>1, <2>1, <2>7, <3>1, <3>4, <3>5, <4>1
      <4>2. CASE s \in 0 .. n /\ a = m
        BY <1>1, <2>1, <3>1, <3>4, <3>5, <4>2
      <4>3. CASE s \in 0 .. n /\ a # m
        BY <1>1, <2>1, <3>1, <3>4, <3>5, <4>3
      <4> QED
        BY <4>1, <4>2, <4>3
    <3> QED
      BY <3>1, <3>6, Zenon
  <2> QED
    BY <2>2, <2>5, <2>6, Zenon
<1> QED
  BY <1>2, <1>3

\* None of a loop has been issued before it, and no loop issues what is behind it.
LEMMA RepsNone ==
  ASSUME NEW i \in Nat, NEW k, NEW p \in Nat
  PROVE  /\ Reps(i, 0, p) = 0
         /\ program[i].kind = "frep" /\ program[i].max_inst \in Nat /\ p >= Behind(program, i) => Reps(i, k, p) = 0
<1>1. Reps(i, 0, p) = 0
  BY Zenon DEF Reps
<1>2. ASSUME program[i].kind = "frep", program[i].max_inst \in Nat, p >= Behind(program, i)
      PROVE  Reps(i, k, p) = 0
  <2>1. p - (i + 1) \notin 0 .. program[i].max_inst
    BY <1>2 DEF Behind
  <2> QED
    BY <2>1, Zenon DEF Reps
<1> QED
  BY <1>1, <1>2

LEMMA TimesAppend ==
  ASSUME NEW s \in Seq(Issue), NEW e \in Issue, NEW p
  PROVE  Times(s, p) \in Nat /\ Times(Append(s, e), p) = Times(s, p) + (IF e.op = p THEN 1 ELSE 0)
<1> DEFINE t == Append(s, e)
           n == Len(s)
           A == {j \in 1 .. n : s[j].op = p}
           B == {j \in 1 .. n + 1 : t[j].op = p}
<1>1. t \in Seq(Issue) /\ Len(t) = n + 1 /\ n \in Nat /\ t[n + 1] = e /\ \A j \in 1 .. n : t[j] = s[j]
  BY AppendProperties, LenProperties
<1>2. Times(s, p) = Cardinality(A) /\ Times(t, p) = Cardinality(B)
  <2>1. Times(s, p) = Cardinality(A)
    BY Zenon DEF Times
  <2>2. Len(t) = n + 1
    BY <1>1
  <2>3. Times(t, p) = Cardinality({j \in 1 .. Len(t) : t[j].op = p})
    BY Zenon DEF Times
  <2> QED
    BY <2>1, <2>2, <2>3, Zenon
<1> HIDE DEF t, n
<1>3. IsFiniteSet(A) /\ Cardinality(A) \in Nat /\ n + 1 \notin A
  <2>1. IsFiniteSet(1 .. n)
    BY <1>1, FS_Interval
  <2>2. A \subseteq 1 .. n
    OBVIOUS
  <2>3. n + 1 \notin A
    BY <1>1
  <2> HIDE DEF A
  <2> QED
    BY <2>1, <2>2, <2>3, FS_Subset, FS_CardinalityType
<1>4. CASE e.op = p
  <2>1. B = A \cup {n + 1}
    BY <1>1, <1>4
  <2> HIDE DEF A, B
  <2>2. Cardinality(B) = Cardinality(A) + 1
    BY <1>3, <2>1, FS_AddElement
  <2> QED
    BY <1>2, <1>3, <1>4, <2>2 DEF t
<1>5. CASE e.op # p
  <2>1. B = A
    BY <1>1, <1>5
  <2> HIDE DEF A, B
  <2> QED
    BY <1>2, <1>3, <1>5, <2>1 DEF t
<1> QED
  BY <1>4, <1>5

\* What is written out fits, if it has the place and the number of the earlier
\* issues.
LEMMA TracedAppend ==
  ASSUME NEW s \in Seq(Issue), NEW e \in Issue, NEW t, TracedFit(t, s),
         NEW x \in TraceEntry, x.op = e.op, x.rep = Times(s, e.op)
  PROVE  TracedFit(Append(t, x), Append(s, e))
<1> DEFINE u == Append(t, x)
           v == Append(s, e)
           n == Len(s)
<1>1. t \in Seq(TraceEntry) /\ Len(t) = n /\ n \in Nat
  BY LenProperties DEF TracedFit
<1>2. \A j \in 1 .. n : t[j].op = s[j].op /\ t[j].rep = Cardinality({y \in 1 .. j - 1 : s[y].op = s[j].op})
  BY Zenon DEF TracedFit
<1>3. u \in Seq(TraceEntry) /\ Len(u) = n + 1 /\ u[n + 1] = x /\ \A j \in 1 .. n : u[j] = t[j]
  BY <1>1, AppendProperties
<1>4. v \in Seq(Issue) /\ Len(v) = n + 1 /\ v[n + 1] = e /\ \A j \in 1 .. n : v[j] = s[j]
  BY AppendProperties
<1>5. x.rep = Cardinality({y \in 1 .. n : s[y].op = e.op})
  BY Zenon DEF Times
<1> HIDE DEF u, v, n
<1>6. ASSUME NEW j \in 1 .. n
      PROVE  u[j].op = v[j].op /\ u[j].rep = Cardinality({y \in 1 .. j - 1 : v[y].op = v[j].op})
  <2>1. {y \in 1 .. j - 1 : v[y].op = v[j].op} = {y \in 1 .. j - 1 : s[y].op = s[j].op}
    <3>1. \A y \in 1 .. j - 1 : y \in 1 .. n
      BY <1>1
    <3>2. \A y \in 1 .. j - 1 : v[y] = s[y]
      BY <1>4, <3>1, Zenon
    <3>3. v[j] = s[j]
      BY <1>4
    <3> QED
      BY <3>2, <3>3, Zenon
  <2>2. u[j] = t[j] /\ v[j] = s[j]
    BY <1>3, <1>4
  <2> QED
    BY <1>2, <2>1, <2>2, Zenon
<1>7. {y \in 1 .. n : v[y].op = e.op} = {y \in 1 .. n : s[y].op = e.op}
  BY <1>4, Zenon
<1>8. u[n + 1].op = v[n + 1].op
      /\ u[n + 1].rep = Cardinality({y \in 1 .. (n + 1) - 1 : v[y].op = v[n + 1].op})
  <2>1. (n + 1) - 1 = n
    BY <1>1
  <2> QED
    BY <1>3, <1>4, <1>5, <1>7, <2>1, Zenon
<1>9. \A j \in 1 .. n + 1 : j \in 1 .. n \/ j = n + 1
  BY <1>1
<1>10. \A j \in 1 .. n + 1 :
          u[j].op = v[j].op /\ u[j].rep = Cardinality({y \in 1 .. j - 1 : v[y].op = v[j].op})
  BY <1>6, <1>8, <1>9, Zenon
<1>11. TracedFit(u, v)
  BY <1>3, <1>4, <1>10, Zenon DEF TracedFit
<1> QED
  BY <1>11 DEF u, v

-----------------------------------------------------------------------------
(* The trace script keeps up with the sequencer.                           *)

\* The program stays, and so does what is said of it.
LEMMA TraceAtNext ==
  ASSUME program' = program, NEW i, NEW k,
         loop' = (IF k = 0 THEN NoLoop ELSE Buffer(i, Worked(i, k), k)),
         Unconsumed(i, k) <= pc', fpss_pcs' = Places(Unconsumed(i, k), pc'),
         \A p \in Nat : p >= i => Times(issued', p) = Reps(i, k, p),
         TracedFit(traced', issued')
  PROVE  TraceAt(i, k)'
<1>1. Worked(i, k)' = Worked(i, k) /\ Unconsumed(i, k)' = Unconsumed(i, k)
  BY Zenon DEF Worked, Unconsumed
<1>2. \A p : Reps(i, k, p)' = Reps(i, k, p)
  BY Zenon DEF Reps
<1>3. \A x : LoopEntry(i, x)' = LoopEntry(i, x)
  BY Zenon DEF LoopEntry
<1>4. \A m : Filled(i, m)' = Filled(i, m)
  BY Zenon DEF Filled
<1>5. \A a, b : Entries(i, a, b)' = Entries(i, a, b)
  BY <1>3, Zenon DEF Entries
<1>6. Buffer(i, Worked(i, k), k)' = Buffer(i, Worked(i, k), k)
  BY <1>1, <1>4, <1>5, Zenon DEF Buffer
<1> QED
  BY <1>1, <1>2, <1>6, Zenon DEF TraceAt

\* The history and the trace grow by the same instruction.
LEMMA TraceGrown ==
  ASSUME NEW i \in Nat, NEW k, TraceAt(i, k), issued \in Seq(Issue), NEW e \in Issue, e.op >= i,
         NEW x \in TraceEntry, x.op = e.op, x.rep = Reps(i, k, e.op),
         issued' = Append(issued, e), traced' = Append(traced, x)
  PROVE  /\ \A p \in Nat : p >= i => Times(issued', p) = Reps(i, k, p) + (IF e.op = p THEN 1 ELSE 0)
         /\ TracedFit(traced', issued')
<1>1. e.op \in Nat
  BY DEF Issue
<1>2. \A p \in Nat : p >= i => Times(issued, p) = Reps(i, k, p)
  BY Zenon DEF TraceAt
<1>3. TracedFit(traced, issued)
  BY Zenon DEF TraceAt
<1>4. x.rep = Times(issued, e.op)
  BY <1>1, <1>2, Zenon
<1>5. TracedFit(Append(traced, x), Append(issued, e))
  BY <1>3, <1>4, TracedAppend, Zenon
<1>6. \A p : Times(Append(issued, e), p) = Times(issued, p) + (IF e.op = p THEN 1 ELSE 0)
  BY TimesAppend, Zenon
<1> QED
  BY <1>2, <1>5, <1>6, Zenon

\* In a cycle without an issue the script only notes what is offloaded.
LEMMA TraceWaits ==
  ASSUME program' = program, NEW i, NEW k, TraceAt(i, k), issued' = issued,
         NEW pcs, pcs = Places(Unconsumed(i, k), pc'), Unconsumed(i, k) <= pc',
         fpss_pcs' = pcs, UNCHANGED <<loop, traced, crashed>>
  PROVE  TraceAt(i, k)'
<1>1. loop' = loop /\ traced' = traced
  OBVIOUS
<1>2. /\ loop = (IF k = 0 THEN NoLoop ELSE Buffer(i, Worked(i, k), k))
      /\ \A p \in Nat : p >= i => Times(issued, p) = Reps(i, k, p)
      /\ TracedFit(traced, issued)
  BY Zenon DEF TraceAt
<1>3. loop' = (IF k = 0 THEN NoLoop ELSE Buffer(i, Worked(i, k), k))
  BY <1>1, <1>2, Zenon
<1>4. \A p \in Nat : p >= i => Times(issued', p) = Reps(i, k, p)
  BY <1>2, Zenon
<1>5. TracedFit(traced', issued')
  BY <1>1, <1>2, Zenon
<1>6. fpss_pcs' = Places(Unconsumed(i, k), pc')
  OBVIOUS
<1> QED
  BY <1>3, <1>4, <1>5, <1>6, TraceAtNext, Zenon

\* An instruction outside a loop is issued and written out.
LEMMA TracePlainStep ==
  ASSUME CoreInv, program' = program, NEW i \in 1 .. Len(program), program[i].kind # "frep",
         NEW q \in Nat, q = pc', i < q, TraceAt(i, 0), emul_seq(Places(Unconsumed(i, 0), q)),
         issued' = Append(issued, [op |-> i, stagger |-> 0])
  PROVE  crashed' = crashed /\ TraceAt(i + 1, 0)'
<1>1. i \in Nat /\ i + 1 \in Nat /\ issued \in Seq(Issue)
  BY Basics DEF CoreInv
<1>2. Unconsumed(i, 0) = i /\ Unconsumed(i + 1, 0) = i + 1
  BY Zenon DEF Unconsumed
<1>3. loop = NoLoop
  BY Zenon DEF TraceAt
<1>4. emul_seq(Places(i, q))
  BY <1>2, Zenon
<1>5. traced' = Append(traced, Regular(i)) /\ fpss_pcs' = Places(i + 1, q) /\ loop' = loop /\ crashed' = crashed
  BY <1>1, <1>3, <1>4, TracePlain, Zenon
<1>6. Regular(i) \in TraceEntry /\ Regular(i).op = i /\ Regular(i).rep = 0
  BY <1>1 DEF Regular, Entry, TraceEntry
<1>7. PICK e : e = [op |-> i, stagger |-> 0]
  OBVIOUS
<1>8. e \in Issue /\ e.op = i /\ issued' = Append(issued, e)
  BY <1>1, <1>7 DEF Issue
<1>9. \A p \in Nat : Reps(i, 0, p) = 0 /\ Reps(i + 1, 0, p) = 0
  BY <1>1, RepsNone
<1>10. /\ \A p \in Nat : p >= i => Times(issued', p) = Reps(i, 0, p) + (IF e.op = p THEN 1 ELSE 0)
       /\ TracedFit(traced', issued')
  <2>1. PICK x : x = Regular(i)
    OBVIOUS
  <2>2. e.op >= i
    BY <1>1, <1>8
  <2>3. x \in TraceEntry /\ x.op = e.op /\ x.rep = Reps(i, 0, e.op)
    BY <1>1, <1>6, <1>8, <1>9, <2>1, Zenon
  <2>4. traced' = Append(traced, x)
    BY <1>5, <2>1, Zenon
  <2>5. TraceAt(i, 0)
    OBVIOUS
  <2> QED
    BY <1>1, <1>8, <2>2, <2>3, <2>4, <2>5, TraceGrown, Zenon
<1>11. \A p \in Nat : p >= i + 1 => Times(issued', p) = Reps(i + 1, 0, p)
  BY <1>1, <1>8, <1>9, <1>10
<1>12. loop' = (IF 0 = 0 THEN NoLoop ELSE Buffer(i + 1, Worked(i + 1, 0), 0))
  BY <1>3, <1>5, Zenon
<1>13. Unconsumed(i + 1, 0) <= pc'
  BY <1>1, <1>2
<1>14. fpss_pcs' = Places(Unconsumed(i + 1, 0), pc')
  BY <1>2, <1>5, Zenon
<1> QED
  BY <1>5, <1>10, <1>11, <1>12, <1>13, <1>14, TraceAtNext, Zenon

\* When the whole body is consumed, what is behind the loop comes next.
LEMMA BehindLoop ==
  ASSUME NEW i \in Nat \ {0}, program[i].kind = "frep", program[i].max_inst \in Nat, NEW k \in Nat,
         ~(k + 1 <= program[i].max_inst)
  PROVE  /\ Behind(program, i) \in Nat /\ Behind(program, i) = i + 1 + Worked(i, k + 1)
         /\ Behind(program, i) >= i
<1> DEFINE n == program[i].max_inst
<1>1. Behind(program, i) = i + n + 2
  BY Zenon DEF Behind
<1>2. Worked(i, k + 1) = n + 1
  BY Zenon DEF Worked
<1>3. n \in Nat
  OBVIOUS
<1> HIDE DEF n
<1> QED
  BY <1>1, <1>2, <1>3

LEMMA PlaceBefore ==
  ASSUME NEW i \in Nat \ {0}, NEW q \in Nat, i < q
  PROVE  i \in 1 .. q - 1
OBVIOUS

\* An issue of a loop is written out, and after the last one the loop is left.
LEMMA TraceLoopStep ==
  ASSUME CoreInv, program' = program,
         NEW i \in 1 .. Len(program), program[i].kind = "frep", ~program[i].is_streamctl,
         NEW k \in Nat, k < Size(program, i), NEW q \in Nat, q = pc', i < q, TraceAt(i, k),
         Unconsumed(i, k) <= q, Issued(program, i, k).op < q, emul_seq(Places(Unconsumed(i, k), q)),
         issued' = Append(issued, Issued(program, i, k)), NEW i2, NEW k2,
         IF k + 1 = Size(program, i) THEN i2 = Behind(program, i) /\ k2 = 0 ELSE i2 = i /\ k2 = k + 1
  PROVE  \/ crashed' = TRUE /\ MayStop'
         \/ crashed' = crashed /\ TraceAt(i2, k2)'
<1>1. /\ i \in Nat \ {0} /\ program[i].max_inst \in Nat /\ program[i].max_rpt \in Nat
      /\ Size(program, i) \in Nat /\ program[i].max_inst + 1 <= Size(program, i)
  BY LoopNumbers
<1>2. loop = (IF k = 0 THEN NoLoop ELSE Buffer(i, Worked(i, k), k))
  BY Zenon DEF TraceAt
<1>3. \/ /\ crashed' = TRUE
         /\ ~program[i].is_outer /\ program[i].max_inst > 0 /\ program[i].max_rpt > 0
      \/ /\ traced' = Append(traced, LoopEntry(i, k)) /\ crashed' = crashed
         /\ fpss_pcs' = Places(i + 1 + Worked(i, k + 1), q) /\ i + 1 + Worked(i, k + 1) <= q
         /\ loop' = IF k + 1 = Size(program, i) THEN NoLoop ELSE Buffer(i, Worked(i, k + 1), k + 1)
  BY <1>2, TraceLoop, Zenon
<1>4. CASE /\ crashed' = TRUE
           /\ ~program[i].is_outer /\ program[i].max_inst > 0 /\ program[i].max_rpt > 0
  <2>1. i \in 1 .. pc' - 1
    <3>1. i \in 1 .. q - 1
      BY <1>1, PlaceBefore, Zenon
    <3> QED
      BY <3>1, Zenon
  <2>2. MayStop'
    BY <1>4, <2>1, Zenon DEF MayStop
  <2> QED
    BY <1>4, <2>2
<1>5. CASE /\ traced' = Append(traced, LoopEntry(i, k)) /\ crashed' = crashed
           /\ fpss_pcs' = Places(i + 1 + Worked(i, k + 1), q) /\ i + 1 + Worked(i, k + 1) <= q
           /\ loop' = IF k + 1 = Size(program, i) THEN NoLoop ELSE Buffer(i, Worked(i, k + 1), k + 1)
  <2>1. PICK x, e : x = LoopEntry(i, k) /\ e = Issued(program, i, k)
    OBVIOUS
  <2>2. e \in Issue /\ issued \in Seq(Issue)
    <3>1. FrepFits(program, i)
      BY Basics
    <3>2. issued \in Seq(Issue)
      BY Zenon DEF CoreInv
    <3> QED
      BY <1>1, <2>1, <3>1, <3>2, IssuedType
  <2>3. x \in TraceEntry /\ x.op = e.op
    BY <2>1, LoopEntryFacts
  <2>4. x.rep = Reps(i, k, e.op) /\ \A p \in Nat : Reps(i, k + 1, p) = Reps(i, k, p) + (IF e.op = p THEN 1 ELSE 0)
    <3>1. /\ LoopEntry(i, k).rep = Reps(i, k, LoopEntry(i, k).op)
          /\ \A p \in Nat : Reps(i, k + 1, p) = Reps(i, k, p) + (IF LoopEntry(i, k).op = p THEN 1 ELSE 0)
      BY RepsStep, Zenon
    <3> QED
      BY <2>1, <2>3, <3>1, Zenon
  <2>5. e.op >= i
    <3>1. program[i].is_outer => LoopEntry(i, k).op = i + 1 + (k % (program[i].max_inst + 1))
      <4> DEFINE a == k % (program[i].max_inst + 1)
                 c == k \div (program[i].max_inst + 1)
      <4>1. program[i].is_outer => LoopEntry(i, k) = Entry(i + 1 + a, c, a)
        BY LoopEntryFacts
      <4> HIDE DEF a, c
      <4>2. program[i].is_outer => LoopEntry(i, k).op = i + 1 + a
        BY <4>1 DEF Entry
      <4> QED
        BY <4>2 DEF a
    <3>2. ~program[i].is_outer => LoopEntry(i, k).op = i + 1 + (k \div (program[i].max_rpt + 1))
      <4> DEFINE a == k \div (program[i].max_rpt + 1)
                 c == k % (program[i].max_rpt + 1)
      <4>1. ~program[i].is_outer => LoopEntry(i, k) = Entry(i + 1 + a, c, a)
        BY LoopEntryFacts
      <4> HIDE DEF a, c
      <4>2. ~program[i].is_outer => LoopEntry(i, k).op = i + 1 + a
        BY <4>1 DEF Entry
      <4> QED
        BY <4>2 DEF a
    <3>3. k % (program[i].max_inst + 1) \in Nat
      <4> DEFINE n == program[i].max_inst
      <4>1. n \in Nat
        BY <1>1
      <4> HIDE DEF n
      <4>2. k % (n + 1) \in Nat
        BY <4>1, DivNext
      <4> QED
        BY <4>2 DEF n
    <3>4. k \div (program[i].max_rpt + 1) \in Nat
      BY <1>1, DivNext
    <3> DEFINE a == k % (program[i].max_inst + 1)
               b == k \div (program[i].max_rpt + 1)
               v == LoopEntry(i, k).op
    <3>5. (v = i + 1 + a \/ v = i + 1 + b) /\ a \in Nat /\ b \in Nat
      BY <3>1, <3>2, <3>3, <3>4, Zenon
    <3>6. v = e.op
      BY <2>1, <2>3, Zenon
    <3> HIDE DEF a, b, v
    <3> QED
      BY <1>1, <3>5, <3>6
  <2>6. issued' = Append(issued, e) /\ traced' = Append(traced, x)
    BY <1>5, <2>1, Zenon
  <2>7. i \in Nat
    BY <1>1
  <2>8. /\ \A p \in Nat : p >= i => Times(issued', p) = Reps(i, k, p) + (IF e.op = p THEN 1 ELSE 0)
        /\ TracedFit(traced', issued')
    BY <2>2, <2>3, <2>4, <2>5, <2>6, <2>7, TraceGrown, Zenon
  <2>9. \A p \in Nat : p >= i => Times(issued', p) = Reps(i, k + 1, p)
    BY <2>4, <2>8, Zenon
  <2>10. CASE k + 1 = Size(program, i)
    <3>1. i2 = Behind(program, i) /\ k2 = 0
      BY <2>10
    <3>2. Behind(program, i) \in Nat /\ Behind(program, i) = i + 1 + Worked(i, k + 1) /\ Behind(program, i) >= i
      <4>1. ~(k + 1 <= program[i].max_inst)
        BY <1>1, <2>10
      <4> QED
        BY <1>1, <4>1, BehindLoop, Zenon
    <3>3. Unconsumed(i2, 0) = i + 1 + Worked(i, k + 1)
      BY <3>1, <3>2, Zenon DEF Unconsumed
    <3>4. \A p \in Nat : p >= i2 => Times(issued', p) = Reps(i2, 0, p)
      <4>1. ASSUME NEW p \in Nat, p >= i2 PROVE Times(issued', p) = Reps(i2, 0, p)
        <5>1. p >= Behind(program, i) /\ p >= i
          BY <1>1, <3>1, <3>2, <4>1
        <5>2. Reps(i, k + 1, p) = 0
          BY <1>1, <5>1, RepsNone
        <5>3. Reps(i2, 0, p) = 0
          BY <3>1, <3>2, RepsNone
        <5> QED
          BY <2>9, <5>1, <5>2, <5>3, Zenon
      <4> QED
        BY <4>1
    <3>5. loop' = (IF 0 = 0 THEN NoLoop ELSE Buffer(i2, Worked(i2, 0), 0))
      BY <1>5, <2>10, Zenon
    <3>6. Unconsumed(i2, 0) <= pc' /\ fpss_pcs' = Places(Unconsumed(i2, 0), pc')
      BY <1>5, <3>3, Zenon
    <3>7. TraceAt(i2, 0)'
      BY <2>8, <3>4, <3>5, <3>6, TraceAtNext, Zenon
    <3> QED
      BY <1>5, <3>1, <3>7, Zenon
  <2>11. CASE k + 1 # Size(program, i)
    <3>1. i2 = i /\ k2 = k + 1 /\ k2 # 0
      BY <2>11
    <3>2. Unconsumed(i2, k2) = i + 1 + Worked(i, k + 1)
      BY <3>1, Zenon DEF Unconsumed
    <3>3. loop' = (IF k2 = 0 THEN NoLoop ELSE Buffer(i2, Worked(i2, k2), k2))
      BY <1>5, <2>11, <3>1, Zenon
    <3>4. Unconsumed(i2, k2) <= pc' /\ fpss_pcs' = Places(Unconsumed(i2, k2), pc')
      BY <1>5, <3>2, Zenon
    <3>5. \A p \in Nat : p >= i2 => Times(issued', p) = Reps(i2, k2, p)
      BY <2>9, <3>1, Zenon
    <3>6. TraceAt(i2, k2)'
      BY <2>8, <3>3, <3>4, <3>5, TraceAtNext, Zenon
    <3> QED
      BY <1>5, <3>6
  <2> QED
    BY <2>10, <2>11
<1> QED
  BY <1>3, <1>4, <1>5, Zenon

\* A loop that is worked on is in the program.
LEMMA UnconsumedType ==
  ASSUME CoreInv, NoStreams, NEW i \in 1 .. pc, NEW k \in Nat, FrontAt(i, k)
  PROVE  /\ k # 0 => i \in 1 .. Len(program) /\ program[i].kind = "frep" /\ ~program[i].is_streamctl
         /\ Unconsumed(i, k) \in Nat
<1>1. i \in Nat \ {0} /\ pc \in Nat /\ Len(program) \in Nat /\ pc <= Len(program) + 1
  BY Basics
<1>2. ASSUME k # 0 PROVE i \in 1 .. Len(program) /\ program[i].kind = "frep" /\ ~program[i].is_streamctl
  <2>1. Begun(i, pc)
    BY <1>2, Zenon DEF FrontAt, CountersFit
  <2>2. i \in 1 .. Len(program) /\ program[i].kind = "frep"
    BY <1>1, <2>1 DEF Begun
  <2> QED
    BY <2>2, Zenon DEF NoStreams, IsStreamLoop
<1>3. CASE k = 0
  <2>1. Unconsumed(i, k) = i
    BY <1>3, Zenon DEF Unconsumed
  <2> QED
    BY <1>1, <1>2, <2>1
<1>4. CASE k # 0
  <2>1. program[i].max_inst \in Nat
    BY <1>2, <1>4, LoopNumbers
  <2>2. Worked(i, k) \in Nat
    BY <2>1 DEF Worked
  <2>3. Unconsumed(i, k) = i + 1 + Worked(i, k)
    BY <1>4, Zenon DEF Unconsumed
  <2> QED
    BY <1>1, <1>2, <2>2, <2>3
<1> QED
  BY <1>3, <1>4

\* A cycle, and what the script makes of its lines.
LEMMA TraceStep ==
  ASSUME CoreInv, NoStreams, NEW i \in 1 .. pc, NEW k \in Nat, FrontAt(i, k), TraceAt(i, k), crashed = FALSE,
         NEW i2, NEW k2, NEW q \in Nat, q = pc', q \in {pc, pc + 1}, Moves(i, k, i2, k2, q),
         program' = program, annotate_insn
  PROVE  \/ crashed' = TRUE /\ MayStop'
         \/ crashed' = FALSE /\ TraceAt(i2, k2)'
<1>1. i \in Nat \ {0} /\ pc \in Nat /\ issued \in Seq(Issue)
  BY Basics DEF CoreInv
<1>2. Unconsumed(i, k) <= pc /\ fpss_pcs = Places(Unconsumed(i, k), pc)
  BY Zenon DEF TraceAt
<1>3. PICK pcs : pcs = IF q # pc THEN Append(fpss_pcs, pc) ELSE fpss_pcs
  OBVIOUS
<1>4. IF issued' = issued THEN fpss_pcs' = pcs /\ UNCHANGED <<loop, traced, crashed>> ELSE emul_seq(pcs)
  BY <1>3, Zenon DEF annotate_insn
<1>5. Unconsumed(i, k) \in Nat
  BY UnconsumedType
<1>6. Unconsumed(i, k) <= q /\ pcs = Places(Unconsumed(i, k), q)
  <2>1. Unconsumed(i, k) <= q
    BY <1>1, <1>2, <1>5
  <2>2. Append(Places(Unconsumed(i, k), pc), pc) = Places(Unconsumed(i, k), pc + 1)
    BY <1>1, <1>2, <1>5, PlacesFacts
  <2>3. q = pc \/ (q = pc + 1 /\ q # pc)
    BY <1>1
  <2>4. pcs = Places(Unconsumed(i, k), q)
    BY <1>2, <1>3, <2>2, <2>3, Zenon
  <2> QED
    BY <2>1, <2>4
<1>7. \A e : issued' = Append(issued, e) => issued' # issued
  <2>1. ASSUME NEW e, Append(issued, e) = issued PROVE FALSE
    <3>1. Len(issued) \in Nat /\ Len(Append(issued, e)) = Len(issued) + 1
      BY <1>1
    <3> QED
      BY <2>1, <3>1
  <2> QED
    BY <2>1
<1>8. CASE issued' = issued /\ i2 = i /\ k2 = k
  <2>1. TraceAt(i, k)'
    BY <1>4, <1>6, <1>8, TraceWaits
  <2>2. crashed' = crashed
    BY <1>4, <1>8
  <2> QED
    BY <1>8, <2>1, <2>2, Zenon
<1>9. CASE /\ i \in 1 .. Len(program) /\ program[i].kind # "frep" /\ k = 0 /\ i < q
           /\ issued' = Append(issued, [op |-> i, stagger |-> 0])
           /\ i2 = i + 1 /\ k2 = 0
  <2>1. emul_seq(Places(Unconsumed(i, 0), q)) /\ TraceAt(i, 0)
    BY <1>4, <1>6, <1>7, <1>9, Zenon
  <2>2. crashed' = crashed /\ TraceAt(i + 1, 0)'
    BY <1>9, <2>1, TracePlainStep, Zenon
  <2> QED
    BY <1>9, <2>2, Zenon
<1>10. CASE /\ i \in 1 .. Len(program) /\ program[i].kind = "frep" /\ ~program[i].is_streamctl
            /\ i < q /\ k < Size(program, i) /\ Issued(program, i, k).op < q
            /\ issued' = Append(issued, Issued(program, i, k))
            /\ IF k + 1 = Size(program, i) THEN i2 = Behind(program, i) /\ k2 = 0 ELSE i2 = i /\ k2 = k + 1
  <2>1. emul_seq(Places(Unconsumed(i, k), q))
    BY <1>4, <1>6, <1>7, <1>10, Zenon
  <2>2. \/ crashed' = TRUE /\ MayStop'
        \/ crashed' = crashed /\ TraceAt(i2, k2)'
    BY <1>6, <1>10, <2>1, TraceLoopStep, Zenon
  <2> QED
    BY <2>2, Zenon
<1>11. CASE i \in 1 .. Len(program) /\ IsStreamLoop(program, i)
  BY <1>11, Zenon DEF NoStreams
<1> QED
  BY <1>8, <1>9, <1>10, <1>11, Zenon DEF Moves

-----------------------------------------------------------------------------
(* The trace of every run.                                                 *)

LEMMA InitialTInv == TraceInit => SInv /\ TInv
<1> SUFFICES ASSUME TraceInit PROVE SInv /\ TInv
  OBVIOUS
<1>1. Init /\ fpss_pcs = <<>> /\ loop = NoLoop /\ traced = <<>> /\ crashed = FALSE
  BY Zenon DEF TraceInit
<1>2. SInv
  BY <1>1, InitialSInv
<1>3. CoreInv
  BY <1>2, Zenon DEF SInv
<1>4. pc = 1 /\ issued = <<>>
  BY <1>1, Zenon DEF Init
<1>5. PICK i \in 1 .. pc, k \in Nat : FrontAt(i, k)
  BY <1>2, Zenon DEF SInv
<1>6. i = 1
  BY <1>4
<1>7. k = 0
  <2>1. ~Begun(i, pc)
    BY <1>4, <1>6 DEF Begun
  <2> QED
    BY <1>5, <2>1, Zenon DEF FrontAt, CountersFit
<1>8. TraceAt(1, 0)
  <2>1. Unconsumed(1, 0) = 1
    BY Zenon DEF Unconsumed
  <2>2. Places(1, 1) = <<>>
    <3>1. 1 \in Nat /\ 1 <= 1
      OBVIOUS
    <3> QED
      BY <3>1, PlacesFacts
  <2>3. Unconsumed(1, 0) <= pc /\ fpss_pcs = Places(Unconsumed(1, 0), pc)
    <3>1. 1 <= pc
      BY <1>4
    <3> QED
      BY <1>1, <1>4, <2>1, <2>2, <3>1, Zenon
  <2>4. ASSUME NEW p \in Nat PROVE Times(issued, p) = Reps(1, 0, p)
    <3>1. Times(issued, p) = 0
      <4>1. {j \in 1 .. Len(issued) : issued[j].op = p} = {}
        BY <1>4
      <4> QED
        BY <4>1, FS_EmptySet DEF Times
    <3>2. Reps(1, 0, p) = 0
      BY RepsNone
    <3> QED
      BY <3>1, <3>2
  <2>5. TracedFit(traced, issued)
    <3>1. traced \in Seq(TraceEntry) /\ Len(traced) = Len(issued) /\ 1 .. Len(issued) = {}
      BY <1>1, <1>4
    <3> QED
      BY <3>1, Zenon DEF TracedFit
  <2> QED
    BY <1>1, <2>3, <2>4, <2>5, Zenon DEF TraceAt
<1>9. FrontAt(1, 0)
  BY <1>5, <1>6, <1>7, Zenon
<1>10. 1 \in 1 .. pc /\ 0 \in Nat
  BY <1>4
<1> QED
  BY <1>1, <1>2, <1>3, <1>8, <1>9, <1>10, Zenon DEF TInv

\* Nothing of the sequencer and of the script changes.
LEMMA StutterTInv ==
  ASSUME SInv, TInv, UNCHANGED traceVars
  PROVE  SInv' /\ TInv'
<1>1. UNCHANGED vars /\ UNCHANGED <<fpss_pcs, loop, traced, crashed>>
  BY Zenon DEF traceVars
<1>2. SInv'
  BY <1>1, StutterSInv
<1>3. /\ program' = program /\ pc' = pc /\ inp_qvalid_i' = inp_qvalid_i
      /\ stream' = stream /\ streamctl_valid_i' = streamctl_valid_i
      /\ mem' = mem /\ rd_pointer' = rd_pointer /\ wr_pointer' = wr_pointer
      /\ cfgs' = cfgs /\ inst_cnt' = inst_cnt /\ rpt_cnt' = rpt_cnt /\ stagger_cnt' = stagger_cnt
      /\ issued' = issued
  BY <1>1 DEF vars, core, counters
<1>4. fpss_pcs' = fpss_pcs /\ loop' = loop /\ traced' = traced /\ crashed' = crashed
  BY <1>1
<1>5. CoreInv'
  BY <1>2, Zenon DEF SInv
<1>6. CASE ~NoStreams
  <2>1. ~NoStreams'
    BY <1>3, <1>6, Zenon DEF NoStreams
  <2> QED
    BY <1>2, <1>5, <2>1, Zenon DEF TInv
<1>7. CASE NoStreams /\ crashed = TRUE /\ MayStop
  <2>1. MayStop'
    BY <1>3, <1>7, Zenon DEF MayStop
  <2> QED
    BY <1>2, <1>4, <1>5, <1>7, <2>1, Zenon DEF TInv
<1>8. ASSUME NEW i \in 1 .. pc, NEW k \in Nat, FrontAt(i, k), TraceAt(i, k), crashed = FALSE PROVE TInv'
  <2>1. FrontAt(i, k)'
    BY <1>3, <1>8, FrontNext, Zenon DEF FrontAt
  <2>2. TraceAt(i, k)'
    BY <1>3, <1>4, <1>8, TraceAtNext, Zenon DEF TraceAt
  <2>3. i \in 1 .. pc' /\ crashed' = FALSE
    BY <1>3, <1>4, <1>8, Zenon
  <2> QED
    BY <1>5, <2>1, <2>2, <2>3, Zenon DEF TInv
<1> QED
  BY <1>2, <1>6, <1>7, <1>8, Zenon DEF TInv

LEMMA NextTInv ==
  ASSUME SInv, TInv, TraceNext
  PROVE  SInv' /\ TInv'
<1>1. PICK oup_qready_i \in BOOLEAN : Clock(oup_qready_i)
  BY Zenon DEF TraceNext, Next
<1>2. Trace
  BY Zenon DEF TraceNext
<1>3. SInv' /\ CoreInv /\ CoreInv'
  <2>1. SInv'
    BY <1>1, ClockKeeps
  <2> QED
    BY <2>1, Zenon DEF SInv
<1>4. program' = program /\ pc' \in {pc, pc + 1}
  <2>1. PICK i \in 1 .. pc, k \in Nat : FrontAt(i, k)
    BY Zenon DEF SInv
  <2> QED
    BY <1>1, <1>3, <2>1, ClockMoves
<1>5. CASE ~NoStreams
  <2>1. ~NoStreams'
    BY <1>4, <1>5, Zenon DEF NoStreams
  <2> QED
    BY <1>3, <2>1, Zenon DEF TInv
<1>6. CASE NoStreams /\ crashed = TRUE /\ MayStop
  <2>1. crashed' = crashed
    BY <1>2, <1>6, Zenon DEF Trace
  <2>2. PICK i \in 1 .. pc - 1 : program[i].kind = "frep" /\ ~program[i].is_outer
                                 /\ program[i].max_inst > 0 /\ program[i].max_rpt > 0
    BY <1>6, Zenon DEF MayStop
  <2>3. i \in 1 .. pc' - 1
    <3>1. pc \in Nat
      BY <1>3, Basics
    <3>2. \A q : q \in {pc, pc + 1} => i \in 1 .. q - 1
      BY <3>1
    <3> QED
      BY <1>4, <3>2, Zenon
  <2>4. MayStop'
    BY <1>4, <2>2, <2>3, Zenon DEF MayStop
  <2> QED
    BY <1>3, <1>6, <2>1, <2>4, Zenon DEF TInv
<1>7. ASSUME NoStreams, NEW i \in 1 .. pc, NEW k \in Nat, FrontAt(i, k), TraceAt(i, k), crashed = FALSE
      PROVE  TInv'
  <2>1. annotate_insn
    BY <1>2, <1>7, Zenon DEF Trace
  <2>2. PICK i2 \in 1 .. pc', k2 \in Nat : FrontAt(i2, k2)' /\ Moves(i, k, i2, k2, pc')
    BY <1>1, <1>3, <1>7, ClockMoves
  <2>3. PICK q \in Nat : q = pc'
    <3>1. pc \in Nat
      BY <1>3, Basics
    <3> QED
      BY <1>4, <3>1
  <2>4. \/ crashed' = TRUE /\ MayStop'
        \/ crashed' = FALSE /\ TraceAt(i2, k2)'
    <3>1. q \in {pc, pc + 1} /\ Moves(i, k, i2, k2, q)
      BY <1>4, <2>2, <2>3, Zenon
    <3> QED
      BY <1>3, <1>4, <1>7, <2>1, <2>3, <3>1, TraceStep, Zenon
  <2> QED
    BY <1>3, <2>2, <2>4, Zenon DEF TInv
<1> QED
  BY <1>3, <1>5, <1>6, <1>7, Zenon DEF TInv

\* A sequence with a first element is not empty.
LEMMA NotEmpty ==
  ASSUME NEW e \in Issue, NEW s \in Seq(Issue)
  PROVE  <<e>> \o s # <<>>
<1>1. <<e>> \in Seq(Issue) /\ Len(<<e>>) = 1
  OBVIOUS
<1>2. Len(<<e>> \o s) = 1 + Len(s) /\ Len(s) \in Nat
  BY <1>1, ConcatProperties, LenProperties
<1>3. Len(<<>>) = 0
  OBVIOUS
<1> QED
  BY <1>2, <1>3

\* When everything is offloaded and issued, the script has nothing left.
LEMMA TraceEnds ==
  ASSUME CoreInv, NoStreams, NEW i \in 1 .. pc, NEW k \in Nat, FrontAt(i, k), TraceAt(i, k),
         issued = Issues(program), ~Programmed
  PROVE  fpss_pcs = <<>> /\ loop = NoLoop
<1>1. /\ i \in Nat \ {0} /\ i <= pc /\ pc \in Nat /\ Len(program) \in Nat /\ pc = Len(program) + 1
      /\ ProgramFits(program) /\ issued \in Seq(Issue)
  <2>1. ProgramFits(program) /\ Len(program) \in Nat /\ pc \in Nat \ {0} /\ pc <= Len(program) + 1
    BY Basics
  <2>2. issued \in Seq(Issue)
    BY Zenon DEF CoreInv
  <2>3. ~(pc <= Len(program))
    BY DEF Programmed
  <2> QED
    BY <2>1, <2>2, <2>3
<1>2. Rest(program, i, k) = <<>>
  <2>1. Rest(program, i, k) \in Seq(Issue)
    BY RestType
  <2>2. issued \o Rest(program, i, k) = issued
    BY Zenon DEF FrontAt
  <2> DEFINE r == Rest(program, i, k)
  <2> HIDE DEF r
  <2>3. r \in Seq(Issue) /\ issued \o r = issued
    BY <2>1, <2>2, Zenon DEF r
  <2>4. Len(issued \o r) = Len(issued) + Len(r) /\ Len(issued) \in Nat /\ Len(r) \in Nat
    BY <1>1, <2>3, ConcatProperties, LenProperties
  <2>5. Len(r) = 0
    BY <2>3, <2>4
  <2> QED
    BY <2>3, <2>5, EmptySeq DEF r
<1>3. ~Begun(i, pc)
  <2> SUFFICES ASSUME Begun(i, pc) PROVE FALSE
    OBVIOUS
  <2>1. i \in 1 .. Len(program) /\ program[i].kind = "frep"
    BY <1>1 DEF Begun
  <2>2. ~program[i].is_streamctl
    BY <2>1, Zenon DEF NoStreams, IsStreamLoop
  <2>3. CountersFit(i, k, pc, inst_cnt, rpt_cnt, stagger_cnt)
    BY Zenon DEF FrontAt
  <2>4. k < Size(program, i)
    BY <2>1, <2>2, <2>3, CountShort
  <2>5. Size(program, i) \in Nat
    BY <2>1, <2>2, LoopNumbers
  <2> DEFINE g == Size(program, i)
  <2> HIDE DEF g
  <2>6. k \in 0 .. g /\ k + 1 \in 0 .. g
    BY <2>4, <2>5 DEF g
  <2>7. /\ Rest(program, i, k) = <<Issued(program, i, k)>> \o Rest(program, i, k + 1)
        /\ Issued(program, i, k) \in Issue /\ Rest(program, i, k + 1) \in Seq(Issue)
    BY <1>1, <2>1, <2>4, <2>6, RestOfLoop DEF g
  <2> QED
    BY <1>2, <2>7, NotEmpty
<1>4. k = 0
  BY <1>3, Zenon DEF FrontAt, CountersFit
<1>5. i = pc
  <2> SUFFICES ASSUME i < pc PROVE FALSE
    BY <1>1
  <2>1. i \in 1 .. Len(program) /\ i + 1 \in 1 .. Len(program) + 1
    BY <1>1
  <2>2. program[i].kind # "frep"
    BY <1>3 DEF Begun
  <2>3. Rest(program, i, 0) = <<[op |-> i, stagger |-> 0]>> \o Rest(program, i + 1, 0)
    BY <1>1, <2>1, <2>2, RestOfPlain
  <2>4. Rest(program, i + 1, 0) \in Seq(Issue)
    BY <1>1, <2>1, RestStart
  <2>5. [op |-> i, stagger |-> 0] \in Issue
    BY <1>1 DEF Issue
  <2> QED
    BY <1>2, <1>4, <2>3, <2>4, <2>5, NotEmpty, Zenon
<1>6. Unconsumed(i, k) = pc
  BY <1>4, <1>5, Zenon DEF Unconsumed
<1>7. fpss_pcs = Places(pc, pc) /\ loop = NoLoop
  BY <1>4, <1>6, Zenon DEF TraceAt
<1>8. Places(pc, pc) = <<>>
  <2>1. pc <= pc
    BY <1>1
  <2> QED
    BY <1>1, <2>1, PlacesFacts
<1> QED
  BY <1>7, <1>8

LEMMA TInvMatches == TInv => TraceMatches
<1> SUFFICES ASSUME TInv PROVE TraceMatches
  OBVIOUS
<1>1. CoreInv
  BY Zenon DEF TInv
<1>2. CASE ~NoStreams
  <2>1. PICK i \in 1 .. Len(program) : program[i].kind = "frep" /\ program[i].is_streamctl
    BY <1>2, Zenon DEF NoStreams, IsStreamLoop
  <2>2. DOMAIN program = 1 .. Len(program)
    BY <1>1, Basics DEF ProgramFits
  <2> QED
    BY <2>1, <2>2, Zenon DEF TraceMatches
<1>3. CASE NoStreams /\ crashed = TRUE /\ MayStop
  BY <1>3, Zenon DEF TraceMatches, MayStop
<1>4. ASSUME NoStreams, NEW i \in 1 .. pc, NEW k \in Nat, FrontAt(i, k), TraceAt(i, k), crashed = FALSE
      PROVE  TraceMatches
  <2>1. TracedFit(traced, issued)
    BY <1>4, Zenon DEF TraceAt
  <2>2. /\ Len(traced) = Len(issued)
        /\ \A j \in 1 .. Len(traced) :
               /\ traced[j].op = issued[j].op
               /\ traced[j].rep = Cardinality({x \in 1 .. j - 1 : issued[x].op = issued[j].op})
    BY <2>1, Zenon DEF TracedFit
  <2>3. issued = Issues(program) /\ ~Programmed => fpss_pcs = <<>> /\ loop = NoLoop
    BY <1>1, <1>4, TraceEnds
  <2> QED
    BY <1>4, <2>2, <2>3, Zenon DEF TraceMatches
<1> QED
  BY <1>2, <1>3, <1>4, Zenon DEF TInv

\* For any programs, any ring and any configuration buffer the trace shows what the
\* FPU was issued, each instruction with the number of its earlier repetitions;
\* only an inner loop that repeats several instructions can stop the script
\* (gen_trace.py, annotate_insn and emul_seq).
THEOREM TraceFollowsIssues == TraceSpec => []TraceMatches
<1>1. ASSUME SInv, TInv, [TraceNext]_traceVars PROVE SInv' /\ TInv'
  BY <1>1, NextTInv, StutterTInv
<1>2. TraceSpec => [](SInv /\ TInv)
  BY <1>1, InitialTInv, PTL DEF TraceSpec
<1> QED
  BY <1>2, TInvMatches, PTL

-----------------------------------------------------------------------------
(* The control register accesses (CsrPort).                                *)

(* The accesses on their way to the managers, at most Room of them. *)

\* What request r leaves in the configuration of port p that held v.
After(v, r, p) == IF r.kind = "write" /\ r.port = p THEN r.val ELSE v

\* What the i-th of the requests q finds in the configuration of port p, if the
\* managers hold g now.
RegAt(g, q, p, i) ==
    IF i = 1 THEN g[p]
    ELSE IF i = 2 THEN After(g[p], q[1], p)
    ELSE After(After(g[p], q[1], p), q[2], p)

\* The jobs for port p among the requests q, each with its configuration.
StartAt(q, p, i) == i <= Len(q) /\ q[i].kind = "start" /\ q[i].port = p
JobsOf(g, q, p) ==
    IF StartAt(q, p, 1)
    THEN IF StartAt(q, p, 2) THEN <<RegAt(g, q, p, 1), RegAt(g, q, p, 2)>>
         ELSE <<RegAt(g, q, p, 1)>>
    ELSE IF StartAt(q, p, 2) THEN <<RegAt(g, q, p, 2)>> ELSE <<>>

Vals == Values \cup {0}

OnTheWay ==
    /\ reqs \in Seq(Requests) /\ Len(reqs) <= Room
    /\ regs \in [Ports -> Vals] /\ written \in [Ports -> Vals]
    /\ DOMAIN orders = Ports

\* The program has written what the last access on its way will leave.
Written == \A p \in Ports : written[p] = RegAt(regs, reqs, p, Len(reqs) + 1)

Ordered == \A p \in Ports : orders[p] = JobsOf(regs, reqs, p)

LInv == OnTheWay /\ Written /\ Ordered

-----------------------------------------------------------------------------
(* The answers. *)

Answer == [port : Ports, val : Vals]

AnswerTypes ==
    /\ due \in [Ids -> Answer \cup {NoAnswer}]
    /\ rsps \in Seq([id : Ids, data : Answer])

\* A manager that holds an answer is the only one, and its register is the one
\* whose number the translator has kept.
AnswerHeld ==
    \/ ids = <<>> /\ \A p \in Ports : ~readRegBusy[p]
    \/ \E p \in Ports, id \in Outstanding :
          /\ ids = <<id>> /\ readRegBusy[p] /\ \A o \in Ports : o # p => ~readRegBusy[o]
          /\ readRegBuffer[p] = due[id] /\ due[id].port = p

\* A read on its way will find what it has to return.
ReadsWillFind ==
    \A i \in DOMAIN reqs : reqs[i].kind = "read" =>
        due[reqs[i].id] = [port |-> reqs[i].port, val |-> RegAt(regs, reqs, reqs[i].port, i)]

\* A register has one read at a time.
OneRead ==
    /\ \A i, j \in DOMAIN reqs :
            (i # j /\ reqs[i].kind = "read" /\ reqs[j].kind = "read") => reqs[i].id # reqs[j].id
    /\ \A i \in DOMAIN reqs, j \in DOMAIN rsps : reqs[i].kind = "read" => reqs[i].id # rsps[j].id
    /\ \A i \in DOMAIN reqs : (reqs[i].kind = "read" /\ ids # <<>>) => reqs[i].id # ids[1]
    /\ \A j \in DOMAIN rsps : ids # <<>> => rsps[j].id # ids[1]

\* All the outstanding reads are of one port.
OnePort == \A id1, id2 \in Outstanding : due[id1].port = due[id2].port

CInv ==
    /\ LInv /\ AnswerTypes /\ AnswerHeld /\ ReadsWillFind /\ OneRead /\ OnePort /\ AnswersRight

-----------------------------------------------------------------------------
(* One cycle of the accesses. *)

Consumed == snax_qvalid /\ req_ready(req.port)

LEMMA ShortSeq ==
  ASSUME NEW S, NEW q \in Seq(S)
  PROVE  /\ Len(q) <= 1 => Len(q) \in {0, 1}
         /\ Len(q) <= 2 => Len(q) \in {0, 1, 2}
<1> DEFINE n == Len(q)
<1>1. n \in Nat
  OBVIOUS
<1> HIDE DEF n
<1>2. (n <= 1 => n \in {0, 1}) /\ (n <= 2 => n \in {0, 1, 2})
  BY <1>1
<1> QED
  BY <1>2 DEF n

LEMMA RequestFacts ==
  ASSUME NEW r \in Requests
  PROVE  /\ r.kind \in {"read", "write", "start"} /\ r.port \in Ports
         /\ r.kind = "read" => r.id \in Ids
         /\ r.kind = "write" => r.val \in Values
BY DEF Requests, Read, Write, Start

LEMMA AcceptedFacts ==
  ASSUME NEW p, NEW kind
  PROVE  Accepts(kind, p) <=> Consumed /\ req.kind = kind /\ req.port = p
BY DEF Accepts, Consumed

LEMMA LeftFacts ==
  ASSUME OnTheWay
  PROVE  /\ Left \in Seq(Requests) /\ Len(Left) \in 0 .. 2 /\ Len(reqs) \in 0 .. 2
         /\ Consumed => /\ Len(reqs) >= 1 /\ Len(Left) = Len(reqs) - 1 /\ req = reqs[1]
                        /\ \A i \in 1 .. Len(Left) : Left[i] = reqs[i + 1]
         /\ ~Consumed => Left = reqs
         /\ \A i \in 1 .. Len(reqs) : reqs[i] \in Requests
<1>1. reqs \in Seq(Requests) /\ Len(reqs) \in 0 .. 2
  <2>1. reqs \in Seq(Requests) /\ Len(reqs) <= 2
    BY DEF OnTheWay, Room
  <2>2. Len(reqs) \in {0, 1, 2}
    BY <2>1, ShortSeq
  <2> QED
    BY <2>1, <2>2
<1>2. CASE Consumed
  <2>1. reqs # <<>> /\ Left = Tail(reqs)
    BY <1>2 DEF Consumed, Left, snax_qvalid
  <2> QED
    BY <1>1, <1>2, <2>1 DEF req
<1>3. CASE ~Consumed
  BY <1>1, <1>3 DEF Consumed, Left
<1> QED
  BY <1>2, <1>3

LEMMA AppendFacts ==
  ASSUME NEW S, NEW q \in Seq(S), Len(q) <= 1, NEW r \in S
  PROVE  /\ Len(q) \in {0, 1} /\ Len(Append(q, r)) = Len(q) + 1
         /\ Append(q, r)[Len(q) + 1] = r /\ (Len(q) = 1 => Append(q, r)[1] = q[1])
<1>1. Len(q) \in {0, 1}
  BY ShortSeq
<1> QED
  BY <1>1

LEMMA AppendTwo == \A x, y : Append(<<x>>, y) = <<x, y>> /\ Append(<<>>, y) = <<y>>
<1> TAKE x, y
<1> DEFINE a == Append(<<x>>, y)
<1>1. <<x>> \in Seq({x, y}) /\ y \in {x, y}
  OBVIOUS
<1>2. a \in Seq({x, y}) /\ Len(a) = 2 /\ a[1] = x /\ a[2] = y
  BY <1>1
<1> HIDE DEF a
<1>3. a = <<x, y>>
  BY <1>2
<1>4. Append(<<>>, y) = <<y>>
  OBVIOUS
<1> QED
  BY <1>3, <1>4 DEF a

\* A request that is taken leaves what it says in the configuration of its port.
LEMMA RegsStep ==
  ASSUME OnTheWay, NEW snax_pready \in BOOLEAN, Translate(snax_pready)
  PROVE  /\ regs' \in [Ports -> Vals]
         /\ \A p \in Ports : regs'[p] = IF Consumed THEN After(regs[p], reqs[1], p) ELSE regs[p]
<1>1. regs' = [p \in Ports |-> IF Accepts("write", p) THEN req.val ELSE regs[p]]
  BY DEF Translate
<1>2. Consumed => req = reqs[1] /\ req \in Requests
  BY LeftFacts
<1>3. \A p \in Ports : Accepts("write", p) => req.val \in Vals
  BY <1>2, AcceptedFacts, RequestFacts DEF Vals
<1>4. \A p \in Ports : regs'[p] = IF Consumed THEN After(regs[p], reqs[1], p) ELSE regs[p]
  BY <1>1, <1>2, AcceptedFacts DEF After
<1> QED
  BY <1>1, <1>3, <1>4 DEF OnTheWay

LEMMA RegLeft ==
  ASSUME OnTheWay, NEW snax_pready \in BOOLEAN, Translate(snax_pready), NEW p \in Ports, NEW i \in 1 .. Len(Left) + 1
  PROVE  RegAt(regs', Left, p, i) = RegAt(regs, reqs, p, IF Consumed THEN i + 1 ELSE i)
<1>1. regs'[p] = IF Consumed THEN After(regs[p], reqs[1], p) ELSE regs[p]
  BY RegsStep
<1>2. CASE ~Consumed
  BY <1>1, <1>2, LeftFacts DEF RegAt
<1>3. CASE Consumed
  <2>1. Len(Left) \in {0, 1} /\ (Len(Left) = 1 => Left[1] = reqs[2])
    <3>1. Len(reqs) \in 0 .. 2 /\ Len(reqs) >= 1 /\ Len(Left) = Len(reqs) - 1
          /\ \A k \in 1 .. Len(Left) : Left[k] = reqs[k + 1]
      BY <1>3, LeftFacts
    <3>2. Len(Left) \in {0, 1}
      BY <3>1
    <3> QED
      BY <3>1, <3>2
  <2>2. CASE i = 1
    BY <1>1, <1>3, <2>2 DEF RegAt
  <2>3. CASE i = 2
    BY <1>1, <1>3, <2>1, <2>3 DEF RegAt
  <2>4. \A n \in {0, 1} : 1 .. n + 1 \subseteq {1, 2}
    OBVIOUS
  <2>5. i \in {1, 2}
    BY <2>1, <2>4, Zenon
  <2> QED
    BY <2>2, <2>3, <2>5
<1> QED
  BY <1>2, <1>3

LEMMA RegAppend ==
  ASSUME NEW g, NEW q \in Seq(Requests), Len(q) <= 1, NEW r \in Requests, NEW p
  PROVE  /\ \A i \in 1 .. Len(q) + 1 : RegAt(g, Append(q, r), p, i) = RegAt(g, q, p, i)
         /\ RegAt(g, Append(q, r), p, Len(q) + 2) = After(RegAt(g, q, p, Len(q) + 1), r, p)
<1> DEFINE a == Append(q, r)
<1>1. Len(q) \in {0, 1} /\ a[Len(q) + 1] = r /\ (Len(q) = 1 => a[1] = q[1])
  BY AppendFacts
<1> HIDE DEF a
<1> DEFINE n == Len(q)
<1> HIDE DEF n
<1>2. /\ \A i \in 1 .. n + 1 : RegAt(g, a, p, i) = RegAt(g, q, p, i)
      /\ RegAt(g, a, p, n + 2) = After(RegAt(g, q, p, n + 1), r, p)
  <2>1. CASE n = 0
    BY <1>1, <2>1 DEF RegAt, n
  <2>2. CASE n = 1
    BY <1>1, <2>2 DEF RegAt, n
  <2> QED
    BY <1>1, <2>1, <2>2 DEF n
<1> QED
  BY <1>2 DEF a, n

LEMMA JobsAppend ==
  ASSUME NEW g, NEW q \in Seq(Requests), Len(q) <= 1, NEW r \in Requests, NEW p
  PROVE  JobsOf(g, Append(q, r), p) =
            IF r.kind = "start" /\ r.port = p
            THEN Append(JobsOf(g, q, p), RegAt(g, q, p, Len(q) + 1)) ELSE JobsOf(g, q, p)
<1> DEFINE a == Append(q, r)
<1>1. Len(q) \in {0, 1} /\ Len(a) = Len(q) + 1 /\ a[Len(q) + 1] = r /\ (Len(q) = 1 => a[1] = q[1])
  BY AppendFacts
<1>2. RegAt(g, a, p, 1) = RegAt(g, q, p, 1) /\ (Len(q) = 1 => RegAt(g, a, p, 2) = RegAt(g, q, p, 2))
  BY <1>1 DEF RegAt
<1> HIDE DEF a
<1>3. CASE Len(q) = 0
  <2>1. /\ ~StartAt(q, p, 1) /\ ~StartAt(q, p, 2) /\ ~StartAt(a, p, 2)
        /\ StartAt(a, p, 1) <=> r.kind = "start" /\ r.port = p
    BY <1>1, <1>3 DEF StartAt
  <2> QED
    BY <1>1, <1>2, <1>3, <2>1 DEF JobsOf, a
<1>4. CASE Len(q) = 1
  <2>1. /\ ~StartAt(q, p, 2) /\ (StartAt(a, p, 1) <=> StartAt(q, p, 1))
        /\ StartAt(a, p, 2) <=> r.kind = "start" /\ r.port = p
    BY <1>1, <1>4 DEF StartAt
  <2>2. JobsOf(g, q, p) = IF StartAt(q, p, 1) THEN <<RegAt(g, q, p, 1)>> ELSE <<>>
    BY <2>1 DEF JobsOf
  <2>3. JobsOf(g, a, p) =
            IF StartAt(a, p, 2)
            THEN IF StartAt(q, p, 1) THEN <<RegAt(g, q, p, 1), RegAt(g, q, p, 2)>>
                 ELSE <<RegAt(g, q, p, 2)>>
            ELSE JobsOf(g, q, p)
    BY <1>2, <1>4, <2>1, <2>2 DEF JobsOf
  <2>5. 1 + 1 = 2
    OBVIOUS
  <2>6. JobsOf(g, a, p) = IF StartAt(a, p, 2) THEN Append(JobsOf(g, q, p), RegAt(g, q, p, 1 + 1))
                          ELSE JobsOf(g, q, p)
    BY <2>2, <2>3, <2>5, AppendTwo
  <2> QED
    BY <1>4, <2>1, <2>6, Zenon DEF a
<1> QED
  BY <1>1, <1>3, <1>4

\* A start that is taken is launched: the manager has waited for the accelerator.
LEMMA LaunchLeft ==
  ASSUME LInv, NEW snax_pready \in BOOLEAN, Translate(snax_pready), NEW p \in Ports
  PROVE  /\ Launch[p] = JobsOf(regs', Left, p)
         /\ Fire(p) => regs[p] = Head(orders[p])
<1>1. OnTheWay /\ orders[p] = JobsOf(regs, reqs, p)
  BY DEF LInv, Ordered
<1>2. Fire(p) <=> Consumed /\ req.kind = "start" /\ req.port = p
  BY AcceptedFacts DEF Fire, Consumed, req_ready
<1>3. CASE ~Consumed
  <2>1. Left = reqs /\ ~Fire(p)
    BY <1>1, <1>2, <1>3, LeftFacts
  <2>2. regs'[p] = regs[p]
    BY <1>1, <1>3, RegsStep
  <2>3. JobsOf(regs', Left, p) = JobsOf(regs, reqs, p)
    BY <2>1, <2>2 DEF JobsOf, RegAt
  <2> QED
    BY <1>1, <2>1, <2>3 DEF Launch
<1>4. CASE Consumed
  <2>1. /\ Len(reqs) \in {1, 2} /\ Len(Left) = Len(reqs) - 1 /\ req = reqs[1]
        /\ Len(reqs) = 2 => Left[1] = reqs[2]
    BY <1>1, <1>4, LeftFacts
  <2>2. regs'[p] = After(regs[p], reqs[1], p)
    BY <1>1, <1>4, RegsStep
  <2>3. /\ StartAt(reqs, p, 1) <=> Fire(p)
        /\ StartAt(reqs, p, 2) <=> StartAt(Left, p, 1)
        /\ ~StartAt(Left, p, 2)
    BY <1>2, <1>4, <2>1 DEF StartAt
  <2>4. JobsOf(regs', Left, p) = IF StartAt(reqs, p, 2) THEN <<regs'[p]>> ELSE <<>>
    BY <2>3 DEF JobsOf, RegAt
  <2>5. CASE Fire(p)
    <3>1. orders[p] = IF StartAt(reqs, p, 2) THEN <<regs[p], regs'[p]>> ELSE <<regs[p]>>
      BY <1>1, <2>2, <2>3, <2>5 DEF JobsOf, RegAt
    <3>2. Tail(orders[p]) = JobsOf(regs', Left, p) /\ Head(orders[p]) = regs[p]
      BY <2>4, <3>1
    <3> QED
      BY <2>5, <3>2 DEF Launch
  <2>6. CASE ~Fire(p)
    <3>1. orders[p] = IF StartAt(reqs, p, 2) THEN <<regs'[p]>> ELSE <<>>
      BY <1>1, <2>2, <2>3, <2>6 DEF JobsOf, RegAt
    <3> QED
      BY <2>4, <2>6, <3>1 DEF Launch
  <2> QED
    BY <2>5, <2>6
<1> QED
  BY <1>3, <1>4

\* What the program has written is what the accesses that are left will leave.
LEMMA WrittenLeft ==
  ASSUME LInv, NEW snax_pready \in BOOLEAN, Translate(snax_pready), NEW p \in Ports
  PROVE  written[p] = RegAt(regs', Left, p, Len(Left) + 1)
<1> DEFINE i == Len(Left) + 1
           j == Len(reqs) + 1
<1>1. OnTheWay /\ written[p] = RegAt(regs, reqs, p, j)
  BY DEF LInv, Written
<1>2. i \in 1 .. Len(Left) + 1 /\ j = IF Consumed THEN i + 1 ELSE i
  BY <1>1, LeftFacts
<1> HIDE DEF i, j
<1>3. RegAt(regs', Left, p, i) = RegAt(regs, reqs, p, j)
  BY <1>1, <1>2, RegLeft
<1> QED
  BY <1>1, <1>3 DEF i

\* The core adds nothing.
LEMMA IdleLInv ==
  ASSUME LInv, NEW snax_pready \in BOOLEAN, Translate(snax_pready), NEW takes \in BOOLEAN, Idle(takes)
  PROVE  LInv'
<1>1. OnTheWay /\ reqs' = Left /\ orders' = Launch /\ written' = written
  BY DEF LInv, Idle
<1>2. OnTheWay'
  <2>1. Len(Left) <= 2 /\ Left \in Seq(Requests)
    BY <1>1, LeftFacts
  <2>2. regs' \in [Ports -> Vals]
    BY <1>1, RegsStep
  <2> QED
    BY <1>1, <2>1, <2>2 DEF OnTheWay, Room, Launch
<1>3. Written'
  BY <1>1, WrittenLeft DEF Written
<1>4. Ordered'
  BY <1>1, LaunchLeft DEF Ordered
<1> QED
  BY <1>2, <1>3, <1>4 DEF LInv

\* The core adds the access r.
LEMMA ExecuteLInv ==
  ASSUME LInv, NEW snax_pready \in BOOLEAN, Translate(snax_pready), NEW takes \in BOOLEAN,
         NEW r \in Requests, Execute(r, takes)
  PROVE  LInv'
<1>1. /\ OnTheWay /\ reqs' = Append(Left, r) /\ Len(reqs) < 2
      /\ written' = IF r.kind = "write" THEN [written EXCEPT ![r.port] = r.val] ELSE written
      /\ orders' = IF r.kind = "start"
                   THEN [Launch EXCEPT ![r.port] = Append(@, written[r.port])] ELSE Launch
  BY DEF LInv, Execute, Room
<1>2. Left \in Seq(Requests) /\ Len(Left) \in {0, 1} /\ Len(Left) <= 1
  <2>1. Left \in Seq(Requests) /\ Len(Left) <= 1
    BY <1>1, LeftFacts
  <2> QED
    BY <2>1, ShortSeq
<1>3. regs' \in [Ports -> Vals]
  BY <1>1, RegsStep
<1>4. OnTheWay'
  <2>1. reqs' \in Seq(Requests) /\ Len(reqs') <= 2
    BY <1>1, <1>2
  <2>2. written' \in [Ports -> Vals]
    BY <1>1, RequestFacts DEF OnTheWay, Vals
  <2>3. DOMAIN orders' = Ports
    BY <1>1 DEF Launch
  <2> QED
    BY <1>3, <2>1, <2>2, <2>3 DEF OnTheWay, Room
<1>5. \A p \in Ports : written[p] = RegAt(regs', Left, p, Len(Left) + 1)
  BY WrittenLeft
<1>6. Written'
  <2>1. \A p \in Ports : RegAt(regs', reqs', p, Len(Left) + 2) = After(written[p], r, p)
    BY <1>1, <1>2, <1>5, RegAppend
  <2>2. Len(reqs') + 1 = Len(Left) + 2
    BY <1>1, <1>2
  <2>3. \A p \in Ports : written'[p] = After(written[p], r, p)
    BY <1>1 DEF After, OnTheWay
  <2> QED
    BY <2>1, <2>2, <2>3 DEF Written
<1>7. Ordered'
  <2>1. \A p \in Ports : JobsOf(regs', reqs', p) =
            IF r.kind = "start" /\ r.port = p
            THEN Append(JobsOf(regs', Left, p), RegAt(regs', Left, p, Len(Left) + 1))
            ELSE JobsOf(regs', Left, p)
    BY <1>1, <1>2, JobsAppend, Zenon
  <2>2. \A p \in Ports : orders'[p] = IF r.kind = "start" /\ r.port = p
                                      THEN Append(Launch[p], written[p]) ELSE Launch[p]
    BY <1>1 DEF Launch
  <2>3. \A p \in Ports : Launch[p] = JobsOf(regs', Left, p)
    BY LaunchLeft
  <2> QED
    BY <1>5, <2>1, <2>2, <2>3 DEF Ordered
<1> QED
  BY <1>4, <1>6, <1>7 DEF LInv

LEMMA StepLInv ==
  ASSUME LInv, [PortNext]_portVars
  PROVE  LInv'
<1>1. ASSUME NEW snax_pready \in BOOLEAN, NEW takes \in BOOLEAN, NEW finished \in SUBSET Ports,
             PortClock(snax_pready, takes, finished)
      PROVE  LInv'
  BY <1>1, IdleLInv, ExecuteLInv DEF PortClock
<1>2. CASE UNCHANGED portVars
  BY <1>2 DEF portVars, LInv, OnTheWay, Written, Ordered, JobsOf, StartAt, RegAt, After
<1> QED
  BY <1>1, <1>2 DEF PortNext

LEMMA InitLInv == PortInit => LInv
<1> SUFFICES ASSUME PortInit
             PROVE  LInv
  OBVIOUS
<1>1. reqs = <<>> /\ Len(reqs) = 0 /\ regs = [p \in Ports |-> 0] /\ written = regs
      /\ orders = [p \in Ports |-> <<>>]
  BY DEF PortInit
<1>2. \A p \in Ports : written[p] = RegAt(regs, reqs, p, 1) /\ orders[p] = JobsOf(regs, reqs, p)
  BY <1>1 DEF RegAt, JobsOf, StartAt
<1>3. OnTheWay
  BY <1>1 DEF OnTheWay, Vals, Room
<1> QED
  BY <1>1, <1>2, <1>3 DEF LInv, Written, Ordered

(***************************************************************************)
(* The accesses of the two ports overtake each other nowhere: a port       *)
(* launches the jobs in the order of the program, each with what had been  *)
(* written by then, also while a start waits for its accelerator and the   *)
(* program goes on.                                                        *)
(***************************************************************************)
THEOREM JobsLaunchedAsOrdered == PortSpec => LaunchesAsOrdered
<1>1. ASSUME LInv, [PortNext]_portVars
      PROVE  [\A p \in Ports : active'[p] /\ ~active[p] => regs[p] = Head(orders[p])]_portVars
  <2>1. ASSUME NEW snax_pready \in BOOLEAN, NEW takes \in BOOLEAN, NEW finished \in SUBSET Ports,
               PortClock(snax_pready, takes, finished), NEW p \in Ports, active'[p], ~active[p]
        PROVE  regs[p] = Head(orders[p])
    <3>1. Fire(p)
      BY <2>1 DEF PortClock, Run
    <3> QED
      BY <1>1, <2>1, <3>1, LaunchLeft DEF PortClock
  <2> QED
    BY <1>1, <2>1 DEF PortNext
<1>2. LInv /\ [PortNext]_portVars => [\A p \in Ports : active'[p] /\ ~active[p] => regs[p] = Head(orders[p])]_portVars
  BY <1>1
<1>3. PortSpec => []LInv
  BY InitLInv, StepLInv, PTL DEF PortSpec
<1> QED
  BY <1>2, <1>3, PTL DEF PortSpec, LaunchesAsOrdered

-----------------------------------------------------------------------------
(* One cycle of the answers. *)

LEMMA DueFacts ==
  ASSUME AnswerTypes
  PROVE  /\ NoAnswer \notin Answer
         /\ \A id \in Ids : id \in Outstanding <=> due[id] \in Answer
         /\ Outstanding \subseteq Ids
<1>1. NoAnswer \notin Answer
  BY DEF NoAnswer, Answer, Ports
<1> QED
  BY <1>1 DEF AnswerTypes, Outstanding

\* A manager takes a read in this cycle.
TakenOff == Consumed /\ req.kind = "read"

\* The read at the input, if there is one, is for a register that waits for what
\* the manager of its port holds.
LEMMA TakenFacts ==
  ASSUME CInv, TakenOff
  PROVE  /\ req.port \in Ports /\ req.id \in Outstanding
         /\ ids # <<>> => req.id # ids[1]
         /\ due[req.id] = [port |-> req.port, val |-> regs[req.port]]
         /\ ~readRegBusy[req.port]
         /\ \A j \in DOMAIN rsps : req.id # rsps[j].id
         /\ \A i \in 1 .. Len(Left) : Left[i].kind = "read" => Left[i].id # req.id
<1>1. OnTheWay /\ AnswerTypes /\ ReadsWillFind /\ OneRead
  BY DEF CInv, LInv
<1>2. req = reqs[1] /\ 1 \in DOMAIN reqs /\ req \in Requests /\ req.kind = "read" /\ ~readRegBusy[req.port]
  BY <1>1, LeftFacts DEF TakenOff, Consumed, req_ready
<1>3. req.port \in Ports /\ req.id \in Ids
  BY <1>2, RequestFacts
<1>4. due[req.id] = [port |-> req.port, val |-> regs[req.port]]
  BY <1>1, <1>2 DEF ReadsWillFind, RegAt
<1>5. due[req.id] \in Answer
  BY <1>1, <1>3, <1>4 DEF Answer, OnTheWay
<1>6. \A i \in 1 .. Len(Left) : i + 1 \in DOMAIN reqs /\ i + 1 # 1 /\ Left[i] = reqs[i + 1]
  BY <1>1, LeftFacts DEF TakenOff
<1>7. \A i \in 1 .. Len(Left) : Left[i].kind = "read" => Left[i].id # req.id
  BY <1>1, <1>2, <1>6 DEF OneRead
<1> QED
  BY <1>1, <1>2, <1>3, <1>4, <1>5, <1>7, DueFacts DEF OneRead

LEMMA AcceptedRead == \A p : Accepts("read", p) <=> TakenOff /\ req.port = p
BY AcceptedFacts DEF TakenOff

\* The answer of the cycle is for id, which waits for one of port p.
Answering(p, id) ==
    /\ p \in Ports /\ id \in Outstanding /\ due[id].port = p
    /\ \/ ids = <<id>> /\ ~TakenOff
       \/ ids = <<>> /\ TakenOff /\ req.id = id

\* The answers that stay on their way to the core.
Held(takes) == IF Retire(takes) THEN Tail(rsps) ELSE rsps

\* The manager and the translator keep the answer that is not taken.
Keeps(p, id) ==
    /\ ids' = <<id>> /\ readRegBusy'[p] /\ \A o \in Ports : o # p => ~readRegBusy'[o]
    /\ readRegBuffer'[p] = due[id]

KeepNothing == ids' = <<>> /\ \A p \in Ports : ~readRegBusy'[p]

LEMMA OneAnswer ==
  ASSUME CInv
  PROVE  \/ ids = <<>> /\ ~TakenOff /\ \A p \in Ports : ~rsp_valid(p)
         \/ \E p \in Ports, id \in Outstanding :
               /\ Answering(p, id) /\ rsp_valid(p) /\ \A o \in Ports : o # p => ~rsp_valid(o)
               /\ rsp_data(p) = due[id] /\ rsp_ids = {id}
<1>1. AnswerHeld /\ OnePort
  BY DEF CInv
<1>2. CASE ids = <<>> /\ \A p \in Ports : ~readRegBusy[p]
  <2>1. CASE ~TakenOff
    BY <1>2, <2>1, AcceptedRead DEF rsp_valid
  <2>2. CASE TakenOff
    <3>1. Answering(req.port, req.id)
      BY <1>2, <2>2, TakenFacts DEF Answering
    <3>2. rsp_valid(req.port) /\ \A o \in Ports : o # req.port => ~rsp_valid(o)
      BY <1>2, <2>2, AcceptedRead DEF rsp_valid
    <3>3. rsp_data(req.port) = due[req.id] /\ rsp_ids = {req.id}
      BY <1>2, <2>2, AcceptedRead, TakenFacts DEF rsp_data, rsp_ids, TakenOff, Consumed
    <3> QED
      BY <2>2, <3>1, <3>2, <3>3, TakenFacts
  <2> QED
    BY <2>1, <2>2
<1>3. ASSUME NEW p \in Ports, NEW id \in Outstanding,
             ids = <<id>> /\ readRegBusy[p] /\ \A o \in Ports : o # p => ~readRegBusy[o],
             readRegBuffer[p] = due[id], due[id].port = p
      PROVE  /\ Answering(p, id) /\ rsp_valid(p) /\ \A o \in Ports : o # p => ~rsp_valid(o)
             /\ rsp_data(p) = due[id] /\ rsp_ids = {id}
  <2>1. ~TakenOff
    <3> SUFFICES ASSUME TakenOff
                 PROVE  FALSE
      OBVIOUS
    <3>1. due[req.id].port = req.port /\ req.id \in Outstanding /\ req.port # p
      BY <1>3, TakenFacts
    <3> QED
      BY <1>1, <1>3, <3>1 DEF OnePort
  <2> QED
    BY <1>3, <2>1, AcceptedRead DEF Answering, rsp_valid, rsp_data, rsp_ids
<1> QED
  BY <1>1, <1>2, <1>3 DEF AnswerHeld

LEMMA ResponseFacts ==
  ASSUME CInv, NEW snax_pready \in BOOLEAN, NEW takes \in BOOLEAN,
         Translate(snax_pready), Respond(snax_pready, takes)
  PROVE  \/ ids = <<>> /\ ~TakenOff /\ KeepNothing /\ rsps' = Held(takes)
         \/ \E p \in Ports, id \in Outstanding :
               /\ Answering(p, id)
               /\ \/ KeepNothing /\ rsps' = Append(Held(takes), [id |-> id, data |-> due[id]])
                  \/ Keeps(p, id) /\ rsps' = Held(takes)
<1> DEFINE push == rsp_fifo_push(snax_pready)
           pop == rsp_fifo_pop(snax_pready)
           shake == rsp_handshake(snax_pready)
           ready(p) == p = csr_rsp_port /\ snax_pready /\ ~rsp_fifo_full
<1>1. /\ ids' = IF push THEN Append(IF pop THEN Tail(ids) ELSE ids, req.id)
                ELSE IF pop THEN Tail(ids) ELSE ids
      /\ \A p \in Ports : readRegBusy'[p] <=> rsp_valid(p) /\ ~ready(p)
      /\ \A p \in Ports : readRegBusy'[p] => readRegBuffer'[p] = rsp_data(p)
  BY DEF Translate
<1>2. IF shake THEN \E id \in rsp_ids : rsps' = Append(Held(takes), [id |-> id, data |-> rsp_data(csr_rsp_port)])
      ELSE rsps' = Held(takes)
  BY Zenon DEF Respond, Held
<1>3. /\ push <=> (\E p \in Ports : Accepts("read", p)) /\ ~shake /\ ~rsp_fifo_full
      /\ pop <=> shake /\ ids # <<>>
      /\ shake <=> rsp_valid(csr_rsp_port) /\ snax_pready
  BY DEF rsp_fifo_push, rsp_fifo_pop, rsp_handshake, csr_rsp_valid
<1>4. (\E p \in Ports : Accepts("read", p)) <=> TakenOff
  BY AcceptedRead, TakenFacts
<1>5. csr_rsp_port \in Ports
  BY DEF csr_rsp_port, Ports
<1>6. CASE ids = <<>> /\ ~TakenOff /\ \A p \in Ports : ~rsp_valid(p)
  BY <1>1, <1>2, <1>3, <1>4, <1>5, <1>6 DEF KeepNothing
<1>7. ASSUME NEW p \in Ports, NEW id \in Outstanding,
             Answering(p, id), rsp_valid(p), \A o \in Ports : o # p => ~rsp_valid(o),
             rsp_data(p) = due[id], rsp_ids = {id}
      PROVE  \/ KeepNothing /\ rsps' = Append(Held(takes), [id |-> id, data |-> due[id]])
             \/ Keeps(p, id) /\ rsps' = Held(takes)
  <2>1. csr_rsp_port = p
    BY <1>7 DEF csr_rsp_port, Ports
  <2>2. ~rsp_fifo_full
    <3>1. ids = <<>> \/ ids = <<id>>
      BY <1>7 DEF Answering
    <3>2. Len(ids) \in {0, 1}
      BY <3>1
    <3> QED
      BY <3>2 DEF rsp_fifo_full, NumOutstandingLoads
  <2>3. CASE snax_pready
    <3>1. shake /\ ~push /\ (pop <=> ids # <<>>)
      BY <1>3, <1>7, <2>1, <2>3
    <3>2. ids' = <<>>
      <4>1. CASE ids = <<>>
        BY <1>1, <3>1, <4>1
      <4>2. CASE ids = <<id>>
        BY <1>1, <3>1, <4>2
      <4> QED
        BY <1>7, <4>1, <4>2 DEF Answering
    <3>3. KeepNothing
      BY <1>1, <1>7, <2>1, <2>2, <2>3, <3>2 DEF KeepNothing
    <3>4. rsps' = Append(Held(takes), [id |-> id, data |-> due[id]])
      BY <1>2, <1>7, <2>1, <3>1
    <3> QED
      BY <3>3, <3>4
  <2>4. CASE ~snax_pready
    <3>1. ~shake /\ ~pop /\ (push <=> TakenOff)
      BY <1>3, <1>4, <2>2, <2>4
    <3>2. ids' = <<id>>
      <4>1. CASE ids = <<>> /\ TakenOff /\ req.id = id
        BY <1>1, <3>1, <4>1, AppendTwo
      <4>2. CASE ids = <<id>> /\ ~TakenOff
        BY <1>1, <3>1, <4>2
      <4> QED
        BY <1>7, <4>1, <4>2 DEF Answering
    <3>3. Keeps(p, id)
      BY <1>1, <1>7, <2>4, <3>2 DEF Keeps
    <3> QED
      BY <1>2, <3>1, <3>3
  <2> QED
    BY <2>3, <2>4
<1> HIDE DEF push, pop, shake, ready
<1> QED
  BY <1>6, <1>7, OneAnswer

\* The core has not retired the answer of id in this cycle.
Waits(id, takes) == id \in Outstanding /\ (Retire(takes) => id # Head(rsps).id)

LEMMA HeldFacts ==
  ASSUME CInv, NEW takes \in BOOLEAN
  PROVE  /\ Held(takes) \in Seq([id : Ids, data : Answer])
         /\ \A j \in DOMAIN Held(takes) :
               \E k \in DOMAIN rsps : Held(takes)[j] = rsps[k] /\ Waits(rsps[k].id, takes)
         /\ \A i, j \in DOMAIN Held(takes) : Held(takes)[i].id = Held(takes)[j].id => i = j
<1>1. AnswerTypes /\ AnswersRight
  BY DEF CInv
<1>2. rsps \in Seq([id : Ids, data : Answer])
  BY <1>1 DEF AnswerTypes
<1>3. \A k \in DOMAIN rsps : rsps[k].id \in Outstanding /\ due[rsps[k].id] = rsps[k].data
  <2> SUFFICES ASSUME NEW k \in DOMAIN rsps
               PROVE  rsps[k].id \in Outstanding /\ due[rsps[k].id] = rsps[k].data
    OBVIOUS
  <2> DEFINE S == [id : Ids, data : Answer]
  <2>0. rsps \in Seq(S)
    BY <1>2
  <2> HIDE DEF S
  <2>1. rsps[k] \in S
    BY <2>0
  <2>2. due[rsps[k].id] = rsps[k].data
    BY <1>1 DEF AnswersRight
  <2> QED
    BY <1>1, <2>1, <2>2, DueFacts DEF S
<1>4. CASE Retire(takes)
  <2>1. rsps # <<>> /\ Held(takes) = Tail(rsps)
    BY <1>4 DEF Retire, Held
  <2> DEFINE S == [id : Ids, data : Answer]
             held == Held(takes)
  <2> HIDE DEF S
  <2>2. rsps \in Seq(S) /\ rsps # <<>>
    BY <1>2, <2>1 DEF S
  <2>3. held \in Seq(S) /\ Head(rsps) = rsps[1] /\ 1 \in DOMAIN rsps
    BY <2>1, <2>2
  <2>4. \A j \in DOMAIN held : j \in Int /\ j + 1 \in DOMAIN rsps /\ j + 1 # 1 /\ held[j] = rsps[j + 1]
    BY <2>1, <2>2
  <2>5. \A j, i \in DOMAIN held : i + 1 = j + 1 => i = j
    BY <2>4
  <2>6. \A j \in DOMAIN held : held[j] = rsps[j + 1] /\ Waits(rsps[j + 1].id, takes)
    BY <1>1, <1>3, <2>3, <2>4 DEF AnswersRight, Waits
  <2>7. \A i, j \in DOMAIN held : held[i].id = held[j].id => i = j
    BY <1>1, <2>4, <2>5 DEF AnswersRight
  <2> QED
    BY <2>3, <2>4, <2>6, <2>7 DEF S
<1>5. CASE ~Retire(takes)
  BY <1>1, <1>2, <1>3, <1>5 DEF Held, Waits, AnswersRight
<1> QED
  BY <1>4, <1>5

LEMMA WaitingReads ==
  ASSUME CInv, NEW takes \in BOOLEAN, NEW i \in DOMAIN reqs, reqs[i].kind = "read"
  PROVE  Waits(reqs[i].id, takes)
<1>1. OnTheWay /\ AnswerTypes /\ ReadsWillFind /\ OneRead
  BY DEF CInv, LInv
<1>2. reqs[i] \in Requests /\ i \in {1, 2}
  BY <1>1, LeftFacts
<1>3. reqs[i].id \in Ids /\ reqs[i].port \in Ports
  BY <1>2, RequestFacts
<1>4. due[reqs[i].id].port = reqs[i].port
  <2>1. due[reqs[i].id] = [port |-> reqs[i].port, val |-> RegAt(regs, reqs, reqs[i].port, i)]
    BY <1>1, Zenon DEF ReadsWillFind
  <2> QED
    BY <2>1
<1>5. due[reqs[i].id] # NoAnswer
  BY <1>3, <1>4 DEF NoAnswer, Ports
<1>6. Retire(takes) => 1 \in DOMAIN rsps /\ Head(rsps) = rsps[1]
  <2>1. rsps \in Seq([id : Ids, data : Answer])
    BY <1>1 DEF AnswerTypes
  <2> QED
    BY <2>1 DEF Retire
<1> QED
  BY <1>1, <1>3, <1>5, <1>6 DEF Waits, Outstanding, OneRead

LEMMA AnswersStep ==
  ASSUME CInv, NEW snax_pready \in BOOLEAN, NEW takes \in BOOLEAN,
         Translate(snax_pready), Respond(snax_pready, takes)
  PROVE  /\ rsps' \in Seq([id : Ids, data : Answer])
         /\ KeepNothing \/ \E p \in Ports, id \in Outstanding :
                              Keeps(p, id) /\ Waits(id, takes) /\ due[id].port = p
         /\ \A j \in DOMAIN rsps' :
               /\ Waits(rsps'[j].id, takes) /\ rsps'[j].data = due[rsps'[j].id]
               /\ ids' # <<>> => rsps'[j].id # ids'[1]
               /\ \A i \in DOMAIN rsps' : rsps'[i].id = rsps'[j].id => i = j
         /\ \A i \in 1 .. Len(Left) : Left[i].kind = "read" =>
               /\ Waits(Left[i].id, takes)
               /\ ids' # <<>> => Left[i].id # ids'[1]
               /\ \A j \in DOMAIN rsps' : Left[i].id # rsps'[j].id
               /\ \A j \in 1 .. Len(Left) : i # j /\ Left[j].kind = "read" => Left[i].id # Left[j].id
<1>1. OnTheWay /\ AnswerTypes /\ AnswersRight /\ OneRead
  BY DEF CInv, LInv
<1> DEFINE held == Held(takes)
<1>2. rsps \in Seq([id : Ids, data : Answer]) /\ held \in Seq([id : Ids, data : Answer])
  BY <1>1, HeldFacts DEF AnswerTypes
<1>3. \A j \in DOMAIN held :
         /\ Waits(held[j].id, takes) /\ held[j].data = due[held[j].id]
         /\ \E k \in DOMAIN rsps : held[j] = rsps[k]
         /\ \A i \in DOMAIN held : held[i].id = held[j].id => i = j
  BY <1>1, HeldFacts DEF AnswersRight
<1>4. \A i \in 1 .. Len(Left) : \E k \in DOMAIN reqs :
         /\ Left[i] = reqs[k] /\ (TakenOff => k # 1 /\ req = reqs[1])
         /\ k = IF Consumed THEN i + 1 ELSE i
  <2>1. CASE Consumed
    BY <1>1, <2>1, LeftFacts
  <2>2. CASE ~Consumed
    BY <1>1, <2>2, LeftFacts DEF TakenOff
  <2> QED
    BY <2>1, <2>2
<1>5. \A i \in 1 .. Len(Left) : Left[i].kind = "read" =>
         /\ Waits(Left[i].id, takes) /\ (TakenOff => Left[i].id # req.id)
         /\ ids # <<>> => Left[i].id # ids[1]
         /\ \A j \in DOMAIN held : Left[i].id # held[j].id
         /\ \A j \in 1 .. Len(Left) : i # j /\ Left[j].kind = "read" => Left[i].id # Left[j].id
  <2> SUFFICES ASSUME NEW i \in 1 .. Len(Left), Left[i].kind = "read"
               PROVE  /\ Waits(Left[i].id, takes) /\ (TakenOff => Left[i].id # req.id)
                      /\ ids # <<>> => Left[i].id # ids[1]
                      /\ \A j \in DOMAIN held : Left[i].id # held[j].id
                      /\ \A j \in 1 .. Len(Left) :
                            i # j /\ Left[j].kind = "read" => Left[i].id # Left[j].id
    OBVIOUS
  <2>1. PICK k \in DOMAIN reqs : Left[i] = reqs[k] /\ k = IF Consumed THEN i + 1 ELSE i
    BY <1>4
  <2>2. Waits(Left[i].id, takes) /\ (TakenOff => Left[i].id # req.id)
    BY <2>1, WaitingReads, TakenFacts
  <2>3. (ids # <<>> => Left[i].id # ids[1]) /\ \A j \in DOMAIN held : Left[i].id # held[j].id
    BY <1>1, <1>3, <2>1 DEF OneRead
  <2>4. \A j \in 1 .. Len(Left) : i # j /\ Left[j].kind = "read" => Left[i].id # Left[j].id
    <3> SUFFICES ASSUME NEW j \in 1 .. Len(Left), i # j, Left[j].kind = "read"
                 PROVE  Left[i].id # Left[j].id
      OBVIOUS
    <3>1. PICK m \in DOMAIN reqs : Left[j] = reqs[m] /\ m = IF Consumed THEN j + 1 ELSE j
      BY <1>4
    <3>2. m # k
      BY <2>1, <3>1
    <3> QED
      BY <1>1, <2>1, <3>1, <3>2 DEF OneRead
  <2> QED
    BY <2>2, <2>3, <2>4
<1> HIDE DEF held
<1>6. CASE ids = <<>> /\ ~TakenOff /\ KeepNothing /\ rsps' = held
  BY <1>2, <1>3, <1>5, <1>6 DEF KeepNothing
<1>7. ASSUME NEW p \in Ports, NEW id \in Outstanding, Answering(p, id)
      PROVE  /\ Waits(id, takes) /\ due[id].port = p /\ due[id] \in Answer
             /\ \A j \in DOMAIN held : held[j].id # id
             /\ \A i \in 1 .. Len(Left) : Left[i].kind = "read" => Left[i].id # id
  <2>1. due[id].port = p /\ due[id] \in Answer
    BY <1>1, <1>7, DueFacts DEF Answering
  <2>2. \A j \in DOMAIN rsps : rsps[j].id # id
    <3>1. CASE ids = <<id>>
      <4>1. ids # <<>> /\ ids[1] = id
        BY <3>1
      <4> QED
        BY <1>1, <4>1 DEF OneRead
    <3>2. CASE TakenOff /\ req.id = id
      BY <3>2, TakenFacts
    <3> QED
      BY <1>7, <3>1, <3>2 DEF Answering
  <2>3. Waits(id, takes)
    <3>1. Retire(takes) => 1 \in DOMAIN rsps /\ Head(rsps) = rsps[1]
      BY <1>2 DEF Retire
    <3> QED
      BY <2>2, <3>1 DEF Waits
  <2>4. \A i \in 1 .. Len(Left) : Left[i].kind = "read" => Left[i].id # id
    <3>1. CASE ids = <<id>>
      <4>1. ids # <<>> /\ ids[1] = id
        BY <3>1
      <4> QED
        BY <1>5, <4>1
    <3>2. CASE TakenOff /\ req.id = id
      BY <1>5, <3>2
    <3> QED
      BY <1>7, <3>1, <3>2 DEF Answering
  <2> QED
    BY <1>3, <2>1, <2>2, <2>3, <2>4
<1>8. ASSUME NEW p \in Ports, NEW id \in Outstanding, Answering(p, id), Keeps(p, id), rsps' = held
      PROVE  /\ rsps' \in Seq([id : Ids, data : Answer])
             /\ Waits(id, takes) /\ due[id].port = p
             /\ \A j \in DOMAIN rsps' : rsps'[j].id # ids'[1]
             /\ \A i \in 1 .. Len(Left) : Left[i].kind = "read" => Left[i].id # ids'[1]
  <2>1. ids'[1] = id
    BY <1>8 DEF Keeps
  <2> QED
    BY <1>2, <1>7, <1>8, <2>1
<1>9. CASE \E p \in Ports, id \in Outstanding : Answering(p, id) /\ Keeps(p, id) /\ rsps' = held
  <2>1. PICK p \in Ports, id \in Outstanding : Answering(p, id) /\ Keeps(p, id) /\ rsps' = held
    BY <1>9
  <2>2. /\ rsps' \in Seq([id : Ids, data : Answer])
        /\ Waits(id, takes) /\ due[id].port = p
        /\ \A j \in DOMAIN rsps' : rsps'[j].id # ids'[1]
        /\ \A i \in 1 .. Len(Left) : Left[i].kind = "read" => Left[i].id # ids'[1]
    BY <1>8, <2>1
  <2>3. \A j \in DOMAIN rsps' :
               /\ Waits(rsps'[j].id, takes) /\ rsps'[j].data = due[rsps'[j].id]
               /\ \A i \in DOMAIN rsps' : rsps'[i].id = rsps'[j].id => i = j
    BY <1>3, <2>1
  <2>4. \A i \in 1 .. Len(Left) : Left[i].kind = "read" =>
               /\ Waits(Left[i].id, takes)
               /\ \A j \in DOMAIN rsps' : Left[i].id # rsps'[j].id
               /\ \A j \in 1 .. Len(Left) : i # j /\ Left[j].kind = "read" => Left[i].id # Left[j].id
    BY <1>5, <2>1
  <2> QED
    BY <2>1, <2>2, <2>3, <2>4
<1>10. ASSUME NEW p \in Ports, NEW id \in Outstanding, Answering(p, id), KeepNothing,
              rsps' = Append(held, [id |-> id, data |-> due[id]])
       PROVE  /\ rsps' \in Seq([id : Ids, data : Answer])
              /\ \A j \in DOMAIN rsps' :
                    /\ Waits(rsps'[j].id, takes) /\ rsps'[j].data = due[rsps'[j].id]
                    /\ \A i \in DOMAIN rsps' : rsps'[i].id = rsps'[j].id => i = j
              /\ \A i \in 1 .. Len(Left) : Left[i].kind = "read" =>
                    \A j \in DOMAIN rsps' : Left[i].id # rsps'[j].id
  <2> DEFINE a == [id |-> id, data |-> due[id]]
             n == Len(held) + 1
  <2>1. a \in [id : Ids, data : Answer] /\ a.id = id /\ a.data = due[id]
    BY <1>1, <1>7, <1>10, DueFacts
  <2> HIDE DEF a
  <2>2. /\ rsps' \in Seq([id : Ids, data : Answer]) /\ rsps'[n] = a
        /\ \A j \in DOMAIN rsps' : j = n \/ (j \in DOMAIN held /\ rsps'[j] = held[j])
    BY <1>2, <1>10, <2>1 DEF a
  <2> HIDE DEF n
  <2>3. /\ Waits(id, takes) /\ \A j \in DOMAIN held : held[j].id # id
        /\ \A i \in 1 .. Len(Left) : Left[i].kind = "read" => Left[i].id # id
    BY <1>7, <1>10
  <2>4. \A j \in DOMAIN rsps' : Waits(rsps'[j].id, takes) /\ rsps'[j].data = due[rsps'[j].id]
    BY <1>3, <2>1, <2>2, <2>3
  <2>5. \A i, j \in DOMAIN rsps' : rsps'[i].id = rsps'[j].id => i = j
    BY <1>3, <2>1, <2>2, <2>3
  <2>6. \A i \in 1 .. Len(Left) : Left[i].kind = "read" =>
            \A j \in DOMAIN rsps' : Left[i].id # rsps'[j].id
    BY <1>5, <2>1, <2>2, <2>3
  <2> QED
    BY <2>2, <2>4, <2>5, <2>6
<1>11. CASE \E p \in Ports, id \in Outstanding :
               /\ Answering(p, id) /\ KeepNothing
               /\ rsps' = Append(held, [id |-> id, data |-> due[id]])
  <2>1. KeepNothing /\ ids' = <<>>
    BY <1>11 DEF KeepNothing
  <2> QED
    BY <1>5, <1>10, <1>11, <2>1
<1> QED
  BY <1>6, <1>9, <1>11, ResponseFacts DEF held

\* What a step of the core leaves of what the reads shall return.
Keeping(takes) == \A id \in Ids : Waits(id, takes) => due'[id] = due[id]

LEMMA RetiredFacts ==
  ASSUME CInv, NEW takes \in BOOLEAN
  PROVE  /\ Retired(takes) \in [Ids -> Answer \cup {NoAnswer}]
         /\ \A id \in Ids : Waits(id, takes) => Retired(takes)[id] = due[id]
         /\ \A id \in Ids : Retired(takes)[id] = due[id] \/ Retired(takes)[id] = NoAnswer
BY DEF CInv, AnswerTypes, Retired, Waits

\* The parts of the invariant in which no new request takes part.
LEMMA CommonStep ==
  ASSUME CInv, NEW snax_pready \in BOOLEAN, NEW takes \in BOOLEAN,
         Translate(snax_pready), Respond(snax_pready, takes),
         due' \in [Ids -> Answer \cup {NoAnswer}], Keeping(takes)
  PROVE  /\ AnswerTypes' /\ AnswerHeld' /\ AnswersRight'
         /\ \A i \in 1 .. Len(Left) : Left[i].kind = "read" =>
               /\ Left[i].id \in Outstanding
               /\ due'[Left[i].id] = [port |-> Left[i].port, val |-> RegAt(regs', Left, Left[i].port, i)]
<1>1. OnTheWay /\ AnswerTypes /\ ReadsWillFind
  BY DEF CInv, LInv
<1>2. NoAnswer \notin Answer /\ \A id \in Outstanding : id \in Ids /\ due[id] \in Answer
  BY <1>1, DueFacts
<1>3. \A id : Waits(id, takes) => id \in Outstanding /\ due'[id] = due[id]
  BY <1>2 DEF Keeping, Waits
<1>4. AnswerTypes'
  BY AnswersStep DEF AnswerTypes
<1>5. AnswerHeld'
  <2>1. CASE KeepNothing
    BY <2>1 DEF KeepNothing, AnswerHeld
  <2>2. ASSUME NEW p \in Ports, NEW id \in Outstanding, Keeps(p, id), Waits(id, takes), due[id].port = p
        PROVE  AnswerHeld'
    <3>1. id \in Ids /\ due'[id] = due[id] /\ due'[id] # NoAnswer
      BY <1>2, <1>3, <2>2
    <3>2. id \in Outstanding'
      BY <3>1 DEF Outstanding
    <3> QED
      BY <2>2, <3>1, <3>2 DEF AnswerHeld, Keeps
  <2> QED
    BY <2>1, <2>2, AnswersStep
<1>6. AnswersRight'
  BY <1>3, AnswersStep DEF AnswersRight
<1>7. ASSUME NEW i \in 1 .. Len(Left), Left[i].kind = "read"
      PROVE  /\ Left[i].id \in Outstanding
             /\ due'[Left[i].id] = [port |-> Left[i].port, val |-> RegAt(regs', Left, Left[i].port, i)]
  <2> DEFINE k == IF Consumed THEN i + 1 ELSE i
             p == Left[i].port
  <2>1. Left[i].id \in Outstanding /\ due'[Left[i].id] = due[Left[i].id]
    BY <1>3, <1>7, AnswersStep
  <2>2. k \in DOMAIN reqs /\ Left[i] = reqs[k] /\ Left[i] \in Requests
    BY <1>1, LeftFacts
  <2>3. p \in Ports /\ i \in 1 .. Len(Left) + 1
    BY <1>1, <2>2, RequestFacts, LeftFacts
  <2>4. RegAt(regs', Left, p, i) = RegAt(regs, reqs, p, k)
    BY <1>1, <2>3, RegLeft
  <2> HIDE DEF k
  <2>5. due[reqs[k].id] = [port |-> reqs[k].port, val |-> RegAt(regs, reqs, reqs[k].port, k)]
    BY <1>1, <1>7, <2>2 DEF ReadsWillFind
  <2> QED
    BY <2>1, <2>2, <2>4, <2>5
<1> QED
  BY <1>4, <1>5, <1>6, <1>7

LEMMA IdleCInv ==
  ASSUME CInv, NEW snax_pready \in BOOLEAN, NEW takes \in BOOLEAN,
         Translate(snax_pready), Respond(snax_pready, takes), Idle(takes)
  PROVE  CInv'
<1>1. reqs' = Left /\ due' = Retired(takes)
  BY DEF Idle
<1>2. due' \in [Ids -> Answer \cup {NoAnswer}] /\ Keeping(takes)
  BY <1>1, RetiredFacts DEF Keeping
<1>3. AnswerTypes' /\ AnswerHeld' /\ AnswersRight'
  BY <1>2, CommonStep
<1>4. Left \in Seq(Requests) /\ DOMAIN Left = 1 .. Len(Left)
  BY LeftFacts DEF CInv, LInv
<1>5. ReadsWillFind'
  BY <1>1, <1>2, <1>4, CommonStep DEF ReadsWillFind
<1>6. OneRead'
  BY <1>1, <1>4, AnswersStep DEF OneRead
<1>7. OnePort'
  <2>1. \A id \in Outstanding' : id \in Outstanding /\ due'[id] = due[id]
    BY <1>1, RetiredFacts DEF Outstanding
  <2> QED
    BY <2>1 DEF OnePort, CInv
<1>8. LInv'
  BY IdleLInv DEF CInv
<1> QED
  BY <1>3, <1>5, <1>6, <1>7, <1>8 DEF CInv

\* Here the program matters: the reads that wait are all of the port of the new one.
LEMMA ExecuteCInv ==
  ASSUME Mixed = FALSE, CInv, NEW snax_pready \in BOOLEAN, NEW takes \in BOOLEAN,
         Translate(snax_pready), Respond(snax_pready, takes),
         NEW r \in Requests, Execute(r, takes)
  PROVE  CInv'
<1>1. /\ reqs' = Append(Left, r) /\ Executable(r) /\ Len(reqs) < 2
      /\ due' = IF r.kind = "read"
                THEN [Retired(takes) EXCEPT ![r.id] = [port |-> r.port, val |-> written[r.port]]]
                ELSE Retired(takes)
  BY DEF Execute, Room
<1>2. r.kind = "read" => /\ r.id \in Ids /\ r.id \notin Outstanding
                         /\ \A id \in Outstanding : due[id].port = r.port
  BY <1>1, RequestFacts DEF Executable
<1>3. /\ r.port \in Ports /\ OnTheWay /\ AnswerTypes
      /\ [port |-> r.port, val |-> written[r.port]] \in Answer
  BY RequestFacts DEF CInv, LInv, OnTheWay, Answer
<1>4. due' \in [Ids -> Answer \cup {NoAnswer}] /\ Keeping(takes)
  BY <1>1, <1>2, <1>3, RetiredFacts DEF Keeping, Waits
<1>5. AnswerTypes' /\ AnswerHeld' /\ AnswersRight'
  BY <1>4, CommonStep
<1>6. LInv'
  BY ExecuteLInv DEF CInv
<1> DEFINE n == Len(Left) + 1
<1>7. Left \in Seq(Requests) /\ DOMAIN Left = 1 .. Len(Left) /\ Len(Left) \in {0, 1} /\ Len(Left) <= 1
  <2>1. Left \in Seq(Requests) /\ Len(Left) <= 1
    BY <1>1, <1>3, LeftFacts
  <2> QED
    BY <2>1, ShortSeq
<1>8. /\ reqs'[n] = r /\ n \in DOMAIN reqs'
      /\ \A i \in DOMAIN reqs' : i = n \/ (i \in 1 .. Len(Left) /\ reqs'[i] = Left[i])
  BY <1>1, <1>7
<1>9. \A p : \A i \in 1 .. Len(Left) + 1 : RegAt(regs', reqs', p, i) = RegAt(regs', Left, p, i)
  BY <1>1, <1>7, RegAppend
<1>10. ReadsWillFind'
  <2> SUFFICES ASSUME NEW i \in DOMAIN reqs', reqs'[i].kind = "read"
               PROVE  due'[reqs'[i].id] =
                        [port |-> reqs'[i].port, val |-> RegAt(regs', reqs', reqs'[i].port, i)]
    BY DEF ReadsWillFind
  <2>1. CASE i = n
    <3>1. due'[r.id] = [port |-> r.port, val |-> written[r.port]]
      BY <1>1, <1>2, <1>8, <2>1, RetiredFacts
    <3>2. written[r.port] = RegAt(regs', Left, r.port, n)
      BY <1>1, <1>3, WrittenLeft DEF CInv
    <3>3. RegAt(regs', reqs', r.port, n) = RegAt(regs', Left, r.port, n)
      <4>1. n \in 1 .. Len(Left) + 1
        BY <1>7
      <4> QED
        BY <1>9, <4>1
    <3> QED
      BY <1>8, <2>1, <3>1, <3>2, <3>3
  <2>2. CASE i \in 1 .. Len(Left) /\ reqs'[i] = Left[i]
    <3>1. i \in 1 .. Len(Left) + 1
      BY <1>7, <2>2
    <3>2. due'[Left[i].id] = [port |-> Left[i].port, val |-> RegAt(regs', Left, Left[i].port, i)]
      BY <1>4, <2>2, CommonStep
    <3> QED
      BY <1>9, <2>2, <3>1, <3>2
  <2> QED
    BY <1>8, <2>1, <2>2
<1>11. OneRead'
  <2>1. \A i \in 1 .. Len(Left) : (Left[i].kind = "read" /\ r.kind = "read") => Left[i].id # r.id
    BY <1>2, <1>4, CommonStep
  <2>2. \A j \in DOMAIN rsps' : r.kind = "read" => rsps'[j].id # r.id
    BY <1>2, AnswersStep DEF Waits
  <2>3. (r.kind = "read" /\ ids' # <<>>) => r.id # ids'[1]
    <3>1. KeepNothing => ids' = <<>>
      BY DEF KeepNothing
    <3>2. ASSUME NEW p \in Ports, NEW id \in Outstanding, Keeps(p, id)
          PROVE  ids'[1] \in Outstanding
      BY <3>2 DEF Keeps
    <3> QED
      BY <1>2, <3>1, <3>2, AnswersStep
  <2>4. \A i, j \in DOMAIN reqs' :
            (i # j /\ reqs'[i].kind = "read" /\ reqs'[j].kind = "read") => reqs'[i].id # reqs'[j].id
    BY <1>8, <2>1, AnswersStep
  <2>5. \A i \in DOMAIN reqs', j \in DOMAIN rsps' : reqs'[i].kind = "read" => reqs'[i].id # rsps'[j].id
    BY <1>8, <2>2, AnswersStep
  <2>6. \A i \in DOMAIN reqs' : (reqs'[i].kind = "read" /\ ids' # <<>>) => reqs'[i].id # ids'[1]
    BY <1>8, <2>3, AnswersStep
  <2>7. \A j \in DOMAIN rsps' : ids' # <<>> => rsps'[j].id # ids'[1]
    BY AnswersStep
  <2> QED
    BY <2>4, <2>5, <2>6, <2>7 DEF OneRead
<1>12. OnePort'
  <2>1. \A id \in Ids : due'[id] # NoAnswer =>
            \/ id \in Outstanding /\ due'[id] = due[id]
            \/ r.kind = "read" /\ id = r.id /\ due'[id].port = r.port
    BY <1>1, <1>2, RetiredFacts DEF Outstanding
  <2>2. OnePort
    BY DEF CInv
  <2> QED
    BY <1>2, <2>1, <2>2 DEF OnePort, Outstanding
<1> QED
  BY <1>5, <1>6, <1>10, <1>11, <1>12 DEF CInv

LEMMA StepCInv ==
  ASSUME Mixed = FALSE, CInv, [PortNext]_portVars
  PROVE  CInv'
<1>1. ASSUME NEW snax_pready \in BOOLEAN, NEW takes \in BOOLEAN, NEW finished \in SUBSET Ports,
             PortClock(snax_pready, takes, finished)
      PROVE  CInv'
  BY <1>1, IdleCInv, ExecuteCInv DEF PortClock
<1>2. CASE UNCHANGED portVars
  <2>1. LInv'
    BY <1>2, StepLInv DEF CInv
  <2>2. /\ AnswerTypes' /\ AnswerHeld' /\ AnswersRight'
    BY <1>2 DEF portVars, CInv, AnswerTypes, AnswerHeld, AnswersRight, Outstanding
  <2>3. ReadsWillFind'
    BY <1>2 DEF portVars, CInv, ReadsWillFind, RegAt, After
  <2>4. OneRead' /\ OnePort'
    BY <1>2 DEF portVars, CInv, OneRead, OnePort, Outstanding
  <2> QED
    BY <2>1, <2>2, <2>3, <2>4 DEF CInv
<1> QED
  BY <1>1, <1>2 DEF PortNext

LEMMA InitCInv == PortInit => CInv
<1> SUFFICES ASSUME PortInit
             PROVE  CInv
  OBVIOUS
<1>1. /\ reqs = <<>> /\ ids = <<>> /\ rsps = <<>> /\ due = [id \in Ids |-> NoAnswer]
      /\ readRegBusy = [p \in Ports |-> FALSE]
  BY DEF PortInit
<1>2. DOMAIN reqs = {} /\ DOMAIN rsps = {} /\ Outstanding = {}
  BY <1>1 DEF Outstanding
<1>3. AnswerTypes /\ AnswerHeld
  BY <1>1 DEF AnswerTypes, AnswerHeld
<1>4. ReadsWillFind /\ OneRead /\ OnePort /\ AnswersRight
  BY <1>2 DEF ReadsWillFind, OneRead, OnePort, AnswersRight
<1> QED
  BY <1>3, <1>4, InitLInv DEF CInv

(***************************************************************************)
(* If the program never has reads of both ports outstanding at once, every *)
(* response that is on its way to the core is for a register that waits,   *)
(* the only one for it, and holds the last value the program had written   *)
(* to that control register when it read it.                               *)
(***************************************************************************)
THEOREM ReadsAnsweredRight == Mixed = FALSE /\ PortSpec => []AnswersRight
<1> SUFFICES ASSUME Mixed = FALSE
             PROVE  PortSpec => []AnswersRight
  OBVIOUS
<1>1. CInv /\ [PortNext]_portVars => CInv'
  BY StepCInv
<1>2. CInv => AnswersRight
  BY DEF CInv
<1> QED
  BY <1>1, <1>2, InitCInv, PTL DEF PortSpec
==================================================================================
