-------------------------- MODULE DurableRunProofs --------------------------
(***************************************************************************)
(* Proofs about DurableRun, for every configuration, every set of control  *)
(* profiles and every number of crashes and faults, in three parts: what   *)
(* is on disk at any moment and the types that rest on it; exactly-once    *)
(* folding under PairsKept, and with it the refinement of                  *)
(* ProjectedHistory; and what a run says about itself across crashes and   *)
(* failed saves.                                                           *)
(***************************************************************************)
EXTENDS DurableRun, TLAPS

-----------------------------------------------------------------------------
(* Bags of events.                                                         *)

\* Adding events a garden does not carry yet keeps each of them single.
LEMMA DisjointUnion ==
    ASSUME NEW S, NEW T, S \cap T = {}
    PROVE  SetToBag(S) (+) SetToBag(T) = SetToBag(S \cup T)
BY DEF SetToBag, (+)

\* The bag of a set of sequence numbers is a garden.
LEMMA SetIsGarden ==
    ASSUME NEW S \in SUBSET Nat
    PROVE  IsGarden(SetToBag(S))
BY DEF SetToBag, IsGarden, IsABag

\* Any two gardens add up to a garden.
LEMMA GardenSum ==
    ASSUME NEW g, NEW h, IsGarden(g), IsGarden(h)
    PROVE  IsGarden(g (+) h)
BY DEF IsGarden, IsABag, (+)

\* The empty garden.
LEMMA EmptyIsSetToBag == EmptyBag = SetToBag({})
BY DEF EmptyBag

-----------------------------------------------------------------------------
(* One tick's records (Producer.Tick and Step's redeliveries).             *)

\* Multiplication by a natural number is monotone.
LEMMA TimesMonotone ==
    ASSUME NEW d \in Nat, NEW a \in Nat, NEW b \in Nat, a <= b
    PROVE  a * d <= b * d
OBVIOUS

\* Positions in blocks of d + 1: quotient and rest.
LEMMA Blocks ==
    ASSUME NEW d \in Nat, NEW x \in Nat
    PROVE  /\ x \div (d + 1) \in Nat
           /\ x % (d + 1) \in 0 .. d
           /\ x = (x \div (d + 1)) * (d + 1) + (x % (d + 1))
<1>1. d + 1 \in Nat /\ d + 1 > 0
  OBVIOUS
<1> QED
  BY <1>1

\* The index a position holds is a natural number from 1 on.
LEMMA EventAtType ==
    ASSUME NEW p \in Nat, p >= 1
    PROVE  /\ EventAt(p).index \in Nat
           /\ EventAt(p).index >= 1
           /\ EventAt(p).attempt \in {1, 2}
<1>1. CASE DuplicateEvery = 0
  BY <1>1 DEF EventAt
<1>2. CASE DuplicateEvery # 0
  <2> DEFINE b == (p - 1) \div (DuplicateEvery + 1)
             r == (p - 1) % (DuplicateEvery + 1)
  <2>1. b \in Nat /\ r \in 0 .. DuplicateEvery
    BY Blocks, ConfigAssumption
  <2>2. b * DuplicateEvery \in Nat
    BY <2>1, ConfigAssumption
  <2> HIDE DEF b, r
  <2>3. EventAt(p) = IF r = DuplicateEvery
                     THEN [index |-> b * DuplicateEvery + r, attempt |-> 2]
                     ELSE [index |-> b * DuplicateEvery + r + 1, attempt |-> 1]
    BY <1>2 DEF EventAt, b, r
  <2> QED
    BY <1>2, <2>1, <2>2, <2>3, ConfigAssumption
<1> QED
  BY <1>1, <1>2

\* Later positions never hold earlier events; without redeliveries each
\* position holds an event of its own.
LEMMA EventAtMonotone ==
    ASSUME NEW p \in Nat, NEW q \in Nat, p >= 1, p < q
    PROVE  /\ EventAt(p).index <= EventAt(q).index
           /\ DuplicateEvery = 0 => EventAt(p).index < EventAt(q).index
<1>1. CASE DuplicateEvery = 0
  BY <1>1 DEF EventAt
<1>2. CASE DuplicateEvery # 0
  <2> DEFINE d  == DuplicateEvery
             b  == (p - 1) \div (d + 1)
             r  == (p - 1) % (d + 1)
             b2 == (q - 1) \div (d + 1)
             r2 == (q - 1) % (d + 1)
  <2>d. d \in Nat /\ d >= 1
    BY <1>2, ConfigAssumption
  <2>1. /\ b \in Nat /\ r \in 0 .. d /\ p - 1 = b * (d + 1) + r
        /\ b2 \in Nat /\ r2 \in 0 .. d /\ q - 1 = b2 * (d + 1) + r2
    <3>1. p - 1 \in Nat /\ q - 1 \in Nat
      OBVIOUS
    <3> QED
      BY <2>d, <3>1, Blocks
  <2>2. /\ EventAt(p).index = IF r = d THEN b * d + r ELSE b * d + r + 1
        /\ EventAt(q).index = IF r2 = d THEN b2 * d + r2 ELSE b2 * d + r2 + 1
    <3>1. /\ EventAt(p) = IF r = d THEN [index |-> b * d + r, attempt |-> 2]
                          ELSE [index |-> b * d + r + 1, attempt |-> 1]
          /\ EventAt(q) = IF r2 = d THEN [index |-> b2 * d + r2, attempt |-> 2]
                          ELSE [index |-> b2 * d + r2 + 1, attempt |-> 1]
      BY <1>2 DEF EventAt
    <3> HIDE DEF d, b, r, b2, r2
    <3> QED
      BY <3>1
  <2> HIDE DEF d, b, r, b2, r2
  <2>3. b <= b2
    <3>1. SUFFICES ASSUME b2 + 1 <= b PROVE FALSE
      BY <2>1
    <3>2. (b2 + 1) * (d + 1) <= b * (d + 1)
      BY <2>1, <2>d, <3>1, TimesMonotone
    <3>3. (b2 + 1) * (d + 1) = b2 * (d + 1) + (d + 1)
      BY <2>1, <2>d
    <3>4. b2 * (d + 1) \in Nat /\ b * (d + 1) \in Nat
      BY <2>1, <2>d
    <3> QED
      BY <2>1, <2>d, <3>2, <3>3, <3>4
  <2>4. b * d \in Nat /\ b2 * d \in Nat
    BY <2>1, <2>d
  <2>5. CASE b = b2
    <3>1. r < r2
      <4>1. b * (d + 1) \in Nat
        BY <2>1, <2>d
      <4> QED
        BY <2>1, <2>5, <4>1
    <3> QED
      BY <1>2, <2>1, <2>2, <2>4, <2>5, <2>d, <3>1 DEF d
  <2>6. CASE b + 1 <= b2
    <3>1. (b + 1) * d <= b2 * d
      BY <2>1, <2>d, <2>6, TimesMonotone
    <3>2. (b + 1) * d = b * d + d
      BY <2>1, <2>d
    <3> QED
      BY <1>2, <2>1, <2>2, <2>4, <2>d, <3>1, <3>2 DEF d
  <2> QED
    BY <2>1, <2>3, <2>5, <2>6
<1> QED
  BY <1>1, <1>2

\* The positions of a tick of n events hold no index beyond n.
LEMMA EventAtBound ==
    ASSUME NEW n \in Nat, NEW p \in Nat, p >= 1,
           p <= n + (IF DuplicateEvery = 0 THEN 0 ELSE n \div DuplicateEvery)
    PROVE  EventAt(p).index <= n
<1>1. CASE DuplicateEvery = 0
  BY <1>1 DEF EventAt
<1>2. CASE DuplicateEvery # 0
  <2> DEFINE d == DuplicateEvery
             b == (p - 1) \div (d + 1)
             r == (p - 1) % (d + 1)
             k == n \div d
             s == n % d
  <2>d. d \in Nat /\ d >= 1
    BY <1>2, ConfigAssumption
  <2>1. b \in Nat /\ r \in 0 .. d /\ p - 1 = b * (d + 1) + r
    <3>1. p - 1 \in Nat
      OBVIOUS
    <3> QED
      BY <2>d, <3>1, Blocks
  <2>2. k \in Nat /\ s \in 0 .. d - 1 /\ n = k * d + s
    BY <2>d
  <2>3. p <= n + k
    BY <1>2
  <2>4. EventAt(p).index = IF r = d THEN b * d + r ELSE b * d + r + 1
    <3>1. EventAt(p) = IF r = d THEN [index |-> b * d + r, attempt |-> 2]
                       ELSE [index |-> b * d + r + 1, attempt |-> 1]
      BY <1>2 DEF EventAt
    <3> HIDE DEF d, b, r
    <3> QED
      BY <3>1
  <2> HIDE DEF d, b, r, k, s
  <2>5. b * d \in Nat /\ k * d \in Nat
    BY <2>1, <2>2, <2>d
  <2>6. b * (d + 1) = b * d + b /\ k * (d + 1) = k * d + k
    BY <2>1, <2>2, <2>d
  <2>7. b <= k
    <3>1. SUFFICES ASSUME k + 1 <= b PROVE FALSE
      BY <2>1, <2>2
    <3>2. (k + 1) * (d + 1) <= b * (d + 1)
      BY <2>1, <2>2, <2>d, <3>1, TimesMonotone
    <3>3. (k + 1) * (d + 1) = k * d + k + d + 1
      BY <2>2, <2>d, <2>5
    <3> QED
      BY <2>1, <2>2, <2>3, <2>5, <2>6, <2>d, <3>2, <3>3
  <2>8. CASE b = k
    BY <2>1, <2>2, <2>3, <2>4, <2>5, <2>6, <2>8, <2>d
  <2>9. CASE b + 1 <= k
    <3>1. (b + 1) * d <= k * d
      BY <2>1, <2>2, <2>9, <2>d, TimesMonotone
    <3>2. (b + 1) * d = b * d + d
      BY <2>1, <2>d
    <3> QED
      BY <2>1, <2>2, <2>4, <2>5, <2>d, <3>1, <3>2
  <2> QED
    BY <2>1, <2>2, <2>7, <2>8, <2>9
<1> QED
  BY <1>1, <1>2

\* An element of a sequence over S is in S.
LEMMA SeqElement ==
    ASSUME NEW S, NEW q \in Seq(S), NEW i \in 1 .. Len(q)
    PROVE  q[i] \in S
OBVIOUS

\* What the staged updates hold.
LEMMA PendingElements ==
    ASSUME TypeOK, NEW p \in 1 .. Len(pending)
    PROVE  pending[p].rev \in Nat /\ pending[p].controls \in Controls
<1> DEFINE S == [rev : Nat, controls : Controls]
<1>1. pending \in Seq(S)
  BY DEF TypeOK, SimType
<1>2. pending[p] \in S
  <2> HIDE DEF S
  <2> QED
    BY <1>1, SeqElement
<1> QED
  BY <1>2

\* The controls a tick runs under, and how many events it is numbered for.
LEMMA StagedType ==
    ASSUME TypeOK
    PROVE  /\ StagedControls \in Controls
           /\ StagedControls.events \in Nat /\ StagedControls.events >= 1
           /\ StagedControls.capacity \in Nat
           /\ Len(pending) \in Nat
           /\ BatchLen \in Nat /\ BatchLen >= 1
<1>1. StagedControls \in Controls
  <2>1. CASE pending = <<>>
    BY <2>1 DEF StagedControls, TypeOK, SimType
  <2>2. CASE pending # <<>>
    <3>1. Len(pending) \in 1 .. Len(pending)
      BY <2>2 DEF TypeOK, SimType
    <3> QED
      BY <2>2, <3>1, PendingElements DEF StagedControls
  <2> QED
    BY <2>1, <2>2
<1>2. /\ StagedControls.events \in Nat /\ StagedControls.events >= 1
      /\ StagedControls.capacity \in Nat
  BY <1>1, ControlsAssumption
<1>3. Len(pending) \in Nat
  BY DEF TypeOK, SimType
<1>4. DuplicateEvery # 0 => StagedControls.events \div DuplicateEvery \in Nat
  BY <1>2, ConfigAssumption
<1> QED
  BY <1>1, <1>2, <1>3, <1>4 DEF BatchLen

\* A tick's records: numbered after everything before, up to where Produce
\* leaves the producer, and in order.
LEMMA BatchFacts ==
    ASSUME TypeOK
    PROVE  /\ Batch \in Seq(Record) /\ Len(Batch) = BatchLen
           /\ \A p \in 1 .. BatchLen :
                 /\ Batch[p].tick = tick
                 /\ Batch[p].seq > seq
                 /\ Batch[p].seq <= seq + Len(pending) + StagedControls.events
           /\ \A p, q \in 1 .. BatchLen : p < q =>
                 /\ Batch[p].seq <= Batch[q].seq
                 /\ DuplicateEvery = 0 => Batch[p].seq < Batch[q].seq
<1> DEFINE m == Len(pending)
           n == StagedControls.events
<1>1. m \in Nat /\ n \in Nat /\ BatchLen \in Nat /\ seq \in Nat /\ tick \in Nat
  BY StagedType DEF TypeOK, SimType
<1>2. \A p \in 1 .. BatchLen : p > m =>
        /\ EventAt(p - m).index \in 1 .. n
        /\ EventAt(p - m).attempt \in {1, 2}
  <2>1. SUFFICES ASSUME NEW p \in 1 .. BatchLen, p > m
                 PROVE  /\ EventAt(p - m).index \in 1 .. n
                        /\ EventAt(p - m).attempt \in {1, 2}
    OBVIOUS
  <2>2. p - m \in Nat /\ p - m >= 1
    BY <1>1, <2>1
  <2>3. p - m <= n + (IF DuplicateEvery = 0 THEN 0 ELSE n \div DuplicateEvery)
    <3>1. DuplicateEvery # 0 => n \div DuplicateEvery \in Nat
      BY <1>1, ConfigAssumption
    <3> QED
      BY <1>1, <2>1, <3>1 DEF BatchLen
  <2> QED
    BY <1>1, <2>2, <2>3, EventAtType, EventAtBound
<1>3. \A p \in 1 .. BatchLen :
        /\ p <= m => Batch[p] = [kind |-> "control_changed", seq |-> seq + p,
                                 tick |-> tick, rev |-> pending[p].rev, attempt |-> 1]
        /\ p > m  => Batch[p] = [kind |-> "organism",
                                 seq |-> seq + m + EventAt(p - m).index, tick |-> tick,
                                 rev |-> 0, attempt |-> EventAt(p - m).attempt]
  BY <1>1 DEF Batch
<1>4. \A p \in 1 .. BatchLen : Batch[p] \in Record
  <2>1. \A p \in 1 .. m : pending[p].rev \in Nat
    BY PendingElements
  <2> HIDE DEF m, n
  <2>2. SUFFICES ASSUME NEW p \in 1 .. BatchLen PROVE Batch[p] \in Record
    OBVIOUS
  <2>3. CASE p <= m
    <3>1. p \in 1 .. m /\ seq + p \in Nat
      BY <1>1, <2>3
    <3>2. Batch[p] = [kind |-> "control_changed", seq |-> seq + p, tick |-> tick,
                      rev |-> pending[p].rev, attempt |-> 1]
      BY <1>3, <2>3
    <3> QED
      BY <1>1, <2>1, <3>1, <3>2 DEF Record
  <2>4. CASE p > m
    <3>1. /\ seq + m + EventAt(p - m).index \in Nat
          /\ EventAt(p - m).attempt \in {1, 2}
      BY <1>1, <1>2, <2>4
    <3>2. Batch[p] = [kind |-> "organism", seq |-> seq + m + EventAt(p - m).index,
                      tick |-> tick, rev |-> 0, attempt |-> EventAt(p - m).attempt]
      BY <1>1, <1>3, <2>4
    <3> QED
      BY <1>1, <3>1, <3>2 DEF Record
  <2> QED
    BY <1>1, <2>3, <2>4
<1>5. Batch \in Seq(Record) /\ Len(Batch) = BatchLen
  BY <1>1, <1>4 DEF Batch
<1>6. \A p \in 1 .. BatchLen :
        /\ p <= m => Batch[p].seq = seq + p
        /\ p > m  => Batch[p].seq = seq + m + EventAt(p - m).index
  <2> HIDE DEF m, n
  <2> TAKE p \in 1 .. BatchLen
  <2>1. ASSUME p <= m PROVE Batch[p].seq = seq + p
    <3>1. Batch[p] = [kind |-> "control_changed", seq |-> seq + p, tick |-> tick,
                      rev |-> pending[p].rev, attempt |-> 1]
      BY <1>3, <2>1
    <3> QED
      BY <3>1
  <2>2. ASSUME p > m PROVE Batch[p].seq = seq + m + EventAt(p - m).index
    <3>1. Batch[p] = [kind |-> "organism", seq |-> seq + m + EventAt(p - m).index,
                      tick |-> tick, rev |-> 0, attempt |-> EventAt(p - m).attempt]
      BY <1>3, <2>2
    <3> QED
      BY <3>1
  <2> QED
    BY <2>1, <2>2
<1> HIDE DEF m, n
<1>t. \A p \in 1 .. BatchLen : Batch[p].tick = tick
  <2> HIDE DEF m, n
  <2> TAKE p \in 1 .. BatchLen
  <2>1. CASE p <= m
    <3>1. Batch[p] = [kind |-> "control_changed", seq |-> seq + p, tick |-> tick,
                      rev |-> pending[p].rev, attempt |-> 1]
      BY <1>3, <2>1
    <3> QED
      BY <3>1
  <2>2. CASE p > m
    <3>1. Batch[p] = [kind |-> "organism", seq |-> seq + m + EventAt(p - m).index,
                      tick |-> tick, rev |-> 0, attempt |-> EventAt(p - m).attempt]
      BY <1>3, <2>2
    <3> QED
      BY <3>1
  <2> QED
    BY <1>1, <2>1, <2>2
<1>7. \A p \in 1 .. BatchLen : Batch[p].seq > seq /\ Batch[p].seq <= seq + m + n
  BY <1>1, <1>2, <1>6
<1>8. ASSUME NEW p \in 1 .. BatchLen, NEW q \in 1 .. BatchLen, p < q
      PROVE  /\ Batch[p].seq <= Batch[q].seq
             /\ DuplicateEvery = 0 => Batch[p].seq < Batch[q].seq
  <2>1. CASE p <= m
    BY <1>1, <1>2, <1>6, <1>8, <2>1
  <2>2. CASE p > m
    <3>1. /\ p - m \in Nat /\ q - m \in Nat /\ p - m >= 1 /\ p - m < q - m /\ q > m
      BY <1>1, <1>8, <2>2
    <3>2. /\ EventAt(p - m).index <= EventAt(q - m).index
          /\ DuplicateEvery = 0 => EventAt(p - m).index < EventAt(q - m).index
      BY <3>1, EventAtMonotone
    <3>3. EventAt(p - m).index \in Int /\ EventAt(q - m).index \in Int
      BY <1>1, <1>2, <2>2, <3>1
    <3>4. /\ Batch[p].seq = seq + m + EventAt(p - m).index
          /\ Batch[q].seq = seq + m + EventAt(q - m).index
      BY <1>6, <2>2, <3>1
    <3> QED
      BY <1>1, <3>2, <3>3, <3>4
  <2> QED
    BY <1>1, <2>1, <2>2
<1> QED
  BY <1>5, <1>t, <1>7, <1>8 DEF m, n
-----------------------------------------------------------------------------
(* How the log grows (Append, whole or torn).                              *)

\* The log gains records of the current tick, numbered in order after the
\* producer's position and no further than n beyond it.
GrowsLog(n) ==
    /\ log' \in Seq(Record)
    /\ Len(log) <= Len(log')
    /\ \A i \in 1 .. Len(log) : log'[i] = log[i]
    /\ \A i \in Len(log) + 1 .. Len(log') :
          log'[i].tick = tick /\ log'[i].seq > seq /\ log'[i].seq <= seq + n
    /\ \A i, j \in Len(log) + 1 .. Len(log') : i < j =>
          /\ log'[i].seq <= log'[j].seq
          /\ DuplicateEvery = 0 => log'[i].seq < log'[j].seq

\* Appending any prefix of a tick's records grows the log so.
LEMMA PrefixGrows ==
    ASSUME TypeOK, NEW k \in 0 .. BatchLen, log' = log \o SubSeq(Batch, 1, k)
    PROVE  /\ GrowsLog(Len(pending) + StagedControls.events)
           /\ Len(log') = Len(log) + k
<1> DEFINE b == SubSeq(Batch, 1, k)
<1>1. log \in Seq(Record)
  BY DEF TypeOK, LogType
<1>2. /\ Batch \in Seq(Record) /\ Len(Batch) = BatchLen
      /\ \A p \in 1 .. BatchLen :
            /\ Batch[p].tick = tick
            /\ Batch[p].seq > seq
            /\ Batch[p].seq <= seq + Len(pending) + StagedControls.events
      /\ \A p, q \in 1 .. BatchLen : p < q =>
            /\ Batch[p].seq <= Batch[q].seq
            /\ DuplicateEvery = 0 => Batch[p].seq < Batch[q].seq
  BY BatchFacts
<1>3. /\ BatchLen \in Nat /\ Len(log) \in Nat
      /\ Len(pending) \in Nat /\ StagedControls.events \in Nat /\ seq \in Nat
  BY <1>1, StagedType DEF TypeOK, SimType
<1> HIDE DEF Record
<1>4. b \in Seq(Record) /\ Len(b) = k /\ \A p \in 1 .. k : b[p] = Batch[p]
  BY <1>2, <1>3
<1> HIDE DEF b
<1>5. /\ log' \in Seq(Record) /\ Len(log') = Len(log) + k
      /\ \A i \in 1 .. Len(log) : log'[i] = log[i]
      /\ \A i \in Len(log) + 1 .. Len(log) + k : log'[i] = b[i - Len(log)]
  <2>1. log' = log \o b
    BY DEF b
  <2> QED
    BY <1>1, <1>3, <1>4, <2>1, SMTT(20)
<1>6. \A i \in Len(log) + 1 .. Len(log) + k :
        /\ i - Len(log) \in 1 .. BatchLen
        /\ log'[i] = Batch[i - Len(log)]
  BY <1>3, <1>4, <1>5
<1>7. \A i \in Len(log) + 1 .. Len(log') :
        /\ log'[i].tick = tick
        /\ log'[i].seq > seq
        /\ log'[i].seq <= seq + (Len(pending) + StagedControls.events)
  <2> TAKE i \in Len(log) + 1 .. Len(log')
  <2>1. i - Len(log) \in 1 .. BatchLen /\ log'[i] = Batch[i - Len(log)]
    BY <1>5, <1>6
  <2>2. /\ Batch[i - Len(log)].tick = tick
        /\ Batch[i - Len(log)].seq > seq
        /\ Batch[i - Len(log)].seq <= seq + Len(pending) + StagedControls.events
    BY <1>2, <2>1
  <2>3. seq + Len(pending) + StagedControls.events
          = seq + (Len(pending) + StagedControls.events)
    BY <1>3
  <2> QED
    BY <2>1, <2>2, <2>3
<1>8. ASSUME NEW i \in Len(log) + 1 .. Len(log'),
             NEW j \in Len(log) + 1 .. Len(log'), i < j
      PROVE  /\ log'[i].seq <= log'[j].seq
             /\ DuplicateEvery = 0 => log'[i].seq < log'[j].seq
  <2>1. /\ i - Len(log) \in 1 .. BatchLen /\ log'[i] = Batch[i - Len(log)]
        /\ j - Len(log) \in 1 .. BatchLen /\ log'[j] = Batch[j - Len(log)]
        /\ i - Len(log) < j - Len(log)
    BY <1>3, <1>5, <1>6, <1>8, SMTT(20)
  <2> QED
    BY <1>2, <2>1
<1> QED
  BY <1>3, <1>5, <1>7, <1>8 DEF GrowsLog

\* And so does appending all of them.
LEMMA AllGrows ==
    ASSUME TypeOK, log' = log \o Batch
    PROVE  /\ GrowsLog(Len(pending) + StagedControls.events)
           /\ Len(log') = Len(log) + BatchLen
<1>1. Batch \in Seq(Record) /\ Len(Batch) = BatchLen /\ BatchLen \in Nat
  BY BatchFacts, StagedType
<1>2. SubSeq(Batch, 1, BatchLen) = Batch
  BY <1>1
<1>3. log' = log \o SubSeq(Batch, 1, BatchLen)
  BY <1>2, Zenon
<1>4. BatchLen \in 0 .. BatchLen
  BY <1>1
<1> QED
  BY <1>3, <1>4, PrefixGrows

-----------------------------------------------------------------------------
(* Type correctness and the order of what is on disk.                      *)

\* The newest snapshot, when there is one.
LEMMA LatestFacts ==
    ASSUME FilesOrdered, HasSnapshot
    PROVE  Latest \in DOMAIN snaps /\ \A p \in DOMAIN snaps : p <= Latest
BY Zenon DEF FilesOrdered, Latest, HasSnapshot

\* What an append leaves on disk, whole or torn, is still in order.
LEMMA GrowthKeepsDisk ==
    ASSUME TypeOK, DiskInv, Live, NEW n \in Nat, GrowsLog(n),
           UNCHANGED <<committed, snaps>>,
           phase' \in {"idle", "saving"} =>
              /\ cursor' \in cursor .. Len(log')
              /\ tick' \in Nat /\ tick <= tick'
              /\ tick' = tick \/ Len(log) < Len(log')
              /\ phase' = "saving" => ~save'.wrote
    PROVE  DiskInv'
<1>1. /\ Len(log) \in Nat /\ Len(log') \in Nat /\ cursor \in Nat /\ tick \in Nat
      /\ \A i \in 1 .. Len(log) : log[i].tick \in Nat
      /\ DOMAIN snaps \subseteq Nat
      /\ \A o \in DOMAIN snaps : snaps[o].tick \in Nat
  <2>1. log \in Seq(Record) /\ log' \in Seq(Record)
    BY DEF TypeOK, LogType, GrowsLog
  <2>2. \A i \in 1 .. Len(log) : log[i] \in Record
    <3> HIDE DEF Record
    <3> QED
      BY <2>1, SeqElement
  <2> QED
    BY <2>1, <2>2, SMTT(20) DEF TypeOK, LogType, SimType, SnapshotType, Record
<1>2. /\ Len(log) <= Len(log')
      /\ \A i \in 1 .. Len(log) : log'[i] = log[i]
      /\ \A i \in Len(log) + 1 .. Len(log') : log'[i].tick = tick
  BY DEF GrowsLog
<1>3. FilesOrdered'
  BY <1>1, <1>2 DEF DiskInv, FilesOrdered, Live, HasSnapshot, NextOffset
<1>4. \A i \in 1 .. Len(log) : log[i].tick <= tick
  BY DEF DiskInv, TicksOrdered, NextOffset
<1>5. \A i, j \in 1 .. Len(log') : i < j => log'[i].tick <= log'[j].tick
  <2> TAKE i, j \in 1 .. Len(log')
  <2> HAVE i < j
  <2>1. CASE j <= Len(log)
    BY <1>1, <1>2, <2>1 DEF DiskInv, TicksOrdered, NextOffset
  <2>2. CASE j > Len(log)
    BY <1>1, <1>2, <1>4, <2>2
  <2> QED
    BY <1>1, <2>1, <2>2
<1>6. Live' => \A i \in 1 .. Len(log') : log'[i].tick <= tick'
  BY <1>1, <1>2, <1>4, SMTT(20) DEF Live
<1>7. ASSUME NEW o \in DOMAIN snaps
      PROVE  /\ \A i \in 1 .. o : log'[i].tick <= snaps[o].tick
             /\ o < Len(log') => log'[o + 1].tick <= snaps[o].tick
             /\ o = Len(log') /\ Live' => tick' <= snaps[o].tick
  <2>1. o \in Nat /\ o <= Len(log)
    BY <1>1 DEF DiskInv, FilesOrdered, NextOffset
  <2>2. /\ \A i \in 1 .. o : log[i].tick <= snaps[o].tick
        /\ o < Len(log) => log[o + 1].tick <= snaps[o].tick
        /\ o = Len(log) => tick <= snaps[o].tick
    BY DEF DiskInv, TicksOrdered, NextOffset
  <2>3. \A i \in 1 .. o : log'[i].tick <= snaps[o].tick
    <3> TAKE i \in 1 .. o
    <3>1. i \in 1 .. Len(log)
      BY <1>1, <2>1
    <3>2. log'[i] = log[i]
      BY <1>2, <3>1
    <3> QED
      BY <2>2, <3>2
  <2>4. o < Len(log') => log'[o + 1].tick <= snaps[o].tick
    <3>1. CASE o < Len(log)
      <4>1. o + 1 \in 1 .. Len(log)
        BY <1>1, <2>1, <3>1
      <4>2. log'[o + 1] = log[o + 1]
        BY <1>2, <4>1
      <4> QED
        BY <2>2, <3>1, <4>2
    <3>2. CASE o = Len(log) /\ o < Len(log')
      <4>1. o + 1 \in Len(log) + 1 .. Len(log')
        BY <1>1, <2>1, <3>2
      <4>2. log'[o + 1].tick = tick
        BY <1>2, <4>1
      <4> QED
        BY <2>2, <3>2, <4>2
    <3> QED
      BY <1>1, <2>1, <3>1, <3>2
  <2>5. o = Len(log') /\ Live' => tick' <= snaps[o].tick
    BY <1>1, <1>2, <2>1, <2>2 DEF Live
  <2> QED
    BY <2>3, <2>4, <2>5
<1>8. TicksOrdered'
  BY <1>5, <1>6, <1>7 DEF TicksOrdered, NextOffset
<1>9. CommitCovered'
  BY DEF DiskInv, CommitCovered
<1> QED
  BY <1>3, <1>8, <1>9 DEF DiskInv

\* A step that writes no record and no snapshot, and moves neither cursor nor
\* tick, keeps the order; it may commit an offset that has a snapshot.
LEMMA QuietKeepsDisk ==
    ASSUME TypeOK, DiskInv, UNCHANGED <<log, snaps, cursor, tick>>,
           committed' = committed \/ committed' \in DOMAIN snaps,
           phase' \in {"idle", "saving"} => Live,
           phase' = "saving" /\ save'.wrote => phase = "saving" /\ save.wrote
    PROVE  DiskInv'
<1>1. FilesOrdered'
  BY DEF DiskInv, FilesOrdered, Live, HasSnapshot, NextOffset
<1>2. TicksOrdered'
  BY DEF DiskInv, TicksOrdered, Live, NextOffset
<1>3. CommitCovered'
  BY DEF DiskInv, CommitCovered
<1> QED
  BY <1>1, <1>2, <1>3 DEF DiskInv

\* Numbering a tick's records keeps the types of the producer's state.
LEMMA ProduceType ==
    ASSUME TypeOK, Produce
    PROVE  /\ controls' \in Controls /\ seq' \in Nat
           /\ pending' \in Seq([rev : Nat, controls : Controls])
<1>1. seq \in Nat
  BY DEF TypeOK, SimType
<1> QED
  BY <1>1, StagedType DEF Produce

\* The events a range of records applies are numbered by naturals.
LEMMA AppliedType ==
    ASSUME NEW lg \in Seq(Record), NEW from \in Nat, NEW to \in Nat, to <= Len(lg),
           NEW table
    PROVE  AppliedIn(lg, from, to, table) \in SUBSET Nat
<1>1. ASSUME NEW i \in from + 1 .. to PROVE lg[i].seq \in Nat
  <2>1. i \in 1 .. Len(lg)
    OBVIOUS
  <2>2. lg[i] \in Record
    <3> HIDE DEF Record
    <3> QED
      BY <2>1, SeqElement
  <2> QED
    BY <2>2 DEF Record
<1> QED
  BY <1>1 DEF AppliedIn

\* Folding a range of records keeps the garden a garden.
LEMMA FoldType ==
    ASSUME TypeOK, NEW lg \in Seq(Record), NEW from \in Nat, NEW to \in Nat,
           from <= to, to <= Len(lg), Fold(lg, from, to)
    PROVE  IsGarden(garden') /\ received' \in Nat
<1>1. IsGarden(garden) /\ received \in Nat
  BY DEF TypeOK, SimType
<1>2. IsGarden(SetToBag(AppliedIn(lg, from, to, seen)))
  BY AppliedType, SetIsGarden
<1>3. IsGarden(garden')
  BY <1>1, <1>2, GardenSum DEF Fold
<1>4. received' \in Nat
  BY <1>1 DEF Fold
<1> QED
  BY <1>3, <1>4

\* Where a tick's reading stops.
LEMMA ReadStops ==
    ASSUME TypeOK, DiskInv, Live, NEW lg \in Seq(Record), Len(log) <= Len(lg),
           NEW n \in Nat
    PROVE  UnprocessedUpTo(lg, n) \in cursor .. Len(lg)
<1>1. /\ cursor \in Nat /\ cursor <= Len(log)
      /\ Len(log) \in Nat /\ Len(lg) \in Nat
  BY DEF TypeOK, LogType, DiskInv, FilesOrdered, NextOffset
<1> QED
  BY <1>1 DEF UnprocessedUpTo

\* What a Save in progress is.
SaveRecord ==
    [why : {"start", "cadence", "pause", "finish"},
     attempt : 1 .. maxSnapshotSaveAttempts, wrote : BOOLEAN]

\* Entering a Save keeps the run's types, and nothing is written yet.
LEMMA BeginSaveType ==
    ASSUME TypeOK, NEW why \in {"start", "cadence", "pause", "finish"},
           BeginSave(why)
    PROVE  /\ phase' = "saving" /\ save' \in SaveRecord /\ ~save'.wrote
           /\ saves' \in Nat
<1>1. save' = [why |-> why, attempt |-> 1, wrote |-> FALSE]
  BY DEF BeginSave
<1>2. 1 \in 1 .. maxSnapshotSaveAttempts
  BY DEF maxSnapshotSaveAttempts
<1>3. save' \in SaveRecord /\ ~save'.wrote
  BY <1>1, <1>2 DEF SaveRecord
<1>4. phase' = "saving" /\ saves' \in Nat
  BY DEF BeginSave, TypeOK, RunType
<1> QED
  BY <1>3, <1>4

\* The end of advance keeps the run's types.
LEMMA EndOfAdvanceType ==
    ASSUME TypeOK, NEW t, EndOfAdvance(t)
    PROVE  /\ phase' \in {"idle", "saving"}
           /\ state' \in {"running", "paused", "finished"}
           /\ save' \in SaveRecord
           /\ saves' \in Nat
           /\ phase' = "saving" => ~save'.wrote
<1>1. CASE MaxTicks > 0 /\ t >= MaxTicks
  <2>1. BeginSave("finish") /\ state' = "finished"
    BY <1>1 DEF EndOfAdvance, BeginFinish
  <2> QED
    BY <2>1, BeginSaveType
<1>2. CASE ~(MaxTicks > 0 /\ t >= MaxTicks)
  <2>1. phase' = "idle" /\ state' = state /\ save' = save /\ saves' = saves
    BY <1>2 DEF EndOfAdvance
  <2> QED
    BY <2>1 DEF TypeOK, RunType, SaveRecord
<1> QED
  BY <1>1, <1>2

\* Using up a bound keeps its record a record.
LEMMA UsedType ==
    ASSUME TypeOK
    PROVE  /\ [used EXCEPT !.faults = @ + 1] \in
                [crashes : Nat, faults : Nat, reads : Nat, updates : Nat, pauses : Nat]
           /\ [used EXCEPT !.reads = @ + 1] \in
                [crashes : Nat, faults : Nat, reads : Nat, updates : Nat, pauses : Nat]
           /\ [used EXCEPT !.crashes = @ + 1] \in
                [crashes : Nat, faults : Nat, reads : Nat, updates : Nat, pauses : Nat]
           /\ [used EXCEPT !.updates = @ + 1] \in
                [crashes : Nat, faults : Nat, reads : Nat, updates : Nat, pauses : Nat]
           /\ [used EXCEPT !.pauses = @ + 1] \in
                [crashes : Nat, faults : Nat, reads : Nat, updates : Nat, pauses : Nat]
BY DEF TypeOK, RunType

-----------------------------------------------------------------------------
(* One lemma per action: TypeOK /\ DiskInv is kept.                        *)

\* A tick.
LEMMA AdvanceKeepsDisk ==
    ASSUME TypeOK, DiskInv, Advance
    PROVE  TypeOK' /\ DiskInv'
<1>1. /\ Live /\ Produce /\ log' = log \o Batch
      /\ cursor' = UnprocessedUpTo(log', StagedControls.capacity)
      /\ Fold(log', cursor, cursor') /\ tick' = tick + 1
      /\ published' = published + BatchLen
      /\ UNCHANGED <<committed, snaps, revision, cadence, failed, giveups, told, used>>
  <2>1. log' = log \o Batch
    BY DEF Advance, AppendAll
  <2>2. /\ cursor' = UnprocessedUpTo(log', StagedControls.capacity)
        /\ Fold(log', cursor, cursor')
    BY <2>1, Zenon DEF Advance
  <2> QED
    BY <2>1, <2>2 DEF Advance, MayStep, Live
<1>2. /\ GrowsLog(Len(pending) + StagedControls.events)
      /\ Len(log') = Len(log) + BatchLen
  BY <1>1, AllGrows
<1>3. /\ log' \in Seq(Record) /\ Len(log) \in Nat /\ Len(log') \in Nat
      /\ Len(log) < Len(log') /\ cursor \in Nat
      /\ Len(pending) + StagedControls.events \in Nat
  BY <1>2, StagedType DEF GrowsLog, TypeOK, LogType
<1>4. cursor' \in cursor .. Len(log')
  <2>1. StagedControls.capacity \in Nat /\ Len(log) <= Len(log')
    BY <1>3, StagedType
  <2>2. UnprocessedUpTo(log', StagedControls.capacity) \in cursor .. Len(log')
    BY <1>1, <1>3, <2>1, ReadStops, Zenon
  <2> QED
    BY <1>1, <2>2
<1>5. /\ phase' \in {"idle", "saving"}
      /\ state' \in {"running", "paused", "finished"}
      /\ save' \in SaveRecord /\ saves' \in Nat
      /\ phase' = "saving" => ~save'.wrote
  <2>1. CASE cadence > 0 /\ (tick + 1) % cadence = 0
    <3>1. BeginSave("cadence") /\ state' = state
      BY <2>1 DEF Advance
    <3> QED
      BY <3>1, BeginSaveType DEF TypeOK, RunType
  <2>2. CASE ~(cadence > 0 /\ (tick + 1) % cadence = 0)
    <3>1. EndOfAdvance(tick + 1)
      BY <2>2 DEF Advance
    <3> QED
      BY <3>1, EndOfAdvanceType
  <2> QED
    BY <2>1, <2>2
<1>6. LogType'
  BY <1>1, <1>3, <1>4 DEF TypeOK, LogType
<1>7. SnapshotType'
  BY <1>1 DEF TypeOK, SnapshotType
<1>8. SimType'
  <2>1. IsGarden(garden') /\ received' \in Nat
    <3>1. cursor' \in Nat /\ cursor <= cursor' /\ cursor' <= Len(log')
      BY <1>3, <1>4
    <3> QED
      BY <1>1, <1>3, <3>1, FoldType
  <2>2. /\ controls' \in Controls /\ seq' \in Nat
        /\ pending' \in Seq([rev : Nat, controls : Controls])
    BY <1>1, ProduceType
  <2>3. tick' \in Nat /\ revision' \in Nat /\ cadence' \in Nat /\ published' \in Nat
    BY <1>1, StagedType DEF TypeOK, SimType
  <2> QED
    BY <2>1, <2>2, <2>3 DEF SimType
<1>9. RunType'
  BY <1>1, <1>5 DEF TypeOK, RunType, SaveRecord
<1>10. DiskInv'
  <2>1. tick' \in Nat /\ tick <= tick'
    BY <1>1 DEF TypeOK, SimType
  <2> QED
    BY <1>1, <1>2, <1>3, <1>4, <1>5, <2>1, GrowthKeepsDisk
<1> QED
  BY <1>6, <1>7, <1>8, <1>9, <1>10 DEF TypeOK

\* A tick whose append fails.
LEMMA AppendFailsKeepsDisk ==
    ASSUME TypeOK, DiskInv, AdvanceAppendFails
    PROVE  TypeOK' /\ DiskInv'
<1>1. /\ Live /\ Produce /\ BeginFinish /\ failed' = TRUE
      /\ used' = [used EXCEPT !.faults = @ + 1]
      /\ UNCHANGED <<committed, snaps, cursor, tick, revision, cadence, foldVars,
                     published, giveups, told>>
  BY DEF AdvanceAppendFails, MayStep, Live
<1>2. PICK k \in 0 .. BatchLen : log' = log \o SubSeq(Batch, 1, k)
  BY DEF AdvanceAppendFails, AppendPrefix
<1>3. GrowsLog(Len(pending) + StagedControls.events)
  BY <1>2, PrefixGrows
<1>4. /\ log' \in Seq(Record) /\ Len(log) \in Nat /\ Len(log') \in Nat
      /\ Len(log) <= Len(log') /\ cursor \in Nat /\ cursor <= Len(log)
      /\ Len(pending) + StagedControls.events \in Nat
  BY <1>1, <1>3, StagedType DEF GrowsLog, TypeOK, LogType, DiskInv, FilesOrdered, NextOffset
<1>5. /\ phase' = "saving" /\ state' = "finished"
      /\ save' \in SaveRecord /\ ~save'.wrote /\ saves' \in Nat
  BY <1>1, BeginSaveType DEF BeginFinish
<1>6. LogType'
  BY <1>1, <1>4 DEF TypeOK, LogType
<1>7. SnapshotType'
  BY <1>1 DEF TypeOK, SnapshotType
<1>8. SimType'
  BY <1>1, ProduceType DEF TypeOK, SimType, foldVars
<1>9. RunType'
  BY <1>1, <1>5, UsedType DEF TypeOK, RunType, SaveRecord
<1>10. DiskInv'
  <2>1. /\ cursor' \in cursor .. Len(log')
        /\ tick' \in Nat /\ tick <= tick' /\ tick' = tick
    BY <1>1, <1>4 DEF TypeOK, SimType
  <2> QED
    BY <1>1, <1>3, <1>4, <1>5, <2>1, GrowthKeepsDisk
<1> QED
  BY <1>6, <1>7, <1>8, <1>9, <1>10 DEF TypeOK

\* A tick whose read fails.
LEMMA ReadFailsKeepsDisk ==
    ASSUME TypeOK, DiskInv, AdvanceReadFails
    PROVE  TypeOK' /\ DiskInv'
<1>1. /\ Live /\ Produce /\ BeginFinish /\ failed' = TRUE
      /\ published' = published + BatchLen
      /\ used' = [used EXCEPT !.reads = @ + 1]
      /\ UNCHANGED <<committed, snaps, tick, revision, cadence, foldVars,
                     giveups, told>>
  BY DEF AdvanceReadFails, MayStep, Live
<1>2. log' = log \o Batch
  BY DEF AdvanceReadFails, AppendAll
<1>3. GrowsLog(Len(pending) + StagedControls.events)
  BY <1>2, AllGrows
<1>4. /\ log' \in Seq(Record) /\ Len(log) \in Nat /\ Len(log') \in Nat
      /\ Len(log) <= Len(log') /\ cursor \in Nat
      /\ Len(pending) + StagedControls.events \in Nat
  BY <1>1, <1>3, StagedType DEF GrowsLog, TypeOK, LogType
<1>5. cursor' \in cursor .. Len(log')
  <2>1. StagedControls.capacity \in Nat
    BY StagedType
  <2>2. UnprocessedUpTo(log', StagedControls.capacity) \in cursor .. Len(log')
    BY <1>1, <1>4, <2>1, ReadStops, Zenon
  <2>3. cursor' \in cursor .. UnprocessedUpTo(log', StagedControls.capacity)
    BY <1>2, Zenon DEF AdvanceReadFails
  <2> QED
    BY <1>4, <2>2, <2>3
<1>6. /\ phase' = "saving" /\ state' = "finished"
      /\ save' \in SaveRecord /\ ~save'.wrote /\ saves' \in Nat
  BY <1>1, BeginSaveType DEF BeginFinish
<1>7. LogType'
  BY <1>1, <1>4, <1>5 DEF TypeOK, LogType
<1>8. SnapshotType'
  BY <1>1 DEF TypeOK, SnapshotType
<1>9. SimType'
  BY <1>1, ProduceType, StagedType DEF TypeOK, SimType, foldVars
<1>10. RunType'
  BY <1>1, <1>6, UsedType DEF TypeOK, RunType, SaveRecord
<1>11. DiskInv'
  <2>1. tick' \in Nat /\ tick <= tick' /\ tick' = tick
    BY <1>1 DEF TypeOK, SimType
  <2> QED
    BY <1>1, <1>3, <1>4, <1>5, <1>6, <2>1, GrowthKeepsDisk
<1> QED
  BY <1>7, <1>8, <1>9, <1>10, <1>11 DEF TypeOK

\* How a Save leaves the run when it returns.
LEMMA SaveReturnsType ==
    ASSUME TypeOK, phase = "saving", NEW ok \in BOOLEAN, SaveReturns(ok)
    PROVE  /\ phase' \in {"absent", "idle", "saving"}
           /\ state' \in {"running", "paused", "finished"}
           /\ failed' \in BOOLEAN
           /\ save' \in SaveRecord /\ saves' \in Nat
           /\ told' \in {"none", "running", "paused", "finished"}
           /\ phase' = "saving" => ~save'.wrote
<1>1. failed' \in BOOLEAN
  BY Zenon DEF SaveReturns
<1>2. /\ state \in {"running", "paused", "finished"} /\ save \in SaveRecord
      /\ saves \in Nat /\ told \in {"none", "running", "paused", "finished"}
  BY DEF TypeOK, RunType, SaveRecord
<1>3. CASE save.why = "start"
  BY <1>1, <1>2, <1>3 DEF SaveReturns
<1>4. CASE save.why = "cadence" /\ ok
  <2>1. EndOfAdvance(tick) /\ told' = told
    BY <1>4 DEF SaveReturns
  <2> QED
    BY <1>1, <1>2, <2>1, EndOfAdvanceType
<1>5. CASE save.why = "cadence" /\ ~ok
  <2>1. BeginSave("finish") /\ state' = "finished" /\ told' = told
    BY <1>5 DEF SaveReturns, BeginFinish
  <2> QED
    BY <1>1, <1>2, <2>1, BeginSaveType
<1>6. CASE save.why # "start" /\ save.why # "cadence"
  BY <1>1, <1>2, <1>6 DEF SaveReturns
<1> QED
  BY <1>3, <1>4, <1>5, <1>6

\* How a failed attempt leaves the run.
LEMMA AttemptFailsType ==
    ASSUME TypeOK, phase = "saving", AttemptFails
    PROVE  /\ phase' \in {"absent", "idle", "saving"}
           /\ state' \in {"running", "paused", "finished"}
           /\ failed' \in BOOLEAN
           /\ save' \in SaveRecord /\ saves' \in Nat /\ giveups' \in Nat
           /\ told' \in {"none", "running", "paused", "finished"}
           /\ phase' = "saving" => ~save'.wrote
<1>1. /\ state \in {"running", "paused", "finished"} /\ save \in SaveRecord
      /\ failed \in BOOLEAN /\ giveups \in Nat
      /\ saves \in Nat /\ told \in {"none", "running", "paused", "finished"}
  BY DEF TypeOK, RunType, SaveRecord
<1>2. CASE save.attempt < maxSnapshotSaveAttempts
  <2>1. /\ save' = [save EXCEPT !.attempt = @ + 1, !.wrote = FALSE]
        /\ UNCHANGED <<phase, state, failed, saves, giveups, told>>
    BY <1>2 DEF AttemptFails
  <2>2. save' = [why |-> save.why, attempt |-> save.attempt + 1, wrote |-> FALSE]
    BY <1>1, <2>1 DEF SaveRecord
  <2>3. /\ save.why \in {"start", "cadence", "pause", "finish"}
        /\ save.attempt + 1 \in 1 .. maxSnapshotSaveAttempts
    BY <1>1, <1>2 DEF SaveRecord, maxSnapshotSaveAttempts
  <2>4. save' \in SaveRecord /\ ~save'.wrote
    BY <2>2, <2>3 DEF SaveRecord
  <2> QED
    BY <1>1, <2>1, <2>4
<1>3. CASE ~(save.attempt < maxSnapshotSaveAttempts)
  <2>1. giveups' = giveups + 1 /\ SaveReturns(FALSE)
    BY <1>3 DEF AttemptFails
  <2>2. giveups' \in Nat
    BY <1>1, <2>1
  <2> QED
    BY <2>1, <2>2, SaveReturnsType, Zenon
<1> QED
  BY <1>2, <1>3

\* An attempt that fails, by injection or for real.
LEMMA AttemptFailsKeepsDisk ==
    ASSUME TypeOK, DiskInv, SaveInjectedFailure \/ SaveFaults
    PROVE  TypeOK' /\ DiskInv'
<1>1. /\ phase = "saving" /\ AttemptFails
      /\ UNCHANGED <<logVars, simVars, foldVars, published>>
      /\ used' = used \/ used' = [used EXCEPT !.faults = @ + 1]
  BY DEF SaveInjectedFailure, SaveFaults
<1>2. LogType' /\ SnapshotType' /\ SimType'
  BY <1>1 DEF TypeOK, LogType, SnapshotType, SimType, logVars, simVars, foldVars
<1>3. RunType'
  BY <1>1, AttemptFailsType, UsedType DEF TypeOK, RunType, SaveRecord
<1>4. DiskInv'
  BY <1>1, AttemptFailsType, QuietKeepsDisk DEF Live, logVars, simVars
<1> QED
  BY <1>2, <1>3, <1>4 DEF TypeOK

\* The snapshot write.
LEMMA SaveWritesKeepsDisk ==
    ASSUME TypeOK, DiskInv, SaveWrites
    PROVE  TypeOK' /\ DiskInv'
<1>1. /\ phase = "saving" /\ phase' = "saving"
      /\ snaps' = [o \in DOMAIN snaps \cup {cursor} |->
                     IF o = cursor THEN SnapshotState ELSE snaps[o]]
      /\ save' = [save EXCEPT !.wrote = TRUE]
      /\ UNCHANGED <<log, committed, cursor, simVars, foldVars, published,
                     state, failed, saves, giveups, told, used>>
  BY DEF SaveWrites, WriteSnapshot
<1>2. /\ DOMAIN snaps' = DOMAIN snaps \cup {cursor}
      /\ snaps'[cursor] = SnapshotState
      /\ \A o \in DOMAIN snaps : o # cursor => snaps'[o] = snaps[o]
  BY <1>1
<1>3. /\ cursor \in Nat /\ tick \in Nat /\ Len(log) \in Nat
      /\ SnapshotState.tick = tick /\ cursor <= Len(log)
      /\ \A o \in DOMAIN snaps : o \in Nat /\ o <= cursor
  BY <1>1 DEF TypeOK, LogType, SimType, SnapshotType, SnapshotState, DiskInv,
              FilesOrdered, Live, NextOffset
<1>4. LogType' /\ SimType'
  BY <1>1 DEF TypeOK, LogType, SimType, simVars, foldVars
<1>5. SnapshotType'
  <2>1. /\ SnapshotState.tick \in Nat /\ SnapshotState.revision \in Nat
        /\ SnapshotState.controls \in Controls
        /\ IsGarden(SnapshotState.garden)
        /\ SnapshotState.received \in Nat /\ SnapshotState.published \in Nat
        /\ SnapshotState.state \in {"running", "paused", "finished"}
    BY DEF TypeOK, SimType, RunType, SnapshotState
  <2>2. ASSUME NEW o \in DOMAIN snaps'
        PROVE  /\ snaps'[o].tick \in Nat /\ snaps'[o].revision \in Nat
               /\ snaps'[o].controls \in Controls
               /\ IsGarden(snaps'[o].garden)
               /\ snaps'[o].received \in Nat /\ snaps'[o].published \in Nat
               /\ snaps'[o].state \in {"running", "paused", "finished"}
    <3>1. CASE o = cursor
      BY <1>2, <2>1, <3>1
    <3>2. CASE o # cursor
      <4>1. o \in DOMAIN snaps /\ snaps'[o] = snaps[o]
        BY <1>2, <3>2
      <4> QED
        BY <4>1 DEF TypeOK, SnapshotType
    <3> QED
      BY <3>1, <3>2
  <2> QED
    BY <1>2, <1>3, <2>2 DEF SnapshotType
<1>6. RunType'
  <2>1. save \in SaveRecord
    BY DEF TypeOK, RunType, SaveRecord
  <2>2. save' = [why |-> save.why, attempt |-> save.attempt, wrote |-> TRUE]
    BY <1>1, <2>1 DEF SaveRecord
  <2>3. save' \in SaveRecord
    BY <2>1, <2>2 DEF SaveRecord
  <2> QED
    BY <1>1, <2>3 DEF TypeOK, RunType, SaveRecord
<1>7. FilesOrdered'
  <2>1. \A o \in DOMAIN snaps' : o <= cursor /\ o <= Len(log)
    BY <1>2, <1>3
  <2>2. cursor \in DOMAIN snaps'
    BY <1>2
  <2> QED
    BY <1>1, <1>3, <2>1, <2>2 DEF FilesOrdered, Live, HasSnapshot, NextOffset
<1>8. TicksOrdered'
  <2>1. \A i \in 1 .. Len(log) : log[i].tick <= tick
    BY <1>1 DEF DiskInv, TicksOrdered, Live, NextOffset
  <2>2. ASSUME NEW o \in DOMAIN snaps'
        PROVE  /\ \A i \in 1 .. o : log[i].tick <= snaps'[o].tick
               /\ o < Len(log) => log[o + 1].tick <= snaps'[o].tick
               /\ o = Len(log) => tick <= snaps'[o].tick
    <3>1. CASE o = cursor
      <4>1. snaps'[o].tick = tick
        BY <1>2, <1>3, <3>1
      <4> QED
        BY <1>3, <2>1, <3>1, <4>1
    <3>2. CASE o # cursor
      <4>1. o \in DOMAIN snaps /\ snaps'[o] = snaps[o]
        BY <1>2, <3>2
      <4> QED
        BY <1>1, <4>1 DEF DiskInv, TicksOrdered, Live, NextOffset
    <3> QED
      BY <3>1, <3>2
  <2> QED
    BY <1>1, <2>2 DEF DiskInv, TicksOrdered, Live, NextOffset, simVars
<1>9. CommitCovered'
  BY <1>1, <1>2 DEF DiskInv, CommitCovered
<1> QED
  BY <1>4, <1>5, <1>6, <1>7, <1>8, <1>9 DEF TypeOK, DiskInv

\* The commit: the snapshot behind it is already there.
LEMMA SaveCommitsKeepsDisk ==
    ASSUME TypeOK, DiskInv, SaveCommits
    PROVE  TypeOK' /\ DiskInv'
<1>1. /\ phase = "saving" /\ save.wrote /\ committed' = cursor /\ SaveReturns(TRUE)
      /\ UNCHANGED <<log, snaps, cursor, simVars, foldVars, published, giveups, used>>
  BY DEF SaveCommits, Commit
<1>2. cursor \in DOMAIN snaps
  BY <1>1 DEF DiskInv, FilesOrdered
<1>3. /\ phase' \in {"absent", "idle", "saving"}
      /\ state' \in {"running", "paused", "finished"}
      /\ failed' \in BOOLEAN
      /\ save' \in SaveRecord /\ saves' \in Nat
      /\ told' \in {"none", "running", "paused", "finished"}
      /\ phase' = "saving" => ~save'.wrote
  BY <1>1, SaveReturnsType, Zenon
<1>4. LogType' /\ SnapshotType' /\ SimType'
  BY <1>1 DEF TypeOK, LogType, SnapshotType, SimType, simVars, foldVars
<1>5. RunType'
  BY <1>1, <1>3 DEF TypeOK, RunType, SaveRecord
<1>6. DiskInv'
  BY <1>1, <1>2, <1>3, QuietKeepsDisk DEF Live, simVars
<1> QED
  BY <1>4, <1>5, <1>6 DEF TypeOK

\* The start of a run: nothing is on disk that could be ahead of it.
LEMMA StartRunKeepsDisk ==
    ASSUME TypeOK, DiskInv, StartRun
    PROVE  TypeOK' /\ DiskInv'
<1>1. /\ Len(log) = 0 /\ controls' \in Controls
      /\ tick' = 0 /\ revision' = 0 /\ pending' = <<>> /\ seq' = 0
      /\ cadence' = SnapshotEvery
      /\ garden' = EmptyBag /\ received' = 0 /\ published' = 0
      /\ cursor' = committed
      /\ state' = "running" /\ failed' = FALSE /\ giveups' = 0 /\ told' = "none"
      /\ phase' = "saving"
      /\ save' = [why |-> "start", attempt |-> 1, wrote |-> FALSE]
      /\ saves' = 1
      /\ UNCHANGED <<log, committed, snaps, used>>
  BY DEF StartRun, NewSim, FirstSave, NextOffset
<1>2. committed = 0
  BY <1>1 DEF TypeOK, LogType, DiskInv, FilesOrdered, CommitCovered, NextOffset
<1>3. LogType' /\ SnapshotType'
  BY <1>1 DEF TypeOK, LogType, SnapshotType
<1>4. SimType'
  <2>1. IsGarden(garden')
    BY <1>1, EmptyIsSetToBag, SetIsGarden
  <2> QED
    BY <1>1, <2>1, ConfigAssumption DEF SimType
<1>5. save' \in SaveRecord /\ ~save'.wrote
  BY <1>1 DEF SaveRecord, maxSnapshotSaveAttempts
<1>6. RunType'
  BY <1>1, <1>5 DEF TypeOK, RunType, SaveRecord
<1>7. FilesOrdered'
  BY <1>1, <1>2, <1>5 DEF DiskInv, FilesOrdered, HasSnapshot, NextOffset
<1>8. TicksOrdered'
  BY <1>1 DEF TypeOK, SnapshotType, DiskInv, TicksOrdered, FilesOrdered, NextOffset
<1>9. CommitCovered'
  BY <1>1 DEF DiskInv, CommitCovered
<1> QED
  BY <1>3, <1>4, <1>6, <1>7, <1>8, <1>9 DEF TypeOK, DiskInv

\* UpdateControls, PauseRun, ResumeRun and FinishRun.
LEMMA CommandKeepsDisk ==
    ASSUME TypeOK, DiskInv,
           UpdateControls \/ (\E paused \in BOOLEAN : SetPaused(paused)) \/ FinishRun
    PROVE  TypeOK' /\ DiskInv'
<1>1. CASE UpdateControls
  <2>1. PICK c \in Controls :
          pending' = Append(pending, [rev |-> revision + 1, controls |-> c])
    BY <1>1 DEF UpdateControls
  <2>2. /\ revision' = revision + 1
        /\ used' = [used EXCEPT !.updates = @ + 1]
        /\ UNCHANGED <<logVars, tick, controls, seq, cadence, foldVars, published,
                       runVars, told>>
    BY <1>1 DEF UpdateControls
  <2>3. revision' \in Nat /\ pending' \in Seq([rev : Nat, controls : Controls])
    BY <2>1, <2>2 DEF TypeOK, SimType
  <2>4. LogType' /\ SnapshotType'
    BY <2>2 DEF TypeOK, LogType, SnapshotType, logVars
  <2>5. SimType'
    BY <2>2, <2>3 DEF TypeOK, SimType, foldVars
  <2>6. RunType'
    BY <2>2, UsedType DEF TypeOK, RunType, runVars
  <2>7. DiskInv'
    BY <2>2, QuietKeepsDisk DEF Live, logVars, runVars
  <2> QED
    BY <2>4, <2>5, <2>6, <2>7 DEF TypeOK
<1>2. CASE (\E paused \in BOOLEAN : SetPaused(paused)) \/ FinishRun
  <2>1. /\ phase = "idle"
        /\ state' \in {"running", "paused", "finished"}
        /\ BeginSave("pause") \/ BeginSave("finish")
        /\ told' = "none"
        /\ used' = used \/ used' = [used EXCEPT !.pauses = @ + 1]
        /\ UNCHANGED <<logVars, simVars, foldVars, published, failed, giveups>>
    BY <1>2 DEF SetPaused, FinishRun, BeginFinish
  <2>2. phase' = "saving" /\ save' \in SaveRecord /\ ~save'.wrote /\ saves' \in Nat
    BY <2>1, BeginSaveType
  <2>3. LogType' /\ SnapshotType' /\ SimType'
    BY <2>1 DEF TypeOK, LogType, SnapshotType, SimType, logVars, simVars, foldVars
  <2>4. RunType'
    BY <2>1, <2>2, UsedType DEF TypeOK, RunType, SaveRecord
  <2>5. DiskInv'
    BY <2>1, <2>2, QuietKeepsDisk DEF Live, logVars, simVars
  <2> QED
    BY <2>3, <2>4, <2>5 DEF TypeOK
<1> QED
  BY <1>1, <1>2

\* Death between two handlers, and a recovery that skips the run.
LEMMA CrashKeepsDisk ==
    ASSUME TypeOK, DiskInv, Crash \/ RecoverSkips
    PROVE  TypeOK' /\ DiskInv'
<1>1. /\ phase' \in {"down", "absent"}
      /\ used' = used \/ used' = [used EXCEPT !.crashes = @ + 1]
      /\ UNCHANGED <<logVars, simVars, foldVars, published, state, failed, save,
                     saves, giveups, told>>
  BY DEF Crash, Dies, RecoverSkips
<1>2. LogType' /\ SnapshotType' /\ SimType'
  BY <1>1 DEF TypeOK, LogType, SnapshotType, SimType, logVars, simVars, foldVars
<1>3. RunType'
  BY <1>1, UsedType DEF TypeOK, RunType
<1>4. DiskInv'
  BY <1>1, QuietKeepsDisk DEF logVars, simVars
<1> QED
  BY <1>2, <1>3, <1>4 DEF TypeOK

\* Death inside an append.
LEMMA CrashInAppendKeepsDisk ==
    ASSUME TypeOK, DiskInv, CrashInAppend
    PROVE  TypeOK' /\ DiskInv'
<1>1. /\ Live /\ phase' = "down"
      /\ used' = [used EXCEPT !.crashes = @ + 1]
      /\ UNCHANGED <<committed, snaps, cursor, simVars, foldVars, published, state,
                     failed, save, saves, giveups, told>>
  BY DEF CrashInAppend, MayStep, Dies, Live
<1>2. PICK k \in 1 .. BatchLen - 1 : log' = log \o SubSeq(Batch, 1, k)
  BY DEF CrashInAppend, AppendPrefix
<1>3. k \in 0 .. BatchLen
  BY StagedType
<1>4. GrowsLog(Len(pending) + StagedControls.events)
  BY <1>2, <1>3, PrefixGrows
<1>5. log' \in Seq(Record) /\ Len(pending) + StagedControls.events \in Nat
  BY <1>4, StagedType DEF GrowsLog
<1>6. LogType' /\ SnapshotType' /\ SimType'
  BY <1>1, <1>5 DEF TypeOK, LogType, SnapshotType, SimType, simVars, foldVars
<1>7. RunType'
  BY <1>1, UsedType DEF TypeOK, RunType
<1>8. DiskInv'
  BY <1>1, <1>4, <1>5, GrowthKeepsDisk
<1> QED
  BY <1>6, <1>7, <1>8 DEF TypeOK

\* What TicksAfter makes of an ordered tail: the recovered tick is past every
\* record, and is the snapshot's own when there is no tail.
LEMMA RecoveredTick ==
    ASSUME TypeOK, DiskInv, HasSnapshot
    PROVE  /\ Latest \in Nat /\ Latest <= Len(log)
           /\ snaps[Latest].tick + TicksAfter(Latest) \in Nat
           /\ \A i \in 1 .. Len(log) :
                 log[i].tick <= snaps[Latest].tick + TicksAfter(Latest)
           /\ Latest = Len(log) =>
                 snaps[Latest].tick + TicksAfter(Latest) = snaps[Latest].tick
<1> DEFINE N == Len(log)
           t == snaps[Latest].tick
<1>1. Latest \in DOMAIN snaps
  BY LatestFacts DEF DiskInv
<1>2. Latest \in Nat /\ Latest <= N /\ t \in Nat /\ N \in Nat
  BY <1>1 DEF TypeOK, LogType, SnapshotType, DiskInv, FilesOrdered, NextOffset
<1>3. \A i \in 1 .. N : log[i].tick \in Nat
  <2>1. \A i \in 1 .. N : log[i] \in Record
    <3> HIDE DEF Record
    <3> QED
      BY SeqElement DEF TypeOK, LogType
  <2> QED
    BY <2>1 DEF Record
<1>4. /\ \A i \in 1 .. Latest : log[i].tick <= t
      /\ Latest < N => log[Latest + 1].tick <= t
      /\ \A i, j \in 1 .. N : i < j => log[i].tick <= log[j].tick
  BY <1>1 DEF DiskInv, TicksOrdered, NextOffset
<1>5. CASE Latest = N
  <2>1. TicksAfter(Latest) = 0
    BY <1>5 DEF TicksAfter, NextOffset
  <2> QED
    BY <1>2, <1>4, <1>5, <2>1
<1>6. CASE Latest < N
  <2>1. Latest + 1 \in 1 .. N /\ N \in 1 .. N /\ Latest + 1 <= N
    BY <1>2, <1>6
  <2>2. log[Latest + 1].tick <= log[N].tick
    BY <1>2, <1>3, <1>4, <2>1
  <2>3. TicksAfter(Latest) = log[N].tick - log[Latest + 1].tick + 1
    BY <1>2, <1>6 DEF TicksAfter, NextOffset
  <2>4. t + TicksAfter(Latest) \in Nat /\ log[N].tick <= t + TicksAfter(Latest)
    BY <1>2, <1>3, <1>4, <1>6, <2>1, <2>2, <2>3
  <2>5. \A i \in 1 .. N : log[i].tick <= log[N].tick
    BY <1>2, <1>3, <1>4, <2>1
  <2>6. \A i \in 1 .. N : log[i].tick <= t + TicksAfter(Latest)
    BY <1>2, <1>3, <2>1, <2>4, <2>5
  <2> QED
    BY <1>2, <1>6, <2>4, <2>6
<1> QED
  BY <1>2, <1>5, <1>6

\* Recovery.
LEMMA RecoverKeepsDisk ==
    ASSUME TypeOK, DiskInv, Recover
    PROVE  TypeOK' /\ DiskInv'
<1>1. /\ HasSnapshot
      /\ tick' = snaps[Latest].tick + TicksAfter(Latest)
      /\ published' = snaps[Latest].published + (Len(log) - Latest)
      /\ received' = snaps[Latest].received + (Len(log) - Latest)
      /\ controls' = snaps[Latest].controls
      /\ revision' = snaps[Latest].revision
      /\ state' \in {"running", "paused"}
      /\ garden' = RebuiltGarden /\ cursor' = Len(log)
      /\ seq' = ResumeSeq /\ pending' = <<>> /\ cadence' = 0
      /\ failed' = FALSE /\ saves' = 0 /\ giveups' = 0 /\ phase' = "idle"
      /\ UNCHANGED <<log, committed, snaps, save, told, used>>
  BY DEF Recover, Resume, Recoverable, MarkFolded, NextOffset
<1>2. /\ Latest \in DOMAIN snaps
      /\ \A o \in DOMAIN snaps : o <= Latest
  BY <1>1, LatestFacts DEF DiskInv
<1>3. Latest \in Nat /\ Latest <= Len(log) /\ Len(log) \in Nat
  BY <1>1, RecoveredTick DEF TypeOK, LogType
<1>4. LogType' /\ SnapshotType'
  BY <1>1, <1>3 DEF TypeOK, LogType, SnapshotType
<1>5. SimType'
  <2>1. /\ controls' \in Controls /\ revision' \in Nat
        /\ received' \in Nat /\ published' \in Nat
        /\ IsGarden(snaps[Latest].garden)
    BY <1>1, <1>2, <1>3, SMTT(20) DEF TypeOK, SnapshotType
  <2>2. IsGarden(garden')
    <3>1. AppliedIn(log, Latest, Len(log), {}) \in SUBSET Nat
      BY <1>3, AppliedType DEF TypeOK, LogType
    <3> QED
      BY <1>1, <2>1, <3>1, SetIsGarden, GardenSum DEF RebuiltGarden, NextOffset
  <2>3. seq' \in Nat
    <3>1. CASE Len(log) = 0
      BY <1>1, <3>1 DEF ResumeSeq, NextOffset
    <3>2. CASE Len(log) # 0
      <4>1. Len(log) \in 1 .. Len(log)
        BY <1>3, <3>2
      <4>2. log[Len(log)] \in Record
        <5> HIDE DEF Record
        <5> QED
          BY <4>1, SeqElement DEF TypeOK, LogType
      <4> QED
        BY <1>1, <3>2, <4>2 DEF ResumeSeq, NextOffset, Record
    <3> QED
      BY <3>1, <3>2
  <2>4. tick' \in Nat
    BY <1>1, RecoveredTick
  <2> QED
    BY <1>1, <2>1, <2>2, <2>3, <2>4 DEF SimType
<1>6. RunType'
  BY <1>1 DEF TypeOK, RunType
<1>7. FilesOrdered'
  BY <1>1, <1>2, <1>3 DEF DiskInv, FilesOrdered, HasSnapshot, NextOffset
<1>8. TicksOrdered'
  <2>1. \A i \in 1 .. Len(log) : log[i].tick <= tick'
    BY <1>1, RecoveredTick
  <2>2. ASSUME NEW o \in DOMAIN snaps, o = Len(log)
        PROVE  tick' <= snaps[o].tick
    <3>1. o = Latest
      BY <1>2, <1>3, <2>2
    <3> QED
      BY <1>1, <1>2, <2>2, <3>1, RecoveredTick DEF TypeOK, SnapshotType
  <2> QED
    BY <1>1, <2>1, <2>2 DEF DiskInv, TicksOrdered, NextOffset
<1>9. CommitCovered'
  BY <1>1 DEF DiskInv, CommitCovered
<1> QED
  BY <1>4, <1>5, <1>6, <1>7, <1>8, <1>9 DEF TypeOK, DiskInv

\* The initial state.
LEMMA InitDisk == Init => TypeOK /\ DiskInv
<1> SUFFICES ASSUME Init PROVE TypeOK /\ DiskInv
  OBVIOUS
<1>1. LogType /\ SnapshotType
  BY DEF Init, LogType, SnapshotType
<1>2. SimType
  <2>1. IsGarden(garden)
    BY EmptyIsSetToBag, SetIsGarden DEF Init
  <2> QED
    BY <2>1 DEF Init, SimType
<1>3. RunType
  <2>1. save \in SaveRecord
    BY DEF Init, SaveRecord, maxSnapshotSaveAttempts
  <2> QED
    BY <2>1 DEF Init, RunType, SaveRecord
<1>4. DiskInv
  BY DEF Init, DiskInv, FilesOrdered, TicksOrdered, CommitCovered, HasSnapshot,
         NextOffset, Live
<1> QED
  BY <1>1, <1>2, <1>3, <1>4 DEF TypeOK

\* Every step.
LEMMA NextKeepsDisk == TypeOK /\ DiskInv /\ [Next]_vars => TypeOK' /\ DiskInv'
<1> SUFFICES ASSUME TypeOK, DiskInv, [Next]_vars PROVE TypeOK' /\ DiskInv'
  OBVIOUS
<1>1. CASE UNCHANGED vars
  <2>1. LogType' /\ SnapshotType' /\ SimType' /\ RunType'
    BY <1>1 DEF vars, logVars, simVars, foldVars, runVars, TypeOK, LogType,
                SnapshotType, SimType, RunType
  <2>2. DiskInv'
    BY <1>1, QuietKeepsDisk DEF vars, logVars, simVars, runVars, Live
  <2> QED
    BY <2>1, <2>2 DEF TypeOK
<1>2. CASE Next
  BY <1>2, AdvanceKeepsDisk, AppendFailsKeepsDisk, ReadFailsKeepsDisk,
     AttemptFailsKeepsDisk, SaveWritesKeepsDisk, SaveCommitsKeepsDisk,
     StartRunKeepsDisk, CommandKeepsDisk, CrashKeepsDisk, CrashInAppendKeepsDisk,
     RecoverKeepsDisk
  DEF Next, SaveStep, Command
<1> QED
  BY <1>1, <1>2

\* TypeOK and DiskInv together are inductive.
LEMMA DiskInduction == Spec => [](TypeOK /\ DiskInv)
BY InitDisk, NextKeepsDisk, PTL DEF Spec

\* Every variable has its type in every behaviour, whatever the configuration,
\* the control profiles and the number of crashes and faults.
THEOREM TypeCorrect == Spec => []TypeOK
BY DiskInduction, PTL

\* There is never a moment at which a crash resumes past records nothing
\* holds: the offset Log.Save commits always has a snapshot behind it.
THEOREM CommitIsCovered == Spec => []CommitCovered
<1>1. DiskInv => CommitCovered
  BY DEF DiskInv
<1> QED
  BY <1>1, DiskInduction, PTL

\* What is on disk at any moment is something Recover can read.
THEOREM DiskIsRecoverable == Spec => []DiskInv
BY DiskInduction, PTL

-----------------------------------------------------------------------------
(***************************************************************************)
(* Exactly-once folding.  Under PairsKept a live garden and every snapshot *)
(* carry each event below their offset once.  Built on TypeOK /\ DiskInv.  *)
(***************************************************************************)

\* Cut and EventsBelow, as functions of the log they look at.
CutOf(lg, c) ==
    \A i, j \in 1 .. Len(lg) : i <= c /\ c < j => lg[i].seq < lg[j].seq

Below(lg, n) == {lg[i].seq : i \in {j \in 1 .. n : lg[j].kind = "organism"}}

\* The record at a position of the log.
LEMMA LogElement ==
    ASSUME NEW lg \in Seq(Record), NEW i \in 1 .. Len(lg)
    PROVE  lg[i].seq \in Nat /\ lg[i].kind \in {"organism", "control_changed"}
<1>1. lg[i] \in Record
  <2> HIDE DEF Record
  <2> QED
    BY SeqElement
<1> QED
  BY <1>1 DEF Record

\* Keys of one kind are equal only for equal numbers; keys of two kinds never.
LEMMA KeysApart ==
    ASSUME NEW a, NEW b
    PROVE  /\ <<"id", a>> = <<"id", b>> => a = b
           /\ <<"id", a>> # <<"rev", b>>
OBVIOUS

\* Only the same event has an organism event's key.
LEMMA OrganismKey ==
    ASSUME NEW r, NEW t, r.kind = "organism",
           IdempotencyKey(r) = IdempotencyKey(t)
    PROVE  t.kind # "control_changed" /\ r.seq = t.seq
<1>1. IdempotencyKey(r) = <<"id", r.seq>>
  BY DEF IdempotencyKey
<1>2. CASE t.kind = "control_changed"
  <2>1. IdempotencyKey(t) = <<"rev", t.rev>>
    BY <1>2 DEF IdempotencyKey
  <2> QED
    BY <1>1, <2>1, KeysApart, Zenon
<1>3. CASE t.kind # "control_changed"
  <2>1. IdempotencyKey(t) = <<"id", t.seq>>
    BY <1>3 DEF IdempotencyKey
  <2> QED
    BY <1>1, <1>3, <2>1, KeysApart, Zenon
<1> QED
  BY <1>2, <1>3

\* Folding the records from a clean cut on, with a table that knows only what
\* is below the cut, takes the garden of one offset to the garden of another.
LEMMA RangeFold ==
    ASSUME NEW lg \in Seq(Record), NEW c \in Nat, NEW d \in Nat,
           c <= d, d <= Len(lg), CutOf(lg, c),
           NEW table, table \subseteq KeysIn(lg, 0, c)
    PROVE  SetToBag(Below(lg, c)) (+) SetToBag(AppliedIn(lg, c, d, table))
             = SetToBag(Below(lg, d))
<1> DEFINE A == AppliedIn(lg, c, d, table)
<1>1. \A i \in 1 .. c, j \in c + 1 .. d : lg[i].seq < lg[j].seq
  BY DEF CutOf
<1>2. \A i \in 1 .. d : lg[i].seq \in Nat
  BY LogElement
<1>3. ASSUME NEW j \in c + 1 .. d, lg[j].kind = "organism"
      PROVE  IdempotencyKey(lg[j]) \notin table
  <2>1. SUFFICES ASSUME IdempotencyKey(lg[j]) \in table PROVE FALSE
    OBVIOUS
  <2>2. PICK i \in 1 .. c : IdempotencyKey(lg[i]) = IdempotencyKey(lg[j])
    BY <2>1 DEF KeysIn
  <2>3. lg[i].seq = lg[j].seq
    BY <1>3, <2>2, OrganismKey
  <2>4. lg[i].seq < lg[j].seq /\ lg[i].seq \in Nat
    BY <1>1, <1>2
  <2> QED
    BY <2>3, <2>4
<1>4. A = {lg[i].seq : i \in {j \in c + 1 .. d : lg[j].kind = "organism"}}
  BY <1>3 DEF AppliedIn
<1>5. Below(lg, c) \cap A = {}
  <2>1. SUFFICES ASSUME NEW i \in 1 .. c, NEW j \in c + 1 .. d, lg[i].seq = lg[j].seq
                 PROVE  FALSE
    BY <1>4 DEF Below
  <2>2. lg[i].seq < lg[j].seq /\ lg[i].seq \in Nat
    BY <1>1, <1>2
  <2> QED
    BY <2>1, <2>2
<1>6. Below(lg, c) \cup A = Below(lg, d)
  BY <1>4 DEF Below
<1> QED
  BY <1>5, <1>6, DisjointUnion

-----------------------------------------------------------------------------
(* How the parts of FoldInv fare when the log grows or stays.              *)

\* FoldInv in terms of CutOf and Below.
LEMMA FoldInvForm ==
    ASSUME TypeOK
    PROVE  FoldInv <=>
           /\ LogOrdered
           /\ Live => CutOf(log, cursor) /\ seen \subseteq KeysIn(log, 0, cursor)
           /\ \A o \in DOMAIN snaps : CutOf(log, o)
           /\ \A o \in DOMAIN snaps :
                 o <= Len(log) /\ snaps[o].garden = SetToBag(Below(log, o))
           /\ Live => garden = SetToBag(Below(log, cursor))
BY DEF FoldInv, ProjectionAtCut, SnapshotsFolded, GardenFolded, Cut, CutOf, Below,
       EventsBelow, NextOffset

\* Records numbered after all the others leave every cut clean, and what is
\* below an offset stays.
LEMMA GrowthKeepsCuts ==
    ASSUME TypeOK, LogOrdered, Live, NEW n \in Nat, GrowsLog(n),
           NEW c \in 0 .. Len(log), CutOf(log, c)
    PROVE  CutOf(log', c) /\ Below(log', c) = Below(log, c)
<1>1. /\ log \in Seq(Record) /\ log' \in Seq(Record) /\ seq \in Nat
      /\ Len(log) \in Nat /\ Len(log') \in Nat /\ Len(log) <= Len(log')
      /\ \A i \in 1 .. Len(log) : log'[i] = log[i]
      /\ \A i \in Len(log) + 1 .. Len(log') : log'[i].seq > seq
  BY DEF TypeOK, LogType, SimType, GrowsLog
<1>2. \A i \in 1 .. Len(log) : log[i].seq <= seq
  BY DEF LogOrdered, NextOffset
<1>3. \A i \in 1 .. Len(log') : log'[i].seq \in Nat
  BY <1>1, LogElement
<1>4. ASSUME NEW i \in 1 .. Len(log'), NEW j \in 1 .. Len(log'), i <= c, c < j
      PROVE  log'[i].seq < log'[j].seq
  <2>1. i \in 1 .. Len(log) /\ log'[i] = log[i] /\ log[i].seq \in Nat
    BY <1>1, <1>3, <1>4
  <2>2. CASE j <= Len(log)
    <3>1. j \in 1 .. Len(log) /\ log'[j] = log[j]
      BY <1>1, <2>2
    <3> QED
      BY <1>4, <2>1, <3>1 DEF CutOf
  <2>3. CASE j > Len(log)
    <3>1. log'[j].seq > seq /\ log[i].seq <= seq /\ log'[j].seq \in Nat
      BY <1>1, <1>2, <1>3, <2>1, <2>3
    <3> QED
      BY <1>1, <2>1, <3>1
  <2> QED
    BY <1>1, <2>2, <2>3
<1>5. CutOf(log', c)
  BY <1>4 DEF CutOf
<1>6. \A i \in 1 .. c : log'[i] = log[i]
  BY <1>1
<1>7. Below(log', c) = Below(log, c)
  BY <1>6 DEF Below
<1> QED
  BY <1>5, <1>7

\* Keys of records that stay.
LEMMA GrowthKeepsKeys ==
    ASSUME TypeOK, NEW n \in Nat, GrowsLog(n), NEW c \in 0 .. Len(log)
    PROVE  KeysIn(log', 0, c) = KeysIn(log, 0, c)
<1>1. \A i \in 0 + 1 .. c : log'[i] = log[i]
  BY DEF GrowsLog, TypeOK, LogType
<1> QED
  BY <1>1 DEF KeysIn

\* The log stays in order, and the producer ahead of it.
LEMMA GrowthKeepsOrder ==
    ASSUME TypeOK, LogOrdered, Live, NEW n \in Nat, GrowsLog(n),
           phase' \in {"idle", "saving"} => seq' = seq + n
    PROVE  LogOrdered'
<1>1. /\ log \in Seq(Record) /\ log' \in Seq(Record) /\ seq \in Nat
      /\ Len(log) \in Nat /\ Len(log') \in Nat /\ Len(log) <= Len(log')
      /\ \A i \in 1 .. Len(log) : log'[i] = log[i]
      /\ \A i \in Len(log) + 1 .. Len(log') : log'[i].seq > seq /\ log'[i].seq <= seq + n
      /\ \A i, j \in Len(log) + 1 .. Len(log') : i < j =>
            /\ log'[i].seq <= log'[j].seq
            /\ DuplicateEvery = 0 => log'[i].seq < log'[j].seq
  BY DEF TypeOK, LogType, SimType, GrowsLog
<1>2. /\ \A i \in 1 .. Len(log) : log[i].seq <= seq
      /\ \A i, j \in 1 .. Len(log) : i < j =>
            /\ log[i].seq <= log[j].seq
            /\ DuplicateEvery = 0 => log[i].seq < log[j].seq
  BY DEF LogOrdered, NextOffset
<1>3. \A i \in 1 .. Len(log') : log'[i].seq \in Nat
  BY <1>1, LogElement
<1>4. ASSUME NEW i \in 1 .. Len(log'), NEW j \in 1 .. Len(log'), i < j
      PROVE  /\ log'[i].seq <= log'[j].seq
             /\ DuplicateEvery = 0 => log'[i].seq < log'[j].seq
  <2>1. CASE j <= Len(log)
    <3>1. /\ i \in 1 .. Len(log) /\ j \in 1 .. Len(log)
          /\ log'[i] = log[i] /\ log'[j] = log[j]
      BY <1>1, <1>4, <2>1
    <3> QED
      BY <1>2, <1>4, <3>1
  <2>2. CASE i <= Len(log) /\ Len(log) < j
    <3>1. /\ log'[i].seq <= seq /\ seq < log'[j].seq
          /\ log'[i].seq \in Nat /\ log'[j].seq \in Nat
      BY <1>1, <1>2, <1>3, <2>2
    <3> QED
      BY <1>1, <3>1
  <2>3. CASE Len(log) < i
    <3>1. i \in Len(log) + 1 .. Len(log') /\ j \in Len(log) + 1 .. Len(log')
      BY <1>1, <1>4, <2>3
    <3> QED
      BY <1>1, <1>4, <3>1
  <2> QED
    BY <1>1, <1>4, <2>1, <2>2, <2>3
<1>5. \A i \in 1 .. Len(log') : log'[i].seq <= seq + n
  <2> TAKE i \in 1 .. Len(log')
  <2>1. CASE i <= Len(log)
    <3>1. log'[i].seq <= seq /\ log'[i].seq \in Nat
      BY <1>1, <1>2, <1>3, <2>1
    <3> QED
      BY <1>1, <3>1
  <2>2. CASE Len(log) < i
    BY <1>1, <2>2
  <2> QED
    BY <1>1, <2>1, <2>2
<1> QED
  BY <1>4, <1>5 DEF LogOrdered, Live, NextOffset

\* The snapshots survive an append.
LEMMA GrowthKeepsSnapshots ==
    ASSUME TypeOK, FoldInv, Live, NEW n \in Nat, GrowsLog(n), snaps' = snaps
    PROVE  \A o \in DOMAIN snaps' :
              /\ CutOf(log', o)
              /\ o <= Len(log') /\ snaps'[o].garden = SetToBag(Below(log', o))
<1> SUFFICES ASSUME NEW o \in DOMAIN snaps
             PROVE  /\ CutOf(log', o) /\ o <= Len(log')
                    /\ snaps[o].garden = SetToBag(Below(log', o))
  OBVIOUS
<1>1. /\ o \in Nat /\ o <= Len(log) /\ Len(log) <= Len(log')
      /\ Len(log) \in Nat /\ Len(log') \in Nat
      /\ CutOf(log, o) /\ snaps[o].garden = SetToBag(Below(log, o))
  BY FoldInvForm DEF TypeOK, LogType, SnapshotType, GrowsLog
<1>2. CutOf(log', o) /\ Below(log', o) = Below(log, o)
  <2>1. o \in 0 .. Len(log) /\ LogOrdered
    BY <1>1 DEF FoldInv
  <2> QED
    BY <1>1, <2>1, GrowthKeepsCuts
<1> QED
  BY <1>1, <1>2

\* A step that touches neither log, snapshots, cursor nor projection keeps
\* FoldInv, whether the process lives on or dies.
LEMMA QuietKeepsFold ==
    ASSUME FoldInv, UNCHANGED <<log, snaps, cursor, seq, seen, garden>>,
           phase' \in {"idle", "saving"} => Live
    PROVE  FoldInv'
<1>1. LogOrdered'
  BY DEF FoldInv, LogOrdered, Live, NextOffset
<1>2. ProjectionAtCut'
  BY DEF FoldInv, ProjectionAtCut, Live, Cut, KeysIn, NextOffset
<1>3. (\A o \in DOMAIN snaps : Cut(o))'
  BY DEF FoldInv, Cut, NextOffset
<1>4. SnapshotsFolded'
  BY DEF FoldInv, SnapshotsFolded, EventsBelow, NextOffset
<1>5. GardenFolded'
  BY DEF FoldInv, GardenFolded, EventsBelow, Live
<1> QED
  BY <1>1, <1>2, <1>3, <1>4, <1>5 DEF FoldInv

\* The same form, after a step.
LEMMA FoldInvNext ==
    ASSUME LogOrdered',
           Live' => CutOf(log', cursor') /\ seen' \subseteq KeysIn(log', 0, cursor'),
           \A o \in DOMAIN snaps' :
              /\ CutOf(log', o)
              /\ o <= Len(log') /\ snaps'[o].garden = SetToBag(Below(log', o)),
           Live' => garden' = SetToBag(Below(log', cursor'))
    PROVE  FoldInv'
BY DEF FoldInv, ProjectionAtCut, SnapshotsFolded, GardenFolded, Cut, CutOf, Below,
       EventsBelow, NextOffset

-----------------------------------------------------------------------------
(* One lemma per action: FoldInv is kept.                                  *)

\* A tick: it folds everything, or no event has a redelivery to be parted from.
LEMMA AdvanceKeepsFold ==
    ASSUME PairsKept, TypeOK, DiskInv, FoldInv, Advance
    PROVE  FoldInv'
<1> DEFINE n == Len(pending) + StagedControls.events
<1>1. /\ Live /\ Produce /\ log' = log \o Batch
      /\ cursor' = UnprocessedUpTo(log', StagedControls.capacity)
      /\ Fold(log', cursor, cursor') /\ snaps' = snaps
  <2>1. log' = log \o Batch
    BY DEF Advance, AppendAll
  <2>2. /\ cursor' = UnprocessedUpTo(log', StagedControls.capacity)
        /\ Fold(log', cursor, cursor')
    BY <2>1, Zenon DEF Advance
  <2> QED
    BY <2>1, <2>2 DEF Advance, MayStep, Live
<1>2. /\ GrowsLog(n) /\ n \in Nat /\ seq' = seq + n
      /\ StagedControls \in Controls /\ StagedControls.capacity \in Nat
  <2>1. seq' = seq + Len(pending) + StagedControls.events
    BY <1>1 DEF Produce
  <2> QED
    BY <1>1, <2>1, AllGrows, StagedType DEF TypeOK, SimType
<1> HIDE DEF n
<1>3. /\ log' \in Seq(Record) /\ Len(log) \in Nat /\ Len(log') \in Nat
      /\ Len(log) <= Len(log') /\ cursor \in 0 .. Len(log)
  BY <1>1, <1>2 DEF GrowsLog, TypeOK, LogType, DiskInv, FilesOrdered, NextOffset
<1>4. cursor' \in cursor .. Len(log')
  <2>1. UnprocessedUpTo(log', StagedControls.capacity) \in cursor .. Len(log')
    BY <1>1, <1>2, <1>3, ReadStops, Zenon
  <2> QED
    BY <1>1, <2>1
<1>5. LogOrdered'
  BY <1>1, <1>2, GrowthKeepsOrder DEF FoldInv
<1>6. /\ CutOf(log, cursor) /\ seen \subseteq KeysIn(log, 0, cursor)
      /\ garden = SetToBag(Below(log, cursor))
  BY <1>1, FoldInvForm
<1>7. /\ CutOf(log', cursor) /\ Below(log', cursor) = Below(log, cursor)
      /\ seen \subseteq KeysIn(log', 0, cursor)
  BY <1>1, <1>2, <1>3, <1>6, GrowthKeepsCuts, GrowthKeepsKeys DEF FoldInv
<1>8. CutOf(log', cursor')
  <2>1. CASE DuplicateEvery = 0
    <3>1. \A i, j \in 1 .. Len(log') : i < j => log'[i].seq < log'[j].seq
      BY <1>5, <2>1 DEF LogOrdered, NextOffset
    <3>2. cursor' \in Int
      BY <1>3, <1>4
    <3> QED
      BY <1>3, <3>1, <3>2 DEF CutOf
  <2>2. CASE \A c \in Controls : c.capacity = 0
    <3>1. cursor' = Len(log')
      BY <1>1, <1>2, <2>2 DEF UnprocessedUpTo
    <3> QED
      BY <1>3, <3>1 DEF CutOf
  <2> QED
    BY <2>1, <2>2 DEF PairsKept
<1>9. seen' \subseteq KeysIn(log', 0, cursor')
  <2>1. seen' = seen \cup KeysIn(log', cursor, cursor')
    BY <1>1 DEF Fold
  <2>2. KeysIn(log', 0, cursor) \subseteq KeysIn(log', 0, cursor')
    BY <1>3, <1>4 DEF KeysIn
  <2>3. KeysIn(log', cursor, cursor') \subseteq KeysIn(log', 0, cursor')
    BY <1>3, <1>4 DEF KeysIn
  <2> QED
    BY <1>7, <2>1, <2>2, <2>3
<1>10. garden' = SetToBag(Below(log', cursor'))
  <2>1. garden' = SetToBag(Below(log', cursor))
                    (+) SetToBag(AppliedIn(log', cursor, cursor', seen))
    BY <1>1, <1>6, <1>7, Zenon DEF Fold
  <2>2. cursor \in Nat /\ cursor' \in Nat /\ cursor <= cursor' /\ cursor' <= Len(log')
    BY <1>3, <1>4
  <2>3. SetToBag(Below(log', cursor)) (+) SetToBag(AppliedIn(log', cursor, cursor', seen))
          = SetToBag(Below(log', cursor'))
    BY <1>3, <1>7, <2>2, RangeFold, ZenonT(40)
  <2> QED
    BY <2>1, <2>3, Zenon
<1> QED
  BY <1>1, <1>2, <1>5, <1>8, <1>9, <1>10, GrowthKeepsSnapshots, FoldInvNext

\* A tick whose append fails, or in which the process dies.
LEMMA TornAppendKeepsFold ==
    ASSUME TypeOK, DiskInv, FoldInv, AdvanceAppendFails \/ CrashInAppend
    PROVE  FoldInv'
<1> DEFINE n == Len(pending) + StagedControls.events
<1>1. /\ Live /\ UNCHANGED <<snaps, cursor, seen, garden>>
      /\ \E k \in 0 .. BatchLen : log' = log \o SubSeq(Batch, 1, k)
      /\ phase' \in {"idle", "saving"} => seq' = seq + Len(pending) + StagedControls.events
  <2>1. CASE AdvanceAppendFails
    BY <2>1 DEF AdvanceAppendFails, MayStep, AppendPrefix, Produce, Live, foldVars
  <2>2. CASE CrashInAppend
    <3>1. PICK k \in 1 .. BatchLen - 1 : log' = log \o SubSeq(Batch, 1, k)
      BY <2>2 DEF CrashInAppend, AppendPrefix
    <3>2. k \in 0 .. BatchLen
      BY StagedType
    <3>3. Live /\ phase' = "down" /\ UNCHANGED <<snaps, cursor, seen, garden>>
      BY <2>2 DEF CrashInAppend, MayStep, Dies, Live, foldVars
    <3> QED
      BY <3>1, <3>2, <3>3
  <2> QED
    BY <2>1, <2>2
<1>2. /\ GrowsLog(n) /\ n \in Nat
      /\ phase' \in {"idle", "saving"} => seq' = seq + n
  <2>1. GrowsLog(n)
    BY <1>1, PrefixGrows
  <2> QED
    BY <1>1, <2>1, StagedType DEF TypeOK, SimType
<1> HIDE DEF n
<1>3. cursor \in 0 .. Len(log)
  BY <1>1 DEF TypeOK, LogType, DiskInv, FilesOrdered, NextOffset
<1>4. LogOrdered'
  BY <1>1, <1>2, GrowthKeepsOrder DEF FoldInv
<1>5. /\ CutOf(log, cursor) /\ seen \subseteq KeysIn(log, 0, cursor)
      /\ garden = SetToBag(Below(log, cursor))
  BY <1>1, FoldInvForm
<1>6. /\ CutOf(log', cursor) /\ Below(log', cursor) = Below(log, cursor)
      /\ seen \subseteq KeysIn(log', 0, cursor)
  BY <1>1, <1>2, <1>3, <1>5, GrowthKeepsCuts, GrowthKeepsKeys DEF FoldInv
<1>7. /\ CutOf(log', cursor') /\ seen' \subseteq KeysIn(log', 0, cursor')
      /\ garden' = SetToBag(Below(log', cursor'))
  BY <1>1, <1>5, <1>6, Zenon
<1> QED
  BY <1>1, <1>2, <1>4, <1>7, GrowthKeepsSnapshots, FoldInvNext

\* The snapshot write: the garden of the cursor goes under the cursor.
LEMMA SaveWritesKeepsFold ==
    ASSUME TypeOK, DiskInv, FoldInv, SaveWrites
    PROVE  FoldInv'
<1>1. /\ Live
      /\ snaps' = [o \in DOMAIN snaps \cup {cursor} |->
                     IF o = cursor THEN SnapshotState ELSE snaps[o]]
      /\ UNCHANGED <<log, cursor, seq, seen, garden, phase>>
  BY DEF SaveWrites, WriteSnapshot, Live, simVars, foldVars
<1>2. /\ DOMAIN snaps' = DOMAIN snaps \cup {cursor}
      /\ snaps'[cursor] = SnapshotState
      /\ \A o \in DOMAIN snaps : o # cursor => snaps'[o] = snaps[o]
  BY <1>1
<1>3. /\ CutOf(log, cursor) /\ seen \subseteq KeysIn(log, 0, cursor)
      /\ garden = SetToBag(Below(log, cursor)) /\ cursor <= Len(log)
  BY <1>1, FoldInvForm DEF DiskInv, FilesOrdered, NextOffset
<1>4. SnapshotState.garden = garden
  BY DEF SnapshotState
<1>5. ASSUME NEW o \in DOMAIN snaps'
      PROVE  /\ CutOf(log', o)
             /\ o <= Len(log') /\ snaps'[o].garden = SetToBag(Below(log', o))
  <2>1. CASE o = cursor
    BY <1>1, <1>2, <1>3, <1>4, <2>1
  <2>2. CASE o # cursor
    <3>1. o \in DOMAIN snaps /\ snaps'[o] = snaps[o]
      BY <1>2, <2>2
    <3> QED
      BY <1>1, <3>1, FoldInvForm
  <2> QED
    BY <2>1, <2>2
<1>6. LogOrdered'
  BY <1>1 DEF FoldInv, LogOrdered, Live, NextOffset
<1> QED
  BY <1>1, <1>3, <1>5, <1>6, FoldInvNext

\* The start of a run: an empty garden for an empty history.
LEMMA StartRunKeepsFold ==
    ASSUME TypeOK, DiskInv, FoldInv, StartRun
    PROVE  FoldInv'
<1>1. /\ Len(log) = 0 /\ garden' = EmptyBag /\ seen' = {} /\ cursor' = committed
      /\ UNCHANGED <<log, snaps>>
  BY DEF StartRun, NewSim, NextOffset
<1>2. committed = 0
  BY <1>1 DEF TypeOK, LogType, DiskInv, FilesOrdered, CommitCovered, NextOffset
<1>3. Below(log', 0) = {}
  BY DEF Below
<1>4. garden' = SetToBag(Below(log', cursor'))
  BY <1>1, <1>2, <1>3, EmptyIsSetToBag
<1>5. LogOrdered'
  BY <1>1 DEF LogOrdered, NextOffset
<1>6. CutOf(log', cursor')
  BY <1>1 DEF CutOf
<1>7. \A o \in DOMAIN snaps' :
        /\ CutOf(log', o)
        /\ o <= Len(log') /\ snaps'[o].garden = SetToBag(Below(log', o))
  BY <1>1, FoldInvForm
<1> QED
  BY <1>1, <1>4, <1>5, <1>6, <1>7, FoldInvNext

\* Recovery: the newest snapshot and the tail make the garden of the whole
\* history, with an empty table.
LEMMA RecoverKeepsFold ==
    ASSUME TypeOK, DiskInv, FoldInv, Recover
    PROVE  FoldInv'
<1>1. /\ HasSnapshot /\ garden' = RebuiltGarden /\ cursor' = Len(log)
      /\ seq' = ResumeSeq /\ seen' = {}
      /\ UNCHANGED <<log, snaps>>
  BY DEF Recover, Resume, Recoverable, MarkFolded, NextOffset
<1>2. Latest \in DOMAIN snaps
  BY <1>1, LatestFacts DEF DiskInv
<1>3. /\ Latest \in Nat /\ Len(log) \in Nat /\ Latest <= Len(log)
      /\ log \in Seq(Record)
      /\ CutOf(log, Latest) /\ snaps[Latest].garden = SetToBag(Below(log, Latest))
  BY <1>2, FoldInvForm DEF TypeOK, LogType, SnapshotType
<1>4. garden' = SetToBag(Below(log, Len(log)))
  <2>1. garden' = SetToBag(Below(log, Latest))
                    (+) SetToBag(AppliedIn(log, Latest, Len(log), {}))
    BY <1>1, <1>3, Zenon DEF RebuiltGarden, NextOffset
  <2>2. {} \subseteq KeysIn(log, 0, Latest) /\ Len(log) <= Len(log)
    BY <1>3
  <2>3. SetToBag(Below(log, Latest)) (+) SetToBag(AppliedIn(log, Latest, Len(log), {}))
          = SetToBag(Below(log, Len(log)))
    BY <1>3, <2>2, RangeFold, Zenon
  <2> QED
    BY <2>1, <2>3, Zenon
<1>5. LogOrdered'
  <2>1. \A i, j \in 1 .. Len(log) : i < j =>
          /\ log[i].seq <= log[j].seq
          /\ DuplicateEvery = 0 => log[i].seq < log[j].seq
    BY DEF FoldInv, LogOrdered, NextOffset
  <2>2. \A i \in 1 .. Len(log) : log[i].seq <= seq'
    <3> TAKE i \in 1 .. Len(log)
    <3>1. seq' = log[Len(log)].seq
      BY <1>1, <1>3 DEF ResumeSeq, NextOffset
    <3>2. log[i].seq \in Nat /\ Len(log) \in 1 .. Len(log)
      BY <1>3, LogElement
    <3> QED
      BY <1>3, <2>1, <3>1, <3>2
  <2> QED
    BY <1>1, <2>1, <2>2 DEF LogOrdered, NextOffset
<1>6. CutOf(log', cursor')
  BY <1>1, <1>3 DEF CutOf
<1>7. \A o \in DOMAIN snaps' :
        /\ CutOf(log', o)
        /\ o <= Len(log') /\ snaps'[o].garden = SetToBag(Below(log', o))
  BY <1>1, FoldInvForm
<1> QED
  BY <1>1, <1>4, <1>5, <1>6, <1>7, FoldInvNext

\* Everything else leaves the log, the snapshots and the projection alone.
LEMMA OtherStepsKeepFold ==
    ASSUME TypeOK, DiskInv, FoldInv,
           \/ SaveInjectedFailure \/ SaveFaults \/ SaveCommits
           \/ UpdateControls \/ (\E paused \in BOOLEAN : SetPaused(paused)) \/ FinishRun
           \/ Crash \/ RecoverSkips \/ UNCHANGED vars
    PROVE  FoldInv'
<1>1. CASE SaveInjectedFailure \/ SaveFaults \/ SaveCommits
  <2>1. phase = "saving" /\ UNCHANGED <<log, snaps, cursor, seq, seen, garden>>
    BY <1>1 DEF SaveInjectedFailure, SaveFaults, SaveCommits, logVars, simVars, foldVars
  <2> QED
    BY <2>1, QuietKeepsFold DEF Live
<1>2. CASE UpdateControls \/ (\E paused \in BOOLEAN : SetPaused(paused)) \/ FinishRun
  <2>1. phase = "idle" /\ UNCHANGED <<log, snaps, cursor, seq, seen, garden>>
    BY <1>2 DEF UpdateControls, SetPaused, FinishRun, logVars, simVars, foldVars
  <2> QED
    BY <2>1, QuietKeepsFold DEF Live
<1>3. CASE Crash \/ RecoverSkips
  <2>1. /\ phase' \in {"down", "absent"}
        /\ UNCHANGED <<log, snaps, cursor, seq, seen, garden>>
    BY <1>3 DEF Crash, Dies, RecoverSkips, logVars, simVars, foldVars
  <2> QED
    BY <2>1, QuietKeepsFold
<1>4. CASE UNCHANGED vars
  BY <1>4, QuietKeepsFold DEF vars, logVars, simVars, foldVars, runVars, Live
<1> QED
  BY <1>1, <1>2, <1>3, <1>4

\* The record of what was used, after a step that counts one thing.
LEMMA UsedFields ==
    ASSUME TypeOK
    PROVE  /\ used.faults \in Nat /\ used.reads \in Nat
           /\ [used EXCEPT !.faults = @ + 1].faults = used.faults + 1
           /\ [used EXCEPT !.faults = @ + 1].reads = used.reads
           /\ [used EXCEPT !.reads = @ + 1].faults = used.faults
           /\ [used EXCEPT !.reads = @ + 1].reads = used.reads + 1
           /\ [used EXCEPT !.crashes = @ + 1].faults = used.faults
           /\ [used EXCEPT !.crashes = @ + 1].reads = used.reads
           /\ [used EXCEPT !.updates = @ + 1].faults = used.faults
           /\ [used EXCEPT !.updates = @ + 1].reads = used.reads
           /\ [used EXCEPT !.pauses = @ + 1].faults = used.faults
           /\ [used EXCEPT !.pauses = @ + 1].reads = used.reads
BY DEF TypeOK, RunType

\* Faults are only ever counted up, and only a failed read counts as one.
LEMMA FaultsGrow ==
    ASSUME TypeOK, [Next]_vars
    PROVE  /\ used'.faults \in Nat /\ used.faults <= used'.faults
           /\ used'.reads \in Nat /\ used.reads <= used'.reads
           /\ AdvanceReadFails \/ used'.reads = used.reads
<1>1. CASE \/ Advance \/ SaveInjectedFailure \/ SaveWrites \/ SaveCommits \/ StartRun
           \/ FinishRun \/ Recover \/ RecoverSkips \/ UNCHANGED vars
  <2>1. used' = used
    BY <1>1 DEF Advance, SaveInjectedFailure, SaveWrites, SaveCommits, StartRun,
                FinishRun, Recover, RecoverSkips, vars
  <2> QED
    BY <2>1, UsedFields
<1>2. CASE AdvanceAppendFails \/ SaveFaults
  <2>1. used' = [used EXCEPT !.faults = @ + 1]
    BY <1>2 DEF AdvanceAppendFails, SaveFaults
  <2> QED
    BY <2>1, UsedFields
<1>3. CASE AdvanceReadFails
  <2>1. used' = [used EXCEPT !.reads = @ + 1]
    BY <1>3 DEF AdvanceReadFails
  <2> QED
    BY <1>3, <2>1, UsedFields
<1>4. CASE Crash \/ CrashInAppend
  <2>1. used' = [used EXCEPT !.crashes = @ + 1]
    BY <1>4 DEF Crash, CrashInAppend, Dies
  <2> QED
    BY <2>1, UsedFields
<1>5. CASE UpdateControls \/ (\E paused \in BOOLEAN : SetPaused(paused))
  <2>1. \/ used' = [used EXCEPT !.updates = @ + 1]
        \/ used' = [used EXCEPT !.pauses = @ + 1]
    BY <1>5 DEF UpdateControls, SetPaused
  <2>2. used'.faults = used.faults /\ used'.reads = used.reads
    BY <2>1, UsedFields, Zenon
  <2> QED
    BY <2>2, UsedFields
<1> QED
  BY <1>1, <1>2, <1>3, <1>4, <1>5 DEF Next, SaveStep, Command

\* The initial state.
LEMMA InitFold == Init => FoldInv
BY DEF Init, FoldInv, LogOrdered, ProjectionAtCut, SnapshotsFolded, GardenFolded,
       Live, NextOffset

\* As long as no read has failed, none failed before and none is failing.
LEMMA NoReadFailed ==
    ASSUME TypeOK, [Next]_vars, used'.reads = 0
    PROVE  used.reads = 0 /\ ~AdvanceReadFails
<1>1. used.reads = 0
  BY FaultsGrow, UsedFields
<1>2. ASSUME AdvanceReadFails PROVE FALSE
  <2>1. used' = [used EXCEPT !.reads = @ + 1]
    BY <1>2 DEF AdvanceReadFails
  <2> QED
    BY <2>1, UsedFields
<1> QED
  BY <1>1, <1>2

\* Every step but a read that fails.
LEMMA NextKeepsFold ==
    ASSUME PairsKept
    PROVE  TypeOK /\ DiskInv /\ (used.reads = 0 => FoldInv) /\ [Next]_vars
             => (used'.reads = 0 => FoldInv')
<1> SUFFICES ASSUME TypeOK, DiskInv, used.reads = 0 => FoldInv, [Next]_vars,
                    used'.reads = 0
             PROVE  FoldInv'
  OBVIOUS
<1>1. FoldInv /\ ~AdvanceReadFails
  BY NoReadFailed
<1> QED
  BY <1>1, AdvanceKeepsFold, TornAppendKeepsFold, SaveWritesKeepsFold,
     StartRunKeepsFold, RecoverKeepsFold, OtherStepsKeepFold
  DEF Next, SaveStep, Command

\* FoldInv is inductive relative to TypeOK and DiskInv, until a read fails.
LEMMA FoldInduction ==
    ASSUME PairsKept
    PROVE  Spec => [](used.reads = 0 => FoldInv)
<1> DEFINE Inv == used.reads = 0 => FoldInv
<1>1. Init => Inv
  BY InitFold
<1>2. TypeOK /\ DiskInv /\ Inv /\ [Next]_vars => Inv'
  BY NextKeepsFold
<1> QED
  BY <1>1, <1>2, DiskInduction, PTL DEF Spec

\* Exactly once: as long as no stopping point can part an event from its
\* redelivery and no read has failed, a live garden carries each event below its
\* cursor once, across any crashes, torn appends and failed saves (Step, Rebuild,
\* Resume).
THEOREM FoldsExactlyOnce == PairsKept => (Spec => []GardenIsFold)
<1> SUFFICES ASSUME PairsKept PROVE Spec => []GardenIsFold
  OBVIOUS
<1>1. (used.reads = 0 => FoldInv) => GardenIsFold
  BY DEF FoldInv, GardenIsFold
<1> QED
  BY <1>1, FoldInduction, PTL

\* Under the same conditions every snapshot ever written is the state built
\* from the records below its offset (Log.Save).
THEOREM SnapshotsHoldTheFold == PairsKept => (Spec => []SnapshotsAreFolds)
<1> SUFFICES ASSUME PairsKept PROVE Spec => []SnapshotsAreFolds
  OBVIOUS
<1>1. (used.reads = 0 => FoldInv) => SnapshotsAreFolds
  BY DEF FoldInv, SnapshotsAreFolds
<1> QED
  BY <1>1, FoldInduction, PTL

-----------------------------------------------------------------------------
(* DurableRun implements ProjectedHistory under PairsKept: crashes,        *)
(* snapshots and recoveries are invisible to whoever watches the history   *)
(* and the garden.  While no process holds the run, the garden is the one  *)
(* the next recovery would rebuild.                                        *)
(*                                                                         *)
(* A history always has a snapshot to be rebuilt from.                     *)

\* The initial state.
LEMMA InitSelfDescribing == Init => SelfDescribing
BY DEF Init, SelfDescribing, NextOffset

\* Every step: only StartRun's Save runs without a snapshot, and it either
\* leaves one or gives the run up.
LEMMA NextSelfDescribing ==
    TypeOK /\ DiskInv /\ SelfDescribing /\ [Next]_vars => SelfDescribing'
<1> SUFFICES ASSUME TypeOK, DiskInv, SelfDescribing, [Next]_vars
             PROVE  SelfDescribing'
  OBVIOUS
<1>1. CASE Advance \/ AdvanceAppendFails \/ AdvanceReadFails \/ CrashInAppend
  <2>1. phase = "idle" /\ snaps' = snaps
    BY <1>1 DEF Advance, AdvanceAppendFails, AdvanceReadFails, CrashInAppend, MayStep
  <2> QED
    BY <2>1 DEF SelfDescribing, HasSnapshot
<1>2. CASE SaveInjectedFailure \/ SaveFaults
  <2>1. phase = "saving" /\ AttemptFails /\ UNCHANGED <<log, snaps>>
    BY <1>2 DEF SaveInjectedFailure, SaveFaults, logVars
  <2>2. CASE save.attempt < maxSnapshotSaveAttempts
    <3>1. save' = [save EXCEPT !.attempt = @ + 1, !.wrote = FALSE] /\ phase' = phase
      BY <2>1, <2>2 DEF AttemptFails
    <3>2. save'.why = save.why
      BY <3>1 DEF TypeOK, RunType
    <3> QED
      BY <2>1, <3>1, <3>2 DEF SelfDescribing, HasSnapshot, NextOffset
  <2>3. CASE ~(save.attempt < maxSnapshotSaveAttempts)
    <3>1. SaveReturns(FALSE)
      BY <2>1, <2>3 DEF AttemptFails
    <3>2. CASE save.why = "start"
      <4>1. phase' = "absent"
        BY <3>1, <3>2 DEF SaveReturns
      <4> QED
        BY <2>1, <4>1 DEF SelfDescribing, HasSnapshot, NextOffset
    <3>3. CASE save.why # "start"
      BY <2>1, <3>3 DEF SelfDescribing, HasSnapshot, NextOffset
    <3> QED
      BY <3>2, <3>3
  <2> QED
    BY <2>2, <2>3
<1>3. CASE SaveWrites
  <2>1. snaps' = [o \in DOMAIN snaps \cup {cursor} |->
                    IF o = cursor THEN SnapshotState ELSE snaps[o]]
    BY <1>3 DEF SaveWrites, WriteSnapshot
  <2>2. cursor \in DOMAIN snaps'
    BY <2>1
  <2> QED
    BY <2>2 DEF SelfDescribing, HasSnapshot
<1>4. CASE SaveCommits
  <2>1. phase = "saving" /\ save.wrote /\ snaps' = snaps
    BY <1>4 DEF SaveCommits
  <2>2. cursor \in DOMAIN snaps
    BY <2>1 DEF DiskInv, FilesOrdered
  <2> QED
    BY <2>1, <2>2 DEF SelfDescribing, HasSnapshot
<1>5. CASE StartRun
  <2>1. /\ phase' = "saving" /\ Len(log) = 0 /\ log' = log
        /\ save' = [why |-> "start", attempt |-> 1, wrote |-> FALSE]
    BY <1>5 DEF StartRun, NewSim, FirstSave, NextOffset
  <2>2. save'.why = "start"
    BY <2>1
  <2> QED
    BY <2>1, <2>2 DEF SelfDescribing, NextOffset
<1>6. CASE UpdateControls \/ (\E paused \in BOOLEAN : SetPaused(paused)) \/ FinishRun
  <2>1. phase = "idle" /\ snaps' = snaps
    BY <1>6 DEF UpdateControls, SetPaused, FinishRun, logVars
  <2> QED
    BY <2>1 DEF SelfDescribing, HasSnapshot
<1>7. CASE Crash \/ RecoverSkips
  <2>1. phase' \in {"down", "absent"} /\ UNCHANGED <<log, snaps>>
    BY <1>7 DEF Crash, Dies, RecoverSkips, logVars
  <2> QED
    BY <2>1 DEF SelfDescribing, HasSnapshot, NextOffset
<1>8. CASE Recover
  <2>1. HasSnapshot /\ snaps' = snaps
    BY <1>8 DEF Recover, Resume, Recoverable
  <2> QED
    BY <2>1 DEF SelfDescribing, HasSnapshot
<1>9. CASE UNCHANGED vars
  BY <1>9 DEF SelfDescribing, HasSnapshot, NextOffset, vars, logVars, runVars
<1> QED
  BY <1>1, <1>2, <1>3, <1>4, <1>5, <1>6, <1>7, <1>8, <1>9 DEF Next, SaveStep, Command

\* Every history can be resumed: a run has its snapshot before its first
\* record, and before any client is told of it (StartRun, "self-describing").
THEOREM RunsAreSelfDescribing == Spec => []SelfDescribing
BY InitSelfDescribing, NextSelfDescribing, DiskInduction, PTL DEF Spec

-----------------------------------------------------------------------------
(* The refinement.                                                         *)

\* The refinement mapping of Promise.
FoldedShown == IF Live THEN cursor ELSE NextOffset

GardenShown == IF Live THEN garden ELSE DurableGarden

\* In every state the garden shown is the fold of the records shown folded.
ShownIsFold ==
    /\ log \in Seq(Record)
    /\ FoldedShown \in 0 .. Len(log)
    /\ GardenShown = SetToBag(Below(log, FoldedShown))

\* It follows from the invariants: a live garden by GardenFolded, a dead run's
\* by rebuilding it from its newest snapshot.
LEMMA InvariantsShowFold ==
    ASSUME TypeOK, DiskInv, FoldInv, SelfDescribing
    PROVE  ShownIsFold
<1>1. log \in Seq(Record) /\ Len(log) \in Nat /\ cursor \in Nat
  BY DEF TypeOK, LogType
<1>2. CASE Live
  <2>1. FoldedShown = cursor /\ GardenShown = garden
    BY <1>2 DEF FoldedShown, GardenShown
  <2>2. cursor <= Len(log) /\ garden = SetToBag(Below(log, cursor))
    BY <1>2, FoldInvForm DEF DiskInv, FilesOrdered, NextOffset
  <2> QED
    BY <1>1, <2>1, <2>2 DEF ShownIsFold
<1>3. CASE ~Live /\ HasSnapshot
  <2>1. FoldedShown = Len(log) /\ GardenShown = RebuiltGarden
    BY <1>3 DEF FoldedShown, GardenShown, DurableGarden, NextOffset
  <2>2. Latest \in DOMAIN snaps
    BY <1>3, LatestFacts DEF DiskInv
  <2>3. /\ Latest \in Nat /\ Latest <= Len(log)
        /\ CutOf(log, Latest) /\ snaps[Latest].garden = SetToBag(Below(log, Latest))
    BY <2>2, FoldInvForm DEF TypeOK, SnapshotType
  <2>4. RebuiltGarden = SetToBag(Below(log, Latest))
                          (+) SetToBag(AppliedIn(log, Latest, Len(log), {}))
    BY <2>3, Zenon DEF RebuiltGarden, NextOffset
  <2>5. {} \subseteq KeysIn(log, 0, Latest) /\ Len(log) <= Len(log)
    BY <1>1
  <2>6. SetToBag(Below(log, Latest)) (+) SetToBag(AppliedIn(log, Latest, Len(log), {}))
          = SetToBag(Below(log, Len(log)))
    BY <1>1, <2>3, <2>5, RangeFold, Zenon
  <2>7. Len(log) \in 0 .. Len(log)
    BY <1>1
  <2> QED
    BY <1>1, <2>1, <2>4, <2>6, <2>7, Zenon DEF ShownIsFold
<1>4. CASE ~Live /\ ~HasSnapshot
  <2>1. Len(log) = 0
    BY <1>1, <1>4 DEF SelfDescribing, NextOffset
  <2>2. FoldedShown = 0 /\ GardenShown = EmptyBag
    BY <1>4, <2>1 DEF FoldedShown, GardenShown, DurableGarden, NextOffset
  <2>3. Below(log, 0) = {}
    BY DEF Below
  <2> QED
    BY <1>1, <2>1, <2>2, <2>3, EmptyIsSetToBag DEF ShownIsFold
<1> QED
  BY <1>2, <1>3, <1>4

\* The log is only ever appended to, and what is shown folded never recedes.
LEMMA StepsGoForward ==
    ASSUME TypeOK, DiskInv, [Next]_vars
    PROVE  /\ Len(log) <= Len(log')
           /\ \A i \in 1 .. Len(log) : log'[i] = log[i]
           /\ FoldedShown <= FoldedShown'
<1>1. /\ Len(log) \in Nat /\ cursor \in Nat
      /\ Live => cursor <= Len(log)
  BY DEF TypeOK, LogType, DiskInv, FilesOrdered, NextOffset
<1>2. ASSUME Live, NEW n \in Nat, GrowsLog(n),
             Live' => cursor <= cursor' /\ cursor' \in Nat
      PROVE  /\ Len(log) <= Len(log')
             /\ \A i \in 1 .. Len(log) : log'[i] = log[i]
             /\ FoldedShown <= FoldedShown'
  <2>1. Len(log) <= Len(log') /\ Len(log') \in Nat
    BY <1>2 DEF GrowsLog
  <2> QED
    BY <1>1, <1>2, <2>1 DEF GrowsLog, FoldedShown, NextOffset
<1>3. Len(pending) + StagedControls.events \in Nat
  BY StagedType
<1>4. CASE Advance
  <2>1. Live /\ log' = log \o Batch
    BY <1>4 DEF Advance, MayStep, AppendAll, Live
  <2>2. GrowsLog(Len(pending) + StagedControls.events)
    BY <2>1, AllGrows
  <2>3. cursor' \in cursor .. Len(log')
    <3>1. cursor' = UnprocessedUpTo(log', StagedControls.capacity)
      BY <1>4, <2>1, Zenon DEF Advance
    <3>2. StagedControls.capacity \in Nat /\ log' \in Seq(Record) /\ Len(log) <= Len(log')
      BY <2>2, StagedType DEF GrowsLog
    <3>3. UnprocessedUpTo(log', StagedControls.capacity) \in cursor .. Len(log')
      BY <2>1, <3>2, ReadStops, Zenon
    <3> QED
      BY <3>1, <3>3
  <2> QED
    BY <1>1, <1>2, <1>3, <2>1, <2>2, <2>3
<1>5. CASE AdvanceReadFails
  <2>1. Live /\ log' = log \o Batch
    BY <1>5 DEF AdvanceReadFails, MayStep, AppendAll, Live
  <2>2. GrowsLog(Len(pending) + StagedControls.events)
    BY <2>1, AllGrows
  <2>3. \E u : cursor' \in cursor .. u
    BY <1>5 DEF AdvanceReadFails
  <2>4. cursor <= cursor' /\ cursor' \in Nat
    BY <1>1, <2>3
  <2> QED
    BY <1>2, <1>3, <2>1, <2>2, <2>4
<1>6. CASE AdvanceAppendFails \/ CrashInAppend
  <2>1. Live /\ cursor' = cursor
    BY <1>6 DEF AdvanceAppendFails, CrashInAppend, MayStep, Live
  <2>2. PICK k \in 0 .. BatchLen : log' = log \o SubSeq(Batch, 1, k)
    <3>1. \A k \in 1 .. BatchLen - 1 : k \in 0 .. BatchLen
      BY StagedType
    <3> QED
      BY <1>6, <3>1, Zenon DEF AdvanceAppendFails, CrashInAppend, AppendPrefix
  <2>3. GrowsLog(Len(pending) + StagedControls.events)
    BY <2>2, PrefixGrows
  <2> QED
    BY <1>1, <1>2, <1>3, <2>1, <2>3
<1>7. CASE StartRun
  <2>1. Len(log) = 0 /\ phase = "absent" /\ log' = log /\ cursor' = committed
    BY <1>7 DEF StartRun, NewSim, NextOffset
  <2>2. committed \in Nat
    BY DEF TypeOK, LogType
  <2> QED
    BY <2>1, <2>2 DEF FoldedShown, Live, NextOffset
<1>8. CASE Recover
  <2>1. phase = "down" /\ log' = log /\ cursor' = Len(log)
    BY <1>8 DEF Recover, Resume, MarkFolded, NextOffset
  <2> QED
    BY <1>1, <2>1 DEF FoldedShown, Live, NextOffset
<1>9. CASE \/ SaveStep \/ UpdateControls \/ (\E paused \in BOOLEAN : SetPaused(paused))
           \/ FinishRun \/ Crash \/ RecoverSkips \/ UNCHANGED vars
  <2>1. /\ log' = log /\ cursor' = cursor
        /\ phase' \in {"idle", "saving"} => Live
    BY <1>9 DEF SaveStep, SaveInjectedFailure, SaveWrites, SaveCommits, SaveFaults,
                UpdateControls, SetPaused, FinishRun, Crash, Dies, RecoverSkips,
                vars, logVars, runVars, Live
  <2> QED
    BY <1>1, <2>1 DEF FoldedShown, Live, NextOffset
<1> QED
  BY <1>4, <1>5, <1>6, <1>7, <1>8, <1>9 DEF Next, Command

\* The organism events from one offset to another.
Between(h, a, b) == {h[i].seq : i \in {j \in a + 1 .. b : h[j].kind = "organism"}}

\* Two folds of one history, one further than the other, differ by the events
\* between them that the first does not carry.
LEMMA FoldFurther ==
    ASSUME NEW h, NEW a \in Nat, NEW b \in Nat, a <= b
    PROVE  SetToBag(Below(h, b)) =
             [e \in Below(h, a) \cup Between(h, a, b) |->
                IF e \in Below(h, a) THEN SetToBag(Below(h, a))[e] ELSE 1]
<1>1. Below(h, b) = Below(h, a) \cup Between(h, a, b)
  BY DEF Below, Between
<1> QED
  BY <1>1 DEF SetToBag

\* Every step of the run is a step of the promise.
LEMMA StepKeepsPromise ==
    ASSUME TypeOK, DiskInv, ShownIsFold, ShownIsFold', [Next]_vars
    PROVE  [Promise!Proceed]_<<log, FoldedShown, GardenShown>>
<1>1. /\ Len(log) <= Len(log')
      /\ \A i \in 1 .. Len(log) : log'[i] = log[i]
      /\ FoldedShown <= FoldedShown'
  BY StepsGoForward
<1>2. /\ FoldedShown \in Nat /\ FoldedShown <= Len(log) /\ Len(log) \in Nat
      /\ FoldedShown' \in Nat /\ FoldedShown' <= Len(log') /\ Len(log') \in Nat
  BY DEF ShownIsFold
<1> DEFINE S == Below(log', FoldedShown)
           E == Between(log', FoldedShown, FoldedShown')
<1>3. S = Below(log, FoldedShown)
  <2>1. \A i \in 1 .. FoldedShown : log'[i] = log[i]
    BY <1>1, <1>2
  <2> QED
    BY <2>1 DEF Below
<1>4. GardenShown = SetToBag(S) /\ GardenShown' = SetToBag(Below(log', FoldedShown'))
  BY <1>3, Zenon DEF ShownIsFold
<1>5. SetToBag(Below(log', FoldedShown'))
        = [e \in S \cup E |-> IF e \in S THEN SetToBag(S)[e] ELSE 1]
  <2> HIDE DEF FoldedShown
  <2>1. \A a, b \in Nat : a <= b =>
          SetToBag(Below(log', b)) =
            [e \in Below(log', a) \cup Between(log', a, b) |->
               IF e \in Below(log', a) THEN SetToBag(Below(log', a))[e] ELSE 1]
    BY FoldFurther
  <2> QED
    BY <1>1, <1>2, <2>1
<1> HIDE DEF S, E
<1>6. DOMAIN GardenShown = S
  BY <1>4 DEF SetToBag
<1>7. GardenShown' = [e \in DOMAIN GardenShown \cup E |->
                        IF e \in DOMAIN GardenShown THEN GardenShown[e] ELSE 1]
  BY <1>4, <1>5, <1>6, Zenon
<1>8. FoldedShown' \in FoldedShown .. Len(log')
  BY <1>1, <1>2
<1>9. Promise!Proceed
  BY <1>1, <1>7, <1>8
  DEF Promise!Proceed, Promise!With, Promise!EventsIn, E, Between, FoldedShown, GardenShown
<1> QED
  BY <1>9

\* The initial states are the promise's.
LEMMA InitKeepsPromise == Init => Promise!Init
<1> SUFFICES ASSUME Init PROVE Promise!Init
  OBVIOUS
<1>1. ~Live /\ log = <<>> /\ NextOffset = 0 /\ ~HasSnapshot
  BY DEF Init, Live, NextOffset, HasSnapshot
<1>2. DurableGarden = [e \in {} |-> 1]
  BY <1>1 DEF DurableGarden, EmptyBag, SetToBag
<1> QED
  BY <1>1, <1>2 DEF Promise!Init

\* Where reads of the log do not fail at all.
LEMMA ReadsSucceed ==
    ASSUME MaxReadFaults = 0
    PROVE  Spec => [](used.reads = 0)
<1> DEFINE Inv == used.reads = 0
<1>1. Init => Inv
  BY DEF Init
<1>2. TypeOK /\ Inv /\ [Next]_vars => Inv'
  <2> SUFFICES ASSUME TypeOK, used.reads = 0, [Next]_vars PROVE used'.reads = 0
    OBVIOUS
  <2>1. ~AdvanceReadFails
    BY DEF AdvanceReadFails
  <2> QED
    BY <2>1, FaultsGrow
<1> QED
  BY <1>1, <1>2, DiskInduction, PTL DEF Spec

\* Crashes, snapshots and recoveries are invisible: under PairsKept, and if reads
\* do not fail, the run implements the uninterrupted fold of an append-only
\* history, in which no effect is lost, repeated or undone (Step, Save, Rebuild,
\* Resume).
THEOREM RunKeepsPromise == PairsKept /\ MaxReadFaults = 0 => (Spec => ImplementsPromise)
<1> SUFFICES ASSUME PairsKept, MaxReadFaults = 0 PROVE Spec => ImplementsPromise
  OBVIOUS
<1>1. TypeOK /\ DiskInv /\ FoldInv /\ SelfDescribing => ShownIsFold
  BY InvariantsShowFold
<1>2. TypeOK /\ DiskInv /\ ShownIsFold /\ ShownIsFold' /\ [Next]_vars
        => [Promise!Proceed]_<<log, FoldedShown, GardenShown>>
  BY StepKeepsPromise
<1>3. Spec => Promise!Init /\ [][Promise!Proceed]_<<log, FoldedShown, GardenShown>>
  BY <1>1, <1>2, InitKeepsPromise, DiskInduction, FoldInduction, ReadsSucceed,
     RunsAreSelfDescribing, PTL DEF Spec
<1> QED
  BY <1>3 DEF ImplementsPromise, Promise!Spec, FoldedShown, GardenShown

-----------------------------------------------------------------------------
(***************************************************************************)
(* What a run says about itself across crashes and failed saves: the       *)
(* retries of Save, the lifecycle a client was told, the processor's       *)
(* tally, the run's clock and the event IDs its producer issues.  Every    *)
(* theorem holds for any number of crashes; where one needs faults to be   *)
(* few it says so in terms of the faults that happened, not of a bound.    *)
(***************************************************************************)

(* The retries of Save.                                                    *)

\* The injected failure costs a Save one attempt and each real fault one more,
\* and only a real fault can use up the last.
AttemptsBounded ==
    /\ phase = "saving" => save.attempt <= 2 + used.faults
    /\ InjectedFailureRecovers

\* Entering a Save starts at the first attempt.
LEMMA FreshSave ==
    ASSUME NEW why, BeginSave(why)
    PROVE  save'.attempt = 1 /\ save'.why = why /\ ~save'.wrote /\ phase' = "saving"
BY DEF BeginSave

\* So does whatever ends a tick, when it saves at all.
LEMMA FreshEnd ==
    ASSUME NEW t, EndOfAdvance(t)
    PROVE  /\ phase' \in {"idle", "saving"}
           /\ phase' = "saving" => save'.attempt = 1 /\ ~save'.wrote
           /\ state' = state \/ (state' = "finished" /\ phase' = "saving")
<1>1. CASE MaxTicks > 0 /\ t >= MaxTicks
  <2>1. BeginSave("finish") /\ state' = "finished"
    BY <1>1 DEF EndOfAdvance, BeginFinish
  <2> QED
    BY <2>1, FreshSave
<1>2. CASE ~(MaxTicks > 0 /\ t >= MaxTicks)
  BY <1>2 DEF EndOfAdvance
<1> QED
  BY <1>1, <1>2

\* A Save that returns leaves no Save behind, or a fresh one.
LEMMA FreshReturn ==
    ASSUME NEW ok, SaveReturns(ok)
    PROVE  /\ phase' \in {"absent", "idle", "saving"}
           /\ phase' = "saving" => save'.attempt = 1 /\ ~save'.wrote
<1>1. CASE save.why = "start"
  BY <1>1 DEF SaveReturns
<1>2. CASE save.why = "cadence"
  <2>1. IF ok THEN EndOfAdvance(tick) ELSE BeginFinish
    BY <1>2 DEF SaveReturns
  <2> QED
    BY <2>1, FreshEnd, FreshSave DEF BeginFinish
<1>3. CASE save.why # "start" /\ save.why # "cadence"
  BY <1>3 DEF SaveReturns
<1> QED
  BY <1>1, <1>2, <1>3

\* How a tick leaves the run: idle, or in a fresh Save.
LEMMA FreshTick ==
    ASSUME Advance \/ AdvanceAppendFails \/ AdvanceReadFails
    PROVE  /\ phase' \in {"idle", "saving"}
           /\ phase' = "saving" => save'.attempt = 1 /\ ~save'.wrote
<1>1. CASE Advance
  <2>1. BeginSave("cadence") \/ EndOfAdvance(tick + 1)
    BY <1>1 DEF Advance
  <2> QED
    BY <2>1, FreshSave, FreshEnd
<1>2. CASE AdvanceAppendFails \/ AdvanceReadFails
  <2>1. BeginSave("finish")
    BY <1>2 DEF AdvanceAppendFails, AdvanceReadFails, BeginFinish
  <2> QED
    BY <2>1, FreshSave
<1> QED
  BY <1>1, <1>2

\* A failed attempt is followed by the next, or was the third.
LEMMA AttemptFailed ==
    ASSUME TypeOK, AttemptFails
    PROVE  \/ /\ save.attempt < 3 /\ save'.attempt = save.attempt + 1
              /\ save'.why = save.why /\ ~save'.wrote
              /\ UNCHANGED <<phase, state, failed, saves, giveups, told>>
           \/ save.attempt = 3 /\ giveups' = giveups + 1 /\ SaveReturns(FALSE)
<1>1. /\ save \in SaveRecord /\ save.attempt \in 1 .. 3
  BY DEF TypeOK, RunType, SaveRecord, maxSnapshotSaveAttempts
<1>2. CASE save.attempt < 3
  <2>1. /\ save' = [save EXCEPT !.attempt = @ + 1, !.wrote = FALSE]
        /\ UNCHANGED <<phase, state, failed, saves, giveups, told>>
    BY <1>2 DEF AttemptFails, maxSnapshotSaveAttempts
  <2>2. save' = [why |-> save.why, attempt |-> save.attempt + 1, wrote |-> FALSE]
    BY <1>1, <2>1 DEF SaveRecord
  <2> QED
    BY <1>2, <2>1, <2>2
<1>3. CASE ~(save.attempt < 3)
  <2>1. save.attempt = 3
    BY <1>1, <1>3
  <2>2. giveups' = giveups + 1 /\ SaveReturns(FALSE)
    BY <1>3 DEF AttemptFails, maxSnapshotSaveAttempts
  <2> QED
    BY <2>1, <2>2
<1> QED
  BY <1>2, <1>3

\* Every step keeps the bound on attempts.
LEMMA NextAttempts ==
    ASSUME TypeOK, AttemptsBounded, [Next]_vars
    PROVE  AttemptsBounded'
<1>1. /\ used.faults \in Nat /\ used'.faults \in Int
      /\ used.faults <= used'.faults
      /\ save.attempt \in 1 .. 3 /\ giveups \in Nat
  BY FaultsGrow DEF TypeOK, RunType, maxSnapshotSaveAttempts
<1>2. CASE Advance \/ AdvanceAppendFails \/ AdvanceReadFails
  <2>1. giveups' = giveups
    BY <1>2 DEF Advance, AdvanceAppendFails, AdvanceReadFails
  <2> QED
    BY <1>1, <1>2, <2>1, FreshTick DEF AttemptsBounded, InjectedFailureRecovers
<1>3. CASE SaveInjectedFailure
  <2>1. phase = "saving" /\ save.attempt = 1 /\ AttemptFails /\ used' = used
    BY <1>3 DEF SaveInjectedFailure, Injected
  <2>2. save'.attempt = 2 /\ giveups' = giveups /\ phase' = phase
    BY <2>1, AttemptFailed
  <2>3. phase' = "saving" => save'.attempt <= 2 + used'.faults
    BY <1>1, <2>1, <2>2
  <2> QED
    BY <1>1, <2>1, <2>2, <2>3 DEF AttemptsBounded, InjectedFailureRecovers
<1>4. CASE SaveFaults
  <2>1. phase = "saving" /\ AttemptFails /\ used' = [used EXCEPT !.faults = @ + 1]
    BY <1>4 DEF SaveFaults
  <2>2. used'.faults = used.faults + 1
    BY <2>1, UsedFields
  <2>3. phase' = "saving" => save'.attempt <= 2 + used'.faults
    <3>1. CASE phase' = phase /\ save'.attempt = save.attempt + 1
      BY <1>1, <2>1, <2>2, <3>1 DEF AttemptsBounded
    <3>2. CASE SaveReturns(FALSE)
      <4>1. phase' = "saving" => save'.attempt = 1
        BY <3>2, FreshReturn, Zenon
      <4> QED
        BY <1>1, <4>1
    <3> QED
      BY <2>1, <3>1, <3>2, AttemptFailed
  <2> QED
    BY <1>1, <2>2, <2>3 DEF AttemptsBounded, InjectedFailureRecovers
<1>5. CASE SaveWrites
  <2>1. /\ phase = "saving" /\ save' = [save EXCEPT !.wrote = TRUE]
        /\ UNCHANGED <<phase, giveups, used>>
    BY <1>5 DEF SaveWrites
  <2>2. save'.attempt = save.attempt
    BY <2>1 DEF TypeOK, RunType
  <2> QED
    BY <2>1, <2>2 DEF AttemptsBounded, InjectedFailureRecovers
<1>6. CASE SaveCommits
  <2>1. SaveReturns(TRUE) /\ UNCHANGED <<giveups, used>>
    BY <1>6 DEF SaveCommits
  <2>2. phase' = "saving" => save'.attempt = 1
    BY <2>1, FreshReturn, Zenon
  <2> QED
    BY <1>1, <2>1, <2>2 DEF AttemptsBounded, InjectedFailureRecovers
<1>7. CASE StartRun
  <2>1. save'.attempt = 1 /\ giveups' = 0
    BY <1>7 DEF StartRun, FirstSave
  <2> QED
    BY <1>1, <2>1 DEF AttemptsBounded, InjectedFailureRecovers
<1>8. CASE (\E paused \in BOOLEAN : SetPaused(paused)) \/ FinishRun
  <2>1. (BeginSave("pause") \/ BeginSave("finish")) /\ giveups' = giveups
    BY <1>8 DEF SetPaused, FinishRun, BeginFinish
  <2> QED
    BY <1>1, <2>1, FreshSave DEF AttemptsBounded, InjectedFailureRecovers
<1>9. CASE UpdateControls \/ UNCHANGED vars
  <2>1. UNCHANGED <<phase, save, giveups>>
    BY <1>9 DEF UpdateControls, vars, runVars
  <2> QED
    BY <1>1, <2>1 DEF AttemptsBounded, InjectedFailureRecovers
<1>10. CASE Crash \/ CrashInAppend \/ RecoverSkips
  <2>1. phase' # "saving" /\ giveups' = giveups
    BY <1>10 DEF Crash, CrashInAppend, Dies, RecoverSkips
  <2> QED
    BY <1>1, <2>1 DEF AttemptsBounded, InjectedFailureRecovers
<1>11. CASE Recover
  <2>1. phase' # "saving" /\ giveups' = 0
    BY <1>11 DEF Recover, Resume
  <2> QED
    BY <1>1, <2>1 DEF AttemptsBounded, InjectedFailureRecovers
<1> QED
  BY <1>2, <1>3, <1>4, <1>5, <1>6, <1>7, <1>8, <1>9, <1>10, <1>11
  DEF Next, SaveStep, Command

\* AttemptsBounded is an invariant.
LEMMA AttemptsInduction == Spec => []AttemptsBounded
<1>1. Init => AttemptsBounded
  BY DEF Init, AttemptsBounded, InjectedFailureRecovers
<1>2. TypeOK /\ AttemptsBounded /\ [Next]_vars => AttemptsBounded'
  BY NextAttempts
<1> QED
  BY <1>1, <1>2, TypeCorrect, PTL DEF Spec

\* A Save gives up only after a real fault: the failure that FailSnapshotEvery
\* injects is always absorbed by the retry, at any cadence and profile.
THEOREM InjectionIsAbsorbed == Spec => []InjectedFailureRecovers
<1>1. AttemptsBounded => InjectedFailureRecovers
  BY DEF AttemptsBounded
<1> QED
  BY <1>1, AttemptsInduction, PTL

-----------------------------------------------------------------------------
(* The lifecycle a client was told.                                        *)

\* What a Save has written carries the lifecycle it was asked to save.
WroteState == phase = "saving" /\ save.wrote => snaps[cursor].state = state

\* A lifecycle a client was told is in the newest snapshot, and a live run is
\* in it and doing nothing.
ToldOnDisk ==
    told \in {"paused", "finished"} =>
        /\ HasSnapshot /\ snaps[Latest].state = told
        /\ Live => phase = "idle" /\ state = told

\* While no Save can have exhausted its attempts.
ToldIsDurable == used.faults <= 1 => WroteState /\ ToldOnDisk

\* A snapshot at a live cursor is the newest.
LEMMA CursorIsLatest ==
    ASSUME TypeOK, DiskInv, Live, cursor \in DOMAIN snaps
    PROVE  HasSnapshot /\ Latest = cursor
<1>1. HasSnapshot
  BY DEF HasSnapshot
<1>2. Latest \in DOMAIN snaps /\ \A p \in DOMAIN snaps : p <= Latest
  BY <1>1, LatestFacts DEF DiskInv
<1>3. \A o \in DOMAIN snaps : o <= cursor
  BY DEF DiskInv, FilesOrdered
<1> QED
  BY <1>1, <1>2, <1>3 DEF TypeOK, SnapshotType, LogType

\* A step that leaves the disk and what was told alone, and does not take the
\* run out of a lifecycle a client was told.
LEMMA QuietKeepsTold ==
    ASSUME ToldOnDisk, UNCHANGED <<snaps, told>>,
           Live' => (told \in {"paused", "finished"} =>
                        phase' = "idle" /\ state' = told)
    PROVE  ToldOnDisk'
<1>1. Latest' = Latest /\ (HasSnapshot' <=> HasSnapshot)
  BY DEF Latest, HasSnapshot
<1> QED
  BY <1>1 DEF ToldOnDisk

\* A Save that returns has been answered from what is on disk.
LEMMA CommitKeepsTold ==
    ASSUME TypeOK, DiskInv, DiskInv', TypeOK', WroteState, ToldOnDisk, SaveCommits
    PROVE  WroteState' /\ ToldOnDisk'
<1>1. /\ phase = "saving" /\ save.wrote /\ SaveReturns(TRUE)
      /\ UNCHANGED <<snaps, cursor>>
  BY DEF SaveCommits
<1>2. /\ cursor \in DOMAIN snaps /\ snaps[cursor].state = state /\ Live
  BY <1>1 DEF DiskInv, FilesOrdered, WroteState, Live
<1>3. HasSnapshot /\ Latest = cursor
  BY <1>2, CursorIsLatest
<1>4. Latest' = Latest /\ HasSnapshot'
  BY <1>1, <1>3 DEF Latest, HasSnapshot
<1>5. WroteState'
  <2>1. phase' = "saving" => ~save'.wrote
    BY <1>1, FreshReturn, Zenon
  <2> QED
    BY <2>1 DEF WroteState
<1>6. told \notin {"paused", "finished"}
  BY <1>1, <1>2 DEF ToldOnDisk
<1>7. CASE save.why \in {"start", "cadence"}
  <2>1. told' \notin {"paused", "finished"}
    <3>1. CASE save.why = "start"
      BY <1>1, <3>1 DEF SaveReturns
    <3>2. CASE save.why = "cadence"
      BY <1>1, <1>6, <3>2 DEF SaveReturns
    <3> QED
      BY <1>7, <3>1, <3>2
  <2> QED
    BY <1>5, <2>1 DEF ToldOnDisk
<1>8. CASE save.why \notin {"start", "cadence"}
  <2>1. phase' = "idle" /\ told' = state /\ state' = state
    BY <1>1, <1>8 DEF SaveReturns
  <2>2. snaps'[Latest'].state = told'
    BY <1>1, <1>2, <1>3, <1>4, <2>1
  <2> QED
    BY <1>4, <1>5, <2>1, <2>2 DEF ToldOnDisk
<1> QED
  BY <1>7, <1>8

\* A failed attempt is retried: with one fault at most there is another left.
LEMMA RetryKeepsTold ==
    ASSUME TypeOK, AttemptsBounded, WroteState, ToldOnDisk, used'.faults <= 1,
           SaveInjectedFailure \/ SaveFaults
    PROVE  WroteState' /\ ToldOnDisk'
<1>1. phase = "saving" /\ AttemptFails /\ UNCHANGED <<snaps, cursor>>
  BY DEF SaveInjectedFailure, SaveFaults, logVars
<1>2. save.attempt # 3
  <2>1. CASE SaveInjectedFailure
    BY <2>1 DEF SaveInjectedFailure, Injected
  <2>2. CASE SaveFaults
    <3>1. used' = [used EXCEPT !.faults = @ + 1]
      BY <2>2 DEF SaveFaults
    <3>2. used'.faults = used.faults + 1 /\ used.faults \in Nat
      BY <3>1, UsedFields
    <3>3. save.attempt <= 2 + used.faults
      BY <1>1 DEF AttemptsBounded
    <3> QED
      BY <3>2, <3>3
  <2> QED
    BY <2>1, <2>2
<1>3. ~save'.wrote /\ UNCHANGED <<phase, state, told>>
  BY <1>1, <1>2, AttemptFailed
<1>4. WroteState'
  BY <1>3 DEF WroteState
<1>5. ToldOnDisk'
  BY <1>1, <1>3, QuietKeepsTold DEF ToldOnDisk, Live
<1> QED
  BY <1>4, <1>5

\* The snapshot write: no client holds an answer while a Save is under way.
LEMMA WriteKeepsTold ==
    ASSUME TypeOK, WroteState, ToldOnDisk, SaveWrites
    PROVE  WroteState' /\ ToldOnDisk'
<1>1. /\ phase = "saving" /\ UNCHANGED <<cursor, phase, state, told>>
      /\ snaps' = [o \in DOMAIN snaps \cup {cursor} |->
                    IF o = cursor THEN SnapshotState ELSE snaps[o]]
  BY DEF SaveWrites, WriteSnapshot
<1>2. told' \notin {"paused", "finished"}
  BY <1>1 DEF ToldOnDisk, Live
<1>3. snaps'[cursor'].state = state'
  BY <1>1 DEF SnapshotState
<1> QED
  BY <1>2, <1>3 DEF WroteState, ToldOnDisk

\* A tick: only a running run ticks.
LEMMA TickKeepsTold ==
    ASSUME TypeOK, ToldOnDisk, Advance \/ AdvanceAppendFails \/ AdvanceReadFails
    PROVE  WroteState' /\ ToldOnDisk'
<1>1. Live /\ state = "running" /\ told' = told
  BY DEF Advance, AdvanceAppendFails, AdvanceReadFails, MayStep, Live
<1>2. told' \notin {"paused", "finished"}
  BY <1>1 DEF ToldOnDisk
<1> QED
  BY <1>2, FreshTick DEF WroteState, ToldOnDisk

\* Recovery: a paused run comes back paused, and a finished one not at all.
LEMMA RecoverKeepsTold ==
    ASSUME ToldOnDisk, Recover
    PROVE  WroteState' /\ ToldOnDisk'
<1>1. /\ Recoverable /\ phase' = "idle" /\ UNCHANGED <<snaps, told>>
      /\ state' = (IF snaps[Latest].state = "paused" THEN "paused" ELSE "running")
  BY DEF Recover
<1>2. told \in {"paused", "finished"} => state' = told
  BY <1>1 DEF ToldOnDisk, Recoverable
<1>3. ToldOnDisk'
  BY <1>1, <1>2, QuietKeepsTold
<1> QED
  BY <1>1, <1>3 DEF WroteState

\* The remaining steps write nothing.
LEMMA OtherStepsKeepTold ==
    ASSUME WroteState, ToldOnDisk,
           \/ Command \/ Crash \/ CrashInAppend \/ RecoverSkips \/ UNCHANGED vars
    PROVE  WroteState' /\ ToldOnDisk'
<1>1. CASE StartRun
  <2>1. told' = "none" /\ ~save'.wrote
    BY <1>1 DEF StartRun, FirstSave
  <2> QED
    BY <2>1 DEF WroteState, ToldOnDisk
<1>2. CASE (\E paused \in BOOLEAN : SetPaused(paused)) \/ FinishRun
  <2>1. told' = "none" /\ (BeginSave("pause") \/ BeginSave("finish"))
    BY <1>2 DEF SetPaused, FinishRun, BeginFinish
  <2> QED
    BY <2>1, FreshSave DEF WroteState, ToldOnDisk
<1>3. CASE UpdateControls \/ UNCHANGED vars
  <2>1. UNCHANGED <<phase, state, save, told, snaps, cursor>>
    BY <1>3 DEF UpdateControls, vars, runVars, logVars
  <2>2. ToldOnDisk'
    BY <2>1, QuietKeepsTold DEF ToldOnDisk, Live
  <2> QED
    BY <2>1, <2>2 DEF WroteState
<1>4. CASE Crash \/ CrashInAppend \/ RecoverSkips
  <2>1. phase' \in {"down", "absent"} /\ UNCHANGED <<told, snaps>>
    BY <1>4 DEF Crash, CrashInAppend, Dies, RecoverSkips, logVars
  <2>2. ToldOnDisk'
    BY <2>1, QuietKeepsTold DEF Live
  <2> QED
    BY <2>1, <2>2 DEF WroteState
<1> QED
  BY <1>1, <1>2, <1>3, <1>4 DEF Command

\* Every step.
LEMMA NextTold ==
    ASSUME TypeOK, DiskInv, AttemptsBounded, ToldIsDurable, [Next]_vars
    PROVE  ToldIsDurable'
<1> SUFFICES ASSUME used'.faults <= 1 PROVE WroteState' /\ ToldOnDisk'
  BY DEF ToldIsDurable
<1>1. WroteState /\ ToldOnDisk
  BY FaultsGrow, UsedFields DEF ToldIsDurable
<1>2. TypeOK' /\ DiskInv'
  BY NextKeepsDisk
<1> QED
  BY <1>1, <1>2, CommitKeepsTold, RetryKeepsTold, WriteKeepsTold, TickKeepsTold,
     RecoverKeepsTold, OtherStepsKeepTold
  DEF Next, SaveStep

\* A run a client was told is paused or finished is so after any number of
\* crashes and recoveries, as long as at most one real fault happened: then no
\* Save can have exhausted its attempts (setPaused, finish, recoverOne).
THEOREM ToldSurvives == Spec => [](used.faults <= 1 => LifecycleSurvives)
<1>1. Init => ToldIsDurable
  BY DEF Init, ToldIsDurable, WroteState, ToldOnDisk
<1>2. TypeOK /\ DiskInv /\ AttemptsBounded /\ ToldIsDurable /\ [Next]_vars
        => ToldIsDurable'
  BY NextTold
<1>3. ToldIsDurable => (used.faults <= 1 => LifecycleSurvives)
  BY DEF ToldIsDurable, ToldOnDisk, LifecycleSurvives, Live
<1> QED
  BY <1>1, <1>2, <1>3, DiskInduction, AttemptsInduction, PTL DEF Spec

-----------------------------------------------------------------------------
(* The processor's tally.                                                  *)

\* A snapshot's tally is its offset.
SnapshotTallies == \A o \in DOMAIN snaps : snaps[o].received = o

\* Every record below a live cursor, or a snapshot's offset, was counted once.
TallyInv == RecordsTallied /\ SnapshotTallies

\* Arithmetic.
LEMMA AddDifference ==
    ASSUME NEW m \in Nat, NEW n \in Nat
    PROVE  m + (n - m) = n
OBVIOUS

\* A step that folds nothing and saves nothing.
LEMMA QuietKeepsTally ==
    ASSUME TallyInv, UNCHANGED <<snaps, cursor, received>>, Live' => Live
    PROVE  TallyInv'
BY DEF TallyInv, RecordsTallied, SnapshotTallies

\* Every step but a failed read.
LEMMA NextTally ==
    ASSUME TypeOK, DiskInv, TallyInv, [Next]_vars, ~AdvanceReadFails
    PROVE  TallyInv'
<1>1. CASE Advance
  <2>1. /\ Live /\ snaps' = snaps
        /\ Fold(log \o Batch, cursor, cursor')
    BY <1>1 DEF Advance, MayStep, Live
  <2>2. received' = cursor + (cursor' - cursor)
    BY <2>1 DEF Fold, TallyInv, RecordsTallied
  <2>3. cursor \in Nat /\ cursor' \in Nat
    BY <1>1, AdvanceKeepsDisk DEF TypeOK, LogType
  <2>4. received' = cursor'
    BY <2>2, <2>3, AddDifference, Zenon
  <2> QED
    BY <2>1, <2>4 DEF TallyInv, RecordsTallied, SnapshotTallies
<1>2. CASE AdvanceAppendFails
  BY <1>2, QuietKeepsTally DEF AdvanceAppendFails, MayStep, Live, foldVars
<1>3. CASE SaveInjectedFailure \/ SaveFaults
  <2>1. phase = "saving" /\ UNCHANGED <<snaps, cursor, received>>
    BY <1>3 DEF SaveInjectedFailure, SaveFaults, logVars, foldVars
  <2> QED
    BY <2>1, QuietKeepsTally DEF Live
<1>4. CASE SaveWrites
  <2>1. /\ Live /\ UNCHANGED <<phase, cursor, received>>
        /\ snaps' = [o \in DOMAIN snaps \cup {cursor} |->
                      IF o = cursor THEN SnapshotState ELSE snaps[o]]
    BY <1>4 DEF SaveWrites, WriteSnapshot, foldVars, Live
  <2>2. SnapshotState.received = cursor
    BY <2>1 DEF SnapshotState, TallyInv, RecordsTallied
  <2> QED
    BY <2>1, <2>2 DEF TallyInv, RecordsTallied, SnapshotTallies, Live
<1>5. CASE SaveCommits
  <2>1. phase = "saving" /\ UNCHANGED <<snaps, cursor, received>>
    BY <1>5 DEF SaveCommits, foldVars
  <2> QED
    BY <2>1, QuietKeepsTally DEF Live
<1>6. CASE StartRun
  <2>1. received' = 0 /\ cursor' = committed /\ snaps' = snaps /\ Len(log) = 0
    BY <1>6 DEF StartRun, NewSim, NextOffset
  <2>2. committed = 0
    BY <2>1 DEF TypeOK, LogType, DiskInv, FilesOrdered, CommitCovered, NextOffset
  <2> QED
    BY <2>1, <2>2 DEF TallyInv, RecordsTallied, SnapshotTallies
<1>7. CASE UpdateControls \/ (\E paused \in BOOLEAN : SetPaused(paused)) \/ FinishRun
  <2>1. phase = "idle" /\ UNCHANGED <<snaps, cursor, received>>
    BY <1>7 DEF UpdateControls, SetPaused, FinishRun, logVars, foldVars
  <2> QED
    BY <2>1, QuietKeepsTally DEF Live
<1>8. CASE Crash \/ CrashInAppend \/ RecoverSkips
  <2>1. phase' \in {"down", "absent"} /\ UNCHANGED <<snaps, cursor, received>>
    BY <1>8 DEF Crash, CrashInAppend, Dies, RecoverSkips, logVars, foldVars
  <2> QED
    BY <2>1, QuietKeepsTally DEF Live
<1>9. CASE Recover
  <2>1. /\ HasSnapshot /\ cursor' = Len(log) /\ snaps' = snaps
        /\ received' = snaps[Latest].received + (Len(log) - Latest)
    BY <1>9 DEF Recover, Recoverable, Resume, MarkFolded, NextOffset
  <2>2. Latest \in DOMAIN snaps /\ Latest \in Nat /\ Len(log) \in Nat
    BY <2>1, LatestFacts DEF DiskInv, TypeOK, SnapshotType, LogType
  <2>3. snaps[Latest].received = Latest
    BY <2>2 DEF TallyInv, SnapshotTallies
  <2> QED
    BY <2>1, <2>2, <2>3 DEF TallyInv, RecordsTallied, SnapshotTallies
<1>10. CASE UNCHANGED vars
  BY <1>10, QuietKeepsTally DEF vars, logVars, foldVars, runVars, Live
<1> QED
  BY <1>1, <1>2, <1>3, <1>4, <1>5, <1>6, <1>7, <1>8, <1>9, <1>10
  DEF Next, SaveStep, Command

\* The processor has counted every record below the cursor exactly once,
\* across any number of restarts, backlogs and redeliveries, as long as no
\* read of the log failed (a failed read drops the records it moved over).
THEOREM TallySurvives == Spec => []TallyAgrees
<1> DEFINE Inv == used.reads = 0 => TallyInv
<1>1. Init => Inv
  BY DEF Init, TallyInv, RecordsTallied, SnapshotTallies, Live
<1>2. TypeOK /\ DiskInv /\ Inv /\ [Next]_vars => Inv'
  <2> SUFFICES ASSUME TypeOK, DiskInv, Inv, [Next]_vars, used'.reads = 0
               PROVE  TallyInv'
    OBVIOUS
  <2> QED
    BY NoReadFailed, NextTally
<1>3. Inv => TallyAgrees
  BY DEF TallyInv, TallyAgrees
<1> QED
  BY <1>1, <1>2, <1>3, DiskInduction, PTL DEF Spec

-----------------------------------------------------------------------------
(* The run's clock.                                                        *)

\* Every tick folds all it produced: no profile bounds what a tick folds.
NoBacklog == \A c \in Controls : c.capacity = 0

\* The tick that follows the first n records.
TickAt(n) == IF n = 0 THEN 0 ELSE log[n].tick + 1

\* A snapshot a recovery may start from tells the time of its offset, and the
\* record after it, when there is one, belongs to that tick.
SnapshotClock ==
    \A o \in DOMAIN snaps : snaps[o].state # "finished" =>
        /\ snaps[o].published = o
        /\ snaps[o].tick = TickAt(o)
        /\ o < NextOffset => log[o + 1].tick = TickAt(o)

\* A live run tells the time of its log's end, unless a failed tick ended it.
RunClock ==
    Live /\ ~(failed /\ state = "finished") =>
        /\ cursor = NextOffset
        /\ published = NextOffset
        /\ tick = TickAt(NextOffset)

\* The clock of a log that grew: offsets below the old end keep theirs.
LEMMA GrowthKeepsClock ==
    ASSUME TypeOK, DiskInv, SnapshotClock, RunClock, Live, state = "running",
           NEW n \in Nat, GrowsLog(n), snaps' = snaps
    PROVE  SnapshotClock'
<1>1. /\ Len(log) \in Nat /\ Len(log') \in Nat /\ Len(log) <= Len(log')
      /\ \A i \in 1 .. Len(log) : log'[i] = log[i]
      /\ \A i \in Len(log) + 1 .. Len(log') : log'[i].tick = tick
  BY DEF TypeOK, LogType, GrowsLog
<1>2. tick = TickAt(Len(log))
  BY DEF RunClock, NextOffset
<1> SUFFICES ASSUME NEW o \in DOMAIN snaps, snaps[o].state # "finished"
             PROVE  /\ snaps[o].published = o
                    /\ snaps[o].tick = TickAt(o)'
                    /\ o < Len(log') => log'[o + 1].tick = TickAt(o)'
  BY DEF SnapshotClock, NextOffset
<1>3. /\ snaps[o].published = o /\ snaps[o].tick = TickAt(o)
      /\ o < Len(log) => log[o + 1].tick = TickAt(o)
  BY DEF SnapshotClock, NextOffset
<1>4. o \in Nat /\ o <= Len(log)
  BY DEF TypeOK, SnapshotType, DiskInv, FilesOrdered, NextOffset
<1>5. TickAt(o)' = TickAt(o)
  BY <1>1, <1>4 DEF TickAt
<1>6. o < Len(log') => log'[o + 1].tick = TickAt(o)
  <2>1. CASE o < Len(log)
    BY <1>1, <1>3, <1>4, <2>1
  <2>2. CASE o = Len(log)
    BY <1>1, <1>2, <2>2
  <2> QED
    BY <1>1, <1>4, <2>1, <2>2
<1> QED
  BY <1>3, <1>5, <1>6

\* A step that leaves log, snapshots and clock alone.
LEMMA QuietKeepsClock ==
    ASSUME SnapshotClock, RunClock, UNCHANGED <<log, snaps, cursor, published, tick>>,
           Live' /\ ~(failed' /\ state' = "finished") =>
               Live /\ ~(failed /\ state = "finished")
    PROVE  SnapshotClock' /\ RunClock'
BY DEF SnapshotClock, RunClock, NextOffset, TickAt

\* A tick that succeeds.
LEMMA AdvanceKeepsClock ==
    ASSUME NoBacklog, TypeOK, DiskInv, SnapshotClock, RunClock, Advance
    PROVE  SnapshotClock' /\ RunClock'
<1>1. /\ Live /\ state = "running" /\ log' = log \o Batch /\ snaps' = snaps
      /\ tick' = tick + 1 /\ published' = published + BatchLen
  BY DEF Advance, MayStep, Live, AppendAll
<1>2. cursor' = UnprocessedUpTo(log', StagedControls.capacity)
  BY <1>1, Zenon DEF Advance
<1>3. /\ GrowsLog(Len(pending) + StagedControls.events)
      /\ Len(log') = Len(log) + BatchLen
  BY <1>1, AllGrows
<1>4. /\ BatchLen \in Nat /\ BatchLen >= 1 /\ StagedControls \in Controls
      /\ Len(pending) + StagedControls.events \in Nat /\ Len(log) \in Nat
      /\ tick \in Nat
  BY StagedType DEF TypeOK, LogType, SimType
<1>5. SnapshotClock'
  BY <1>1, <1>3, <1>4, GrowthKeepsClock
<1>6. cursor' = Len(log')
  BY <1>2, <1>4 DEF NoBacklog, UnprocessedUpTo
<1>7. published' = Len(log')
  BY <1>1, <1>3 DEF RunClock, NextOffset
<1>8. log'[Len(log')].tick = tick
  BY <1>3, <1>4 DEF GrowsLog
<1>9. tick' = TickAt(NextOffset)'
  BY <1>1, <1>3, <1>4, <1>8 DEF TickAt, NextOffset
<1> QED
  BY <1>5, <1>6, <1>7, <1>9 DEF RunClock, NextOffset

\* A tick that fails, and a death inside an append.
LEMMA FailedTickKeepsClock ==
    ASSUME TypeOK, DiskInv, SnapshotClock, RunClock,
           AdvanceAppendFails \/ AdvanceReadFails \/ CrashInAppend
    PROVE  SnapshotClock' /\ RunClock'
<1>1. Live /\ state = "running" /\ snaps' = snaps
  BY DEF AdvanceAppendFails, AdvanceReadFails, CrashInAppend, MayStep, Live
<1>2. GrowsLog(Len(pending) + StagedControls.events)
  <2>1. CASE AdvanceAppendFails
    <3>1. PICK k \in 0 .. BatchLen : log' = log \o SubSeq(Batch, 1, k)
      BY <2>1 DEF AdvanceAppendFails, AppendPrefix
    <3> QED
      BY <3>1, PrefixGrows
  <2>2. CASE AdvanceReadFails
    BY <2>2, AllGrows DEF AdvanceReadFails, AppendAll
  <2>3. CASE CrashInAppend
    <3>1. PICK k \in 1 .. BatchLen - 1 : log' = log \o SubSeq(Batch, 1, k)
      BY <2>3 DEF CrashInAppend, AppendPrefix
    <3>2. k \in 0 .. BatchLen
      BY StagedType
    <3> QED
      BY <3>1, <3>2, PrefixGrows
  <2> QED
    BY <2>1, <2>2, <2>3
<1>3. Len(pending) + StagedControls.events \in Nat
  BY StagedType
<1>4. SnapshotClock'
  BY <1>1, <1>2, <1>3, GrowthKeepsClock
<1>5. ~Live' \/ (failed' /\ state' = "finished")
  BY DEF AdvanceAppendFails, AdvanceReadFails, CrashInAppend, BeginFinish, Dies, Live
<1> QED
  BY <1>4, <1>5 DEF RunClock

\* The snapshot write.
LEMMA WriteKeepsClock ==
    ASSUME TypeOK, SnapshotClock, RunClock, SaveWrites
    PROVE  SnapshotClock' /\ RunClock'
<1>1. /\ Live /\ UNCHANGED <<log, phase, state, failed, cursor, published, tick>>
      /\ snaps' = [o \in DOMAIN snaps \cup {cursor} |->
                    IF o = cursor THEN SnapshotState ELSE snaps[o]]
  BY DEF SaveWrites, WriteSnapshot, simVars, Live
<1>2. RunClock'
  BY <1>1 DEF RunClock, Live, NextOffset, TickAt
<1>3. ASSUME NEW o \in DOMAIN snaps', snaps'[o].state # "finished"
      PROVE  /\ snaps'[o].published = o
             /\ snaps'[o].tick = TickAt(o)
             /\ o < Len(log) => log[o + 1].tick = TickAt(o)
  <2>1. CASE o = cursor
    <3>1. snaps'[o] = SnapshotState
      BY <1>1, <2>1
    <3>2. state # "finished"
      BY <1>3, <3>1 DEF SnapshotState
    <3>3. cursor = Len(log) /\ published = Len(log) /\ tick = TickAt(Len(log))
      BY <1>1, <3>2 DEF RunClock, NextOffset
    <3>4. Len(log) \in Nat
      BY DEF TypeOK, LogType
    <3> QED
      BY <2>1, <3>1, <3>3, <3>4 DEF SnapshotState
  <2>2. CASE o # cursor
    <3>1. o \in DOMAIN snaps /\ snaps'[o] = snaps[o]
      BY <1>1, <2>2
    <3> QED
      BY <1>3, <3>1 DEF SnapshotClock, NextOffset
  <2> QED
    BY <2>1, <2>2
<1>4. SnapshotClock'
  BY <1>1, <1>3 DEF SnapshotClock, NextOffset, TickAt
<1> QED
  BY <1>2, <1>4

\* A Save that returns or retries.
LEMMA SaveKeepsClock ==
    ASSUME TypeOK, SnapshotClock, RunClock,
           SaveCommits \/ SaveInjectedFailure \/ SaveFaults
    PROVE  SnapshotClock' /\ RunClock'
<1>1. Live /\ UNCHANGED <<log, snaps, cursor, published, tick>>
  BY DEF SaveCommits, SaveInjectedFailure, SaveFaults, simVars, logVars, Live
<1>2. ASSUME NEW ok \in BOOLEAN, SaveReturns(ok), failed /\ state = "finished"
      PROVE  failed' /\ state' = "finished"
  <2>1. failed'
    BY <1>2, Zenon DEF SaveReturns
  <2>2. CASE save.why = "cadence"
    <3>1. EndOfAdvance(tick) \/ BeginFinish
      BY <1>2, <2>2, Zenon DEF SaveReturns
    <3> QED
      BY <1>2, <2>1, <3>1, FreshEnd DEF BeginFinish
  <2>3. CASE save.why # "cadence"
    <3>1. state' = state
      <4>1. CASE save.why = "start"
        BY <1>2, <4>1 DEF SaveReturns
      <4>2. CASE save.why # "start"
        BY <1>2, <2>3, <4>2 DEF SaveReturns
      <4> QED
        BY <4>1, <4>2
    <3> QED
      BY <1>2, <2>1, <3>1
  <2> QED
    BY <2>2, <2>3
<1>3. failed /\ state = "finished" => failed' /\ state' = "finished"
  <2>1. CASE SaveReturns(TRUE) \/ SaveReturns(FALSE)
    BY <1>2, <2>1, Zenon
  <2>2. CASE UNCHANGED <<phase, state, failed, saves, giveups, told>>
    BY <2>2
  <2>3. SaveCommits => SaveReturns(TRUE)
    BY DEF SaveCommits
  <2>4. ~SaveCommits => AttemptFails
    BY DEF SaveInjectedFailure, SaveFaults
  <2> QED
    BY <2>1, <2>2, <2>3, <2>4, AttemptFailed
<1> QED
  BY <1>1, <1>3, QuietKeepsClock

\* Recovery: ticksIn counts the ticks of the tail.
LEMMA RecoverKeepsClock ==
    ASSUME TypeOK, DiskInv, SnapshotClock, Recover
    PROVE  SnapshotClock' /\ RunClock'
<1>1. /\ HasSnapshot /\ snaps[Latest].state # "finished"
      /\ tick' = snaps[Latest].tick + TicksAfter(Latest)
      /\ published' = snaps[Latest].published + (Len(log) - Latest)
      /\ cursor' = Len(log) /\ UNCHANGED <<log, snaps>>
  BY DEF Recover, Recoverable, Resume, MarkFolded, NextOffset
<1>2. /\ Latest \in DOMAIN snaps /\ Latest \in Nat /\ Latest <= Len(log)
      /\ Len(log) \in Nat
  BY <1>1, LatestFacts, RecoveredTick DEF DiskInv, TypeOK, LogType
<1>3. /\ snaps[Latest].published = Latest
      /\ snaps[Latest].tick = TickAt(Latest)
      /\ Latest < Len(log) => log[Latest + 1].tick = TickAt(Latest)
  BY <1>1, <1>2 DEF SnapshotClock, NextOffset
<1>4. tick' = TickAt(Len(log))
  <2>1. CASE Latest = Len(log)
    <3>1. TicksAfter(Latest) = 0 /\ snaps[Latest].tick \in Nat
      BY <1>2, <2>1 DEF TicksAfter, NextOffset, TypeOK, SnapshotType
    <3> QED
      BY <1>1, <1>3, <2>1, <3>1
  <2>2. CASE Latest < Len(log)
    <3>1. TicksAfter(Latest) = log[Len(log)].tick - log[Latest + 1].tick + 1
      BY <1>2, <2>2 DEF TicksAfter, NextOffset
    <3>2. snaps[Latest].tick = log[Latest + 1].tick /\ snaps[Latest].tick \in Nat
      BY <1>2, <1>3, <2>2 DEF TypeOK, SnapshotType
    <3>3. log[Len(log)].tick \in Nat
      <4>1. log[Len(log)] \in Record
        <5> HIDE DEF Record
        <5> QED
          BY <1>2, <2>2, SeqElement DEF TypeOK, LogType
      <4> QED
        BY <4>1 DEF Record
    <3> QED
      BY <1>1, <1>2, <2>2, <3>1, <3>2, <3>3 DEF TickAt
  <2> QED
    BY <1>2, <2>1, <2>2
<1>5. SnapshotClock'
  BY <1>1 DEF SnapshotClock, NextOffset, TickAt
<1>6. RunClock'
  BY <1>1, <1>2, <1>3, <1>4 DEF RunClock, NextOffset, TickAt
<1> QED
  BY <1>5, <1>6

\* The remaining steps move no clock.
LEMMA OtherStepsKeepClock ==
    ASSUME TypeOK, DiskInv, SnapshotClock, RunClock,
           Command \/ Crash \/ RecoverSkips \/ UNCHANGED vars
    PROVE  SnapshotClock' /\ RunClock'
<1>1. CASE StartRun
  <2>1. /\ Len(log) = 0 /\ tick' = 0 /\ published' = 0 /\ cursor' = committed
        /\ UNCHANGED <<log, snaps>>
    BY <1>1 DEF StartRun, NewSim, NextOffset
  <2>2. committed = 0
    BY <2>1 DEF TypeOK, LogType, DiskInv, FilesOrdered, CommitCovered, NextOffset
  <2> QED
    BY <2>1, <2>2 DEF SnapshotClock, RunClock, NextOffset, TickAt
<1>2. CASE UpdateControls \/ (\E paused \in BOOLEAN : SetPaused(paused)) \/ FinishRun
  <2>1. /\ phase = "idle" /\ state # "finished"
        /\ UNCHANGED <<log, snaps, cursor, published, tick>>
    BY <1>2 DEF UpdateControls, SetPaused, FinishRun, logVars, simVars
  <2> QED
    BY <2>1, QuietKeepsClock DEF Live
<1>3. CASE Crash \/ RecoverSkips
  <2>1. /\ phase' \in {"down", "absent"}
        /\ UNCHANGED <<log, snaps, cursor, published, tick>>
    BY <1>3 DEF Crash, Dies, RecoverSkips, logVars, simVars
  <2> QED
    BY <2>1, QuietKeepsClock DEF Live
<1>4. CASE UNCHANGED vars
  BY <1>4, QuietKeepsClock DEF vars, logVars, simVars, runVars, Live
<1> QED
  BY <1>1, <1>2, <1>3, <1>4 DEF Command

\* A run that keeps up with its producer knows what time it is: after any
\* crashes, torn appends, failed saves and failed reads its tick is the one
\* after its last record's and it counts as published exactly what its log
\* holds (Rebuild's ticksIn).  With a backlog this fails: a snapshot then
\* stands at the cursor's offset with the tail's tick.
THEOREM ClockSurvives == NoBacklog => (Spec => []ClockAgrees)
<1> SUFFICES ASSUME NoBacklog PROVE Spec => []ClockAgrees
  OBVIOUS
<1>1. Init => SnapshotClock /\ RunClock
  BY DEF Init, SnapshotClock, RunClock, Live
<1>2. TypeOK /\ DiskInv /\ SnapshotClock /\ RunClock /\ [Next]_vars
        => SnapshotClock' /\ RunClock'
  BY AdvanceKeepsClock, FailedTickKeepsClock, WriteKeepsClock, SaveKeepsClock,
     RecoverKeepsClock, OtherStepsKeepClock
  DEF Next, SaveStep
<1>3. RunClock => ClockAgrees
  BY DEF RunClock, ClockAgrees, TickAt
<1> QED
  BY <1>1, <1>2, <1>3, DiskInduction, PTL DEF Spec

-----------------------------------------------------------------------------
(* Event IDs.                                                              *)

\* Two positions of a tick hold the same event only when the second is the
\* redelivery right after the first.
LEMMA EventAtPairs ==
    ASSUME NEW p \in Nat, NEW q \in Nat, p >= 1, p < q,
           EventAt(p).index = EventAt(q).index
    PROVE  q = p + 1 /\ EventAt(p).attempt = 1 /\ EventAt(q).attempt = 2
<1>1. CASE DuplicateEvery = 0
  BY <1>1 DEF EventAt
<1>2. CASE DuplicateEvery # 0
  <2> DEFINE d  == DuplicateEvery
             b  == (p - 1) \div (d + 1)
             r  == (p - 1) % (d + 1)
             b2 == (q - 1) \div (d + 1)
             r2 == (q - 1) % (d + 1)
  <2>d. d \in Nat /\ d >= 1
    BY <1>2, ConfigAssumption
  <2>1. /\ b \in Nat /\ r \in 0 .. d /\ p - 1 = b * (d + 1) + r
        /\ b2 \in Nat /\ r2 \in 0 .. d /\ q - 1 = b2 * (d + 1) + r2
    <3>1. p - 1 \in Nat /\ q - 1 \in Nat
      OBVIOUS
    <3> QED
      BY <2>d, <3>1, Blocks
  <2>2. /\ EventAt(p) = IF r = d THEN [index |-> b * d + r, attempt |-> 2]
                        ELSE [index |-> b * d + r + 1, attempt |-> 1]
        /\ EventAt(q) = IF r2 = d THEN [index |-> b2 * d + r2, attempt |-> 2]
                        ELSE [index |-> b2 * d + r2 + 1, attempt |-> 1]
    BY <1>2 DEF EventAt
  <2> HIDE DEF d, b, r, b2, r2
  <2>3. /\ EventAt(p).index = IF r = d THEN b * d + r ELSE b * d + r + 1
        /\ EventAt(q).index = IF r2 = d THEN b2 * d + r2 ELSE b2 * d + r2 + 1
        /\ EventAt(p).attempt = IF r = d THEN 2 ELSE 1
        /\ EventAt(q).attempt = IF r2 = d THEN 2 ELSE 1
    BY <2>2
  <2>4. b * d \in Nat /\ b2 * d \in Nat /\ b * (d + 1) \in Nat /\ b2 * (d + 1) \in Nat
    BY <2>1, <2>d
  <2>5. b = b2
    <3>1. CASE b + 1 <= b2
      <4>1. (b + 1) * d <= b2 * d /\ (b + 1) * d = b * d + d
        BY <2>1, <2>d, <3>1, TimesMonotone
      <4>2. EventAt(p).index <= b * d + d
        <5>1. CASE r = d
          BY <2>3, <2>4, <2>d, <5>1
        <5>2. CASE r # d
          <6>1. EventAt(p).index = b * d + r + 1 /\ r + 1 <= d
            BY <2>1, <2>3, <2>d, <5>2
          <6> QED
            BY <2>1, <2>4, <2>d, <6>1
        <5> QED
          BY <5>1, <5>2
      <4>3. EventAt(q).index >= b2 * d + 1
        <5>1. CASE r2 = d
          <6>1. EventAt(q).index = b2 * d + d
            BY <2>3, <5>1
          <6> QED
            BY <2>4, <2>d, <6>1
        <5>2. CASE r2 # d
          <6>1. EventAt(q).index = b2 * d + r2 + 1
            BY <2>3, <5>2
          <6> QED
            BY <2>1, <2>4, <6>1
        <5> QED
          BY <5>1, <5>2
      <4>4. EventAt(p).index \in Nat
        BY EventAtType
      <4> QED
        BY <2>4, <2>d, <4>1, <4>2, <4>3, <4>4
    <3>2. CASE b2 + 1 <= b
      <4>1. (b2 + 1) * (d + 1) <= b * (d + 1)
        BY <2>1, <2>d, <3>2, TimesMonotone
      <4>2. (b2 + 1) * (d + 1) = b2 * (d + 1) + (d + 1)
        BY <2>1, <2>d
      <4> QED
        BY <2>1, <2>4, <2>d, <4>1, <4>2
    <3> QED
      BY <2>1, <3>1, <3>2
  <2>6. r < r2
    BY <2>1, <2>4, <2>5
  <2>7. r2 = d /\ r = d - 1
    <3>1. EventAt(p).index = b * d + r + 1
      BY <2>1, <2>3, <2>6
    <3>2. CASE r2 = d
      <4>1. b * d + r + 1 = b * d + d
        BY <2>3, <2>5, <3>1, <3>2
      <4> QED
        BY <2>1, <2>4, <2>d, <3>2, <4>1
    <3>3. CASE r2 # d
      <4>1. b * d + r + 1 = b * d + r2 + 1
        BY <2>3, <2>5, <3>1, <3>3
      <4> QED
        BY <2>1, <2>4, <2>6, <4>1
    <3> QED
      BY <3>2, <3>3
  <2>8. q = p + 1
    BY <2>1, <2>4, <2>5, <2>7, <2>d
  <2> QED
    BY <2>3, <2>7, <2>8, <2>d
<1> QED
  BY <1>1, <1>2

\* So it is among the records of a tick, control changes included.
LEMMA BatchPairs ==
    ASSUME TypeOK, NEW p \in 1 .. BatchLen, NEW q \in 1 .. BatchLen, p < q,
           Batch[p].seq = Batch[q].seq
    PROVE  q = p + 1 /\ Batch[p].attempt = 1 /\ Batch[q].attempt = 2
<1> DEFINE m == Len(pending)
<1>1. m \in Nat /\ BatchLen \in Nat /\ seq \in Nat
  BY StagedType DEF TypeOK, SimType
<1>2. \A x \in 1 .. BatchLen :
        /\ x <= m => Batch[x] = [kind |-> "control_changed", seq |-> seq + x,
                                 tick |-> tick, rev |-> pending[x].rev, attempt |-> 1]
        /\ x > m  => Batch[x] = [kind |-> "organism",
                                 seq |-> seq + m + EventAt(x - m).index, tick |-> tick,
                                 rev |-> 0, attempt |-> EventAt(x - m).attempt]
  BY <1>1 DEF Batch
<1> HIDE DEF m
<1>3. ASSUME NEW x \in 1 .. BatchLen, x <= m
      PROVE  Batch[x].seq = seq + x
  <2>1. Batch[x] = [kind |-> "control_changed", seq |-> seq + x,
                    tick |-> tick, rev |-> pending[x].rev, attempt |-> 1]
    BY <1>2, <1>3
  <2> QED
    BY <2>1
<1>4. ASSUME NEW x \in 1 .. BatchLen, x > m
      PROVE  /\ Batch[x].seq = seq + m + EventAt(x - m).index
             /\ Batch[x].attempt = EventAt(x - m).attempt
             /\ x - m \in Nat /\ x - m >= 1
             /\ EventAt(x - m).index \in Nat /\ EventAt(x - m).index >= 1
  <2>1. Batch[x] = [kind |-> "organism", seq |-> seq + m + EventAt(x - m).index,
                    tick |-> tick, rev |-> 0, attempt |-> EventAt(x - m).attempt]
    BY <1>2, <1>4
  <2>2. x - m \in Nat /\ x - m >= 1
    BY <1>1, <1>4
  <2> QED
    BY <2>1, <2>2, EventAtType
<1>5. p > m
  <2> SUFFICES ASSUME p <= m PROVE FALSE
    BY <1>1
  <2>1. Batch[p].seq = seq + p
    BY <1>3
  <2>2. CASE q <= m
    <3>1. seq + p = seq + q
      BY <1>3, <2>1, <2>2
    <3> QED
      BY <1>1, <3>1
  <2>3. CASE q > m
    <3>1. /\ Batch[q].seq = seq + m + EventAt(q - m).index
          /\ EventAt(q - m).index \in Nat /\ EventAt(q - m).index >= 1
      BY <1>4, <2>3
    <3>2. seq + p = seq + m + EventAt(q - m).index
      BY <2>1, <3>1
    <3> QED
      BY <1>1, <3>1, <3>2
  <2> QED
    BY <1>1, <2>2, <2>3
<1>6. q > m
  BY <1>1, <1>5
<1>7. EventAt(p - m).index = EventAt(q - m).index /\ p - m < q - m
  BY <1>1, <1>4, <1>5, <1>6
<1>8. q - m = (p - m) + 1 /\ EventAt(p - m).attempt = 1 /\ EventAt(q - m).attempt = 2
  BY <1>4, <1>5, <1>6, <1>7, EventAtPairs
<1> QED
  BY <1>1, <1>4, <1>5, <1>6, <1>8

\* And among the records an append leaves, whole or torn.
LEMMA AppendedPairs ==
    ASSUME TypeOK, NEW k \in 0 .. BatchLen, log' = log \o SubSeq(Batch, 1, k),
           NEW i \in Len(log) + 1 .. Len(log'), NEW j \in Len(log) + 1 .. Len(log'),
           i < j, log'[i].seq = log'[j].seq
    PROVE  j = i + 1 /\ log'[i].attempt = 1 /\ log'[j].attempt = 2
<1> DEFINE b == SubSeq(Batch, 1, k)
<1>1. log \in Seq(Record) /\ Len(log) \in Nat /\ BatchLen \in Nat
  BY StagedType DEF TypeOK, LogType
<1>2. Batch \in Seq(Record) /\ Len(Batch) = BatchLen
  BY BatchFacts
<1> HIDE DEF Record
<1>3. b \in Seq(Record) /\ Len(b) = k /\ \A x \in 1 .. k : b[x] = Batch[x]
  BY <1>1, <1>2
<1> HIDE DEF b
<1>4. /\ Len(log') = Len(log) + k
      /\ \A x \in Len(log) + 1 .. Len(log) + k : log'[x] = b[x - Len(log)]
  <2>1. log' = log \o b
    BY DEF b
  <2> QED
    BY <1>1, <1>3, <2>1, SMTT(20)
<1>5. /\ i - Len(log) \in 1 .. BatchLen /\ log'[i] = Batch[i - Len(log)]
      /\ j - Len(log) \in 1 .. BatchLen /\ log'[j] = Batch[j - Len(log)]
      /\ i - Len(log) < j - Len(log)
  BY <1>1, <1>3, <1>4, SMTT(20)
<1>6. /\ j - Len(log) = (i - Len(log)) + 1
      /\ Batch[i - Len(log)].attempt = 1 /\ Batch[j - Len(log)].attempt = 2
  BY <1>5, BatchPairs
<1> QED
  BY <1>1, <1>5, <1>6

\* An append keeps the log in order and every ID to one event.
LEMMA AppendKeepsIds ==
    ASSUME TypeOK, LogOrdered, IdsNotReissued, Live, NEW k \in 0 .. BatchLen,
           log' = log \o SubSeq(Batch, 1, k), phase' \in {"idle", "saving"} => Produce
    PROVE  LogOrdered' /\ IdsNotReissued'
<1> DEFINE n == Len(pending) + StagedControls.events
<1>1. /\ GrowsLog(n) /\ n \in Nat /\ seq \in Nat /\ Len(pending) \in Nat
      /\ StagedControls.events \in Nat
  <2>1. GrowsLog(n)
    BY PrefixGrows
  <2>2. Len(pending) \in Nat /\ StagedControls.events \in Nat
    BY StagedType
  <2> QED
    BY <2>1, <2>2 DEF TypeOK, SimType
<1>2. phase' \in {"idle", "saving"} => seq' = seq + n
  BY <1>1 DEF Produce
<1> HIDE DEF n
<1>3. LogOrdered'
  BY <1>1, <1>2, GrowthKeepsOrder
<1>4. /\ Len(log) \in Nat /\ Len(log') \in Nat /\ Len(log) <= Len(log')
      /\ \A i \in 1 .. Len(log) : log'[i] = log[i] /\ log[i].seq <= seq
      /\ \A i \in Len(log) + 1 .. Len(log') : log'[i].seq > seq
  BY <1>1 DEF GrowsLog, TypeOK, LogType, LogOrdered, NextOffset
<1>5. \A i \in 1 .. Len(log') : log'[i].seq \in Nat
  BY <1>1, LogElement DEF GrowsLog
<1>6. ASSUME NEW i \in 1 .. Len(log'), NEW j \in 1 .. Len(log'), i < j,
             log'[i].seq = log'[j].seq
      PROVE  j = i + 1 /\ log'[i].attempt = 1 /\ log'[j].attempt = 2
  <2>1. CASE j <= Len(log)
    <3>1. /\ i \in 1 .. Len(log) /\ j \in 1 .. Len(log)
          /\ log'[i] = log[i] /\ log'[j] = log[j]
      BY <1>4, <1>6, <2>1
    <3> QED
      BY <1>6, <3>1 DEF IdsNotReissued, NextOffset
  <2>2. CASE i <= Len(log) /\ Len(log) < j
    <3>1. /\ log'[i].seq <= seq /\ log'[j].seq > seq
          /\ log'[i].seq \in Nat /\ log'[j].seq \in Nat
      BY <1>4, <1>5, <2>2
    <3> QED
      BY <1>1, <1>6, <3>1
  <2>3. CASE Len(log) < i
    <3>1. i \in Len(log) + 1 .. Len(log') /\ j \in Len(log) + 1 .. Len(log')
      BY <1>4, <1>6, <2>3
    <3> QED
      BY <1>6, <3>1, AppendedPairs
  <2> QED
    BY <1>4, <1>6, <2>1, <2>2, <2>3
<1> QED
  BY <1>3, <1>6 DEF IdsNotReissued, NextOffset

\* A step that appends nothing.
LEMMA QuietKeepsIds ==
    ASSUME TypeOK, LogOrdered, IdsNotReissued, log' = log,
           Live' => (Live /\ seq' = seq) \/ Len(log) = 0 \/ seq' = log[Len(log)].seq
    PROVE  LogOrdered' /\ IdsNotReissued'
<1>1. Len(log) \in Nat /\ \A i \in 1 .. Len(log) : log[i].seq \in Nat
  BY LogElement DEF TypeOK, LogType
<1>2. Len(log) # 0 => \A i \in 1 .. Len(log) : log[i].seq <= log[Len(log)].seq
  BY <1>1 DEF LogOrdered, NextOffset
<1>3. Live' => \A i \in 1 .. Len(log) : log[i].seq <= seq'
  BY <1>1, <1>2 DEF LogOrdered, NextOffset
<1>4. LogOrdered'
  BY <1>3 DEF LogOrdered, NextOffset
<1> QED
  BY <1>4 DEF IdsNotReissued, NextOffset

\* Every step.
LEMMA NextIds ==
    ASSUME TypeOK, LogOrdered, IdsNotReissued, [Next]_vars
    PROVE  LogOrdered' /\ IdsNotReissued'
<1>1. CASE Advance \/ AdvanceReadFails
  <2>1. Live /\ Produce /\ log' = log \o Batch
    BY <1>1 DEF Advance, AdvanceReadFails, MayStep, Live, AppendAll
  <2>2. SubSeq(Batch, 1, BatchLen) = Batch /\ BatchLen \in 0 .. BatchLen
    BY BatchFacts, StagedType
  <2>3. log' = log \o SubSeq(Batch, 1, BatchLen)
    BY <2>1, <2>2, Zenon
  <2> QED
    BY <2>1, <2>2, <2>3, AppendKeepsIds
<1>2. CASE AdvanceAppendFails
  <2>1. PICK k \in 0 .. BatchLen : log' = log \o SubSeq(Batch, 1, k)
    BY <1>2 DEF AdvanceAppendFails, AppendPrefix
  <2>2. Live /\ Produce
    BY <1>2 DEF AdvanceAppendFails, MayStep, Live
  <2> QED
    BY <2>1, <2>2, AppendKeepsIds
<1>3. CASE CrashInAppend
  <2>1. PICK k \in 1 .. BatchLen - 1 : log' = log \o SubSeq(Batch, 1, k)
    BY <1>3 DEF CrashInAppend, AppendPrefix
  <2>2. k \in 0 .. BatchLen /\ Live /\ phase' = "down"
    BY <1>3, StagedType DEF CrashInAppend, MayStep, Dies, Live
  <2> QED
    BY <2>1, <2>2, AppendKeepsIds
<1>4. CASE SaveStep
  <2>1. Live /\ UNCHANGED <<log, seq>>
    BY <1>4 DEF SaveStep, SaveInjectedFailure, SaveWrites, SaveCommits, SaveFaults,
                logVars, simVars, Live
  <2> QED
    BY <2>1, QuietKeepsIds
<1>5. CASE Command
  <2>1. log' = log /\ (Len(log) = 0 \/ (Live /\ seq' = seq))
    BY <1>5 DEF Command, StartRun, UpdateControls, SetPaused, FinishRun, logVars,
                simVars, Live, NextOffset
  <2> QED
    BY <2>1, QuietKeepsIds
<1>6. CASE Crash \/ RecoverSkips
  <2>1. log' = log /\ ~Live'
    BY <1>6 DEF Crash, Dies, RecoverSkips, logVars, Live
  <2> QED
    BY <2>1, QuietKeepsIds
<1>7. CASE Recover
  <2>1. log' = log /\ (Len(log) = 0 \/ seq' = log[Len(log)].seq)
    BY <1>7 DEF Recover, Resume, ResumeSeq, NextOffset
  <2> QED
    BY <2>1, QuietKeepsIds
<1>8. CASE UNCHANGED vars
  BY <1>8, QuietKeepsIds DEF vars, logVars, simVars, runVars, Live
<1> QED
  BY <1>1, <1>2, <1>3, <1>4, <1>5, <1>6, <1>7, <1>8 DEF Next

\* A sequence number, and so an event ID, names one event for the life of the
\* history, for every redelivery period, rate and backlog and through any
\* crash, torn append or failed tick; it appears again only as the redelivery
\* right after its first delivery (Producer.Resume).
THEOREM IdsNameOneEvent == Spec => []IdsNotReissued
<1>1. Init => LogOrdered /\ IdsNotReissued
  BY DEF Init, LogOrdered, IdsNotReissued, NextOffset, Live
<1>2. TypeOK /\ LogOrdered /\ IdsNotReissued /\ [Next]_vars
        => LogOrdered' /\ IdsNotReissued'
  BY NextIds
<1> QED
  BY <1>1, <1>2, TypeCorrect, PTL DEF Spec
=============================================================================
