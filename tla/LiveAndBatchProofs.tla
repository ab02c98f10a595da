------------------------- MODULE LiveAndBatchProofs -------------------------
(***************************************************************************)
(* The determinism of a run, proved for every set of controls, every       *)
(* garden, every sequence of draws and any number of ticks and updates: a  *)
(* live run is the batch run of its control changes, and its records alone *)
(* tell it.                                                                *)
(*                                                                         *)
(* The argument is about values first: what a simulation is (SimOK), that  *)
(* New, SetControls and Step keep it so, what the records of a tick have   *)
(* in common however they are numbered, and what playing a log from the    *)
(* beginning gives (Play). The live run and the batch run are then both    *)
(* made of these.                                                          *)
(***************************************************************************)
EXTENDS LiveAndBatch, SumTheorems

-----------------------------------------------------------------------------
(* The envelope and its encoding.                                          *)

Controls == {c \in Mixes : Acceptable(c)}

Kind(e) == e.type \in Kinds

\* The envelopes a producer makes.
Envelopes ==
    {e \in [id : {"event", "control"} \X Nat, type : Kinds \cup {"control_changed"}, schema : {1},
            entity : Int, seq : Nat, at : Nat, attempt : Nat \ {0}, amount : Nat, revision : Nat] :
        Kind(e) => e.entity \in 0 .. Organisms - 1 /\ e.id[1] = "event"}

Records == {ToCore(e) : e \in Envelopes}

\* The member of a singleton.
LEMMA The1 ==
    ASSUME NEW x
    PROVE  The({x}) = x
BY DEF The

\* What Validate takes: weights that add up to something, at least one event a tick.
LEMMA ControlFacts ==
    ASSUME NEW c \in Controls
    PROVE  /\ c \in Mixes /\ Acceptable(c) /\ c.events \in Nat \ {0}
           /\ c.rain \in Nat /\ c.growth \in Nat /\ c.pest \in Nat
           /\ TotalWeight(c) \in Nat \ {0} /\ Capacity(c) \in Nat
<1>1. c \in Mixes /\ Acceptable(c)
  BY DEF Controls
<1>2. /\ c.events \in Int /\ c.rain \in Int /\ c.growth \in Int /\ c.pest \in Int
      /\ c.workers \in Int /\ c.batch \in Int
  BY <1>1, BatchAssumption DEF ControlFields
<1>3. TotalWeight(c) \in Nat \ {0}
  BY <1>1, <1>2 DEF Acceptable, TotalWeight
<1>4. Capacity(c) \in Nat
  <2>1. \A x, y \in Nat : x * y \in Nat
    OBVIOUS
  <2> QED
    BY <1>2, <2>1 DEF Capacity
<1> QED
  BY <1>1, <1>2, <1>3, <1>4 DEF Acceptable

\* Validate takes every envelope a producer makes.
LEMMA EnvelopesWellFormed ==
    ASSUME NEW e \in Envelopes
    PROVE  WellFormed(e)
BY DEF Envelopes, WellFormed, Kind, NoEntity

\* What is read back is what was written: the fields the body leaves out come back.
LEMMA RoundTrip ==
    ASSUME NEW e \in Envelopes
    PROVE  FromCore(ToCore(e)) = e
<1> DEFINE D == {g \in Body : g \in Omitted => e[g] # Zero[g]}
           b == [f \in D |-> e[f]]
           read(f) == IF f \in DOMAIN b THEN b[f] ELSE Zero[f]
<1>1. ToCore(e).body = b /\ ToCore(e).time = e.at /\ ToCore(e).schema = e.schema
  BY DEF ToCore
<1>2. \A f \in Body : f \notin Omitted => read(f) = e[f]
  OBVIOUS
<1>3. \A f \in Body : f \in Omitted => read(f) = e[f]
  OBVIOUS
<1>4. \A f \in Body : read(f) = e[f]
  BY <1>2, <1>3
<1>5. /\ read("id") = e.id /\ read("type") = e.type /\ read("entity") = e.entity
      /\ read("seq") = e.seq /\ read("attempt") = e.attempt /\ read("amount") = e.amount
      /\ read("revision") = e.revision
  BY <1>4 DEF Body
<1> HIDE DEF read, b, D
<1>6. FromCore(ToCore(e)) =
         [id |-> read("id"), type |-> read("type"), entity |-> read("entity"), seq |-> read("seq"),
          attempt |-> read("attempt"), amount |-> read("amount"), revision |-> read("revision"),
          at |-> e.at, schema |-> e.schema]
  BY <1>1 DEF FromCore, read
<1>7. e = [id |-> e.id, type |-> e.type, entity |-> e.entity, seq |-> e.seq,
           attempt |-> e.attempt, amount |-> e.amount, revision |-> e.revision,
           at |-> e.at, schema |-> e.schema]
  BY DEF Envelopes
<1> QED
  BY <1>5, <1>6, <1>7

\* A record that is decoded and encoded again is the record.
LEMMA ReadBack ==
    ASSUME NEW r \in Records
    PROVE  FromCore(r) \in Envelopes /\ ToCore(FromCore(r)) = r
<1>1. PICK e \in Envelopes : r = ToCore(e)
  BY DEF Records
<1> QED
  BY <1>1, RoundTrip

-----------------------------------------------------------------------------
(* The events of a tick.                                                   *)

\* What of an event the garden sees.
Effect(e) == <<e.type, e.entity, e.amount>>

\* The draws an event takes.
Draws(e) == IF e.type = "growth" THEN 2 ELSE 3

\* Tick's table: the first i events and where the next one draws.
IsTicks(tick, seq, c, f) ==
    LET and(so, e) == [events |-> Append(so.events, e),
                       draw |-> so.draw + (IF e.type = "growth" THEN 2 ELSE 3)]
    IN  f = [i \in 0 .. c.events |->
               IF i = 0 THEN [events |-> <<>>, draw |-> 1]
               ELSE The({and(so, Emit(tick, seq, so.draw, seq + i, c)) : so \in {f[i - 1]}})]

\* Tick is the last entry of such a table.
LEMMA TickIsTable ==
    ASSUME NEW tick, NEW seq, NEW c
    PROVE  Tick(tick, seq, c) = (CHOOSE f : IsTicks(tick, seq, c, f))[c.events].events
BY DEF Tick, IsTicks

\* One event: an envelope, whose effect does not depend on its number.
LEMMA EmitOne ==
    ASSUME NEW tick \in 0 .. TickBound - 1, NEW seq, NEW n \in Nat, NEW c \in Controls,
           NEW k \in Nat \ {0}, k + 2 <= 3 * c.events
    PROVE  LET e == Emit(tick, seq, k, n, c)
           IN  /\ e \in Envelopes /\ Kind(e) /\ e.id = <<"event", n>> /\ e.attempt = 1
               /\ \A seq2, n2 : Effect(e) = Effect(Emit(tick, seq2, k, n2, c))
<1> DEFINE raw(j, m) == Raw[tick][j] % m
           type == PickType(raw(k, TotalWeight(c)), c)
           amount == CASE type = "rain" -> 5 + raw(k + 2, 21)
                       [] type = "pest" -> 5 + raw(k + 2, 16)
                       [] OTHER -> 0
           Ev(m) == [id |-> <<"event", m>>, type |-> type, schema |-> 1,
                     entity |-> raw(k + 1, Organisms), seq |-> m, at |-> tick, attempt |-> 1,
                     amount |-> amount, revision |-> 0]
<1>1. \A s2, m : Emit(tick, s2, k, m, c) = Ev(m)
  <2> TAKE s2, m
  <2> DEFINE Of(t) == [id |-> <<"event", m>>, type |-> t, schema |-> 1,
                       entity |-> raw(k + 1, Organisms), seq |-> m, at |-> tick, attempt |-> 1,
                       amount |-> CASE t = "rain" -> 5 + raw(k + 2, 21)
                                    [] t = "pest" -> 5 + raw(k + 2, 16)
                                    [] OTHER -> 0,
                       revision |-> 0]
  <2>1. Emit(tick, s2, k, m, c) = The({Of(t) : t \in {type}})
    BY DEF Emit, Draw
  <2>2. {Of(t) : t \in {type}} = {Of(type)} /\ Of(type) = Ev(m)
    <3>1. Of(type) = Ev(m)
      OBVIOUS
    <3> HIDE DEF Of, type
    <3>2. {Of(t) : t \in {type}} = {Of(type)}
      OBVIOUS
    <3> QED
      BY <3>1, <3>2
  <2> HIDE DEF Of, type, Ev
  <2> QED
    BY <2>1, <2>2, The1
<1>2. /\ tick \in Nat /\ c \in Mixes /\ Raw[tick] \in Seq(Nat)
      /\ c.events \in Nat /\ 3 * c.events <= Len(Raw[tick])
  BY ControlFacts, BatchBoundsAssumption
<1>3. \A j \in {k, k + 1, k + 2} : Raw[tick][j] \in Nat
  <2>1. {k, k + 1, k + 2} \subseteq 1 .. Len(Raw[tick])
    BY <1>2
  <2>2. \A q \in Seq(Nat) : \A j \in 1 .. Len(q) : q[j] \in Nat
    OBVIOUS
  <2> QED
    BY <1>2, <2>1, <2>2
<1>4. \A j \in {k, k + 1, k + 2}, m \in Nat \ {0} : raw(j, m) \in 0 .. m - 1
  BY <1>3
<1>5. type \in Kinds
  BY DEF PickType, Kinds
<1>6. raw(k + 1, Organisms) \in 0 .. Organisms - 1
  BY <1>4, BatchAssumption
<1>7. raw(k + 2, 21) \in Nat /\ raw(k + 2, 16) \in Nat
  <2> HIDE DEF raw
  <2>1. 21 \in Nat \ {0} /\ 16 \in Nat \ {0} /\ k + 2 \in {k, k + 1, k + 2}
    OBVIOUS
  <2>2. raw(k + 2, 21) \in 0 .. 21 - 1 /\ raw(k + 2, 16) \in 0 .. 16 - 1
    BY <1>4, <2>1
  <2> QED
    BY <2>2
<1> HIDE DEF raw, type
<1>8. amount \in Nat
  BY <1>5, <1>7 DEF Kinds
<1> HIDE DEF amount
<1>9. Ev(n) \in Envelopes /\ Kind(Ev(n))
  <2>1. raw(k + 1, Organisms) \in Int
    BY <1>6, BatchAssumption
  <2>2. <<"event", n>> \in {"event", "control"} \X Nat /\ <<"event", n>>[1] = "event"
    OBVIOUS
  <2>3. Kind(Ev(n))
    BY <1>5 DEF Kind
  <2>4. Ev(n) \in [id : {"event", "control"} \X Nat, type : Kinds \cup {"control_changed"},
                   schema : {1}, entity : Int, seq : Nat, at : Nat, attempt : Nat \ {0},
                   amount : Nat, revision : Nat]
    BY <1>2, <1>5, <1>8, <2>1, <2>2
  <2> QED
    BY <1>6, <2>2, <2>3, <2>4 DEF Envelopes
<1>10. \A n2 : Effect(Ev(n)) = Effect(Ev(n2))
  BY DEF Effect
<1>11. Ev(n).id = <<"event", n>> /\ Ev(n).attempt = 1
  OBVIOUS
<1> HIDE DEF Ev
<1> QED
  BY <1>1, <1>9, <1>10, <1>11

\* There is such a table, however many events the tick has.
LEMMA TicksExist ==
    ASSUME NEW tick, NEW seq, NEW c, c.events \in Nat
    PROVE  \E f : IsTicks(tick, seq, c, f)
<1> DEFINE next(so, i) == LET e == Emit(tick, seq, so.draw, seq + i, c)
                          IN  [events |-> Append(so.events, e),
                               draw |-> so.draw + (IF e.type = "growth" THEN 2 ELSE 3)]
           zero == [events |-> <<>>, draw |-> 1]
           Upto(n, f) == f = [i \in 0 .. n |-> IF i = 0 THEN zero ELSE next(f[i - 1], i)]
           T == {n \in Nat : \E f : Upto(n, f)}
<1>0. \A f : IsTicks(tick, seq, c, f) <=> Upto(c.events, f)
  <2> DEFINE and(so, e) == [events |-> Append(so.events, e),
                            draw |-> so.draw + (IF e.type = "growth" THEN 2 ELSE 3)]
  <2>1. \A so, i : The({and(x, Emit(tick, seq, x.draw, seq + i, c)) : x \in {so}}) = next(so, i)
    <3> SUFFICES ASSUME NEW so, NEW i
                 PROVE  The({and(x, Emit(tick, seq, x.draw, seq + i, c)) : x \in {so}}) = next(so, i)
      OBVIOUS
    <3>1. {and(x, Emit(tick, seq, x.draw, seq + i, c)) : x \in {so}} = {next(so, i)}
      OBVIOUS
    <3> QED
      BY <3>1, The1
  <2> HIDE DEF next
  <2> QED
    BY <2>1 DEF IsTicks
<1> HIDE DEF next, zero
<1>1. 0 \in T
  <2>1. Upto(0, [i \in 0 .. 0 |-> zero])
    OBVIOUS
  <2> QED
    BY <2>1
<1>2. ASSUME NEW n \in Nat, n \in T PROVE n + 1 \in T
  <2>1. PICK f : Upto(n, f)
    BY <1>2
  <2> DEFINE g == [i \in 0 .. n + 1 |-> IF i = n + 1 THEN next(f[n], n + 1) ELSE f[i]]
  <2>2. \A i \in 0 .. n : g[i] = f[i]
    OBVIOUS
  <2>3. g[n + 1] = next(g[n], n + 1)
    BY <2>2
  <2>4. \A i \in 1 .. n : g[i] = next(g[i - 1], i)
    BY <2>1, <2>2
  <2>5. g[0] = zero
    BY <2>1, <2>2
  <2>6. \A i \in 0 .. n + 1 : g[i] = IF i = 0 THEN zero ELSE next(g[i - 1], i)
    <3>1. \A i \in 0 .. n + 1 : i = 0 \/ i = n + 1 \/ i \in 1 .. n
      OBVIOUS
    <3> HIDE DEF g
    <3> QED
      BY <2>3, <2>4, <2>5, <3>1
  <2>7. Upto(n + 1, g)
    BY <2>6
  <2> HIDE DEF Upto, g
  <2> QED
    BY <2>7
<1> HIDE DEF T
<1>3. c.events \in T
  BY <1>1, <1>2, NumberInduction
<1> QED
  BY <1>0, <1>3 DEF T

\* The i-th entry of a table, made of the one before and an event.
TickedOn(f, i, e) ==
    f[i].events = Append(f[i - 1].events, e) /\ f[i].draw = f[i - 1].draw + Draws(e)

\* It grows by one event per entry.
LEMMA TicksUnfold ==
    ASSUME NEW tick, NEW seq, NEW c, c.events \in Nat, NEW f, IsTicks(tick, seq, c, f)
    PROVE  /\ f[0].events = <<>> /\ f[0].draw = 1
           /\ \A i \in 1 .. c.events : TickedOn(f, i, Emit(tick, seq, f[i - 1].draw, seq + i, c))
<1> DEFINE and(so, e) == [events |-> Append(so.events, e),
                          draw |-> so.draw + (IF e.type = "growth" THEN 2 ELSE 3)]
<1>1. f[0] = [events |-> <<>>, draw |-> 1]
  <2>1. 0 \in 0 .. c.events
    OBVIOUS
  <2> QED
    BY <2>1 DEF IsTicks
<1>2. ASSUME NEW i \in 1 .. c.events
      PROVE  f[i] = and(f[i - 1], Emit(tick, seq, f[i - 1].draw, seq + i, c))
  <2>1. i \in 0 .. c.events /\ i # 0
    OBVIOUS
  <2>2. f[i] = The({and(so, Emit(tick, seq, so.draw, seq + i, c)) : so \in {f[i - 1]}})
    BY <2>1 DEF IsTicks
  <2>3. {and(so, Emit(tick, seq, so.draw, seq + i, c)) : so \in {f[i - 1]}} =
           {and(f[i - 1], Emit(tick, seq, f[i - 1].draw, seq + i, c))}
    OBVIOUS
  <2> HIDE DEF and
  <2> QED
    BY <2>2, <2>3, The1
<1>3. f[0].events = <<>> /\ f[0].draw = 1
  BY <1>1
<1>4. ASSUME NEW i \in 1 .. c.events
      PROVE  TickedOn(f, i, Emit(tick, seq, f[i - 1].draw, seq + i, c))
  <2> DEFINE e == Emit(tick, seq, f[i - 1].draw, seq + i, c)
  <2>1. f[i] = and(f[i - 1], e)
    BY <1>2
  <2> HIDE DEF e
  <2>2. TickedOn(f, i, e)
    BY <2>1 DEF Draws, TickedOn
  <2> QED
    BY <2>2 DEF e
<1> QED
  BY <1>3, <1>4

\* The first i entries of a table, and of two tables of the same tick.
TicksOK(seq, f, i) ==
    /\ f[i].events \in Seq(Envelopes) /\ Len(f[i].events) = i
    /\ f[i].draw \in Nat \ {0} /\ f[i].draw <= 3 * i + 1
    /\ \A j \in 1 .. i : LET e == f[i].events[j]
                         IN  Kind(e) /\ e.id = <<"event", seq + j>> /\ e.attempt = 1

TicksAlike(f, g, i) ==
    /\ f[i].draw = g[i].draw
    /\ \A j \in 1 .. i : Effect(f[i].events[j]) = Effect(g[i].events[j])

\* The next event is well formed too, and there were draws left for it.
LEMMA TicksGrow ==
    ASSUME NEW tick \in 0 .. TickBound - 1, NEW seq \in Nat, NEW c \in Controls,
           NEW f, IsTicks(tick, seq, c, f), NEW i \in 1 .. c.events, TicksOK(seq, f, i - 1)
    PROVE  TicksOK(seq, f, i)
<1> DEFINE k == f[i - 1].draw
           e == Emit(tick, seq, k, seq + i, c)
           old == f[i - 1].events
<1>1. c.events \in Nat
  BY ControlFacts
<1>2. TickedOn(f, i, e)
  BY <1>1, TicksUnfold
<1>3. k \in Nat \ {0} /\ k <= 3 * (i - 1) + 1 /\ k + 2 <= 3 * c.events /\ seq + i \in Nat
  <2>1. k \in Nat \ {0} /\ k <= 3 * (i - 1) + 1
    BY Zenon DEF TicksOK
  <2> HIDE DEF k
  <2> QED
    BY <1>1, <2>1
<1>4. e \in Envelopes /\ Kind(e) /\ e.id = <<"event", seq + i>> /\ e.attempt = 1
  BY <1>3, EmitOne
<1>5. old \in Seq(Envelopes) /\ Len(old) = i - 1
  BY DEF TicksOK
<1> HIDE DEF e
<1>6. f[i].events = Append(old, e) /\ f[i].draw = k + Draws(e)
  BY <1>2 DEF TickedOn
<1>7. f[i].draw \in Nat \ {0} /\ f[i].draw <= 3 * i + 1
  <2>1. Draws(e) = 2 \/ Draws(e) = 3
    BY DEF Draws
  <2>2. f[i].draw = k + 2 \/ f[i].draw = k + 3
    BY <1>6, <2>1
  <2> HIDE DEF k
  <2> QED
    BY <1>1, <1>3, <2>2
<1>8. \A j \in 1 .. i - 1 : LET x == old[j]
                            IN  Kind(x) /\ x.id = <<"event", seq + j>> /\ x.attempt = 1
  BY DEF TicksOK
<1> HIDE DEF old
<1>9. /\ f[i].events \in Seq(Envelopes) /\ Len(f[i].events) = i
      /\ \A j \in 1 .. i - 1 : f[i].events[j] = old[j]
      /\ f[i].events[i] = e
  BY <1>4, <1>5, <1>6
<1>10. \A j \in 1 .. i : j = i \/ j \in 1 .. i - 1
  BY <1>1
<1> QED
  BY <1>4, <1>7, <1>8, <1>9, <1>10 DEF TicksOK

\* Events drawn at the same places have the same effect, and the next are drawn at the
\* same place.
LEMMA TicksStayAlike ==
    ASSUME NEW tick \in 0 .. TickBound - 1, NEW c \in Controls, NEW seq \in Nat, NEW seq2 \in Nat,
           NEW f, IsTicks(tick, seq, c, f), NEW g, IsTicks(tick, seq2, c, g),
           NEW i \in 1 .. c.events, TicksOK(seq, f, i - 1), TicksOK(seq2, g, i - 1),
           TicksAlike(f, g, i - 1)
    PROVE  TicksAlike(f, g, i)
<1> DEFINE k == f[i - 1].draw
           d == Emit(tick, seq, k, seq + i, c)
           e == Emit(tick, seq2, k, seq2 + i, c)
<1>1. c.events \in Nat
  BY ControlFacts
<1>2. g[i - 1].draw = k
  BY DEF TicksAlike
<1>3. TickedOn(f, i, d) /\ TickedOn(g, i, Emit(tick, seq2, g[i - 1].draw, seq2 + i, c))
  BY <1>1, TicksUnfold
<1>4. k \in Nat \ {0} /\ k + 2 <= 3 * c.events /\ seq + i \in Nat
  <2>1. k \in Nat \ {0} /\ k <= 3 * (i - 1) + 1
    BY Zenon DEF TicksOK
  <2> HIDE DEF k
  <2> QED
    BY <1>1, <2>1
<1>5. Effect(d) = Effect(e)
  <2>1. \A s2, n2 : Effect(d) = Effect(Emit(tick, s2, k, n2, c))
    <3> HIDE DEF k
    <3> QED
      BY <1>4, EmitOne
  <2> QED
    BY <2>1
<1>11. d \in Envelopes /\ e \in Envelopes
  <2>1. seq2 + i \in Nat
    BY <1>1
  <2> HIDE DEF k
  <2> QED
    BY <1>4, <2>1, EmitOne
<1>6. Draws(d) = Draws(e)
  BY <1>5 DEF Effect, Draws
<1>7. /\ f[i - 1].events \in Seq(Envelopes) /\ Len(f[i - 1].events) = i - 1
      /\ g[i - 1].events \in Seq(Envelopes) /\ Len(g[i - 1].events) = i - 1
  BY DEF TicksOK
<1> HIDE DEF d, e
<1>8. /\ f[i].events = Append(f[i - 1].events, d) /\ g[i].events = Append(g[i - 1].events, e)
      /\ f[i].draw = g[i].draw
  BY <1>2, <1>3, <1>6 DEF TickedOn, e
<1>9. /\ \A j \in 1 .. i - 1 : /\ f[i].events[j] = f[i - 1].events[j]
                               /\ g[i].events[j] = g[i - 1].events[j]
      /\ f[i].events[i] = d /\ g[i].events[i] = e
  <2>1. \A q \in Seq(Envelopes), x \in Envelopes :
           Len(q) = i - 1 => (\A j \in 1 .. i - 1 : Append(q, x)[j] = q[j]) /\ Append(q, x)[i] = x
    BY <1>1
  <2>2. /\ \A j \in 1 .. i - 1 : Append(f[i - 1].events, d)[j] = f[i - 1].events[j]
        /\ Append(f[i - 1].events, d)[i] = d
    BY <1>7, <1>11, <2>1
  <2>3. /\ \A j \in 1 .. i - 1 : Append(g[i - 1].events, e)[j] = g[i - 1].events[j]
        /\ Append(g[i - 1].events, e)[i] = e
    BY <1>7, <1>11, <2>1
  <2> QED
    BY <1>8, <2>2, <2>3, Zenon
<1>10. \A j \in 1 .. i : j = i \/ j \in 1 .. i - 1
  BY <1>1
<1> QED
  BY <1>5, <1>8, <1>9, <1>10 DEF TicksAlike

\* The events of a tick: as many as the controls say, numbered on, and the same for
\* every numbering.
LEMMA TickFacts ==
    ASSUME NEW tick \in 0 .. TickBound - 1, NEW c \in Controls, NEW seq \in Nat, NEW seq2 \in Nat
    PROVE  LET E == Tick(tick, seq, c)
               F == Tick(tick, seq2, c)
           IN  /\ E \in Seq(Envelopes) /\ Len(E) = c.events
               /\ \A j \in 1 .. c.events :
                     /\ Kind(E[j]) /\ E[j].id = <<"event", seq + j>> /\ E[j].attempt = 1
                     /\ Effect(E[j]) = Effect(F[j])
<1> DEFINE f == CHOOSE h : IsTicks(tick, seq, c, h)
           g == CHOOSE h : IsTicks(tick, seq2, c, h)
<1>1. c.events \in Nat
  BY ControlFacts
<1>2. IsTicks(tick, seq, c, f) /\ IsTicks(tick, seq2, c, g)
  BY <1>1, TicksExist
<1>3. Tick(tick, seq, c) = f[c.events].events /\ Tick(tick, seq2, c) = g[c.events].events
  BY TickIsTable
<1> HIDE DEF f, g
<1> DEFINE Both(i) == TicksOK(seq, f, i) /\ TicksOK(seq2, g, i) /\ TicksAlike(f, g, i)
           T == {i \in Nat : i <= c.events => Both(i)}
<1>4. 0 \in T
  <2>1. f[0].events = <<>> /\ f[0].draw = 1 /\ g[0].events = <<>> /\ g[0].draw = 1
    BY <1>1, <1>2, TicksUnfold
  <2>2. <<>> \in Seq(Envelopes) /\ Len(<<>>) = 0 /\ 1 .. 0 = {}
    OBVIOUS
  <2>3. 1 \in Nat \ {0} /\ 1 <= 3 * 0 + 1
    OBVIOUS
  <2>4. TicksOK(seq, f, 0) /\ TicksOK(seq2, g, 0) /\ TicksAlike(f, g, 0)
    BY <2>1, <2>2, <2>3 DEF TicksOK, TicksAlike
  <2> QED
    BY <2>4
<1>5. ASSUME NEW n \in Nat, n \in T PROVE n + 1 \in T
  <2> SUFFICES ASSUME n + 1 <= c.events PROVE Both(n + 1)
    OBVIOUS
  <2>1. n + 1 \in 1 .. c.events /\ (n + 1) - 1 = n
    BY <1>1
  <2>2. Both(n)
    BY <1>1, <1>5
  <2> QED
    BY <1>2, <2>1, <2>2, TicksGrow, TicksStayAlike
<1> HIDE DEF T, Both
<1>6. Both(c.events)
  <2>1. c.events \in T
    BY <1>1, <1>4, <1>5, NumberInduction
  <2> QED
    BY <1>1, <2>1 DEF T
<1> QED
  BY <1>3, <1>6 DEF Both, TicksOK, TicksAlike

-----------------------------------------------------------------------------
(* Redeliveries.                                                           *)

\* An event as it is delivered, the first time or again.
Copies(e) == {e, [e EXCEPT !.attempt = @ + 1]}

\* What follows an event.
Again(e, n, i) == IF n > 0 /\ i % n = 0 THEN <<[e EXCEPT !.attempt = @ + 1]>> ELSE <<>>

IsRedelivery(E, n, f) ==
    f = [i \in 0 .. Len(E) |->
            IF i = 0 THEN <<>>
            ELSE f[i - 1] \o <<E[i]>>
                 \o (IF n > 0 /\ i % n = 0 THEN <<[E[i] EXCEPT !.attempt = @ + 1]>> ELSE <<>>)]

\* Redelivered is the last entry of such a table.
LEMMA RedeliveredIsTable ==
    ASSUME NEW E, NEW n
    PROVE  Redelivered(E, n) = (CHOOSE f : IsRedelivery(E, n, f))[Len(E)]
BY DEF Redelivered, IsRedelivery

\* There is such a table.
LEMMA RedeliveryExists ==
    ASSUME NEW E, NEW n, Len(E) \in Nat
    PROVE  \E f : IsRedelivery(E, n, f)
<1> DEFINE next(q, i) == q \o <<E[i]>> \o Again(E[i], n, i)
           Upto(m, f) == f = [i \in 0 .. m |-> IF i = 0 THEN <<>> ELSE next(f[i - 1], i)]
           T == {m \in Nat : \E f : Upto(m, f)}
<1>0. \A f : IsRedelivery(E, n, f) <=> Upto(Len(E), f)
  BY DEF IsRedelivery, Again
<1> HIDE DEF next
<1>1. 0 \in T
  <2>1. Upto(0, [i \in 0 .. 0 |-> <<>>])
    OBVIOUS
  <2> QED
    BY <2>1
<1>2. ASSUME NEW m \in Nat, m \in T PROVE m + 1 \in T
  <2>1. PICK f : Upto(m, f)
    BY <1>2
  <2> DEFINE g == [i \in 0 .. m + 1 |-> IF i = m + 1 THEN next(f[m], m + 1) ELSE f[i]]
  <2>2. \A i \in 0 .. m : g[i] = f[i]
    OBVIOUS
  <2>3. g[m + 1] = next(g[m], m + 1)
    BY <2>2
  <2>4. \A i \in 1 .. m : g[i] = next(g[i - 1], i)
    BY <2>1, <2>2
  <2>5. g[0] = <<>>
    BY <2>1, <2>2
  <2>6. \A i \in 0 .. m + 1 : g[i] = IF i = 0 THEN <<>> ELSE next(g[i - 1], i)
    <3>1. \A i \in 0 .. m + 1 : i = 0 \/ i = m + 1 \/ i \in 1 .. m
      OBVIOUS
    <3> HIDE DEF g
    <3> QED
      BY <2>3, <2>4, <2>5, <3>1
  <2>7. Upto(m + 1, g)
    BY <2>6
  <2> HIDE DEF Upto, g
  <2> QED
    BY <2>7
<1> HIDE DEF T
<1>3. Len(E) \in T
  BY <1>1, <1>2, NumberInduction
<1> QED
  BY <1>0, <1>3 DEF T

\* It grows by an event and its redelivery, if there is one.
LEMMA RedeliveryUnfolds ==
    ASSUME NEW E, NEW n, Len(E) \in Nat, NEW f, IsRedelivery(E, n, f)
    PROVE  /\ f[0] = <<>>
           /\ \A i \in 1 .. Len(E) : f[i] = f[i - 1] \o <<E[i]>> \o Again(E[i], n, i)
<1>1. 0 \in 0 .. Len(E) /\ \A i \in 1 .. Len(E) : i \in 0 .. Len(E) /\ i # 0
  OBVIOUS
<1> QED
  BY <1>1 DEF IsRedelivery, Again

\* A redelivery is an envelope with the identity and the effect of the first delivery.
LEMMA CopiesAreEnvelopes ==
    ASSUME NEW e \in Envelopes, NEW d \in Copies(e)
    PROVE  /\ d \in Envelopes /\ d.type = e.type /\ d.id = e.id /\ d.entity = e.entity
           /\ d.amount = e.amount
<1>1. CASE d = e
  BY <1>1
<1>2. CASE d = [e EXCEPT !.attempt = e.attempt + 1]
  <2>1. e.attempt + 1 \in Nat \ {0}
    BY DEF Envelopes
  <2>2. /\ d \in [id : {"event", "control"} \X Nat, type : Kinds \cup {"control_changed"},
                  schema : {1}, entity : Int, seq : Nat, at : Nat, attempt : Nat \ {0},
                  amount : Nat, revision : Nat]
        /\ d.type = e.type /\ d.id = e.id /\ d.entity = e.entity /\ d.amount = e.amount
    BY <1>2, <2>1 DEF Envelopes
  <2> QED
    BY <2>2 DEF Envelopes, Kind
<1> QED
  BY <1>1, <1>2 DEF Copies

\* Two sequences of as many events are redelivered alike: each record comes of the
\* event in the same place.
CopiedAlike(E, F, i, q, r) ==
    /\ q \in Seq(Envelopes) /\ r \in Seq(Envelopes) /\ Len(q) = Len(r)
    /\ \A j \in 1 .. Len(q) : \E m \in 1 .. i : q[j] \in Copies(E[m]) /\ r[j] \in Copies(F[m])

\* Adding a delivery of the same event to both sides keeps them alike.
LEMMA CopiedOne ==
    ASSUME NEW E \in Seq(Envelopes), NEW F \in Seq(Envelopes), Len(E) = Len(F),
           NEW i \in 1 .. Len(E), NEW q, NEW r, CopiedAlike(E, F, i, q, r),
           NEW d \in Copies(E[i]), NEW e \in Copies(F[i])
    PROVE  CopiedAlike(E, F, i, q \o <<d>>, r \o <<e>>)
<1>1. E[i] \in Envelopes /\ F[i] \in Envelopes /\ i \in 1 .. i
  OBVIOUS
<1>2. d \in Envelopes /\ e \in Envelopes
  BY <1>1, CopiesAreEnvelopes
<1>3. q \in Seq(Envelopes) /\ r \in Seq(Envelopes) /\ Len(q) = Len(r) /\ Len(q) \in Nat
  BY DEF CopiedAlike
<1>4. \A p \in Seq(Envelopes), x \in Envelopes :
         /\ p \o <<x>> \in Seq(Envelopes) /\ Len(p \o <<x>>) = Len(p) + 1
         /\ \A j \in 1 .. Len(p) : (p \o <<x>>)[j] = p[j]
         /\ (p \o <<x>>)[Len(p) + 1] = x
  OBVIOUS
<1> DEFINE q2 == q \o <<d>>
           r2 == r \o <<e>>
<1>5. /\ q2 \in Seq(Envelopes) /\ Len(q2) = Len(q) + 1
      /\ \A j \in 1 .. Len(q) : q2[j] = q[j]
      /\ q2[Len(q) + 1] = d
  BY <1>2, <1>3, <1>4
<1>6. /\ r2 \in Seq(Envelopes) /\ Len(r2) = Len(q) + 1
      /\ \A j \in 1 .. Len(q) : r2[j] = r[j]
      /\ r2[Len(q) + 1] = e
  BY <1>2, <1>3, <1>4
<1> HIDE DEF q2, r2
<1>7. ASSUME NEW j \in 1 .. Len(q2)
      PROVE  \E m \in 1 .. i : q2[j] \in Copies(E[m]) /\ r2[j] \in Copies(F[m])
  <2>1. CASE j \in 1 .. Len(q)
    BY <1>5, <1>6, <2>1, Zenon DEF CopiedAlike
  <2>2. CASE j = Len(q) + 1
    BY <1>1, <1>5, <1>6, <2>2
  <2> QED
    BY <1>3, <1>5, <2>1, <2>2
<1> QED
  BY <1>5, <1>6, <1>7 DEF CopiedAlike, q2, r2

\* Two batches of one length are redelivered at the same places.
LEMMA RedeliveredAlike ==
    ASSUME NEW E \in Seq(Envelopes), NEW F \in Seq(Envelopes), Len(E) = Len(F), NEW n \in Nat
    PROVE  CopiedAlike(E, F, Len(E), Redelivered(E, n), Redelivered(F, n))
<1> DEFINE f == CHOOSE h : IsRedelivery(E, n, h)
           g == CHOOSE h : IsRedelivery(F, n, h)
<1>1. Len(E) \in Nat
  OBVIOUS
<1>2. IsRedelivery(E, n, f) /\ IsRedelivery(F, n, g)
  BY <1>1, RedeliveryExists
<1>3. Redelivered(E, n) = f[Len(E)] /\ Redelivered(F, n) = g[Len(E)]
  BY RedeliveredIsTable
<1> HIDE DEF f, g
<1> DEFINE T == {i \in Nat : i <= Len(E) => CopiedAlike(E, F, i, f[i], g[i])}
<1>4. 0 \in T
  <2>1. f[0] = <<>> /\ g[0] = <<>>
    BY <1>1, <1>2, RedeliveryUnfolds
  <2>2. CopiedAlike(E, F, 0, <<>>, <<>>)
    BY DEF CopiedAlike
  <2> QED
    BY <2>1, <2>2
<1>5. ASSUME NEW m \in Nat, m \in T PROVE m + 1 \in T
  <2> DEFINE i == m + 1
  <2> SUFFICES ASSUME i <= Len(E) PROVE CopiedAlike(E, F, i, f[i], g[i])
    OBVIOUS
  <2>1. i \in 1 .. Len(E) /\ i - 1 = m /\ m <= Len(E)
    BY <1>1
  <2>2. CopiedAlike(E, F, m, f[m], g[m])
    BY <1>5, <2>1
  <2>3. CopiedAlike(E, F, i, f[m], g[m])
    <3>1. \A x \in 1 .. m : x \in 1 .. i
      OBVIOUS
    <3> HIDE DEF i
    <3> QED
      BY <2>2, <3>1, Zenon DEF CopiedAlike
  <2>4. /\ f[i] = f[m] \o <<E[i]>> \o Again(E[i], n, i)
        /\ g[i] = g[m] \o <<F[i]>> \o Again(F[i], n, i)
    <3>1. f[i] = f[i - 1] \o <<E[i]>> \o Again(E[i], n, i)
      BY <1>1, <1>2, <2>1, RedeliveryUnfolds
    <3>2. g[i] = g[i - 1] \o <<F[i]>> \o Again(F[i], n, i)
      <4>1. Len(F) \in Nat /\ i \in 1 .. Len(F)
        BY <1>1, <2>1
      <4> HIDE DEF i
      <4> QED
        BY <1>2, <4>1, RedeliveryUnfolds
    <3> HIDE DEF i
    <3> QED
      BY <2>1, <3>1, <3>2
  <2> HIDE DEF i
  <2>5. CopiedAlike(E, F, i, f[m] \o <<E[i]>>, g[m] \o <<F[i]>>)
    BY <2>1, <2>3, CopiedOne DEF Copies
  <2>6. CASE n > 0 /\ i % n = 0
    <3> DEFINE d == [E[i] EXCEPT !.attempt = @ + 1]
               e == [F[i] EXCEPT !.attempt = @ + 1]
    <3>1. d \in Copies(E[i]) /\ e \in Copies(F[i])
      BY DEF Copies
    <3>2. /\ f[i] = (f[m] \o <<E[i]>>) \o <<d>>
          /\ g[i] = (g[m] \o <<F[i]>>) \o <<e>>
      BY <2>4, <2>6 DEF Again
    <3> HIDE DEF d, e
    <3> QED
      BY <2>1, <2>5, <3>1, <3>2, CopiedOne
  <2>7. CASE ~(n > 0 /\ i % n = 0)
    <3>1. \A p \in Seq(Envelopes) : p \o <<>> = p
      OBVIOUS
    <3>2. /\ f[i] = (f[m] \o <<E[i]>>) \o <<>>
          /\ g[i] = (g[m] \o <<F[i]>>) \o <<>>
      BY <2>4, <2>7 DEF Again
    <3>3. f[m] \o <<E[i]>> \in Seq(Envelopes) /\ g[m] \o <<F[i]>> \in Seq(Envelopes)
      BY <2>5, Zenon DEF CopiedAlike
    <3> QED
      BY <2>5, <3>1, <3>2, <3>3
  <2> QED
    BY <2>6, <2>7
<1> HIDE DEF T
<1>6. Len(E) \in T
  BY <1>1, <1>4, <1>5, NumberInduction
<1> QED
  BY <1>1, <1>3, <1>6 DEF T

-----------------------------------------------------------------------------
(* Playing a log from the beginning.                                       *)

Gardens(n) == [0 .. n - 1 -> Seq(Kinds \X Nat)]
KeySet == {"event", "control", "control_changed"} \X Nat

\* What the processor makes of a garden and its keys.
LEMMA ProcessFacts ==
    ASSUME NEW e \in Envelopes, NEW s
    PROVE  /\ Key(e) \in s.keys => Process(s, e) = s
           /\ Key(e) \notin s.keys =>
                 Process(s, e) = [s EXCEPT !.keys = s.keys \cup {Key(e)},
                                           !.garden = Apply(s.garden, e)]
<1>1. WellFormed(e)
  BY EnvelopesWellFormed
<1>2. CASE Key(e) \in s.keys
  BY <1>2 DEF Process
<1>3. CASE Key(e) \notin s.keys
  BY <1>1, <1>3 DEF Process
<1> QED
  BY <1>2, <1>3

\* The key of an event is its identity, that of a control change its revision.
LEMMA KeysOfEnvelopes ==
    ASSUME NEW e \in Envelopes
    PROVE  /\ Key(e) \in KeySet
           /\ Kind(e) => Key(e) = e.id
           /\ ~Kind(e) => Key(e) = <<"control_changed", e.revision>>
<1>1. e.id \in {"event", "control"} \X Nat /\ e.revision \in Nat
  BY DEF Envelopes
<1>2. CASE Kind(e)
  BY <1>1, <1>2 DEF Kind, Key, KeySet
<1>3. CASE ~Kind(e)
  <2>1. e.type = "control_changed"
    BY <1>3 DEF Kind, Envelopes
  <2>2. Key(e) = <<"control_changed", e.revision>>
    BY <1>3, <2>1 DEF Kind, Key
  <2> QED
    BY <1>1, <1>3, <2>2 DEF KeySet
<1> QED
  BY <1>2, <1>3

\* Applying an event gives a garden of the same size.
LEMMA AppliedIsGarden ==
    ASSUME NEW n \in Nat, NEW g \in Gardens(n), NEW e \in Envelopes
    PROVE  Apply(g, e) \in Gardens(n)
<1>1. CASE ~(Kind(e) /\ e.entity \in DOMAIN g)
  BY <1>1 DEF Apply, Kind
<1>2. CASE Kind(e) /\ e.entity \in DOMAIN g
  <2>1. <<e.type, e.amount>> \in Kinds \X Nat
    BY <1>2 DEF Kind, Envelopes
  <2>2. g[e.entity] \in Seq(Kinds \X Nat)
    BY <1>2 DEF Gardens
  <2>3. Append(g[e.entity], <<e.type, e.amount>>) \in Seq(Kinds \X Nat)
    BY <2>1, <2>2
  <2> QED
    BY <1>2, <2>3 DEF Apply, Gardens, Kind
<1> QED
  BY <1>1, <1>2

Blank(n) == [garden |-> EmptyGarden(n), keys |-> {}]

IsPlay(n, log, p) ==
    p = [i \in 0 .. Len(log) |->
            IF i = 0 THEN Blank(n) ELSE Process(p[i - 1], FromCore(log[i]))]

\* The garden and the keys after each record of a log.
Play(n, log) == CHOOSE p : IsPlay(n, log, p)

\* A log of any length can be played.
LEMMA PlayExists ==
    ASSUME NEW n, NEW log, Len(log) \in Nat
    PROVE  IsPlay(n, log, Play(n, log))
<1> DEFINE next(v, i) == Process(v, FromCore(log[i]))
           Upto(m, f) == f = [i \in 0 .. m |-> IF i = 0 THEN Blank(n) ELSE next(f[i - 1], i)]
           T == {m \in Nat : \E f : Upto(m, f)}
<1>0. \A f : IsPlay(n, log, f) <=> Upto(Len(log), f)
  BY DEF IsPlay
<1> HIDE DEF next
<1>1. 0 \in T
  <2>1. Upto(0, [i \in 0 .. 0 |-> Blank(n)])
    OBVIOUS
  <2> QED
    BY <2>1
<1>2. ASSUME NEW m \in Nat, m \in T PROVE m + 1 \in T
  <2>1. PICK f : Upto(m, f)
    BY <1>2
  <2> DEFINE g == [i \in 0 .. m + 1 |-> IF i = m + 1 THEN next(f[m], m + 1) ELSE f[i]]
  <2>2. \A i \in 0 .. m : g[i] = f[i]
    OBVIOUS
  <2>3. g[m + 1] = next(g[m], m + 1)
    BY <2>2
  <2>4. \A i \in 1 .. m : g[i] = next(g[i - 1], i)
    BY <2>1, <2>2
  <2>5. g[0] = Blank(n)
    BY <2>1, <2>2
  <2>6. \A i \in 0 .. m + 1 : g[i] = IF i = 0 THEN Blank(n) ELSE next(g[i - 1], i)
    <3>1. \A i \in 0 .. m + 1 : i = 0 \/ i = m + 1 \/ i \in 1 .. m
      OBVIOUS
    <3> HIDE DEF g
    <3> QED
      BY <2>3, <2>4, <2>5, <3>1
  <2>7. Upto(m + 1, g)
    BY <2>6
  <2> HIDE DEF Upto, g
  <2> QED
    BY <2>7
<1> HIDE DEF T
<1>3. Len(log) \in T
  BY <1>1, <1>2, NumberInduction
<1>4. \E f : IsPlay(n, log, f)
  BY <1>0, <1>3 DEF T
<1> QED
  BY <1>4 DEF Play

\* Playing goes record by record.
LEMMA PlayUnfolds ==
    ASSUME NEW n, NEW log, Len(log) \in Nat
    PROVE  /\ Play(n, log)[0] = Blank(n)
           /\ \A i \in 1 .. Len(log) :
                 Play(n, log)[i] = Process(Play(n, log)[i - 1], FromCore(log[i]))
<1>1. IsPlay(n, log, Play(n, log))
  BY PlayExists
<1>2. 0 \in 0 .. Len(log) /\ \A i \in 1 .. Len(log) : i \in 0 .. Len(log) /\ i # 0
  OBVIOUS
<1> QED
  BY <1>1, <1>2 DEF IsPlay

\* A longer log is played alike as far as the shorter one goes.
LEMMA PlayAgrees ==
    ASSUME NEW n, NEW A, NEW B, Len(A) \in Nat, Len(B) \in Nat, Len(A) <= Len(B),
           \A i \in 1 .. Len(A) : B[i] = A[i]
    PROVE  \A k \in 0 .. Len(A) : Play(n, B)[k] = Play(n, A)[k]
<1> DEFINE T == {k \in Nat : k <= Len(A) => Play(n, B)[k] = Play(n, A)[k]}
<1>1. 0 \in T
  BY PlayUnfolds
<1>2. ASSUME NEW k \in Nat, k \in T PROVE k + 1 \in T
  <2> DEFINE i == k + 1
  <2> SUFFICES ASSUME i <= Len(A) PROVE Play(n, B)[i] = Play(n, A)[i]
    OBVIOUS
  <2>1. i \in 1 .. Len(A) /\ i \in 1 .. Len(B) /\ i - 1 = k /\ k <= Len(A)
    OBVIOUS
  <2> HIDE DEF i
  <2>2. Play(n, B)[i] = Process(Play(n, B)[i - 1], FromCore(B[i]))
    BY <2>1, PlayUnfolds
  <2>3. Play(n, A)[i] = Process(Play(n, A)[i - 1], FromCore(A[i]))
    BY <2>1, PlayUnfolds
  <2>4. Play(n, B)[k] = Play(n, A)[k] /\ A[i] = B[i]
    BY <1>2, <2>1
  <2> QED
    BY <2>1, <2>2, <2>3, <2>4
<1> HIDE DEF T
<1>3. \A k \in Nat : k \in T
  BY <1>1, <1>2, NumberInduction
<1> QED
  BY <1>3 DEF T

\* The values a play goes through, and where its keys come from.
LEMMA PlayTypes ==
    ASSUME NEW n \in Nat, NEW log \in Seq(Records)
    PROVE  \A k \in 0 .. Len(log) :
              /\ Play(n, log)[k] \in [garden : Gardens(n), keys : SUBSET KeySet]
              /\ \A x \in Play(n, log)[k].keys : \E i \in 1 .. k : x = Key(FromCore(log[i]))
<1> DEFINE P == Play(n, log)
           Fine(k) == /\ P[k] \in [garden : Gardens(n), keys : SUBSET KeySet]
                      /\ \A x \in P[k].keys : \E i \in 1 .. k : x = Key(FromCore(log[i]))
           T == {k \in Nat : k <= Len(log) => Fine(k)}
<1>0. Len(log) \in Nat
  OBVIOUS
<1>1. 0 \in T
  <2>1. EmptyGarden(n) \in Gardens(n)
    BY DEF EmptyGarden, Gardens
  <2>2. P[0] = Blank(n)
    BY <1>0, PlayUnfolds
  <2> HIDE DEF P
  <2> QED
    BY <2>1, <2>2 DEF Blank
<1>2. ASSUME NEW m \in Nat, m \in T PROVE m + 1 \in T
  <2> DEFINE k == m + 1
             e == FromCore(log[k])
  <2> SUFFICES ASSUME k <= Len(log) PROVE Fine(k)
    OBVIOUS
  <2>1. k \in 1 .. Len(log) /\ k - 1 = m /\ m <= Len(log) /\ log[k] \in Records
    BY <1>0
  <2>2. P[k] = Process(P[m], e)
    BY <1>0, <2>1, PlayUnfolds
  <2>3. e \in Envelopes
    BY <2>1, ReadBack
  <2>4. Fine(m)
    BY <1>2, <2>1
  <2>5. Key(e) \in KeySet /\ Apply(P[m].garden, e) \in Gardens(n)
    BY <2>3, <2>4, KeysOfEnvelopes, AppliedIsGarden
  <2>6. \A i \in 1 .. m : i \in 1 .. k
    OBVIOUS
  <2>7. k \in 1 .. k
    OBVIOUS
  <2> HIDE DEF P, e, k
  <2>8. CASE Key(e) \in P[m].keys
    <3>1. P[k] = P[m]
      BY <2>2, <2>3, <2>8, ProcessFacts
    <3> QED
      BY <2>4, <2>6, <3>1
  <2>9. CASE Key(e) \notin P[m].keys
    <3>1. P[k] = [P[m] EXCEPT !.keys = P[m].keys \cup {Key(e)}, !.garden = Apply(P[m].garden, e)]
      BY <2>2, <2>3, <2>9, ProcessFacts
    <3>2. P[k] \in [garden : Gardens(n), keys : SUBSET KeySet] /\ P[k].keys = P[m].keys \cup {Key(e)}
      BY <2>4, <2>5, <3>1
    <3>3. \A x \in P[k].keys : \E i \in 1 .. k : x = Key(FromCore(log[i]))
      BY <2>4, <2>6, <2>7, <3>2 DEF e
    <3> QED
      BY <3>2, <3>3
  <2> QED
    BY <2>8, <2>9
<1> HIDE DEF T, Fine
<1>3. \A k \in Nat : k \in T
  BY <1>1, <1>2, NumberInduction
<1>4. \A k \in 0 .. Len(log) : Fine(k)
  BY <1>0, <1>3 DEF T
<1> QED
  BY <1>4 DEF Fine

-----------------------------------------------------------------------------
(* A simulation.                                                           *)

Staged == [revision : Nat, controls : Controls]

SimType ==
    [tick : Nat, controls : Controls, revision : Nat, pending : Seq(Staged), every : Nat, seq : Nat,
     log : Seq(Records), read : Nat, garden : Gardens(Organisms), keys : SUBSET KeySet,
     chain : Seq(Records \X Gardens(Organisms))]

\* The events of a log are numbered up to seq.
Numbered(log, seq) ==
    \A i \in 1 .. Len(log) : LET e == FromCore(log[i])
                             IN  Kind(e) => \E j \in 1 .. seq : e.id = <<"event", j>>

\* The chain is as long as what was read, and made of it.
ChainOK(s, k) == Len(s.chain) = k /\ \A i \in 1 .. k : s.chain[i][1] = s.log[i]

\* The garden and the keys are those of the log played that far.
PlayedTo(s, k) ==
    /\ s.garden = Play(Organisms, s.log)[k].garden
    /\ s.keys = Play(Organisms, s.log)[k].keys

\* What holds of every simulation, live or batch.
SimOK(s) ==
    /\ s \in SimType
    /\ s.read <= Len(s.log)
    /\ ChainOK(s, s.read) /\ PlayedTo(s, s.read)
    /\ Numbered(s.log, s.seq)
    /\ \A i \in 1 .. Len(s.pending) : s.pending[i].revision = (s.revision - Len(s.pending)) + i
    /\ s.revision >= Len(s.pending)

\* A new simulation is one.
LEMMA NewOK ==
    ASSUME NEW c \in Controls, NEW every \in Nat
    PROVE  SimOK(New(c, every))
<1> DEFINE s == New(c, every)
<1>0. Organisms \in Nat
  BY BatchAssumption
<1>1. EmptyGarden(Organisms) \in Gardens(Organisms)
  BY <1>0 DEF EmptyGarden, Gardens
<1>2. /\ s.log = <<>> /\ s.read = 0 /\ s.chain = <<>> /\ s.pending = <<>> /\ s.revision = 0
      /\ s.garden = EmptyGarden(Organisms) /\ s.keys = {}
  BY DEF New
<1>3. s \in SimType
  BY <1>1 DEF New, SimType
<1>4. Len(<<>>) = 0 /\ 1 .. 0 = {}
  OBVIOUS
<1>5. Play(Organisms, <<>>)[0] = Blank(Organisms)
  BY <1>4, PlayUnfolds
<1> HIDE DEF s
<1>6. PlayedTo(s, 0)
  BY <1>2, <1>5 DEF PlayedTo, Blank
<1>7. ChainOK(s, 0) /\ Numbered(s.log, s.seq)
  BY <1>2, <1>4 DEF ChainOK, Numbered
<1> QED
  BY <1>2, <1>3, <1>4, <1>6, <1>7 DEF SimOK, s

\* Staging a change numbers it and touches nothing else.
LEMMA SetControlsOK ==
    ASSUME NEW s, SimOK(s), NEW c \in Controls
    PROVE  LET r == SetControls(s, c)
           IN  /\ SimOK(r) /\ r.tick = s.tick /\ r.controls = s.controls /\ r.every = s.every
               /\ r.revision = s.revision + 1 /\ r.log = s.log /\ r.seq = s.seq /\ r.read = s.read
               /\ r.garden = s.garden /\ r.keys = s.keys /\ r.chain = s.chain
               /\ r.pending = Append(s.pending, [revision |-> s.revision + 1, controls |-> c])
<1> DEFINE new == [revision |-> s.revision + 1, controls |-> c]
           r == SetControls(s, c)
<1>1. s \in SimType
  BY DEF SimOK
<1>2. s.revision \in Nat /\ s.pending \in Seq(Staged) /\ Len(s.pending) \in Nat
  BY <1>1 DEF SimType
<1>3. new \in Staged /\ new.revision = s.revision + 1
  BY <1>2 DEF Staged
<1> HIDE DEF new
<1>4. r = [s EXCEPT !.revision = s.revision + 1, !.pending = Append(s.pending, new)]
  BY DEF SetControls, new
<1>5. /\ r.tick = s.tick /\ r.controls = s.controls /\ r.every = s.every
      /\ r.revision = s.revision + 1 /\ r.log = s.log /\ r.seq = s.seq /\ r.read = s.read
      /\ r.garden = s.garden /\ r.keys = s.keys /\ r.chain = s.chain
      /\ r.pending = Append(s.pending, new)
  BY <1>1, <1>4 DEF SimType
<1>6. r \in SimType
  <2>1. Append(s.pending, new) \in Seq(Staged) /\ s.revision + 1 \in Nat
    BY <1>2, <1>3
  <2> QED
    BY <1>1, <1>4, <2>1 DEF SimType
<1> HIDE DEF r
<1>7. /\ Len(r.pending) = Len(s.pending) + 1
      /\ \A i \in 1 .. Len(s.pending) : r.pending[i] = s.pending[i]
      /\ r.pending[Len(s.pending) + 1] = new
  BY <1>2, <1>3, <1>5
<1>8. \A i \in 1 .. Len(r.pending) : r.pending[i].revision = (r.revision - Len(r.pending)) + i
  <2> SUFFICES ASSUME NEW i \in 1 .. Len(r.pending)
               PROVE  r.pending[i].revision = (r.revision - Len(r.pending)) + i
    OBVIOUS
  <2>1. CASE i \in 1 .. Len(s.pending)
    <3>1. s.pending[i].revision = (s.revision - Len(s.pending)) + i
      BY <2>1 DEF SimOK
    <3> QED
      BY <1>2, <1>5, <1>7, <2>1, <3>1
  <2>2. CASE i = Len(s.pending) + 1
    BY <1>2, <1>3, <1>5, <1>7, <2>2
  <2> QED
    BY <1>2, <1>7, <2>1, <2>2
<1>9. r.revision >= Len(r.pending)
  BY <1>2, <1>5, <1>7 DEF SimOK
<1>10. r.read <= Len(r.log) /\ ChainOK(r, r.read) /\ PlayedTo(r, r.read) /\ Numbered(r.log, r.seq)
  BY <1>5 DEF SimOK, ChainOK, PlayedTo
<1>11. SimOK(r)
  BY <1>6, <1>8, <1>9, <1>10 DEF SimOK
<1> QED
  BY <1>5, <1>11 DEF r, new

-----------------------------------------------------------------------------
(* The records of a tick.                                                  *)

\* The controls a tick obeys are ones Validate took.
LEMMA ObeyedIsControls ==
    ASSUME NEW s, SimOK(s)
    PROVE  Obeyed(s) \in Controls
<1>1. s.controls \in Controls /\ s.pending \in Seq(Staged)
  BY DEF SimOK, SimType
<1>2. CASE s.pending = <<>>
  BY <1>1, <1>2 DEF Obeyed
<1>3. CASE s.pending # <<>>
  <2>1. Len(s.pending) \in 1 .. Len(s.pending)
    BY <1>1, <1>3
  <2>2. s.pending[Len(s.pending)] \in Staged
    BY <1>1, <2>1
  <2> QED
    BY <1>3, <2>2 DEF Obeyed, Staged
<1> QED
  BY <1>2, <1>3

\* The control records, and the events, of the next tick.
Announced(s) ==
    [i \in 1 .. Len(s.pending) |-> ControlChanged(s.tick, s.pending[i].revision, s.seq + i)]
Events(s) == Tick(s.tick, s.seq + Len(s.pending), Obeyed(s))

\* A tick's batch: the control changes, then the events with their redeliveries.
LEMMA BatchParts ==
    ASSUME NEW s
    PROVE  Batch(s) = Announced(s) \o Redelivered(Events(s), s.every)
BY DEF Batch, Announced, Events

\* One record per staged change, none of them for an organism.
LEMMA AnnouncedFacts ==
    ASSUME NEW s, SimOK(s)
    PROVE  /\ Announced(s) \in Seq(Envelopes) /\ Len(Announced(s)) = Len(s.pending)
           /\ \A i \in 1 .. Len(s.pending) : ~Kind(Announced(s)[i])
<1>1. s.pending \in Seq(Staged) /\ s.seq \in Nat /\ s.tick \in Nat /\ Len(s.pending) \in Nat
  BY DEF SimOK, SimType
<1>2. ASSUME NEW i \in 1 .. Len(s.pending)
      PROVE  Announced(s)[i] \in Envelopes /\ ~Kind(Announced(s)[i])
  <2> DEFINE e == ControlChanged(s.tick, s.pending[i].revision, s.seq + i)
  <2>0. s.pending[i].revision \in Nat
    <3>1. \A q \in Seq(Staged) : \A j \in 1 .. Len(q) : q[j] \in Staged
      OBVIOUS
    <3>2. s.pending[i] \in Staged
      BY <1>1, <3>1
    <3> QED
      BY <3>2 DEF Staged
  <2>1. s.pending[i].revision \in Nat /\ s.seq + i \in Nat /\ NoEntity \in Int
    BY <1>1, <2>0 DEF NoEntity
  <2>2. e.type = "control_changed" /\ ~Kind(e)
    BY DEF ControlChanged, Kind, Kinds
  <2>3. <<"control", s.seq + i>> \in {"event", "control"} \X Nat
    BY <2>1
  <2>4. e \in [id : {"event", "control"} \X Nat, type : Kinds \cup {"control_changed"},
               schema : {1}, entity : Int, seq : Nat, at : Nat, attempt : Nat \ {0},
               amount : Nat, revision : Nat]
    BY <1>1, <2>1, <2>3 DEF ControlChanged
  <2>5. Announced(s)[i] = e
    BY DEF Announced
  <2> HIDE DEF e
  <2> QED
    BY <2>2, <2>4, <2>5 DEF Envelopes
<1>3. Announced(s) \in [1 .. Len(s.pending) -> Envelopes]
  <2>1. Announced(s) = [i \in 1 .. Len(s.pending) |-> Announced(s)[i]]
    BY DEF Announced
  <2> QED
    BY <1>2, <2>1
<1> HIDE DEF Announced
<1> QED
  BY <1>1, <1>2, <1>3

\* The events of a tick, delivered: envelopes numbered after the ones before.
LEMMA EventsFacts ==
    ASSUME NEW s, SimOK(s), s.tick < TickBound
    PROVE  /\ Events(s) \in Seq(Envelopes) /\ Len(Events(s)) = Obeyed(s).events
           /\ \A j \in 1 .. Len(Events(s)) :
                 Kind(Events(s)[j]) /\ Events(s)[j].id = <<"event", s.seq + Len(s.pending) + j>>
           /\ CopiedAlike(Events(s), Events(s), Len(Events(s)), Redelivered(Events(s), s.every),
                          Redelivered(Events(s), s.every))
<1>1. /\ s.tick \in 0 .. TickBound - 1 /\ s.seq + Len(s.pending) \in Nat /\ s.every \in Nat
  BY BatchBoundsAssumption DEF SimOK, SimType
<1>2. Obeyed(s) \in Controls /\ Obeyed(s).events \in Nat
  BY ObeyedIsControls, ControlFacts
<1>3. /\ Events(s) \in Seq(Envelopes) /\ Len(Events(s)) = Obeyed(s).events
      /\ \A j \in 1 .. Obeyed(s).events :
           Kind(Events(s)[j]) /\ Events(s)[j].id = <<"event", s.seq + Len(s.pending) + j>>
  BY <1>1, <1>2, TickFacts DEF Events
<1> HIDE DEF Events
<1> QED
  BY <1>1, <1>3, RedeliveredAlike

\* The entries of two sequences put together.
LEMMA Joined ==
    ASSUME NEW S, NEW p \in Seq(S), NEW q \in Seq(S)
    PROVE  /\ p \o q \in Seq(S) /\ Len(p \o q) = Len(p) + Len(q)
           /\ Len(p) \in Nat /\ Len(q) \in Nat
           /\ \A i \in 1 .. Len(p) + Len(q) :
                 (p \o q)[i] = IF i <= Len(p) THEN p[i] ELSE q[i - Len(p)]
<1>1. p \o q \in Seq(S) /\ Len(p \o q) = Len(p) + Len(q)
  OBVIOUS
<1>2. Len(p) \in Nat /\ Len(q) \in Nat
  OBVIOUS
<1>3. \A i \in 1 .. Len(p) + Len(q) : (p \o q)[i] = IF i <= Len(p) THEN p[i] ELSE q[i - Len(p)]
  OBVIOUS
<1> QED
  BY <1>1, <1>2, <1>3

\* The whole batch.
LEMMA BatchFacts ==
    ASSUME NEW s, SimOK(s), s.tick < TickBound
    PROVE  /\ Batch(s) \in Seq(Envelopes)
           /\ \A i \in 1 .. Len(Batch(s)) :
                 Kind(Batch(s)[i]) =>
                    \E j \in 1 .. (s.seq + Len(s.pending)) + Obeyed(s).events :
                        Batch(s)[i].id = <<"event", j>>
<1> DEFINE A == Announced(s)
           E == Events(s)
           R == Redelivered(E, s.every)
           n == s.seq + Len(s.pending)
<1>1. A \in Seq(Envelopes) /\ Len(A) = Len(s.pending) /\ \A i \in 1 .. Len(A) : ~Kind(A[i])
  BY AnnouncedFacts
<1>2. /\ E \in Seq(Envelopes) /\ Len(E) = Obeyed(s).events
      /\ \A j \in 1 .. Len(E) : Kind(E[j]) /\ E[j].id = <<"event", n + j>>
      /\ CopiedAlike(E, E, Len(E), R, R)
  BY EventsFacts
<1>3. n \in Nat
  BY DEF SimOK, SimType
<1>4. Batch(s) = A \o R
  BY BatchParts
<1> HIDE DEF A, E, R, n
<1>5. R \in Seq(Envelopes) /\ \A j \in 1 .. Len(R) : \E m \in 1 .. Len(E) : R[j] \in Copies(E[m])
  BY <1>2, Zenon DEF CopiedAlike
<1>6. ASSUME NEW j \in 1 .. Len(R)
      PROVE  \E x \in 1 .. n + Obeyed(s).events : R[j].id = <<"event", x>>
  <2>1. PICK m \in 1 .. Len(E) : R[j] \in Copies(E[m])
    BY <1>5
  <2>2. E[m] \in Envelopes
    BY <1>2
  <2>3. R[j].id = <<"event", n + m>>
    BY <1>2, <2>1, <2>2, CopiesAreEnvelopes
  <2>4. n + m \in 1 .. n + Obeyed(s).events
    BY <1>2, <1>3
  <2> QED
    BY <2>3, <2>4
<1>7. /\ A \o R \in Seq(Envelopes) /\ Len(A \o R) = Len(A) + Len(R)
      /\ \A i \in 1 .. Len(A) + Len(R) :
           (A \o R)[i] = IF i <= Len(A) THEN A[i] ELSE R[i - Len(A)]
      /\ Len(A) \in Nat /\ Len(R) \in Nat
  BY <1>1, <1>5, Joined
<1>8. ASSUME NEW i \in 1 .. Len(A \o R), Kind((A \o R)[i])
      PROVE  \E x \in 1 .. n + Obeyed(s).events : (A \o R)[i].id = <<"event", x>>
  <2>1. CASE i <= Len(A)
    BY <1>1, <1>7, <1>8, <2>1
  <2>2. CASE ~(i <= Len(A))
    <3>1. i - Len(A) \in 1 .. Len(R) /\ (A \o R)[i] = R[i - Len(A)]
      BY <1>7, <2>2
    <3> QED
      BY <1>6, <3>1
  <2> QED
    BY <2>1, <2>2
<1> QED
  BY <1>4, <1>7, <1>8 DEF n

-----------------------------------------------------------------------------
(* The append.                                                             *)

Encoded(q) == [i \in 1 .. Len(q) |-> ToCore(q[i])]

\* An encoded batch decodes to the batch.
LEMMA EncodedFacts ==
    ASSUME NEW q \in Seq(Envelopes)
    PROVE  /\ Encoded(q) \in Seq(Records) /\ Len(Encoded(q)) = Len(q)
           /\ \A i \in 1 .. Len(q) : FromCore(Encoded(q)[i]) = q[i]
<1>1. Len(q) \in Nat /\ \A i \in 1 .. Len(q) : q[i] \in Envelopes
  OBVIOUS
<1>2. \A i \in 1 .. Len(q) : Encoded(q)[i] = ToCore(q[i]) /\ Encoded(q)[i] \in Records
  BY <1>1 DEF Encoded, Records
<1>3. Encoded(q) \in [1 .. Len(q) -> Records]
  BY <1>2 DEF Encoded
<1> HIDE DEF Encoded
<1>4. Encoded(q) \in Seq(Records) /\ Len(Encoded(q)) = Len(q)
  BY <1>1, <1>3
<1>5. \A i \in 1 .. Len(q) : FromCore(Encoded(q)[i]) = q[i]
  BY <1>1, <1>2, RoundTrip
<1> QED
  BY <1>4, <1>5

\* After the append of Step: the batch is in the log, nothing is staged, nothing is read.
LEMMA AppendedOK ==
    ASSUME NEW s, SimOK(s), s.tick < TickBound
    PROVE  LET a == Appended(s)
           IN  /\ SimOK(a) /\ a.tick = s.tick /\ a.controls = Obeyed(s) /\ a.revision = s.revision
               /\ a.pending = <<>> /\ a.every = s.every
               /\ a.seq = s.seq + Len(s.pending) + Obeyed(s).events
               /\ a.log = s.log \o Encoded(Batch(s)) /\ a.read = s.read
<1> DEFINE a == Appended(s)
           X == Encoded(Batch(s))
           more == s.seq + Len(s.pending) + Obeyed(s).events
           log == s.log \o X
<1>1. /\ s \in SimType /\ s.log \in Seq(Records) /\ s.seq \in Nat /\ Len(s.pending) \in Nat
      /\ s.read \in Nat /\ s.revision \in Nat /\ Len(s.log) \in Nat
  BY DEF SimOK, SimType
<1>2. Obeyed(s) \in Controls /\ Obeyed(s).events \in Nat /\ more \in Nat /\ more >= s.seq
  BY <1>1, ObeyedIsControls, ControlFacts
<1>3. /\ Batch(s) \in Seq(Envelopes)
      /\ \A i \in 1 .. Len(Batch(s)) :
            Kind(Batch(s)[i]) => \E j \in 1 .. more : Batch(s)[i].id = <<"event", j>>
  BY BatchFacts
<1>4. /\ X \in Seq(Records) /\ Len(X) = Len(Batch(s))
      /\ \A i \in 1 .. Len(X) : FromCore(X[i]) = Batch(s)[i]
  BY <1>3, EncodedFacts
<1>5. a = [s EXCEPT !.controls = Obeyed(s), !.pending = <<>>, !.seq = more, !.log = log]
  <2> DEFINE V(b) == [s EXCEPT !.controls = Obeyed(s), !.pending = <<>>,
                               !.seq = @ + Len(s.pending) + Obeyed(s).events,
                               !.log = @ \o [i \in 1 .. Len(b) |-> ToCore(b[i])]]
  <2>1. {V(b) : b \in {Batch(s)}} = {V(Batch(s))}
    OBVIOUS
  <2>2. a = The({V(Batch(s))})
    BY <2>1 DEF Appended
  <2>3. a = V(Batch(s))
    BY <2>2, The1
  <2> QED
    BY <2>3 DEF Encoded
<1>6. /\ log \in Seq(Records) /\ Len(log) = Len(s.log) + Len(X) /\ Len(X) \in Nat
      /\ \A i \in 1 .. Len(s.log) + Len(X) :
            log[i] = IF i <= Len(s.log) THEN s.log[i] ELSE X[i - Len(s.log)]
  <2>1. s.log \in Seq(Records) /\ X \in Seq(Records)
    BY <1>1, <1>4
  <2> HIDE DEF X
  <2> QED
    BY <2>1, Joined
<1> HIDE DEF X, more, log, a
<1>7. /\ a \in SimType /\ a.tick = s.tick /\ a.controls = Obeyed(s) /\ a.revision = s.revision
      /\ a.pending = <<>> /\ a.every = s.every /\ a.seq = more /\ a.log = log /\ a.read = s.read
      /\ a.garden = s.garden /\ a.keys = s.keys /\ a.chain = s.chain
  <2>1. <<>> \in Seq(Staged)
    OBVIOUS
  <2>2. a \in SimType
    BY <1>1, <1>2, <1>5, <1>6, <2>1 DEF SimType
  <2> QED
    BY <1>1, <1>5, <2>2 DEF SimType
<1>8. \A i \in 1 .. Len(s.log) : log[i] = s.log[i]
  BY <1>1, <1>6
<1>9. ChainOK(a, a.read)
  <2>1. \A i \in 1 .. s.read : i \in 1 .. Len(s.log)
    BY <1>1 DEF SimOK
  <2> QED
    BY <1>7, <1>8, <2>1 DEF SimOK, ChainOK
<1>10. PlayedTo(a, a.read)
  <2>1. s.read \in 0 .. Len(s.log)
    BY <1>1 DEF SimOK
  <2>2. Len(s.log) <= Len(log) /\ Len(log) \in Nat
    BY <1>1, <1>6
  <2>3. Play(Organisms, log)[s.read] = Play(Organisms, s.log)[s.read]
    BY <1>1, <1>8, <2>1, <2>2, PlayAgrees
  <2> QED
    BY <1>7, <2>3 DEF SimOK, PlayedTo
<1>11. Numbered(log, more)
  <2> SUFFICES ASSUME NEW i \in 1 .. Len(log), Kind(FromCore(log[i]))
               PROVE  \E j \in 1 .. more : FromCore(log[i]).id = <<"event", j>>
    BY DEF Numbered
  <2>1. CASE i <= Len(s.log)
    <3>1. i \in 1 .. Len(s.log) /\ log[i] = s.log[i]
      BY <1>1, <1>6, <2>1
    <3>2. \E j \in 1 .. s.seq : FromCore(log[i]).id = <<"event", j>>
      BY <3>1 DEF SimOK, Numbered
    <3>3. \A j \in 1 .. s.seq : j \in 1 .. more
      BY <1>1, <1>2
    <3> QED
      BY <3>2, <3>3
  <2>2. CASE ~(i <= Len(s.log))
    <3>0. i \in 1 .. Len(s.log) + Len(X)
      BY <1>6
    <3>1. i - Len(s.log) \in 1 .. Len(X) /\ log[i] = X[i - Len(s.log)]
      <4> DEFINE l == Len(s.log)
                 x == Len(X)
      <4>1. l \in Nat /\ x \in Nat /\ i \in 1 .. l + x /\ ~(i <= l)
        BY <1>1, <1>6, <2>2, <3>0
      <4>2. log[i] = X[i - l]
        BY <1>6, <2>2, <3>0, Zenon
      <4> HIDE DEF l, x
      <4>3. i - l \in 1 .. x
        BY <4>1
      <4> QED
        BY <4>2, <4>3 DEF l, x
    <3>2. FromCore(log[i]) = Batch(s)[i - Len(s.log)]
      BY <1>4, <3>1
    <3> QED
      BY <1>3, <1>4, <3>1, <3>2
  <2> QED
    BY <2>1, <2>2
<1>12. Len(<<>>) = 0 /\ 1 .. 0 = {}
  OBVIOUS
<1>13. a.read <= Len(a.log) /\ a.revision >= Len(a.pending)
  BY <1>1, <1>6, <1>7, <1>12 DEF SimOK
<1>14. \A i \in 1 .. Len(a.pending) : a.pending[i].revision = (a.revision - Len(a.pending)) + i
  BY <1>7, <1>12
<1>15. SimOK(a)
  BY <1>7, <1>9, <1>10, <1>11, <1>13, <1>14 DEF SimOK
<1> QED
  BY <1>7, <1>15 DEF a, log, X, more

-----------------------------------------------------------------------------
(* The fold.                                                               *)

IsFold(s, upTo, f) ==
    f = [i \in s.read .. upTo |->
            IF i = s.read THEN s
            ELSE The({Chained(Process(x[1], x[2]), x[2]) : x \in {<<f[i - 1], FromCore(s.log[i])>>}})]

\* Fold is the last entry of such a table.
LEMMA FoldIsTable ==
    ASSUME NEW s, NEW upTo
    PROVE  Fold(s, upTo) = [(CHOOSE f : IsFold(s, upTo, f))[upTo] EXCEPT !.read = upTo]
BY DEF Fold, IsFold

\* One record folded.
FoldedOn(v, e) == Chained(Process(v, e), e)

\* There is such a table.
LEMMA FoldExists ==
    ASSUME NEW s, s.read \in Nat, NEW upTo \in Nat, s.read <= upTo
    PROVE  \E f : IsFold(s, upTo, f)
<1> DEFINE from == s.read
           next(v, i) == FoldedOn(v, FromCore(s.log[i]))
           Upto(m, f) == f = [i \in from .. from + m |-> IF i = from THEN s ELSE next(f[i - 1], i)]
           T == {m \in Nat : \E f : Upto(m, f)}
<1>0. \A f : IsFold(s, upTo, f) <=> Upto(upTo - from, f)
  <2>1. \A v, i : The({Chained(Process(x[1], x[2]), x[2]) : x \in {<<v, FromCore(s.log[i])>>}})
                     = next(v, i)
    <3> SUFFICES ASSUME NEW v, NEW i
                 PROVE  The({Chained(Process(x[1], x[2]), x[2]) : x \in {<<v, FromCore(s.log[i])>>}})
                           = next(v, i)
      OBVIOUS
    <3>1. {Chained(Process(x[1], x[2]), x[2]) : x \in {<<v, FromCore(s.log[i])>>}} = {next(v, i)}
      BY DEF FoldedOn
    <3> QED
      BY <3>1, The1
  <2>2. from + (upTo - from) = upTo
    OBVIOUS
  <2> HIDE DEF next
  <2> SUFFICES ASSUME NEW f PROVE IsFold(s, upTo, f) <=> Upto(upTo - from, f)
    OBVIOUS
  <2>3. [i \in s.read .. upTo |->
            IF i = s.read THEN s
            ELSE The({Chained(Process(x[1], x[2]), x[2]) :
                        x \in {<<f[i - 1], FromCore(s.log[i])>>}})]
         = [i \in s.read .. upTo |-> IF i = from THEN s ELSE next(f[i - 1], i)]
    BY <2>1, Zenon
  <2> QED
    BY <2>2, <2>3 DEF IsFold
<1> HIDE DEF next
<1>1. 0 \in T
  <2>1. Upto(0, [i \in from .. from + 0 |-> s])
    OBVIOUS
  <2> QED
    BY <2>1
<1>2. ASSUME NEW m \in Nat, m \in T PROVE m + 1 \in T
  <2>1. PICK f : Upto(m, f)
    BY <1>2
  <2> DEFINE new == from + (m + 1)
             g == [i \in from .. new |-> IF i = new THEN next(f[from + m], new) ELSE f[i]]
  <2>2. \A i \in from .. from + m : g[i] = f[i]
    OBVIOUS
  <2>3. g[new] = next(g[new - 1], new)
    <3>1. new - 1 = from + m /\ from + m \in from .. from + m /\ new \in from .. new
      OBVIOUS
    <3>2. g[new] = next(f[from + m], new)
      BY <3>1
    <3> HIDE DEF g, new
    <3> QED
      BY <2>2, <3>1, <3>2
  <2>4. \A i \in from + 1 .. from + m : g[i] = next(g[i - 1], i)
    BY <2>1, <2>2
  <2>5. g[from] = s
    BY <2>1, <2>2
  <2>6. \A i \in from .. new : g[i] = IF i = from THEN s ELSE next(g[i - 1], i)
    <3>1. \A i \in from .. new : i = from \/ i = new \/ i \in from + 1 .. from + m
      OBVIOUS
    <3>2. new # from
      OBVIOUS
    <3>3. \A i \in from + 1 .. from + m : i # from
      OBVIOUS
    <3> HIDE DEF g, new
    <3> QED
      BY <2>3, <2>4, <2>5, <3>1, <3>2, <3>3
  <2>7. Upto(m + 1, g)
    BY <2>6
  <2> HIDE DEF Upto, g
  <2> QED
    BY <2>7
<1> HIDE DEF T
<1>3. upTo - from \in T
  <2>1. upTo - from \in Nat
    OBVIOUS
  <2> HIDE DEF from
  <2> QED
    BY <1>1, <1>2, <2>1, NumberInduction
<1> QED
  BY <1>0, <1>3 DEF T

\* It folds one record per entry.
LEMMA FoldUnfolds ==
    ASSUME NEW s, s.read \in Nat, NEW upTo \in Nat, s.read <= upTo, NEW f, IsFold(s, upTo, f)
    PROVE  /\ f[s.read] = s
           /\ \A i \in s.read + 1 .. upTo : f[i] = FoldedOn(f[i - 1], FromCore(s.log[i]))
<1>1. s.read \in s.read .. upTo
  OBVIOUS
<1>2. ASSUME NEW i \in s.read + 1 .. upTo
      PROVE  f[i] = FoldedOn(f[i - 1], FromCore(s.log[i]))
  <2>1. i \in s.read .. upTo /\ i # s.read
    OBVIOUS
  <2> DEFINE e == FromCore(s.log[i])
  <2>2. f[i] = The({Chained(Process(x[1], x[2]), x[2]) : x \in {<<f[i - 1], e>>}})
    BY <2>1 DEF IsFold
  <2>3. {Chained(Process(x[1], x[2]), x[2]) : x \in {<<f[i - 1], e>>}} = {FoldedOn(f[i - 1], e)}
    BY DEF FoldedOn
  <2> QED
    BY <2>2, <2>3, The1
<1> QED
  BY <1>1, <1>2 DEF IsFold

\* A record that can be folded into: a simulation, or what Replay starts from.
Foldable(s) == s = [x \in DOMAIN s |-> s[x]] /\ {"garden", "keys", "chain", "log", "read"} \subseteq DOMAIN s

Written == {"garden", "keys", "chain"}

\* Folding a record does to garden and table what playing it does, and writes nothing
\* but these and the chain.
LEMMA FoldedOnFacts ==
    ASSUME NEW n \in Nat, NEW s, Foldable(s), NEW e \in Envelopes,
           NEW P \in [garden : Gardens(n), keys : SUBSET KeySet],
           s.garden = P.garden, s.keys = P.keys
    PROVE  LET r == FoldedOn(s, e)
               Q == Process(P, e)
           IN  /\ Foldable(r) /\ DOMAIN r = DOMAIN s /\ r.garden = Q.garden /\ r.keys = Q.keys
               /\ r.chain = Append(s.chain, <<ToCore(e), Q.garden>>)
               /\ \A x \in DOMAIN s \ Written : r[x] = s[x]
<1> DEFINE p == Process(s, e)
           Q == Process(P, e)
           r == FoldedOn(s, e)
<1>1. /\ Foldable(p) /\ DOMAIN p = DOMAIN s /\ p.garden = Q.garden /\ p.keys = Q.keys
      /\ p.chain = s.chain /\ \A x \in DOMAIN s \ Written : p[x] = s[x]
  <2>1. CASE Key(e) \in s.keys
    <3>1. p = s /\ Q = P
      BY <2>1, ProcessFacts
    <3> HIDE DEF p, Q
    <3> QED
      BY <3>1
  <2>2. CASE Key(e) \notin s.keys
    <3>1. /\ p = [s EXCEPT !.keys = s.keys \cup {Key(e)}, !.garden = Apply(s.garden, e)]
          /\ Q = [P EXCEPT !.keys = P.keys \cup {Key(e)}, !.garden = Apply(P.garden, e)]
      BY <2>2, ProcessFacts
    <3> HIDE DEF p, Q
    <3>2. Q.garden = Apply(P.garden, e) /\ Q.keys = P.keys \cup {Key(e)}
      BY <3>1
    <3>3. /\ DOMAIN p = DOMAIN s /\ p = [x \in DOMAIN p |-> p[x]]
          /\ p.garden = Apply(s.garden, e) /\ p.keys = s.keys \cup {Key(e)} /\ p.chain = s.chain
          /\ \A x \in DOMAIN s \ Written : p[x] = s[x]
      BY <3>1 DEF Foldable, Written
    <3> QED
      BY <3>2, <3>3 DEF Foldable
  <2> QED
    BY <2>1, <2>2
<1>2. r = [p EXCEPT !.chain = Append(p.chain, <<ToCore(e), p.garden>>)]
  BY DEF FoldedOn, Chained
<1> HIDE DEF p, Q, r
<1>3. /\ DOMAIN r = DOMAIN p /\ r = [x \in DOMAIN r |-> r[x]]
      /\ r.garden = p.garden /\ r.keys = p.keys /\ r.chain = Append(p.chain, <<ToCore(e), p.garden>>)
      /\ \A x \in DOMAIN p \ Written : r[x] = p[x]
  BY <1>1, <1>2 DEF Foldable, Written
<1>4. Foldable(r)
  BY <1>1, <1>3 DEF Foldable
<1> QED
  BY <1>1, <1>3, <1>4 DEF r, Q

\* Arithmetic of the positions a fold goes through.
LEMMA NextPlace ==
    ASSUME NEW r \in Nat, NEW m \in Nat, NEW u \in Nat, NEW l \in Nat, r + (m + 1) <= u, u <= l
    PROVE  /\ r + (m + 1) \in r + 1 .. u /\ (r + (m + 1)) - 1 = r + m /\ r + m <= u
           /\ r + (m + 1) \in 1 .. l /\ r + m \in 0 .. l /\ r + (m + 1) = (r + m) + 1
           /\ r + m \in Nat
OBVIOUS

\* What has been folded of a log, into a garden of n organisms, is what playing it gives.
HasPlayed(n, s) ==
    /\ Foldable(s) /\ s.log \in Seq(Records)
    /\ s.garden = Play(n, s.log)[s.read].garden /\ s.keys = Play(n, s.log)[s.read].keys
    /\ s.chain \in Seq(Records \X Gardens(n)) /\ ChainOK(s, s.read)

\* What folding s up to a position makes of it.
FoldedTo(n, s, upTo, r) ==
    /\ Foldable(r) /\ DOMAIN r = DOMAIN s /\ r.read = upTo
    /\ r.garden = Play(n, s.log)[upTo].garden /\ r.keys = Play(n, s.log)[upTo].keys
    /\ r.chain \in Seq(Records \X Gardens(n)) /\ ChainOK(r, upTo)
    /\ \A x \in DOMAIN s \ (Written \cup {"read"}) : r[x] = s[x]

\* The fold plays on from where it is, and adds to the chain what it reads.
LEMMA FoldFacts ==
    ASSUME NEW n \in Nat, NEW s, HasPlayed(n, s), s.read \in Nat,
           NEW upTo \in Nat, s.read <= upTo, upTo <= Len(s.log)
    PROVE  FoldedTo(n, s, upTo, Fold(s, upTo))
<1> DEFINE P == Play(n, s.log)
           Links == Records \X Gardens(n)
           f == CHOOSE h : IsFold(s, upTo, h)
           Fine(i) == /\ Foldable(f[i]) /\ DOMAIN f[i] = DOMAIN s
                      /\ f[i].garden = P[i].garden /\ f[i].keys = P[i].keys
                      /\ f[i].chain \in Seq(Links) /\ ChainOK(f[i], i)
                      /\ \A x \in DOMAIN s \ Written : f[i][x] = s[x]
           T == {m \in Nat : s.read + m <= upTo => Fine(s.read + m)}
<1>1. IsFold(s, upTo, f)
  BY FoldExists
<1>2. Fold(s, upTo) = [f[upTo] EXCEPT !.read = upTo]
  BY FoldIsTable
<1> HIDE DEF f
<1>3. /\ f[s.read] = s
      /\ \A i \in s.read + 1 .. upTo : f[i] = FoldedOn(f[i - 1], FromCore(s.log[i]))
  BY <1>1, FoldUnfolds
<1>4. s.log \in Seq(Records) /\ Len(s.log) \in Nat
  BY DEF HasPlayed
<1>5. \A i \in 1 .. Len(s.log) : P[i] = Process(P[i - 1], FromCore(s.log[i]))
  <2> DEFINE log == s.log
             Q == Play(n, log)
  <2>1. Len(log) \in Nat
    BY <1>4
  <2> HIDE DEF log
  <2>2. \A i \in 1 .. Len(log) : Q[i] = Process(Q[i - 1], FromCore(log[i]))
    BY <2>1, PlayUnfolds
  <2> QED
    BY <2>2 DEF log
<1>6. 0 \in T
  <2>1. s.read + 0 = s.read
    OBVIOUS
  <2>2. Fine(s.read)
    BY <1>3 DEF HasPlayed
  <2> QED
    BY <2>1, <2>2
<1>7. ASSUME NEW m \in Nat, m \in T PROVE m + 1 \in T
  <2> DEFINE k == s.read + (m + 1)
             j == s.read + m
             e == FromCore(s.log[k])
  <2> SUFFICES ASSUME k <= upTo PROVE Fine(k)
    OBVIOUS
  <2>1. /\ k \in s.read + 1 .. upTo /\ k - 1 = j /\ j <= upTo /\ k \in 1 .. Len(s.log)
        /\ j \in 0 .. Len(s.log) /\ k = j + 1 /\ j \in Nat
    BY <1>4, NextPlace
  <2>2. Fine(j)
    BY <1>7, <2>1
  <2> HIDE DEF k, j
  <2>3. s.log[k] \in Records /\ e \in Envelopes /\ ToCore(e) = s.log[k]
    <3>1. s.log[k] \in Records
      BY <1>4, <2>1
    <3> QED
      BY <3>1, ReadBack
  <2>4. P[j] \in [garden : Gardens(n), keys : SUBSET KeySet]
    BY <1>4, <2>1, PlayTypes
  <2>5. P[k] = Process(P[j], e)
    <3> HIDE DEF P
    <3> QED
      BY <1>5, <2>1
  <2>10. P[k] \in [garden : Gardens(n), keys : SUBSET KeySet]
    <3>1. k \in 0 .. Len(s.log)
      BY <1>4, <2>1
    <3> QED
      BY <1>4, <3>1, PlayTypes
  <2> HIDE DEF P, e
  <2>6. f[k] = FoldedOn(f[j], e)
    BY <1>3, <2>1 DEF e
  <2>7. /\ Foldable(f[k]) /\ DOMAIN f[k] = DOMAIN f[j] /\ f[k].garden = P[k].garden
        /\ f[k].keys = P[k].keys /\ f[k].chain = Append(f[j].chain, <<ToCore(e), P[k].garden>>)
        /\ \A x \in DOMAIN f[j] \ Written : f[k][x] = f[j][x]
    <3>1. Foldable(f[j]) /\ f[j].garden = P[j].garden /\ f[j].keys = P[j].keys
      BY <2>2
    <3> DEFINE v == f[j]
               p == P[j]
               r == FoldedOn(v, e)
               Q == Process(p, e)
    <3>2. p \in [garden : Gardens(n), keys : SUBSET KeySet] /\ e \in Envelopes
      BY <2>3, <2>4
    <3>3. Foldable(v) /\ v.garden = p.garden /\ v.keys = p.keys
      BY <3>1
    <3> HIDE DEF v, p
    <3>4. /\ Foldable(r) /\ DOMAIN r = DOMAIN v /\ r.garden = Q.garden /\ r.keys = Q.keys
          /\ r.chain = Append(v.chain, <<ToCore(e), Q.garden>>)
          /\ \A x \in DOMAIN v \ Written : r[x] = v[x]
      BY <3>2, <3>3, FoldedOnFacts
    <3> HIDE DEF r, Q
    <3>5. f[k] = r /\ P[k] = Q
      BY <2>5, <2>6 DEF v, p, r, Q
    <3> QED
      BY <3>4, <3>5 DEF v
  <2>8. f[k].chain \in Seq(Links) /\ ChainOK(f[k], k)
    <3>1. <<ToCore(e), P[k].garden>> \in Links
      BY <2>3, <2>10
    <3>2. f[j].chain \in Seq(Links) /\ Len(f[j].chain) = j
      BY <2>2 DEF ChainOK
    <3>3. "log" \in DOMAIN s \ Written
      BY DEF HasPlayed, Foldable, Written
    <3>4. f[k].log = s.log /\ f[j].log = s.log
      BY <2>2, <2>7, <3>3
    <3>5. \A i \in 1 .. j : f[j].chain[i][1] = s.log[i]
      BY <2>2, <3>4 DEF ChainOK
    <3> HIDE DEF Links
    <3>6. /\ f[k].chain \in Seq(Links) /\ Len(f[k].chain) = j + 1
          /\ \A i \in 1 .. j : f[k].chain[i] = f[j].chain[i]
          /\ f[k].chain[j + 1] = <<ToCore(e), P[k].garden>>
      <4>1. \A q \in Seq(Links), x \in Links :
               /\ Append(q, x) \in Seq(Links) /\ Len(Append(q, x)) = Len(q) + 1
               /\ \A i \in 1 .. Len(q) : Append(q, x)[i] = q[i]
               /\ Append(q, x)[Len(q) + 1] = x
        OBVIOUS
      <4> QED
        BY <2>7, <3>1, <3>2, <4>1
    <3>7. \A i \in 1 .. k : f[k].chain[i][1] = s.log[i]
      <4>1. \A i \in 1 .. k : i \in 1 .. j \/ i = k
        BY <2>1
      <4>2. f[k].chain[k][1] = s.log[k]
        BY <2>1, <2>3, <3>6
      <4> QED
        BY <3>5, <3>6, <4>1, <4>2
    <3> QED
      BY <2>1, <3>4, <3>6, <3>7 DEF ChainOK
  <2>9. \A x \in DOMAIN s \ Written : f[k][x] = s[x]
    BY <2>2, <2>7
  <2> QED
    BY <2>2, <2>7, <2>8, <2>9
<1> HIDE DEF T, Fine
<1>8. Fine(upTo)
  <2>1. upTo - s.read \in Nat /\ s.read + (upTo - s.read) = upTo
    OBVIOUS
  <2>2. upTo - s.read \in T
    BY <1>6, <1>7, <2>1, NumberInduction
  <2> QED
    BY <2>1, <2>2 DEF T
<1> DEFINE v == f[upTo]
           r == Fold(s, upTo)
<1>9. /\ Foldable(v) /\ DOMAIN v = DOMAIN s
      /\ v.garden = P[upTo].garden /\ v.keys = P[upTo].keys
      /\ v.chain \in Seq(Links) /\ ChainOK(v, upTo)
      /\ \A x \in DOMAIN s \ Written : v[x] = s[x]
  BY <1>8 DEF Fine
<1>10. r = [v EXCEPT !.read = upTo]
  BY <1>2
<1> HIDE DEF v, r, P, Links
<1>11. /\ DOMAIN r = DOMAIN v /\ r = [x \in DOMAIN r |-> r[x]] /\ r.read = upTo
       /\ r.garden = v.garden /\ r.keys = v.keys /\ r.chain = v.chain /\ r.log = v.log
       /\ \A x \in DOMAIN v \ {"read"} : r[x] = v[x]
  BY <1>9, <1>10 DEF Foldable
<1>12. ChainOK(r, upTo)
  BY <1>9, <1>11 DEF ChainOK
<1>13. \A x \in DOMAIN s \ (Written \cup {"read"}) : r[x] = s[x]
  BY <1>9, <1>11
<1>14. Foldable(r)
  BY <1>9, <1>11 DEF Foldable
<1> QED
  BY <1>9, <1>11, <1>12, <1>13, <1>14 DEF r, P, Links, FoldedTo

\* A simulation has played its log as far as it has read.
LEMMA SimHasPlayed ==
    ASSUME NEW s, SimOK(s)
    PROVE  HasPlayed(Organisms, s) /\ s.read \in Nat /\ Len(s.log) \in Nat /\ s.read <= Len(s.log)
<1>1. s \in SimType
  BY DEF SimOK
<1>2. Foldable(s)
  BY <1>1 DEF SimType, Foldable
<1>3. /\ s.log \in Seq(Records) /\ s.chain \in Seq(Records \X Gardens(Organisms))
      /\ s.read \in Nat /\ Len(s.log) \in Nat
  BY <1>1 DEF SimType
<1> QED
  BY <1>2, <1>3 DEF SimOK, PlayedTo, HasPlayed

\* A fold up to any position of the log leaves a simulation that has read that far.
LEMMA FoldOK ==
    ASSUME NEW s, SimOK(s), NEW upTo \in Nat, s.read <= upTo, upTo <= Len(s.log)
    PROVE  LET r == Fold(s, upTo)
           IN  /\ SimOK(r) /\ r.read = upTo /\ r.tick = s.tick /\ r.controls = s.controls
               /\ r.revision = s.revision /\ r.pending = s.pending /\ r.every = s.every
               /\ r.seq = s.seq /\ r.log = s.log
<1> DEFINE r == Fold(s, upTo)
           same == {"tick", "controls", "revision", "pending", "every", "seq", "log"}
<1>1. HasPlayed(Organisms, s) /\ s.read \in Nat /\ Len(s.log) \in Nat /\ Organisms \in Nat
  BY SimHasPlayed, BatchAssumption
<1>2. /\ Foldable(r) /\ DOMAIN r = DOMAIN s /\ r.read = upTo
      /\ r.garden = Play(Organisms, s.log)[upTo].garden
      /\ r.keys = Play(Organisms, s.log)[upTo].keys
      /\ r.chain \in Seq(Records \X Gardens(Organisms)) /\ ChainOK(r, upTo)
      /\ \A x \in DOMAIN s \ (Written \cup {"read"}) : r[x] = s[x]
  <2>1. FoldedTo(Organisms, s, upTo, r)
    BY <1>1, FoldFacts
  <2> QED
    BY <2>1 DEF FoldedTo
<1> HIDE DEF r
<1>3. s \in SimType
  BY DEF SimOK
<1>4. DOMAIN s = same \cup {"read", "garden", "keys", "chain"}
  BY <1>3 DEF SimType
<1>5. \A x \in same : r[x] = s[x]
  BY <1>2, <1>4 DEF Written
<1>6. Play(Organisms, s.log)[upTo] \in [garden : Gardens(Organisms), keys : SUBSET KeySet]
  <2>1. upTo \in 0 .. Len(s.log) /\ s.log \in Seq(Records)
    BY <1>1 DEF HasPlayed
  <2> QED
    BY <1>1, <2>1, PlayTypes
<1>7. r.garden \in Gardens(Organisms) /\ r.keys \in SUBSET KeySet
  BY <1>2, <1>6
<1>8. /\ r.tick = s.tick /\ r.controls = s.controls /\ r.revision = s.revision
      /\ r.pending = s.pending /\ r.every = s.every /\ r.seq = s.seq /\ r.log = s.log
  BY <1>5
<1>9. r \in SimType
  <2>1. r = [x \in DOMAIN s |-> r[x]]
    BY <1>2 DEF Foldable
  <2>2. r = [tick |-> r.tick, controls |-> r.controls, revision |-> r.revision,
             pending |-> r.pending, every |-> r.every, seq |-> r.seq, log |-> r.log,
             read |-> r.read, garden |-> r.garden, keys |-> r.keys, chain |-> r.chain]
    BY <1>4, <2>1
  <2>3. /\ s.tick \in Nat /\ s.controls \in Controls /\ s.revision \in Nat
        /\ s.pending \in Seq(Staged) /\ s.every \in Nat /\ s.seq \in Nat /\ s.log \in Seq(Records)
    BY <1>3 DEF SimType
  <2>4. r.chain \in Seq(Records \X Gardens(Organisms)) /\ r.read \in Nat
    BY <1>2
  <2> QED
    BY <1>7, <1>8, <2>2, <2>3, <2>4 DEF SimType
<1>10. PlayedTo(r, r.read) /\ ChainOK(r, r.read) /\ r.read <= Len(r.log)
  BY <1>2, <1>8 DEF PlayedTo
<1>11. Numbered(r.log, r.seq) /\ r.revision >= Len(r.pending)
  BY <1>8 DEF SimOK
<1>12. \A i \in 1 .. Len(r.pending) : r.pending[i].revision = (r.revision - Len(r.pending)) + i
  BY <1>8 DEF SimOK
<1>13. SimOK(r)
  BY <1>9, <1>10, <1>11, <1>12 DEF SimOK
<1> QED
  BY <1>2, <1>8, <1>13 DEF r

-----------------------------------------------------------------------------
(* A step of a simulation.                                                 *)

\* How far the fold goes: no further than the capacity allows, nor than the log.
Reach(a) ==
    IF Capacity(a.controls) = 0 THEN Len(a.log) ELSE Min({a.read + Capacity(a.controls), Len(a.log)})

\* A tick reads forwards, and not past the end of its log.
LEMMA ReachFacts ==
    ASSUME NEW a, SimOK(a)
    PROVE  Reach(a) \in Nat /\ a.read <= Reach(a) /\ Reach(a) <= Len(a.log)
<1>1. /\ a.controls \in Controls /\ a.read \in Nat /\ Len(a.log) \in Nat /\ a.read <= Len(a.log)
  BY DEF SimOK, SimType
<1>2. Capacity(a.controls) \in Nat
  BY <1>1, ControlFacts
<1>3. \A x, y \in Nat : Min({x, y}) = IF x <= y THEN x ELSE y
  BY DEF Min
<1>4. CASE Capacity(a.controls) = 0
  BY <1>1, <1>4 DEF Reach
<1>5. CASE Capacity(a.controls) # 0
  <2> DEFINE x == a.read + Capacity(a.controls)
  <2>1. Reach(a) = Min({x, Len(a.log)}) /\ x \in Nat
    BY <1>1, <1>2, <1>5 DEF Reach
  <2>2. a.read <= x
    BY <1>1, <1>2
  <2> HIDE DEF x
  <2> QED
    BY <1>1, <1>3, <2>1, <2>2
<1> QED
  BY <1>4, <1>5

\* What a step makes of a simulation: the controls staged are obeyed, the records of
\* the tick are appended and the fold goes on.
LEMMA StepFacts ==
    ASSUME NEW s, SimOK(s), s.tick < TickBound
    PROVE  LET r == Step(s)
           IN  /\ SimOK(r) /\ r.tick = s.tick + 1 /\ r.controls = Obeyed(s)
               /\ r.revision = s.revision /\ r.pending = <<>> /\ r.every = s.every
               /\ r.log = s.log \o Encoded(Batch(s))
<1> DEFINE a == Appended(s)
           u == Reach(a)
           v == Fold(a, u)
           r == Step(s)
<1>1. /\ SimOK(a) /\ a.tick = s.tick /\ a.controls = Obeyed(s) /\ a.revision = s.revision
      /\ a.pending = <<>> /\ a.every = s.every /\ a.log = s.log \o Encoded(Batch(s))
  BY AppendedOK
<1>2. r = Folded(a)
  <2>1. {Folded(x) : x \in {a}} = {Folded(a)}
    OBVIOUS
  <2> QED
    BY <2>1, The1 DEF Step
<1>3. Folded(a) = [v EXCEPT !.tick = v.tick + 1]
  BY DEF Folded, Reach
<1> HIDE DEF a, r
<1>4. u \in Nat /\ a.read <= u /\ u <= Len(a.log)
  BY <1>1, ReachFacts
<1> HIDE DEF u
<1>5. /\ SimOK(v) /\ v.tick = a.tick /\ v.controls = a.controls /\ v.revision = a.revision
      /\ v.pending = a.pending /\ v.every = a.every /\ v.log = a.log
  BY <1>1, <1>4, FoldOK
<1> HIDE DEF v
<1>6. v \in SimType /\ v.tick + 1 \in Nat
  <2>1. v \in SimType
    BY <1>5 DEF SimOK
  <2>2. v.tick \in Nat
    BY <2>1 DEF SimType
  <2> QED
    BY <2>1, <2>2
<1>7. r = [v EXCEPT !.tick = v.tick + 1]
  BY <1>2, <1>3
<1>8. /\ r \in SimType /\ r.tick = v.tick + 1 /\ r.controls = v.controls /\ r.revision = v.revision
      /\ r.pending = v.pending /\ r.every = v.every /\ r.seq = v.seq /\ r.log = v.log
      /\ r.read = v.read /\ r.garden = v.garden /\ r.keys = v.keys /\ r.chain = v.chain
  BY <1>6, <1>7 DEF SimType
<1>9. SimOK(r)
  <2>1. r.read <= Len(r.log) /\ Numbered(r.log, r.seq) /\ r.revision >= Len(r.pending)
    BY <1>5, <1>8 DEF SimOK
  <2>2. ChainOK(r, r.read) /\ PlayedTo(r, r.read)
    BY <1>5, <1>8 DEF SimOK, ChainOK, PlayedTo
  <2>3. \A i \in 1 .. Len(r.pending) : r.pending[i].revision = (r.revision - Len(r.pending)) + i
    BY <1>5, <1>8 DEF SimOK
  <2> QED
    BY <1>8, <2>1, <2>2, <2>3 DEF SimOK
<1> QED
  BY <1>1, <1>5, <1>8, <1>9 DEF r

-----------------------------------------------------------------------------
(* A history without a snapshot.                                           *)

States(n) == [garden : Gardens(n), keys : SUBSET KeySet]

\* A replay is the log played to its end.
LEMMA ReplayIsPlay ==
    ASSUME NEW n \in Nat, NEW log \in Seq(Records)
    PROVE  Replay(n, log) = Play(n, log)[Len(log)].garden
<1> DEFINE z == [garden |-> EmptyGarden(n), keys |-> {}, log |-> log, read |-> 0, chain |-> <<>>]
<1>1. Len(log) \in Nat
  OBVIOUS
<1>2. /\ z.garden = EmptyGarden(n) /\ z.keys = {} /\ z.log = log /\ z.read = 0 /\ z.chain = <<>>
  OBVIOUS
<1>3. Foldable(z)
  BY DEF Foldable
<1>4. Replay(n, log) = Fold(z, Len(log)).garden
  BY DEF Replay
<1> HIDE DEF z
<1>5. HasPlayed(n, z)
  <2>1. Play(n, log)[0] = Blank(n)
    BY <1>1, PlayUnfolds
  <2>2. z.garden = Play(n, z.log)[z.read].garden /\ z.keys = Play(n, z.log)[z.read].keys
    BY <1>2, <2>1 DEF Blank
  <2>3. z.chain \in Seq(Records \X Gardens(n)) /\ ChainOK(z, z.read)
    BY <1>2 DEF ChainOK
  <2> QED
    BY <1>2, <1>3, <2>2, <2>3 DEF HasPlayed
<1>6. FoldedTo(n, z, Len(log), Fold(z, Len(log)))
  <2>1. z.read \in Nat /\ z.read <= Len(log) /\ Len(log) <= Len(z.log)
    BY <1>1, <1>2
  <2> QED
    BY <1>1, <1>5, <2>1, FoldFacts
<1> QED
  BY <1>2, <1>4, <1>6 DEF FoldedTo

\* A garden of m organisms, and one of n that holds the same and nothing more.
Narrowed(m, n, p, q) ==
    /\ p.keys = q.keys
    /\ \A o \in 0 .. m - 1 : p.garden[o] = q.garden[o]
    /\ \A o \in m .. n - 1 : q.garden[o] = <<>>

\* A record that names an organism both gardens have keeps the smaller one a part.
LEMMA NarrowedOn ==
    ASSUME NEW m \in Nat, NEW n \in Nat, m <= n, NEW p \in States(m), NEW q \in States(n),
           Narrowed(m, n, p, q), NEW e \in Envelopes, Kind(e) => e.entity < m
    PROVE  Narrowed(m, n, Process(p, e), Process(q, e))
<1> DEFINE p2 == Process(p, e)
           q2 == Process(q, e)
<1>1. p.keys = q.keys
  BY DEF Narrowed
<1>2. CASE Key(e) \in p.keys
  BY <1>1, <1>2, ProcessFacts
<1>3. CASE Key(e) \notin p.keys
  <2>1. /\ p2 = [p EXCEPT !.keys = p.keys \cup {Key(e)}, !.garden = Apply(p.garden, e)]
        /\ q2 = [q EXCEPT !.keys = q.keys \cup {Key(e)}, !.garden = Apply(q.garden, e)]
    BY <1>1, <1>3, ProcessFacts
  <2> HIDE DEF p2, q2
  <2>2. /\ p2.keys = p.keys \cup {Key(e)} /\ p2.garden = Apply(p.garden, e)
        /\ q2.keys = q.keys \cup {Key(e)} /\ q2.garden = Apply(q.garden, e)
    BY <2>1 DEF States
  <2>3. DOMAIN p.garden = 0 .. m - 1 /\ DOMAIN q.garden = 0 .. n - 1
    BY DEF States, Gardens
  <2>4. CASE ~Kind(e)
    <3>1. Apply(p.garden, e) = p.garden /\ Apply(q.garden, e) = q.garden
      BY <2>4 DEF Apply, Kind
    <3> QED
      BY <2>2, <3>1 DEF Narrowed, p2, q2
  <2>5. CASE Kind(e)
    <3> DEFINE o == e.entity
               x == <<e.type, e.amount>>
    <3>1. o \in Nat /\ o < m
      BY <2>5, BatchAssumption DEF Envelopes
    <3>2. o \in DOMAIN p.garden /\ o \in DOMAIN q.garden
      BY <2>3, <3>1
    <3>3. /\ Apply(p.garden, e) = [p.garden EXCEPT ![o] = Append(p.garden[o], x)]
          /\ Apply(q.garden, e) = [q.garden EXCEPT ![o] = Append(q.garden[o], x)]
      BY <2>5, <3>2 DEF Apply, Kind
    <3> HIDE DEF o, x
    <3> DEFINE g == p.garden
               h == q.garden
               g2 == Apply(p.garden, e)
               h2 == Apply(q.garden, e)
    <3>4. /\ g2 = [g EXCEPT ![o] = Append(g[o], x)] /\ h2 = [h EXCEPT ![o] = Append(h[o], x)]
          /\ DOMAIN g = 0 .. m - 1 /\ DOMAIN h = 0 .. n - 1
          /\ \A i \in 0 .. m - 1 : g[i] = h[i]
          /\ \A i \in m .. n - 1 : h[i] = <<>>
      BY <2>3, <3>3 DEF Narrowed
    <3>5. p2.garden = g2 /\ q2.garden = h2
      BY <2>2
    <3> HIDE DEF g, h, g2, h2
    <3>6. \A i \in 0 .. m - 1 : g2[i] = h2[i]
      <4> SUFFICES ASSUME NEW i \in 0 .. m - 1 PROVE g2[i] = h2[i]
        OBVIOUS
      <4>1. i \in 0 .. n - 1 /\ g[i] = h[i] /\ g[o] = h[o]
        BY <3>1, <3>4
      <4> QED
        BY <3>4, <4>1
    <3>7. \A i \in m .. n - 1 : h2[i] = <<>>
      <4> SUFFICES ASSUME NEW i \in m .. n - 1 PROVE h2[i] = <<>>
        OBVIOUS
      <4>1. i \in 0 .. n - 1 /\ i # o /\ h[i] = <<>>
        BY <3>1, <3>4
      <4> QED
        BY <3>4, <4>1
    <3> QED
      BY <1>1, <2>2, <3>5, <3>6, <3>7 DEF Narrowed, p2, q2
  <2> QED
    BY <2>4, <2>5
<1> QED
  BY <1>2, <1>3

\* Played into a garden of the organisms it names, a log gives them the same history.
LEMMA PlayedNarrow ==
    ASSUME NEW m \in Nat, NEW n \in Nat, m <= n, NEW log \in Seq(Records),
           \A i \in 1 .. Len(log) : Kind(FromCore(log[i])) => FromCore(log[i]).entity < m
    PROVE  Narrowed(m, n, Play(m, log)[Len(log)], Play(n, log)[Len(log)])
<1> DEFINE P == Play(m, log)
           Q == Play(n, log)
           T == {k \in Nat : k <= Len(log) => Narrowed(m, n, P[k], Q[k])}
<1>0. Len(log) \in Nat
  OBVIOUS
<1>1. 0 \in T
  <2>1. P[0] = Blank(m) /\ Q[0] = Blank(n)
    BY <1>0, PlayUnfolds
  <2>2. Narrowed(m, n, Blank(m), Blank(n))
    <3>1. \A o \in 0 .. m - 1 : o \in 0 .. n - 1
      OBVIOUS
    <3>2. \A o \in m .. n - 1 : o \in 0 .. n - 1
      OBVIOUS
    <3> QED
      BY <3>1, <3>2 DEF Narrowed, Blank, EmptyGarden
  <2> HIDE DEF P, Q
  <2> QED
    BY <2>1, <2>2
<1>2. ASSUME NEW j \in Nat, j \in T PROVE j + 1 \in T
  <2> DEFINE k == j + 1
             e == FromCore(log[k])
  <2> SUFFICES ASSUME k <= Len(log) PROVE Narrowed(m, n, P[k], Q[k])
    OBVIOUS
  <2>1. k \in 1 .. Len(log) /\ k - 1 = j /\ j \in 0 .. Len(log) /\ log[k] \in Records
    BY <1>0
  <2> HIDE DEF k
  <2>2. P[k] = Process(P[j], e) /\ Q[k] = Process(Q[j], e)
    BY <1>0, <2>1, PlayUnfolds
  <2>3. P[j] \in States(m) /\ Q[j] \in States(n)
    BY <2>1, PlayTypes DEF States
  <2>4. e \in Envelopes /\ (Kind(e) => e.entity < m)
    BY <2>1, ReadBack
  <2>5. Narrowed(m, n, P[j], Q[j])
    BY <1>0, <1>2, <2>1
  <2> HIDE DEF P, Q, e
  <2> QED
    BY <2>2, <2>3, <2>4, <2>5, NarrowedOn
<1> HIDE DEF T
<1>3. Len(log) \in T
  BY <1>0, <1>1, <1>2, NumberInduction
<1> QED
  BY <1>0, <1>3 DEF T

\* A set of numbers below a bound has a largest one.
LEMMA LargestExists ==
    ASSUME NEW n \in Nat, NEW S \in SUBSET (0 .. n), S # {}
    PROVE  \E x \in S : \A y \in S : y <= x
<1> DEFINE Bounded(k) == \A R \in SUBSET (0 .. k) : R # {} => \E x \in R : \A y \in R : y <= x
           T == {k \in Nat : Bounded(k)}
<1>1. 0 \in T
  <2>1. 0 .. 0 = {0}
    OBVIOUS
  <2>2. ASSUME NEW R \in SUBSET {0}, R # {} PROVE \E x \in R : \A y \in R : y <= x
    <3>1. \A y \in R : y = 0
      OBVIOUS
    <3>2. 0 \in R
      BY <2>2, <3>1
    <3> QED
      BY <3>1, <3>2
  <2> QED
    BY <2>1, <2>2
<1>2. ASSUME NEW k \in Nat, k \in T PROVE k + 1 \in T
  <2> SUFFICES ASSUME NEW R \in SUBSET (0 .. k + 1), R # {}
               PROVE  \E x \in R : \A y \in R : y <= x
    OBVIOUS
  <2>1. CASE k + 1 \in R
    BY <2>1
  <2>2. CASE k + 1 \notin R
    <3>1. R \in SUBSET (0 .. k)
      BY <2>2
    <3>2. Bounded(k)
      BY <1>2
    <3> QED
      BY <3>1, <3>2
  <2> QED
    BY <2>1, <2>2
<1> HIDE DEF T
<1>3. n \in T
  BY <1>1, <1>2, NumberInduction
<1> QED
  BY <1>3 DEF T

\* The organisms a log names: as many as the garden has at most, and all it touches.
LEMMA CountFacts ==
    ASSUME NEW log \in Seq(Records)
    PROVE  /\ OrganismCount(log) \in 1 .. Organisms
           /\ \A i \in 1 .. Len(log) :
                 Kind(FromCore(log[i])) => FromCore(log[i]).entity < OrganismCount(log)
<1> DEFINE places == {j \in 1 .. Len(log) : FromCore(log[j]).type \in Kinds}
           named == {FromCore(log[i]).entity : i \in places}
           largest == CHOOSE m \in named : \A o \in named : o <= m
<1>1. OrganismCount(log) = IF named = {} THEN 1 ELSE largest + 1
  BY DEF OrganismCount
<1>2. Organisms \in Nat /\ Organisms >= 1
  BY BatchAssumption
<1>3. \A i \in 1 .. Len(log) : Kind(FromCore(log[i])) => FromCore(log[i]).entity \in named
  BY DEF Kind
<1>4. named \in SUBSET (0 .. Organisms - 1)
  <2> SUFFICES ASSUME NEW i \in places PROVE FromCore(log[i]).entity \in 0 .. Organisms - 1
    OBVIOUS
  <2>1. log[i] \in Records
    OBVIOUS
  <2>2. FromCore(log[i]) \in Envelopes /\ Kind(FromCore(log[i]))
    BY <2>1, ReadBack DEF Kind
  <2> QED
    BY <2>2 DEF Envelopes
<1> HIDE DEF named
<1>5. CASE named = {}
  BY <1>1, <1>2, <1>3, <1>5
<1>6. CASE named # {}
  <2>1. Organisms - 1 \in Nat
    BY <1>2
  <2>2. \E x \in named : \A y \in named : y <= x
    BY <1>4, <1>6, <2>1, LargestExists
  <2>3. largest \in named /\ \A y \in named : y <= largest
    BY <2>2
  <2> HIDE DEF largest
  <2>4. largest \in 0 .. Organisms - 1 /\ OrganismCount(log) = largest + 1
    BY <1>1, <1>4, <1>6, <2>3
  <2>5. \A x \in named : x \in Int /\ x <= largest
    BY <1>4, <2>3
  <2>6. \A x \in named : x < OrganismCount(log)
    BY <2>4, <2>5
  <2> QED
    BY <1>2, <1>3, <2>4, <2>6
<1> QED
  BY <1>5, <1>6

-----------------------------------------------------------------------------
(* The live run.                                                           *)

\* The bounds: a tick that has begun is one there are draws for.
TickInv ==
    /\ sim.tick <= TickBound
    /\ loop = "advancing" => sim.tick < TickBound
    /\ driver = "firing" =>
          clock = "manual" /\ sim.tick + (IF loop = "advancing" THEN 1 ELSE 0) < TickBound
    /\ held = 1 => clock = "system"

\* The updates staged are the last ones accepted, at this tick; the others are older.
StageInv ==
    LET n == Len(changes) - Len(sim.pending)
    IN  /\ changes \in Seq([at : Nat, controls : Controls])
        /\ n >= 0
        /\ \A i \in 1 .. n : changes[i].at < sim.tick
        /\ \A i \in 1 .. Len(sim.pending) :
              changes[n + i].at = sim.tick /\ changes[n + i].controls = sim.pending[i].controls

SimInv == SimOK(sim) /\ first \in Controls

\* The three things a step may do to the simulation.
Stages(c) ==
    /\ c \in Controls /\ sim' = SetControls(sim, c)
    /\ changes' = Append(changes, [at |-> sim.tick, controls |-> c])
Steps == loop = "advancing" /\ sim' = Step(sim) /\ changes' = changes
Rests == UNCHANGED <<sim, changes>>

\* Every action stages a change, takes a step or leaves the simulation alone.
LEMMA StepCases ==
    ASSUME [Next]_vars
    PROVE  first' = first /\ (Rests \/ Steps \/ \E c \in Mixes : Stages(c))
<1>1. CASE UNCHANGED vars
  BY <1>1 DEF vars, Rests
<1>2. CASE Fire \/ Deliver \/ Skip
  BY <1>2 DEF Fire, Deliver, Skip, Rests
<1>3. CASE SystemTick \/ TakeTick
  BY <1>3 DEF SystemTick, TakeTick, Rests
<1>4. CASE Advance
  <2>1. loop = "advancing" /\ first' = first /\ changes' = changes /\ (sim' = sim \/ sim' = Step(sim))
    BY <1>4, Zenon DEF Advance
  <2> QED
    BY <2>1 DEF Rests, Steps
<1>5. ASSUME NEW c \in Mixes, UpdateControls(c)
      PROVE  first' = first /\ Stages(c)
  BY <1>5 DEF UpdateControls, Stages, Controls
<1>6. ASSUME NEW paused \in BOOLEAN, SetPaused(paused)
      PROVE  first' = first /\ Rests
  BY <1>6 DEF SetPaused, Rests
<1>7. CASE FinishRun \/ Quit
  BY <1>7 DEF FinishRun, Quit, Rests
<1> QED
  BY <1>1, <1>2, <1>3, <1>4, <1>5, <1>6, <1>7 DEF Next

\* The invariants hold when a run begins.
LEMMA InitInv ==
    ASSUME Init
    PROVE  SimInv /\ TickInv /\ StageInv
<1>1. first \in Controls
  BY DEF Init, Controls
<1>2. PICK every \in Duplicates : sim = New(first, every)
  BY DEF Init
<1>3. every \in Nat
  BY BatchAssumption
<1>4. SimOK(sim)
  BY <1>1, <1>2, <1>3, NewOK
<1>5. sim.tick = 0 /\ sim.pending = <<>>
  BY <1>2 DEF New
<1>6. /\ loop = "select" /\ driver = "idle" /\ held = 0 /\ changes = <<>>
  BY DEF Init
<1>7. TickInv
  BY <1>5, <1>6, BatchBoundsAssumption DEF TickInv
<1>8. StageInv
  <2>1. Len(<<>>) = 0 /\ 1 .. 0 = {} /\ <<>> \in Seq([at : Nat, controls : Controls]) /\ 0 - 0 = 0
    OBVIOUS
  <2> QED
    BY <1>5, <1>6, <2>1 DEF StageInv
<1> QED
  BY <1>1, <1>4, <1>7, <1>8 DEF SimInv

\* Whatever a step does, it leaves a simulation.
LEMMA SimInvStep ==
    ASSUME SimInv, TickInv, [Next]_vars
    PROVE  SimInv'
<1>1. first' = first /\ (Rests \/ Steps \/ \E c \in Mixes : Stages(c))
  BY StepCases
<1>2. CASE Rests
  BY <1>1, <1>2 DEF Rests, SimInv
<1>3. CASE Steps
  <2>1. sim.tick < TickBound
    BY <1>3 DEF Steps, TickInv
  <2>2. SimOK(Step(sim))
    BY <2>1, StepFacts DEF SimInv
  <2> QED
    BY <1>1, <1>3, <2>2 DEF Steps, SimInv
<1>4. ASSUME NEW c \in Mixes, Stages(c) PROVE SimInv'
  <2>1. SimOK(SetControls(sim, c))
    BY <1>4, SetControlsOK DEF Stages, SimInv
  <2> QED
    BY <1>1, <1>4, <2>1 DEF Stages, SimInv
<1> QED
  BY <1>1, <1>2, <1>3, <1>4

\* No tick begins that there are no draws for.
LEMMA TickInvStep ==
    ASSUME SimInv, TickInv, [Next]_vars
    PROVE  TickInv'
<1> DEFINE t == sim.tick
           t2 == sim'.tick
<1>1. t \in Nat /\ TickBound \in Nat
  BY BatchBoundsAssumption DEF SimInv, SimOK, SimType
<1>2. t2 = t \/ (loop = "advancing" /\ t2 = t + 1)
  <2>1. CASE Rests
    BY <2>1 DEF Rests
  <2>2. CASE Steps
    <3>1. t < TickBound
      BY <2>2 DEF Steps, TickInv
    <3>2. Step(sim).tick = t + 1
      BY <3>1, StepFacts DEF SimInv
    <3> QED
      BY <2>2, <3>2 DEF Steps
  <2>3. ASSUME NEW c \in Mixes, Stages(c) PROVE t2 = t
    <3>1. SetControls(sim, c).tick = t
      BY <2>3, SetControlsOK DEF SimInv, Stages
    <3> QED
      BY <2>3, <3>1 DEF Stages
  <2> QED
    BY <2>1, <2>2, <2>3, StepCases
<1>3. /\ t <= TickBound /\ (loop = "advancing" => t < TickBound)
      /\ driver = "firing" => clock = "manual" /\ t + (IF loop = "advancing" THEN 1 ELSE 0) < TickBound
      /\ held = 1 => clock = "system"
  BY DEF TickInv
<1> DEFINE Fine == /\ t2 <= TickBound /\ (loop' = "advancing" => t2 < TickBound)
                   /\ driver' = "firing" =>
                        clock' = "manual" /\ t2 + (IF loop' = "advancing" THEN 1 ELSE 0) < TickBound
                   /\ held' = 1 => clock' = "system"
<1> SUFFICES Fine
  BY DEF TickInv
<1>4. CASE UNCHANGED vars
  BY <1>3, <1>4 DEF vars
<1>5. CASE Fire
  <2>1. sim' = sim
    BY <1>5 DEF Fire
  <2> QED
    BY <1>1, <1>3, <1>5, <2>1 DEF Fire
<1>6. CASE Deliver
  <2>1. sim' = sim
    BY <1>6 DEF Deliver
  <2> QED
    BY <1>1, <1>3, <1>6, <2>1 DEF Deliver
<1>7. CASE Skip
  <2>1. sim' = sim
    BY <1>7 DEF Skip
  <2> QED
    BY <1>1, <1>3, <1>7, <2>1 DEF Skip
<1>8. CASE SystemTick
  <2>1. sim' = sim
    BY <1>8 DEF SystemTick
  <2> QED
    BY <1>1, <1>3, <1>8, <2>1 DEF SystemTick
<1>9. CASE TakeTick
  <2>1. sim' = sim
    BY <1>9 DEF TakeTick
  <2> QED
    BY <1>1, <1>3, <1>9, <2>1 DEF TakeTick
<1>10. CASE Advance
  <2>1. loop = "advancing" /\ loop' = "select" /\ UNCHANGED <<clock, held, driver>>
    BY <1>10 DEF Advance
  <2>2. t2 = t \/ t2 = t + 1
    BY <1>2
  <2> HIDE DEF t, t2
  <2> QED
    BY <1>1, <1>3, <2>1, <2>2
<1>11. ASSUME NEW c \in Mixes, UpdateControls(c) PROVE Fine
  <2>1. loop = "select" /\ UNCHANGED <<loop, clock, held, driver>>
    BY <1>11 DEF UpdateControls
  <2>2. t2 = t
    BY <1>2, <2>1
  <2> HIDE DEF t, t2
  <2> QED
    BY <1>1, <1>3, <2>1, <2>2
<1>12. ASSUME NEW paused \in BOOLEAN, SetPaused(paused) PROVE Fine
  <2>1. sim' = sim
    BY <1>12 DEF SetPaused
  <2> QED
    BY <1>1, <1>3, <1>12, <2>1 DEF SetPaused
<1>13. CASE FinishRun
  <2>1. sim' = sim
    BY <1>13 DEF FinishRun
  <2> QED
    BY <1>1, <1>3, <1>13, <2>1 DEF FinishRun
<1>14. CASE Quit
  <2>1. sim' = sim
    BY <1>14 DEF Quit
  <2> QED
    BY <1>1, <1>3, <1>14, <2>1 DEF Quit
<1> QED
  BY <1>4, <1>5, <1>6, <1>7, <1>8, <1>9, <1>10, <1>11, <1>12, <1>13, <1>14 DEF Next

\* The records alone tell the run: what a simulation is says so.
LEMMA TellsTheRun ==
    ASSUME SimInv
    PROVE  LogTellsTheRun
<1> DEFINE log == sim.log
           m == OrganismCount(log)
           rebuilt == Replay(m, log)
           end == Len(log)
<1>1. SimOK(sim) /\ log \in Seq(Records) /\ end \in Nat /\ sim.garden \in Gardens(Organisms)
  BY DEF SimInv, SimOK, SimType
<1>2. Len(sim.chain) = sim.read /\ \A i \in 1 .. sim.read : sim.chain[i][1] = log[i]
  BY <1>1 DEF SimOK, ChainOK
<1>3. \A i \in 1 .. end : WellFormed(FromCore(log[i]))
  <2> SUFFICES ASSUME NEW i \in 1 .. end PROVE WellFormed(FromCore(log[i]))
    OBVIOUS
  <2>1. log[i] \in Records
    BY <1>1
  <2> QED
    BY <2>1, ReadBack, EnvelopesWellFormed
<1>4. ASSUME sim.read = end
      PROVE  \A o \in DOMAIN sim.garden :
                sim.garden[o] = IF o \in DOMAIN rebuilt THEN rebuilt[o] ELSE <<>>
  <2>1. /\ m \in 1 .. Organisms /\ Organisms \in Nat
        /\ \A i \in 1 .. end : Kind(FromCore(log[i])) => FromCore(log[i]).entity < m
    BY <1>1, CountFacts, BatchAssumption
  <2>2. m \in Nat /\ m <= Organisms
    BY <2>1
  <2>3. sim.garden = Play(Organisms, log)[end].garden
    BY <1>1, <1>4 DEF SimOK, PlayedTo
  <2> HIDE DEF m, log
  <2>4. rebuilt = Play(m, log)[end].garden
    BY <1>1, <2>2, ReplayIsPlay
  <2>5. rebuilt \in Gardens(m)
    <3>1. end \in 0 .. Len(log)
      BY <1>1
    <3> QED
      BY <1>1, <2>2, <2>4, <3>1, PlayTypes
  <2>6. Narrowed(m, Organisms, Play(m, log)[end], Play(Organisms, log)[end])
    BY <1>1, <2>1, <2>2, PlayedNarrow
  <2> HIDE DEF rebuilt, end
  <2>7. /\ DOMAIN rebuilt = 0 .. m - 1 /\ DOMAIN sim.garden = 0 .. Organisms - 1
        /\ \A o \in 0 .. m - 1 : rebuilt[o] = sim.garden[o]
        /\ \A o \in m .. Organisms - 1 : sim.garden[o] = <<>>
    BY <1>1, <2>3, <2>4, <2>5, <2>6 DEF Narrowed, Gardens
  <2>8. \A o \in 0 .. Organisms - 1 : o \in 0 .. m - 1 \/ (o \in m .. Organisms - 1 /\ o \notin 0 .. m - 1)
    BY <2>1, <2>2
  <2> QED
    BY <2>7, <2>8
<1> HIDE DEF rebuilt
<1> QED
  BY <1>2, <1>3, <1>4 DEF LogTellsTheRun, rebuilt

\* Whatever the draws, the controls, the commands and the clock, the records a run
\* has appended tell all of it (Process, Fold and Replay; ToCore and FromCore):
\* they decode as they were written, the chain folds them one by one in order, and
\* a garden rebuilt from them, of as many organisms as they name, is the live one.
THEOREM RecordsTellTheRun == Spec => []LogTellsTheRun
<1>1. Init => SimInv /\ TickInv
  BY InitInv
<1>2. (SimInv /\ TickInv) /\ [Next]_vars => (SimInv /\ TickInv)'
  BY SimInvStep, TickInvStep
<1>3. SimInv /\ TickInv => LogTellsTheRun
  BY TellsTheRun
<1> QED
  BY <1>1, <1>2, <1>3, PTL DEF Spec

-----------------------------------------------------------------------------
(* The control changes of a run.                                           *)

Change == [at : Nat, controls : Controls]

\* An update joins the staged ones, a tick leaves none.
LEMMA StageInvStep ==
    ASSUME SimInv, TickInv, StageInv, [Next]_vars
    PROVE  StageInv'
<1> DEFINE n == Len(changes) - Len(sim.pending)
<1>1. SimOK(sim) /\ sim.tick \in Nat /\ sim.pending \in Seq(Staged) /\ Len(sim.pending) \in Nat
  BY DEF SimInv, SimOK, SimType
<1>2. /\ changes \in Seq(Change) /\ Len(changes) \in Nat /\ n \in Nat
      /\ \A i \in 1 .. n : changes[i].at < sim.tick
      /\ \A i \in 1 .. Len(sim.pending) :
            changes[n + i].at = sim.tick /\ changes[n + i].controls = sim.pending[i].controls
  <2>1. changes \in Seq(Change) /\ n >= 0
    BY DEF StageInv, Change
  <2>2. Len(changes) \in Nat
    BY <2>1
  <2>3. n \in Nat
    BY <1>1, <2>1, <2>2
  <2> QED
    BY <2>1, <2>2, <2>3 DEF StageInv
<1>3. CASE Rests
  <2>1. sim' = sim /\ changes' = changes
    BY <1>3 DEF Rests
  <2> QED
    BY <2>1 DEF StageInv
<1>4. CASE Steps
  <2>1. sim.tick < TickBound
    BY <1>4 DEF Steps, TickInv
  <2>2. sim'.tick = sim.tick + 1 /\ sim'.pending = <<>> /\ changes' = changes
    BY <1>1, <1>4, <2>1, StepFacts DEF Steps
  <2>3. \A i \in 1 .. Len(changes) : changes[i].at < sim.tick + 1
    <3> SUFFICES ASSUME NEW i \in 1 .. Len(changes) PROVE changes[i].at < sim.tick + 1
      OBVIOUS
    <3>1. changes[i].at \in Nat
      <4>1. \A q \in Seq(Change) : \A j \in 1 .. Len(q) : q[j] \in Change
        OBVIOUS
      <4>2. changes[i] \in Change
        BY <1>2, <4>1
      <4> QED
        BY <4>2 DEF Change
    <3>2. CASE i <= n
      <4>1. i \in 1 .. n
        BY <1>2, <3>2
      <4>2. changes[i].at < sim.tick
        BY <1>2, <4>1
      <4> QED
        BY <1>1, <3>1, <4>2
    <3>3. CASE ~(i <= n)
      <4>1. i - n \in 1 .. Len(sim.pending) /\ n + (i - n) = i
        BY <1>1, <1>2, <3>3
      <4>2. changes[i].at = sim.tick
        BY <1>2, <4>1
      <4> QED
        BY <1>1, <4>2
    <3> QED
      BY <3>2, <3>3
  <2>4. Len(<<>>) = 0 /\ 1 .. 0 = {}
    OBVIOUS
  <2>5. Len(changes') - Len(sim'.pending) = Len(changes)
    BY <1>2, <2>2, <2>4
  <2> QED
    BY <1>2, <2>2, <2>3, <2>4, <2>5 DEF StageInv, Change
<1>5. ASSUME NEW c \in Mixes, Stages(c) PROVE StageInv'
  <2> DEFINE new == [at |-> sim.tick, controls |-> c]
             x == [revision |-> sim.revision + 1, controls |-> c]
             p == sim.pending
             q == sim'.pending
             ch == changes
             d == changes'
  <2>1. c \in Controls /\ d = Append(ch, new)
    BY <1>5 DEF Stages
  <2>2. sim'.tick = sim.tick /\ q = Append(p, x)
    BY <1>1, <1>5, <2>1, SetControlsOK DEF Stages
  <2>3. new \in Change /\ x \in Staged
    <3>1. sim.revision \in Nat
      BY <1>1 DEF SimOK, SimType
    <3> QED
      BY <1>1, <2>1, <3>1 DEF Change, Staged
  <2>4. /\ d \in Seq(Change) /\ Len(d) = Len(ch) + 1 /\ d[Len(ch) + 1] = new
        /\ \A i \in 1 .. Len(ch) : d[i] = ch[i]
    <3> HIDE DEF new
    <3> QED
      BY <1>2, <2>1, <2>3
  <2>5. /\ Len(q) = Len(p) + 1 /\ q[Len(p) + 1] = x
        /\ \A i \in 1 .. Len(p) : q[i] = p[i]
    <3> HIDE DEF x
    <3> QED
      BY <1>1, <2>2, <2>3
  <2>6. Len(d) - Len(q) = n
    BY <1>1, <1>2, <2>4, <2>5
  <2>7. \A i \in 1 .. n : d[i].at < sim'.tick
    <3>1. \A i \in 1 .. n : i \in 1 .. Len(ch)
      BY <1>1, <1>2
    <3> HIDE DEF d, ch, n
    <3> QED
      BY <1>2, <2>2, <2>4, <3>1 DEF ch
  <2>8. \A i \in 1 .. Len(q) : d[n + i].at = sim'.tick /\ d[n + i].controls = q[i].controls
    <3> SUFFICES ASSUME NEW i \in 1 .. Len(q)
                 PROVE  d[n + i].at = sim'.tick /\ d[n + i].controls = q[i].controls
      OBVIOUS
    <3>1. CASE i \in 1 .. Len(p)
      <4>1. n + i \in 1 .. Len(ch)
        BY <1>1, <1>2, <3>1
      <4>2. d[n + i] = ch[n + i] /\ q[i] = p[i]
        BY <2>4, <2>5, <3>1, <4>1
      <4>3. ch[n + i].at = sim.tick /\ ch[n + i].controls = p[i].controls
        BY <1>2, <3>1
      <4> QED
        BY <2>2, <4>2, <4>3
    <3>2. CASE i = Len(p) + 1
      <4>0. \A a, b \in Nat : (a - b) + (b + 1) = a + 1
        OBVIOUS
      <4>1. n + i = Len(ch) + 1
        BY <1>1, <1>2, <3>2, <4>0, Zenon
      <4>2. d[n + i] = new /\ q[i] = x
        BY <2>4, <2>5, <3>2, <4>1
      <4> QED
        BY <2>2, <4>2
    <3>3. \A a \in Nat : \A j \in 1 .. a + 1 : j \in 1 .. a \/ j = a + 1
      OBVIOUS
    <3>4. i \in 1 .. Len(p) + 1 /\ Len(p) \in Nat
      <4> HIDE DEF q
      <4> QED
        BY <1>1, <2>5
    <3>5. i \in 1 .. Len(p) \/ i = Len(p) + 1
      BY <3>3, <3>4, Zenon
    <3> QED
      BY <3>1, <3>2, <3>5
  <2>9. d \in Seq([at : Nat, controls : Controls]) /\ n >= 0
    BY <1>2, <2>4 DEF Change
  <2> HIDE DEF n, new, x
  <2> QED
    BY <2>6, <2>7, <2>8, <2>9 DEF StageInv
<1> QED
  BY <1>3, <1>4, <1>5, StepCases

\* The last change of a tick.
IsLastAt(ch, t, i) ==
    i \in 1 .. Len(ch) /\ ch[i].at = t /\ \A j \in i + 1 .. Len(ch) : ch[j].at # t

\* LastPerTick, of any changes.
LastOf(ch, upTo) ==
    [t \in {ch[i].at : i \in 1 .. Len(ch)} \cap 0 .. upTo |->
        ch[CHOOSE i \in 1 .. Len(ch) :
              ch[i].at = t /\ \A j \in i + 1 .. Len(ch) : ch[j].at # t].controls]

\* LastPerTick, as a function of the changes it looks at.
LEMMA LastPerTickIsLastOf ==
    ASSUME NEW upTo
    PROVE  LastPerTick(upTo) = LastOf(changes, upTo)
BY DEF LastPerTick, LastOf

\* A tick with a change has a last one.
LEMMA LastAtExists ==
    ASSUME NEW ch, Len(ch) \in Nat, NEW k \in 1 .. Len(ch)
    PROVE  \E i : IsLastAt(ch, ch[k].at, i)
<1> DEFINE S == {i \in 1 .. Len(ch) : ch[i].at = ch[k].at}
<1>1. S \in SUBSET (0 .. Len(ch)) /\ S # {}
  OBVIOUS
<1>2. PICK i \in S : \A j \in S : j <= i
  <2> HIDE DEF S
  <2> QED
    BY <1>1, LargestExists
<1>3. i \in 1 .. Len(ch) /\ ch[i].at = ch[k].at
  OBVIOUS
<1>4. \A j \in i + 1 .. Len(ch) : ch[j].at # ch[k].at
  <2> SUFFICES ASSUME NEW j \in i + 1 .. Len(ch), ch[j].at = ch[k].at PROVE FALSE
    OBVIOUS
  <2>1. j \in S /\ j > i /\ j \in Int
    BY <1>3
  <2> QED
    BY <1>2, <1>3, <2>1
<1> QED
  BY <1>3, <1>4 DEF IsLastAt

\* And only one.
LEMMA LastAtUnique ==
    ASSUME NEW ch, Len(ch) \in Nat, NEW t, NEW i, NEW j, IsLastAt(ch, t, i), IsLastAt(ch, t, j)
    PROVE  i = j
<1>1. i \in 1 .. Len(ch) /\ j \in 1 .. Len(ch) /\ ch[i].at = t /\ ch[j].at = t
  BY DEF IsLastAt
<1>2. j \notin i + 1 .. Len(ch) /\ i \notin j + 1 .. Len(ch)
  BY <1>1 DEF IsLastAt
<1> QED
  BY <1>1, <1>2

\* What a tick's entry is: the controls of its last change.
TakesLast(ch, upTo, C) ==
    /\ DOMAIN C = {ch[i].at : i \in 1 .. Len(ch)} \cap 0 .. upTo
    /\ \A t \in DOMAIN C : \A i : IsLastAt(ch, t, i) => C[t] = ch[i].controls
    /\ \A t \in DOMAIN C : C[t] \in Controls

\* A batch run is given the last change of every tick that has one, and no other.
LEMMA LastOfFacts ==
    ASSUME NEW ch \in Seq(Change), NEW upTo
    PROVE  TakesLast(ch, upTo, LastOf(ch, upTo))
<1> DEFINE ticks == {ch[i].at : i \in 1 .. Len(ch)} \cap 0 .. upTo
           last(t) == CHOOSE i \in 1 .. Len(ch) :
                         ch[i].at = t /\ \A j \in i + 1 .. Len(ch) : ch[j].at # t
<1>1. LastOf(ch, upTo) = [t \in ticks |-> ch[last(t)].controls]
  BY DEF LastOf
<1>2. \A t : (\E i : IsLastAt(ch, t, i)) => IsLastAt(ch, t, last(t))
  BY Zenon DEF IsLastAt
<1>3. Len(ch) \in Nat
  OBVIOUS
<1>4. \A t \in ticks : IsLastAt(ch, t, last(t))
  <2> SUFFICES ASSUME NEW t \in ticks PROVE IsLastAt(ch, t, last(t))
    OBVIOUS
  <2>1. PICK k \in 1 .. Len(ch) : t = ch[k].at
    OBVIOUS
  <2>2. \E i : IsLastAt(ch, t, i)
    BY <1>3, <2>1, LastAtExists
  <2> HIDE DEF last
  <2> QED
    BY <1>2, <2>2
<1> HIDE DEF last
<1>5. \A t \in ticks : \A i : IsLastAt(ch, t, i) => i = last(t)
  BY <1>3, <1>4, LastAtUnique
<1>6. \A t \in ticks : ch[last(t)].controls \in Controls
  <2> SUFFICES ASSUME NEW t \in ticks PROVE ch[last(t)].controls \in Controls
    OBVIOUS
  <2>1. last(t) \in 1 .. Len(ch)
    BY <1>4 DEF IsLastAt
  <2>2. ch[last(t)] \in Change
    BY <2>1
  <2> QED
    BY <2>2 DEF Change
<1> HIDE DEF ticks
<1> QED
  BY <1>1, <1>5, <1>6 DEF ticks, TakesLast

\* A change at a later tick takes nothing from the ticks before.
LEMMA LastOfGrows ==
    ASSUME NEW ch \in Seq(Change), NEW new \in Change, NEW upTo \in Int, new.at > upTo
    PROVE  LastOf(Append(ch, new), upTo) = LastOf(ch, upTo)
<1> DEFINE d == Append(ch, new)
           D == LastOf(d, upTo)
           C == LastOf(ch, upTo)
<1>1. /\ d \in Seq(Change) /\ Len(d) = Len(ch) + 1 /\ Len(ch) \in Nat
      /\ d[Len(ch) + 1] = new /\ \A i \in 1 .. Len(ch) : d[i] = ch[i]
  OBVIOUS
<1>2. new.at \in Nat
  BY DEF Change
<1> HIDE DEF d
<1>3. \A t \in 0 .. upTo : \A i : IsLastAt(ch, t, i) => IsLastAt(d, t, i)
  <2> SUFFICES ASSUME NEW t \in 0 .. upTo, NEW i, IsLastAt(ch, t, i) PROVE IsLastAt(d, t, i)
    OBVIOUS
  <2>1. i \in 1 .. Len(ch) /\ ch[i].at = t /\ \A j \in i + 1 .. Len(ch) : ch[j].at # t
    BY DEF IsLastAt
  <2>2. i \in 1 .. Len(d) /\ d[i].at = t
    BY <1>1, <2>1
  <2>3. ASSUME NEW j \in i + 1 .. Len(d) PROVE d[j].at # t
    <3>1. CASE j \in 1 .. Len(ch)
      <4>1. j \in i + 1 .. Len(ch)
        BY <2>1, <2>3, <3>1
      <4> QED
        BY <1>1, <2>1, <3>1, <4>1
    <3>2. CASE j = Len(ch) + 1
      BY <1>1, <1>2, <3>2
    <3> QED
      BY <1>1, <2>1, <2>3, <3>1, <3>2
  <2> QED
    BY <2>2, <2>3 DEF IsLastAt
<1>4. {d[i].at : i \in 1 .. Len(d)} \cap 0 .. upTo = {ch[i].at : i \in 1 .. Len(ch)} \cap 0 .. upTo
  <2>1. \A i \in 1 .. Len(ch) : i \in 1 .. Len(d) /\ d[i] = ch[i]
    BY <1>1
  <2>2. \A i \in 1 .. Len(d) : i \in 1 .. Len(ch) \/ d[i] = new
    BY <1>1
  <2>3. new.at \notin 0 .. upTo
    BY <1>2
  <2> QED
    BY <2>1, <2>2, <2>3
<1>5. DOMAIN D = DOMAIN C
  <2>1. TakesLast(d, upTo, D) /\ TakesLast(ch, upTo, C)
    BY <1>1, LastOfFacts
  <2>2. /\ DOMAIN D = {d[i].at : i \in 1 .. Len(d)} \cap 0 .. upTo
        /\ DOMAIN C = {ch[i].at : i \in 1 .. Len(ch)} \cap 0 .. upTo
    BY <2>1 DEF TakesLast
  <2> QED
    BY <1>4, <2>2
<1>6. /\ DOMAIN C = {ch[i].at : i \in 1 .. Len(ch)} \cap 0 .. upTo
      /\ \A t \in DOMAIN C : \A i : IsLastAt(ch, t, i) => C[t] = ch[i].controls
  <2>1. TakesLast(ch, upTo, C)
    BY LastOfFacts
  <2> HIDE DEF C
  <2> QED
    BY <2>1 DEF TakesLast
<1>7. \A t \in DOMAIN D : \A i : IsLastAt(d, t, i) => D[t] = d[i].controls
  <2>1. TakesLast(d, upTo, D)
    BY <1>1, LastOfFacts
  <2> HIDE DEF D
  <2> QED
    BY <2>1 DEF TakesLast
<1>8. ASSUME NEW t \in DOMAIN C PROVE D[t] = C[t]
  <2> HIDE DEF C, D
  <2>1. PICK k \in 1 .. Len(ch) : t = ch[k].at /\ t \in 0 .. upTo
    BY <1>6
  <2>2. PICK i : IsLastAt(ch, t, i)
    BY <1>1, <2>1, LastAtExists
  <2>3. IsLastAt(d, t, i) /\ i \in 1 .. Len(ch)
    BY <1>3, <2>1, <2>2 DEF IsLastAt
  <2>4. C[t] = ch[i].controls
    BY <1>6, <2>2
  <2>5. D[t] = d[i].controls
    BY <1>5, <1>7, <2>3
  <2> QED
    BY <1>1, <2>3, <2>4, <2>5
<1>9. D = [t \in DOMAIN D |-> D[t]] /\ C = [t \in DOMAIN C |-> C[t]]
  BY DEF LastOf
<1> HIDE DEF C, D
<1>10. D = C
  BY <1>5, <1>8, <1>9
<1> QED
  BY <1>10 DEF C, D, d

-----------------------------------------------------------------------------
(* The batch run.                                                          *)

IsBatchRun(cfg, f) ==
    f = [t \in 0 .. cfg.ticks |->
            IF t = 0 THEN New(cfg.controls, cfg.every)
            ELSE The({Step(x) : x \in {Changed(y, cfg) : y \in {f[t - 1]}}})]

\* Execute is the last entry of such a table.
LEMMA ExecuteIsTable ==
    ASSUME NEW cfg
    PROVE  Execute(cfg) = (CHOOSE f : IsBatchRun(cfg, f))[cfg.ticks]
BY DEF Execute, IsBatchRun

\* A tick of the batch run.
Ticked(v, cfg) == Step(Changed(v, cfg))

\* One tick of Execute: the change that is due, then Step.
LEMMA TickedOnce ==
    ASSUME NEW v, NEW cfg
    PROVE  The({Step(x) : x \in {Changed(y, cfg) : y \in {v}}}) = Ticked(v, cfg)
<1>1. {Step(x) : x \in {Changed(y, cfg) : y \in {v}}} = {Ticked(v, cfg)}
  BY DEF Ticked
<1> QED
  BY <1>1, The1

\* There is such a table.
LEMMA BatchRunExists ==
    ASSUME NEW cfg, cfg.ticks \in Nat
    PROVE  \E f : IsBatchRun(cfg, f)
<1> DEFINE zero == New(cfg.controls, cfg.every)
           next(v) == Ticked(v, cfg)
           Upto(m, f) == f = [t \in 0 .. m |-> IF t = 0 THEN zero ELSE next(f[t - 1])]
           T == {m \in Nat : \E f : Upto(m, f)}
<1>0. \A f : IsBatchRun(cfg, f) <=> Upto(cfg.ticks, f)
  <2>1. \A v : The({Step(x) : x \in {Changed(y, cfg) : y \in {v}}}) = next(v)
    BY TickedOnce
  <2> HIDE DEF next
  <2> SUFFICES ASSUME NEW f PROVE IsBatchRun(cfg, f) <=> Upto(cfg.ticks, f)
    OBVIOUS
  <2>2. [t \in 0 .. cfg.ticks |->
            IF t = 0 THEN zero ELSE The({Step(x) : x \in {Changed(y, cfg) : y \in {f[t - 1]}}})]
         = [t \in 0 .. cfg.ticks |-> IF t = 0 THEN zero ELSE next(f[t - 1])]
    BY <2>1, Zenon
  <2> QED
    BY <2>2 DEF IsBatchRun
<1> HIDE DEF next, zero
<1>1. 0 \in T
  <2>1. Upto(0, [t \in 0 .. 0 |-> zero])
    OBVIOUS
  <2> QED
    BY <2>1
<1>2. ASSUME NEW m \in Nat, m \in T PROVE m + 1 \in T
  <2>1. PICK f : Upto(m, f)
    BY <1>2
  <2> DEFINE g == [t \in 0 .. m + 1 |-> IF t = m + 1 THEN next(f[m]) ELSE f[t]]
  <2>2. \A t \in 0 .. m : g[t] = f[t]
    OBVIOUS
  <2>3. g[m + 1] = next(g[m])
    BY <2>2
  <2>4. \A t \in 1 .. m : g[t] = next(g[t - 1])
    BY <2>1, <2>2
  <2>5. g[0] = zero
    BY <2>1, <2>2
  <2>6. \A t \in 0 .. m + 1 : g[t] = IF t = 0 THEN zero ELSE next(g[t - 1])
    <3>1. \A t \in 0 .. m + 1 : t = 0 \/ t = m + 1 \/ t \in 1 .. m
      OBVIOUS
    <3> HIDE DEF g
    <3> QED
      BY <2>3, <2>4, <2>5, <3>1
  <2>7. Upto(m + 1, g)
    BY <2>6
  <2> HIDE DEF Upto, g
  <2> QED
    BY <2>7
<1> HIDE DEF T
<1>3. cfg.ticks \in T
  BY <1>1, <1>2, NumberInduction
<1> QED
  BY <1>0, <1>3 DEF T

\* It goes on by one tick per entry.
LEMMA BatchRunUnfolds ==
    ASSUME NEW cfg, cfg.ticks \in Nat, NEW f, IsBatchRun(cfg, f)
    PROVE  /\ f[0] = New(cfg.controls, cfg.every)
           /\ \A t \in 1 .. cfg.ticks : f[t] = Ticked(f[t - 1], cfg)
<1>1. 0 \in 0 .. cfg.ticks
  OBVIOUS
<1>2. ASSUME NEW t \in 1 .. cfg.ticks PROVE f[t] = Ticked(f[t - 1], cfg)
  <2>1. t \in 0 .. cfg.ticks /\ t # 0
    OBVIOUS
  <2>2. f[t] = The({Step(x) : x \in {Changed(y, cfg) : y \in {f[t - 1]}}})
    BY <2>1 DEF IsBatchRun
  <2> QED
    BY <2>2, TickedOnce
<1> QED
  BY <1>1, <1>2 DEF IsBatchRun

\* A configuration a batch run takes, as far as there are draws.
CfgOK(cfg) ==
    /\ cfg.ticks \in 0 .. TickBound /\ cfg.controls \in Controls /\ cfg.every \in Nat
    /\ \A t \in DOMAIN cfg.changes : cfg.changes[t] \in Controls

\* What the controls of the next tick are to be.
Due(s, cfg) == IF s.tick \in DOMAIN cfg.changes THEN cfg.changes[s.tick] ELSE s.controls

\* The change that is due is what the tick then obeys.
LEMMA ChangedFacts ==
    ASSUME NEW cfg, CfgOK(cfg), NEW s, SimOK(s), s.pending = <<>>
    PROVE  LET r == Changed(s, cfg)
           IN  /\ SimOK(r) /\ r.tick = s.tick /\ r.every = s.every /\ r.log = s.log
               /\ Obeyed(r) = Due(s, cfg)
<1> DEFINE r == Changed(s, cfg)
<1>1. CASE s.tick \notin DOMAIN cfg.changes
  BY <1>1 DEF Changed, Obeyed, Due
<1>2. CASE s.tick \in DOMAIN cfg.changes
  <2> DEFINE c == cfg.changes[s.tick]
             x == [revision |-> s.revision + 1, controls |-> c]
  <2>1. c \in Controls
    BY <1>2 DEF CfgOK
  <2>2. r = SetControls(s, c) /\ Due(s, cfg) = c
    BY <1>2 DEF Changed, Due
  <2> HIDE DEF c, r
  <2>3. /\ SimOK(r) /\ r.tick = s.tick /\ r.every = s.every /\ r.log = s.log
        /\ r.pending = Append(<<>>, x)
    BY <2>1, <2>2, SetControlsOK
  <2>4. x.controls = c
    OBVIOUS
  <2> HIDE DEF x
  <2>5. Len(r.pending) = 1 /\ r.pending[1] = x /\ r.pending # <<>>
    BY <2>3
  <2>6. Obeyed(r) = c
    BY <2>4, <2>5 DEF Obeyed
  <2> QED
    BY <2>2, <2>3, <2>6 DEF r
<1> QED
  BY <1>1, <1>2

\* A batch run between two ticks.
Between(s, t, every) == SimOK(s) /\ s.tick = t /\ s.pending = <<>> /\ s.every = every

\* A batch run between two ticks is between the next two after one more.
LEMMA TickedOK ==
    ASSUME NEW cfg, CfgOK(cfg), NEW t \in Nat, t < TickBound, NEW s, Between(s, t, cfg.every)
    PROVE  /\ Between(Ticked(s, cfg), t + 1, cfg.every)
           /\ Ticked(s, cfg).controls = Due(s, cfg)
<1> DEFINE r == Changed(s, cfg)
           u == Step(r)
<1>1. SimOK(s) /\ s.pending = <<>> /\ s.tick = t /\ s.every = cfg.every
  BY DEF Between
<1>2. SimOK(r) /\ r.tick = t /\ r.every = cfg.every /\ Obeyed(r) = Due(s, cfg)
  BY <1>1, ChangedFacts
<1> HIDE DEF r
<1>3. SimOK(u) /\ u.tick = t + 1 /\ u.controls = Obeyed(r) /\ u.pending = <<>> /\ u.every = cfg.every
  BY <1>2, StepFacts
<1>4. Ticked(s, cfg) = u
  BY DEF Ticked, r
<1> QED
  BY <1>2, <1>3, <1>4 DEF Between

\* A batch run begins between ticks.
LEMMA StartBetween ==
    ASSUME NEW cfg, CfgOK(cfg)
    PROVE  Between(New(cfg.controls, cfg.every), 0, cfg.every)
<1>1. SimOK(New(cfg.controls, cfg.every))
  BY NewOK DEF CfgOK
<1> QED
  BY <1>1 DEF Between, New

\* One configuration goes a tick further than another, and asks for the same before.
Extends(A, B) ==
    /\ B.ticks = A.ticks + 1 /\ B.controls = A.controls /\ B.every = A.every
    /\ \A t \in 0 .. A.ticks - 1 :
          /\ t \in DOMAIN A.changes <=> t \in DOMAIN B.changes
          /\ t \in DOMAIN A.changes => A.changes[t] = B.changes[t]

\* Execute stops between ticks, as many as were asked for.
LEMMA ExecuteFacts ==
    ASSUME NEW cfg, CfgOK(cfg)
    PROVE  /\ Between(Execute(cfg), cfg.ticks, cfg.every)
           /\ cfg.ticks = 0 => Execute(cfg) = New(cfg.controls, cfg.every)
<1> DEFINE f == CHOOSE h : IsBatchRun(cfg, h)
           T == {t \in Nat : t <= cfg.ticks => Between(f[t], t, cfg.every)}
<1>1. cfg.ticks \in Nat /\ cfg.ticks <= TickBound /\ TickBound \in Nat
  BY BatchBoundsAssumption DEF CfgOK
<1>2. IsBatchRun(cfg, f)
  BY <1>1, BatchRunExists
<1>3. Execute(cfg) = f[cfg.ticks]
  BY ExecuteIsTable
<1> HIDE DEF f
<1>4. /\ f[0] = New(cfg.controls, cfg.every)
      /\ \A t \in 1 .. cfg.ticks : f[t] = Ticked(f[t - 1], cfg)
  BY <1>1, <1>2, BatchRunUnfolds
<1>5. 0 \in T
  BY <1>4, StartBetween
<1>6. ASSUME NEW m \in Nat, m \in T PROVE m + 1 \in T
  <2> SUFFICES ASSUME m + 1 <= cfg.ticks PROVE Between(f[m + 1], m + 1, cfg.every)
    OBVIOUS
  <2>1. m + 1 \in 1 .. cfg.ticks /\ (m + 1) - 1 = m /\ m < TickBound /\ m <= cfg.ticks
    BY <1>1
  <2>2. f[m + 1] = Ticked(f[m], cfg)
    BY <1>4, <2>1
  <2>3. Between(f[m], m, cfg.every)
    BY <1>6, <2>1
  <2> QED
    BY <2>1, <2>2, <2>3, TickedOK
<1> HIDE DEF T
<1>7. cfg.ticks \in T
  BY <1>1, <1>5, <1>6, NumberInduction
<1>8. Between(f[cfg.ticks], cfg.ticks, cfg.every)
  BY <1>1, <1>7 DEF T
<1> QED
  BY <1>3, <1>4, <1>8

\* A batch run of one tick more is the batch run so far and a tick.
LEMMA ExecuteGoesOn ==
    ASSUME NEW A, CfgOK(A), NEW B, CfgOK(B), Extends(A, B)
    PROVE  Execute(B) = Ticked(Execute(A), B)
<1> DEFINE f == CHOOSE h : IsBatchRun(A, h)
           g == CHOOSE h : IsBatchRun(B, h)
           T == {t \in Nat : t <= A.ticks => f[t] = g[t] /\ Between(f[t], t, A.every)}
<1>1. /\ A.ticks \in Nat /\ A.ticks <= TickBound /\ TickBound \in Nat
      /\ B.ticks \in Nat /\ B.ticks = A.ticks + 1
  BY BatchBoundsAssumption DEF CfgOK, Extends
<1>2. IsBatchRun(A, f) /\ IsBatchRun(B, g)
  BY <1>1, BatchRunExists
<1>3. Execute(A) = f[A.ticks] /\ Execute(B) = g[B.ticks]
  BY ExecuteIsTable
<1> HIDE DEF f, g
<1>4. /\ f[0] = New(A.controls, A.every)
      /\ \A t \in 1 .. A.ticks : f[t] = Ticked(f[t - 1], A)
  BY <1>1, <1>2, BatchRunUnfolds
<1>5. /\ g[0] = New(B.controls, B.every)
      /\ \A t \in 1 .. B.ticks : g[t] = Ticked(g[t - 1], B)
  BY <1>1, <1>2, BatchRunUnfolds
<1>6. 0 \in T
  BY <1>4, <1>5, StartBetween DEF Extends
<1>7. ASSUME NEW m \in Nat, m \in T PROVE m + 1 \in T
  <2> SUFFICES ASSUME m + 1 <= A.ticks
               PROVE  f[m + 1] = g[m + 1] /\ Between(f[m + 1], m + 1, A.every)
    OBVIOUS
  <2>1. /\ m + 1 \in 1 .. A.ticks /\ m + 1 \in 1 .. B.ticks /\ (m + 1) - 1 = m
        /\ m < TickBound /\ m <= A.ticks /\ m \in 0 .. A.ticks - 1
    BY <1>1
  <2>2. f[m + 1] = Ticked(f[m], A) /\ g[m + 1] = Ticked(g[m], B)
    BY <1>4, <1>5, <2>1
  <2>3. f[m] = g[m] /\ Between(f[m], m, A.every)
    BY <1>7, <2>1
  <2>4. f[m].tick = m
    BY <2>3 DEF Between
  <2>5. Changed(f[m], A) = Changed(f[m], B)
    BY <2>1, <2>4 DEF Changed, Extends
  <2>6. f[m + 1] = g[m + 1]
    BY <2>2, <2>3, <2>5 DEF Ticked
  <2>7. Between(f[m + 1], m + 1, A.every)
    BY <2>1, <2>2, <2>3, TickedOK
  <2> QED
    BY <2>6, <2>7
<1> HIDE DEF T
<1>8. A.ticks \in T
  BY <1>1, <1>6, <1>7, NumberInduction
<1>9. f[A.ticks] = g[A.ticks]
  BY <1>1, <1>8 DEF T
<1>10. g[B.ticks] = Ticked(g[A.ticks], B)
  <2>1. B.ticks \in 1 .. B.ticks /\ B.ticks - 1 = A.ticks
    BY <1>1
  <2> QED
    BY <1>5, <2>1
<1> QED
  BY <1>3, <1>9, <1>10

-----------------------------------------------------------------------------
(* Two runs that obey the same controls.                                   *)

\* The garden and the keys a run will have when it has folded all its log.
Played(s) == Play(Organisms, s.log)[Len(s.log)]

\* The log a step leaves, part by part: the log so far, the control records, the
\* events as they are delivered.
Delivered(s) == Redelivered(Events(s), s.every)

LogParts(s, log) ==
    /\ log \in Seq(Records) /\ Len(log) = Len(s.log) + Len(s.pending) + Len(Delivered(s))
    /\ Len(Delivered(s)) \in Nat
    /\ \A i \in 1 .. Len(s.log) : log[i] = s.log[i]
    /\ \A i \in 1 .. Len(s.pending) :
          FromCore(log[Len(s.log) + i]) \in Envelopes /\ ~Kind(FromCore(log[Len(s.log) + i]))
    /\ \A i \in 1 .. Len(Delivered(s)) :
          FromCore(log[Len(s.log) + Len(s.pending) + i]) = Delivered(s)[i]

\* What a Step adds to the log.
LEMMA StepLog ==
    ASSUME NEW s, SimOK(s), s.tick < TickBound
    PROVE  LogParts(s, Step(s).log)
<1> DEFINE A == Announced(s)
           R == Delivered(s)
           q == A \o R
           X == Encoded(q)
           old == s.log
           log == old \o X
           n == Len(s.pending)
<1>1. /\ A \in Seq(Envelopes) /\ Len(A) = n /\ n \in Nat
      /\ \A i \in 1 .. n : ~Kind(A[i])
  <2>1. n \in Nat
    BY DEF SimOK, SimType
  <2> QED
    BY <2>1, AnnouncedFacts
<1>2. R \in Seq(Envelopes) /\ old \in Seq(Records)
  <2>1. CopiedAlike(Events(s), Events(s), Len(Events(s)), R, R)
    BY EventsFacts DEF Delivered
  <2> HIDE DEF R
  <2>2. R \in Seq(Envelopes)
    BY <2>1 DEF CopiedAlike
  <2> QED
    BY <2>2 DEF SimOK, SimType
<1>3. Step(s).log = log
  BY StepFacts, BatchParts DEF Delivered
<1> HIDE DEF A, R, old, n
<1>4. /\ q \in Seq(Envelopes) /\ Len(q) = n + Len(R) /\ Len(R) \in Nat
      /\ \A i \in 1 .. n + Len(R) : q[i] = IF i <= n THEN A[i] ELSE R[i - n]
  BY <1>1, <1>2, Joined
<1> HIDE DEF q
<1>5. X \in Seq(Records) /\ Len(X) = n + Len(R) /\ \A i \in 1 .. n + Len(R) : FromCore(X[i]) = q[i]
  BY <1>4, EncodedFacts
<1> HIDE DEF X
<1>6. /\ log \in Seq(Records) /\ Len(log) = Len(old) + Len(X) /\ Len(old) \in Nat
      /\ \A i \in 1 .. Len(old) + Len(X) : log[i] = IF i <= Len(old) THEN old[i] ELSE X[i - Len(old)]
  <2>1. old \in Seq(Records) /\ X \in Seq(Records)
    BY <1>2, <1>5
  <2> HIDE DEF Records
  <2> QED
    BY <2>1, Joined, Zenon
<1> HIDE DEF log
<1>7. Len(log) = Len(old) + n + Len(R)
  BY <1>1, <1>4, <1>5, <1>6
<1>8. \A i \in 1 .. Len(old) : log[i] = old[i]
  BY <1>1, <1>4, <1>5, <1>6
<1>9. \A i \in 1 .. n + Len(R) : FromCore(log[Len(old) + i]) = q[i]
  <2> SUFFICES ASSUME NEW i \in 1 .. n + Len(R) PROVE FromCore(log[Len(old) + i]) = q[i]
    OBVIOUS
  <2>1. /\ Len(old) + i \in 1 .. Len(old) + Len(X) /\ ~(Len(old) + i <= Len(old))
        /\ (Len(old) + i) - Len(old) = i
    BY <1>1, <1>4, <1>5, <1>6
  <2>2. log[Len(old) + i] = X[i]
    BY <1>6, <2>1
  <2> QED
    BY <1>5, <2>2
<1>10. \A i \in 1 .. n :
          FromCore(log[Len(old) + i]) \in Envelopes /\ ~Kind(FromCore(log[Len(old) + i]))
  <2> SUFFICES ASSUME NEW i \in 1 .. n
               PROVE  FromCore(log[Len(old) + i]) \in Envelopes /\ ~Kind(FromCore(log[Len(old) + i]))
    OBVIOUS
  <2>1. i \in 1 .. n + Len(R) /\ i <= n
    BY <1>1, <1>4
  <2>2. q[i] = A[i] /\ A[i] \in Envelopes
    BY <1>1, <1>4, <2>1
  <2> QED
    BY <1>1, <1>9, <2>1, <2>2
<1>11. \A i \in 1 .. Len(R) : FromCore(log[Len(old) + n + i]) = R[i]
  <2> SUFFICES ASSUME NEW i \in 1 .. Len(R) PROVE FromCore(log[Len(old) + n + i]) = R[i]
    OBVIOUS
  <2>1. /\ n + i \in 1 .. n + Len(R) /\ ~(n + i <= n) /\ (n + i) - n = i
        /\ Len(old) + n + i = Len(old) + (n + i)
    BY <1>1, <1>4, <1>6
  <2>2. q[n + i] = R[i]
    BY <1>4, <2>1
  <2> QED
    BY <1>9, <2>1, <2>2
<1> QED
  BY <1>3, <1>4, <1>6, <1>7, <1>8, <1>10, <1>11 DEF LogParts, old, n, R

\* The control records leave the garden alone and take no event's key.
LEMMA AfterControls ==
    ASSUME NEW s, SimOK(s), NEW log, LogParts(s, log)
    PROVE  LET p == Play(Organisms, log)[Len(s.log) + Len(s.pending)]
           IN  /\ p.garden = Played(s).garden
               /\ \A m \in Nat : <<"event", s.seq + Len(s.pending) + (m + 1)>> \notin p.keys
<1> DEFINE P == Play(Organisms, log)
           L == Len(s.log)
           n == Len(s.pending)
           R == Delivered(s)
           T == {i \in Nat : i <= n => P[L + i].garden = Played(s).garden}
<1>1. /\ L \in Nat /\ n \in Nat /\ s.seq \in Nat /\ s.log \in Seq(Records)
      /\ Numbered(s.log, s.seq) /\ Organisms \in Nat
  BY BatchAssumption DEF SimOK, SimType
<1>2. /\ log \in Seq(Records) /\ Len(log) = L + n + Len(R)
      /\ \A i \in 1 .. L : log[i] = s.log[i]
      /\ \A i \in 1 .. n : FromCore(log[L + i]) \in Envelopes /\ ~Kind(FromCore(log[L + i]))
  BY DEF LogParts
<1>3. Len(log) \in Nat /\ L + n <= Len(log)
  <2>1. Len(R) \in Nat
    BY DEF LogParts
  <2> HIDE DEF L, n, R
  <2> QED
    BY <1>1, <1>2, <2>1
<1> HIDE DEF n, R
<1>4. 0 \in T
  <2>1. L + 0 = L /\ L \in 0 .. L /\ L <= Len(log)
    BY <1>1, <1>3
  <2>2. P[L] = Play(Organisms, s.log)[L]
    BY <1>1, <1>2, <1>3, <2>1, PlayAgrees
  <2> QED
    BY <2>1, <2>2 DEF Played
<1>5. ASSUME NEW m \in Nat, m \in T PROVE m + 1 \in T
  <2> DEFINE k == L + (m + 1)
             e == FromCore(log[k])
  <2> SUFFICES ASSUME m + 1 <= n PROVE P[k].garden = Played(s).garden
    OBVIOUS
  <2>1. P[L + m].garden = Played(s).garden
    BY <1>1, <1>5
  <2>2. e \in Envelopes /\ ~Kind(e)
    <3>1. m + 1 \in 1 .. n
      BY <1>1
    <3> HIDE DEF L
    <3> QED
      BY <1>2, <3>1
  <2>3. k \in 1 .. Len(log) /\ k - 1 = L + m /\ L + m \in 0 .. Len(log)
    <3> HIDE DEF L
    <3> QED
      BY <1>1, <1>3
  <2>4. P[k] = Process(P[L + m], e)
    BY <1>3, <2>3, PlayUnfolds
  <2>5. P[L + m] \in States(Organisms)
    BY <1>1, <1>2, <2>3, PlayTypes DEF States
  <2> HIDE DEF P, e, k, L
  <2>6. \A g : Apply(g, e) = g
    BY <2>2 DEF Apply, Kind
  <2>7. Process(P[L + m], e).garden = P[L + m].garden
    <3> DEFINE p == P[L + m]
    <3>1. p \in States(Organisms)
      BY <2>5
    <3> HIDE DEF p
    <3> SUFFICES Process(p, e).garden = p.garden
      BY DEF p
    <3>2. CASE Key(e) \in p.keys
      BY <2>2, <3>2, ProcessFacts
    <3>3. CASE Key(e) \notin p.keys
      <4>1. Process(p, e) = [p EXCEPT !.keys = p.keys \cup {Key(e)}, !.garden = Apply(p.garden, e)]
        BY <2>2, <3>3, ProcessFacts
      <4> QED
        BY <2>6, <3>1, <4>1 DEF States
    <3> QED
      BY <3>2, <3>3
  <2> QED
    BY <2>1, <2>4, <2>7
<1> HIDE DEF T
<1>6. P[L + n].garden = Played(s).garden
  <2>1. n \in T
    BY <1>1, <1>4, <1>5, NumberInduction
  <2> QED
    BY <1>1, <2>1 DEF T
<1>7. ASSUME NEW m \in Nat, <<"event", s.seq + n + (m + 1)>> \in P[L + n].keys
      PROVE  FALSE
  <2> DEFINE x == <<"event", s.seq + n + (m + 1)>>
             key(i) == Key(FromCore(log[i]))
  <2>1. PICK i \in 1 .. L + n : x = key(i)
    <3>1. L + n \in 0 .. Len(log)
      BY <1>1, <1>3
    <3>2. \A y \in P[L + n].keys : \E i \in 1 .. L + n : y = Key(FromCore(log[i]))
      BY <1>1, <1>2, <3>1, PlayTypes
    <3> QED
      BY <1>7, <3>2
  <2>2. CASE i \in 1 .. L
    <3> DEFINE e == FromCore(log[i])
    <3>1. log[i] = s.log[i] /\ s.log[i] \in Records
      BY <1>1, <1>2, <2>2
    <3>2. e \in Envelopes
      BY <3>1, ReadBack
    <3>3. Kind(e) => \E j \in 1 .. s.seq : e.id = <<"event", j>>
      BY <1>1, <2>2, <3>1 DEF Numbered
    <3> HIDE DEF e
    <3>4. x = Key(e)
      BY <2>1 DEF e
    <3>5. x[1] = "event" /\ x[2] = s.seq + n + (m + 1)
      OBVIOUS
    <3> HIDE DEF x
    <3>6. CASE Kind(e)
      <4>1. PICK j \in 1 .. s.seq : x = <<"event", j>>
        BY <3>2, <3>3, <3>4, <3>6, KeysOfEnvelopes
      <4>2. x[2] = j
        BY <4>1
      <4> QED
        BY <1>1, <3>5, <4>2
    <3>7. CASE ~Kind(e)
      <4>1. x[1] = "control_changed"
        BY <3>2, <3>4, <3>7, KeysOfEnvelopes
      <4> QED
        BY <3>5, <4>1
    <3> QED
      BY <3>6, <3>7
  <2>3. CASE i \notin 1 .. L
    <3> DEFINE e == FromCore(log[i])
    <3>1. i - L \in 1 .. n /\ L + (i - L) = i
      BY <1>1, <2>3
    <3>2. e \in Envelopes /\ ~Kind(e)
      BY <1>2, <3>1
    <3>3. x = Key(e)
      BY <2>1
    <3> HIDE DEF e
    <3>4. x[1] = "control_changed"
      BY <3>2, <3>3, KeysOfEnvelopes
    <3> QED
      BY <3>4
  <2> QED
    BY <2>2, <2>3
<1> QED
  BY <1>6, <1>7 DEF n

\* Two states that agree on the garden, and on which of the next k events they have had.
Same(p, q, a, b, k) ==
    /\ p.garden = q.garden
    /\ \A m \in 1 .. k : <<"event", a + m>> \in p.keys <=> <<"event", b + m>> \in q.keys

\* The same event under two numbers keeps two gardens the same: each table knows it or
\* neither does.
LEMMA SameOn ==
    ASSUME NEW p \in States(Organisms), NEW q \in States(Organisms), NEW a \in Nat, NEW b \in Nat,
           NEW k \in Nat, Same(p, q, a, b, k), NEW m \in 1 .. k,
           NEW d \in Envelopes, Kind(d), d.id = <<"event", a + m>>,
           NEW e \in Envelopes, Kind(e), e.id = <<"event", b + m>>, Effect(d) = Effect(e)
    PROVE  Same(Process(p, d), Process(q, e), a, b, k)
<1> DEFINE p2 == Process(p, d)
           q2 == Process(q, e)
<1>1. Key(d) = <<"event", a + m>> /\ Key(e) = <<"event", b + m>>
  BY KeysOfEnvelopes
<1>2. Key(d) \in p.keys <=> Key(e) \in q.keys
  BY <1>1 DEF Same
<1>3. CASE Key(d) \in p.keys
  <2>1. p2 = p /\ q2 = q
    BY <1>2, <1>3, ProcessFacts
  <2> QED
    BY <2>1
<1>4. CASE Key(d) \notin p.keys
  <2>1. /\ p2 = [p EXCEPT !.keys = p.keys \cup {Key(d)}, !.garden = Apply(p.garden, d)]
        /\ q2 = [q EXCEPT !.keys = q.keys \cup {Key(e)}, !.garden = Apply(q.garden, e)]
    BY <1>2, <1>4, ProcessFacts
  <2> HIDE DEF p2, q2
  <2>2. /\ p2.keys = p.keys \cup {Key(d)} /\ p2.garden = Apply(p.garden, d)
        /\ q2.keys = q.keys \cup {Key(e)} /\ q2.garden = Apply(q.garden, e)
    BY <2>1 DEF States
  <2>3. Apply(p.garden, d) = Apply(q.garden, e)
    <3>1. d.type = e.type /\ d.entity = e.entity /\ d.amount = e.amount
      BY DEF Effect
    <3>2. p.garden = q.garden
      BY DEF Same
    <3> QED
      BY <3>1, <3>2 DEF Apply
  <2>4. ASSUME NEW i \in 1 .. k
        PROVE  <<"event", a + i>> \in p2.keys <=> <<"event", b + i>> \in q2.keys
    <3>1. <<"event", a + i>> \in p.keys <=> <<"event", b + i>> \in q.keys
      BY DEF Same
    <3>2. <<"event", a + i>> = Key(d) <=> i = m
      BY <1>1
    <3>3. <<"event", b + i>> = Key(e) <=> i = m
      BY <1>1
    <3> QED
      BY <2>2, <3>1, <3>2, <3>3
  <2> QED
    BY <2>2, <2>3, <2>4 DEF Same, p2, q2
<1> QED
  BY <1>3, <1>4

\* One record more of each.
LEMMA SameOneMore ==
    ASSUME NEW A \in Seq(Records), NEW B \in Seq(Records),
           NEW i \in 1 .. Len(A), NEW j \in 1 .. Len(B),
           NEW a \in Nat, NEW b \in Nat, NEW k \in Nat,
           Same(Play(Organisms, A)[i - 1], Play(Organisms, B)[j - 1], a, b, k), NEW m \in 1 .. k,
           LET d == FromCore(A[i])
               e == FromCore(B[j])
           IN  Kind(d) /\ Kind(e) /\ d.id = <<"event", a + m>> /\ e.id = <<"event", b + m>>
               /\ Effect(d) = Effect(e)
    PROVE  Same(Play(Organisms, A)[i], Play(Organisms, B)[j], a, b, k)
<1> DEFINE d == FromCore(A[i])
           e == FromCore(B[j])
           P == Play(Organisms, A)
           Q == Play(Organisms, B)
<1>1. Len(A) \in Nat /\ Len(B) \in Nat /\ Organisms \in Nat
  BY BatchAssumption
<1>2. A[i] \in Records /\ B[j] \in Records
  OBVIOUS
<1>3. d \in Envelopes /\ e \in Envelopes
  BY <1>2, ReadBack
<1>4. P[i] = Process(P[i - 1], d) /\ Q[j] = Process(Q[j - 1], e)
  BY <1>1, PlayUnfolds
<1>5. P[i - 1] \in States(Organisms) /\ Q[j - 1] \in States(Organisms)
  <2>1. i - 1 \in 0 .. Len(A) /\ j - 1 \in 0 .. Len(B)
    BY <1>1
  <2> QED
    BY <1>1, <2>1, PlayTypes DEF States
<1>6. Kind(d) /\ Kind(e) /\ d.id = <<"event", a + m>> /\ e.id = <<"event", b + m>>
      /\ Effect(d) = Effect(e)
  OBVIOUS
<1>7. Same(P[i - 1], Q[j - 1], a, b, k)
  OBVIOUS
<1> HIDE DEF d, e, P, Q
<1>8. Same(P[i], Q[j], a, b, k)
  BY <1>3, <1>4, <1>5, <1>6, <1>7, SameOn
<1> QED
  BY <1>8 DEF P, Q

\* A step that obeys the same controls at the same tick gives the same events to the
\* same organisms, however they are numbered and whatever was staged.
LEMMA StepAlike ==
    ASSUME NEW a, SimOK(a), NEW b, SimOK(b), a.tick = b.tick, a.tick < TickBound,
           a.every = b.every, Obeyed(a) = Obeyed(b), Played(a).garden = Played(b).garden
    PROVE  Played(Step(a)).garden = Played(Step(b)).garden
<1> DEFINE A == Step(a).log
           B == Step(b).log
           P == Play(Organisms, A)
           Q == Play(Organisms, B)
           x == Len(a.log) + Len(a.pending)
           y == Len(b.log) + Len(b.pending)
           na == a.seq + Len(a.pending)
           nb == b.seq + Len(b.pending)
           E == Events(a)
           F == Events(b)
           R == Delivered(a)
           S == Delivered(b)
           k == Obeyed(a).events
           T == {j \in Nat : j <= Len(R) => Same(P[x + j], Q[y + j], na, nb, k)}
<1>1. LogParts(a, A) /\ LogParts(b, B)
  BY StepLog
<1>2. /\ x \in Nat /\ y \in Nat /\ na \in Nat /\ nb \in Nat /\ Organisms \in Nat
      /\ a.tick \in 0 .. TickBound - 1 /\ a.every \in Nat
  <2>1. /\ Len(a.log) \in Nat /\ Len(a.pending) \in Nat /\ a.seq \in Nat
        /\ a.tick \in Nat /\ a.every \in Nat
    BY DEF SimOK, SimType
  <2>2. Len(b.log) \in Nat /\ Len(b.pending) \in Nat /\ b.seq \in Nat
    BY DEF SimOK, SimType
  <2>5. \A i, j \in Nat : i + j \in Nat
    OBVIOUS
  <2>3. x \in Nat /\ y \in Nat /\ na \in Nat /\ nb \in Nat
    BY <2>1, <2>2, <2>5, Zenon
  <2>4. a.tick \in 0 .. TickBound - 1
    BY <2>1, BatchBoundsAssumption
  <2> HIDE DEF x, y, na, nb
  <2> QED
    BY <2>1, <2>3, <2>4, BatchAssumption
<1>3. Obeyed(a) \in Controls /\ k \in Nat
  BY ObeyedIsControls, ControlFacts
<1>4. /\ E \in Seq(Envelopes) /\ Len(E) = k
      /\ \A m \in 1 .. k : Kind(E[m]) /\ E[m].id = <<"event", na + m>>
  BY <1>3, EventsFacts
<1>5. /\ F \in Seq(Envelopes) /\ Len(F) = k
      /\ \A m \in 1 .. k : Kind(F[m]) /\ F[m].id = <<"event", nb + m>>
  BY <1>3, EventsFacts
<1>6. \A m \in 1 .. k : Effect(E[m]) = Effect(F[m])
  <2> DEFINE t == a.tick
             c == Obeyed(a)
  <2>1. E = Tick(t, na, c) /\ F = Tick(t, nb, c) /\ k = c.events
    BY DEF Events
  <2>2. t \in 0 .. TickBound - 1 /\ c \in Controls
    BY <1>2, <1>3
  <2> HIDE DEF t, c, E, F, k, na, nb
  <2>3. \A m \in 1 .. c.events : Effect(Tick(t, na, c)[m]) = Effect(Tick(t, nb, c)[m])
    BY <1>2, <2>2, TickFacts
  <2> QED
    BY <2>1, <2>3
<1>7. CopiedAlike(E, F, k, R, S)
  <2>1. R = Redelivered(E, a.every) /\ S = Redelivered(F, a.every)
    BY DEF Delivered
  <2> HIDE DEF E, F, R, S
  <2> QED
    BY <1>2, <1>4, <1>5, <2>1, RedeliveredAlike
<1> HIDE DEF A, B, E, F, k
<1>8. /\ A \in Seq(Records) /\ Len(A) = x + Len(R) /\ Len(A) \in Nat /\ Len(R) \in Nat
      /\ \A i \in 1 .. Len(R) : FromCore(A[x + i]) = R[i]
  <2>1. /\ A \in Seq(Records) /\ Len(A) = x + Len(R) /\ Len(R) \in Nat
        /\ \A i \in 1 .. Len(R) : FromCore(A[x + i]) = R[i]
    BY <1>1, Zenon DEF LogParts
  <2> HIDE DEF x, R
  <2> QED
    BY <2>1
<1>9. /\ B \in Seq(Records) /\ Len(B) = y + Len(S) /\ Len(B) \in Nat /\ Len(S) = Len(R)
      /\ \A i \in 1 .. Len(R) : FromCore(B[y + i]) = S[i]
  <2>1. /\ B \in Seq(Records) /\ Len(B) = y + Len(S)
        /\ \A i \in 1 .. Len(S) : FromCore(B[y + i]) = S[i]
    BY <1>1, Zenon DEF LogParts
  <2>2. Len(S) = Len(R)
    BY <1>7 DEF CopiedAlike
  <2> HIDE DEF y, R, S
  <2> QED
    BY <2>1, <2>2
<1>10. Same(P[x], Q[y], na, nb, k)
  <2>1. /\ P[x].garden = Played(a).garden
        /\ \A m \in Nat : <<"event", na + (m + 1)>> \notin P[x].keys
    BY <1>1, AfterControls
  <2>2. /\ Q[y].garden = Played(b).garden
        /\ \A m \in Nat : <<"event", nb + (m + 1)>> \notin Q[y].keys
    BY <1>1, AfterControls
  <2>3. \A m \in 1 .. k : m - 1 \in Nat /\ (m - 1) + 1 = m
    BY <1>3
  <2> HIDE DEF P, Q, x, y, na, nb
  <2>4. \A m \in 1 .. k : <<"event", na + m>> \notin P[x].keys /\ <<"event", nb + m>> \notin Q[y].keys
    BY <2>1, <2>2, <2>3
  <2> QED
    BY <2>1, <2>2, <2>4 DEF Same
<1> HIDE DEF x, y, na, nb, R, S
<1>11. 0 \in T
  BY <1>2, <1>10
<1>12. ASSUME NEW n \in Nat, n \in T PROVE n + 1 \in T
  <2> DEFINE j == n + 1
             d == FromCore(A[x + j])
             e == FromCore(B[y + j])
  <2> SUFFICES ASSUME j <= Len(R) PROVE Same(P[x + j], Q[y + j], na, nb, k)
    OBVIOUS
  <2>1. /\ j \in 1 .. Len(R) /\ x + j \in 1 .. Len(A) /\ y + j \in 1 .. Len(B)
        /\ (x + j) - 1 = x + n /\ (y + j) - 1 = y + n /\ n <= Len(R)
    BY <1>2, <1>8, <1>9
  <2>2. Same(P[x + n], Q[y + n], na, nb, k)
    BY <1>12, <2>1
  <2> HIDE DEF j
  <2>3. d = R[j] /\ e = S[j]
    BY <1>8, <1>9, <2>1
  <2>4. PICK m \in 1 .. k : R[j] \in Copies(E[m]) /\ S[j] \in Copies(F[m])
    BY <1>7, <2>1 DEF CopiedAlike
  <2>5. E[m] \in Envelopes /\ F[m] \in Envelopes
    BY <1>4, <1>5
  <2> HIDE DEF d, e
  <2>6. d.type = E[m].type /\ d.id = E[m].id /\ d.entity = E[m].entity /\ d.amount = E[m].amount
    BY <2>3, <2>4, <2>5, CopiesAreEnvelopes
  <2>7. e.type = F[m].type /\ e.id = F[m].id /\ e.entity = F[m].entity /\ e.amount = F[m].amount
    BY <2>3, <2>4, <2>5, CopiesAreEnvelopes
  <2>8. Kind(d) /\ Kind(e) /\ d.id = <<"event", na + m>> /\ e.id = <<"event", nb + m>>
        /\ Effect(d) = Effect(e)
    BY <1>4, <1>5, <1>6, <2>6, <2>7 DEF Kind, Effect
  <2> DEFINE u == x + j
             v == y + j
  <2>9. u \in 1 .. Len(A) /\ v \in 1 .. Len(B) /\ Same(P[u - 1], Q[v - 1], na, nb, k)
    BY <2>1, <2>2
  <2>10. d = FromCore(A[u]) /\ e = FromCore(B[v])
    BY DEF d, e
  <2> HIDE DEF u, v
  <2>11. Same(P[u], Q[v], na, nb, k)
    BY <1>2, <1>3, <1>8, <1>9, <2>8, <2>9, <2>10, SameOneMore
  <2> QED
    BY <2>11 DEF u, v
<1> HIDE DEF T
<1>13. Same(P[x + Len(R)], Q[y + Len(R)], na, nb, k)
  <2>1. Len(R) \in T
    BY <1>8, <1>11, <1>12, NumberInduction
  <2> QED
    BY <1>8, <2>1 DEF T
<1>14. P[Len(A)].garden = Q[Len(B)].garden
  BY <1>8, <1>9, <1>13 DEF Same
<1> QED
  BY <1>14 DEF Played, A, B

-----------------------------------------------------------------------------
(* The live run and its batch run.                                         *)

\* The batch run of a simulation's ticks and the changes made before the present one.
BatchOf(s, c, ch) ==
    [ticks |-> s.tick, controls |-> c, every |-> s.every, changes |-> LastOf(ch, s.tick - 1)]

\* AsBatch, as a function of the simulation and the changes.
LEMMA AsBatchIsBatchOf ==
    AsBatch(sim.tick - 1) = BatchOf(sim, first, changes)
BY LastPerTickIsLastOf DEF AsBatch, BatchOf

\* The batch run of a live run is one Execute can run.
LEMMA BatchOfOK ==
    ASSUME NEW s, SimOK(s), s.tick <= TickBound, NEW c \in Controls, NEW ch \in Seq(Change)
    PROVE  CfgOK(BatchOf(s, c, ch))
<1> DEFINE C == LastOf(ch, s.tick - 1)
<1>1. s.tick \in Nat /\ s.every \in Nat
  BY DEF SimOK, SimType
<1>2. TakesLast(ch, s.tick - 1, C)
  BY LastOfFacts
<1> HIDE DEF C
<1>3. \A t \in DOMAIN C : C[t] \in Controls
  BY <1>2 DEF TakesLast
<1>4. BatchOf(s, c, ch) = [ticks |-> s.tick, controls |-> c, every |-> s.every, changes |-> C]
  BY DEF BatchOf, C
<1> QED
  BY <1>1, <1>3, <1>4, BatchBoundsAssumption DEF CfgOK

\* Each update had a tick of its own, among the first n.
OncePerTick(ch, n) == \A i, j \in 1 .. n : ch[i].at = ch[j].at => i = j

\* A simulation before what is staged was staged.
Unstaged(s) == [s EXCEPT !.pending = <<>>, !.revision = s.revision - Len(s.pending)]

\* The live run and its batch run: the controls are the same, and the garden is, once
\* all is folded; with one update per tick they differ in what is staged alone.
BatchInv ==
    LET b == Execute(BatchOf(sim, first, changes))
    IN  /\ b.controls = sim.controls
        /\ Played(b).garden = Played(sim).garden
        /\ OncePerTick(changes, Len(changes) - Len(sim.pending)) => b = Unstaged(sim)

\* Without staged changes there is nothing to take back.
LEMMA NothingStaged ==
    ASSUME NEW s, SimOK(s), s.pending = <<>>
    PROVE  Unstaged(s) = s
<1>1. s \in SimType
  BY DEF SimOK
<1>2. Len(<<>>) = 0 /\ s.revision - 0 = s.revision
  BY <1>1 DEF SimType
<1> QED
  BY <1>1, <1>2 DEF Unstaged, SimType

\* At the start both are new simulations.
LEMMA BatchInvInit ==
    ASSUME Init
    PROVE  BatchInv
<1> DEFINE b == Execute(BatchOf(sim, first, changes))
<1>1. PICK every \in Duplicates : sim = New(first, every)
  BY DEF Init
<1>2. SimOK(sim) /\ first \in Controls /\ changes = <<>>
  BY InitInv DEF SimInv, Init
<1>3. /\ sim.tick = 0 /\ sim.pending = <<>> /\ sim.every = every
  BY <1>1 DEF New
<1>4. <<>> \in Seq(Change) /\ 0 <= TickBound
  BY BatchBoundsAssumption
<1>5. CfgOK(BatchOf(sim, first, changes))
  BY <1>2, <1>3, <1>4, BatchOfOK
<1>6. b = sim
  BY <1>1, <1>3, <1>5, ExecuteFacts DEF BatchOf
<1>7. Unstaged(sim) = sim
  BY <1>2, <1>3, NothingStaged
<1> HIDE DEF b
<1> QED
  BY <1>6, <1>7 DEF BatchInv, b

\* The batch run of one more tick begins as the one before.
LEMMA LaterBatchExtends ==
    ASSUME NEW s, SimOK(s), NEW r, r.tick = s.tick + 1, r.every = s.every,
           NEW c, NEW ch \in Seq(Change)
    PROVE  Extends(BatchOf(s, c, ch), BatchOf(r, c, ch))
<1> DEFINE k == s.tick
           C == LastOf(ch, k - 1)
           D == LastOf(ch, k)
<1>1. k \in Nat /\ (k + 1) - 1 = k
  BY DEF SimOK, SimType
<1>2. TakesLast(ch, k - 1, C) /\ TakesLast(ch, k, D) /\ Len(ch) \in Nat
  BY LastOfFacts
<1>3. /\ BatchOf(s, c, ch) = [ticks |-> k, controls |-> c, every |-> s.every, changes |-> C]
      /\ BatchOf(r, c, ch) = [ticks |-> k + 1, controls |-> c, every |-> s.every, changes |-> D]
  BY <1>1 DEF BatchOf
<1> HIDE DEF C, D, k
<1>4. ASSUME NEW t \in 0 .. k - 1
      PROVE  /\ t \in DOMAIN C <=> t \in DOMAIN D
             /\ t \in DOMAIN C => C[t] = D[t]
  <2>1. t \in 0 .. k
    BY <1>1
  <2>2. t \in DOMAIN C <=> t \in DOMAIN D
    BY <1>2, <2>1 DEF TakesLast
  <2>3. ASSUME t \in DOMAIN C PROVE C[t] = D[t]
    <3>1. PICK i \in 1 .. Len(ch) : t = ch[i].at
      BY <1>2, <2>3 DEF TakesLast
    <3>2. PICK j : IsLastAt(ch, t, j)
      BY <1>2, <3>1, LastAtExists
    <3> QED
      BY <1>2, <2>2, <2>3, <3>2 DEF TakesLast
  <2> QED
    BY <2>2, <2>3
<1> QED
  BY <1>3, <1>4 DEF Extends

\* What is staged is due.
LEMMA StagedAreDue ==
    ASSUME SimInv, StageInv, NEW D, TakesLast(changes, sim.tick, D)
    PROVE  /\ sim.tick \in DOMAIN D <=> sim.pending # <<>>
           /\ sim.pending # <<>> => D[sim.tick] = Obeyed(sim)
<1> DEFINE n == Len(changes) - Len(sim.pending)
           k == sim.tick
           p == sim.pending
<1>1. /\ k \in Nat /\ p \in Seq(Staged) /\ Len(p) \in Nat
      /\ Len(p) = 0 <=> p = <<>>
  <2>1. k \in Nat /\ p \in Seq(Staged)
    BY DEF SimInv, SimOK, SimType
  <2> HIDE DEF k, p
  <2> QED
    BY <2>1
<1>2. /\ changes \in Seq(Change) /\ Len(changes) \in Nat /\ n >= 0
      /\ \A i \in 1 .. n : changes[i].at < k
      /\ \A i \in 1 .. Len(p) : changes[n + i].at = k /\ changes[n + i].controls = p[i].controls
  <2>1. /\ changes \in Seq(Change) /\ n >= 0
        /\ \A i \in 1 .. n : changes[i].at < k
        /\ \A i \in 1 .. Len(p) : changes[n + i].at = k /\ changes[n + i].controls = p[i].controls
    BY DEF StageInv, Change
  <2>2. Len(changes) \in Nat
    BY <2>1
  <2> QED
    BY <2>1, <2>2
<1>3. DOMAIN D = {changes[i].at : i \in 1 .. Len(changes)} \cap 0 .. k
      /\ \A i : k \in DOMAIN D /\ IsLastAt(changes, k, i) => D[k] = changes[i].controls
  BY DEF TakesLast
<1>4. n \in Nat /\ n + Len(p) = Len(changes)
  BY <1>1, <1>2
<1> HIDE DEF n, k, p
<1>5. ASSUME p = <<>> PROVE k \notin DOMAIN D
  <2>1. n = Len(changes)
    BY <1>1, <1>4, <1>5
  <2>2. \A i \in 1 .. Len(changes) : changes[i].at # k
    BY <1>1, <1>2, <2>1
  <2> QED
    BY <1>3, <2>2
<1>6. ASSUME p # <<>> PROVE k \in DOMAIN D /\ D[k] = Obeyed(sim)
  <2> DEFINE l == Len(p)
  <2>1. l \in 1 .. Len(p) /\ n + l = Len(changes) /\ Len(changes) \in 1 .. Len(changes)
    BY <1>1, <1>2, <1>4, <1>6
  <2>2. changes[Len(changes)].at = k /\ changes[Len(changes)].controls = p[l].controls
    BY <1>2, <2>1
  <2>3. k \in DOMAIN D
    <3>1. k \in 0 .. k
      BY <1>1
    <3> QED
      BY <1>3, <2>1, <2>2, <3>1
  <2>4. IsLastAt(changes, k, Len(changes))
    <3>1. Len(changes) + 1 .. Len(changes) = {}
      BY <1>2
    <3> QED
      BY <2>1, <2>2, <3>1 DEF IsLastAt
  <2>5. Obeyed(sim) = p[l].controls
    BY <1>6 DEF Obeyed, p
  <2> QED
    BY <1>3, <2>2, <2>3, <2>4, <2>5
<1> QED
  BY <1>5, <1>6 DEF k, p

\* With no more than one update for each tick, the batch run stages what is staged.
LEMMA RestagedIsLive ==
    ASSUME SimInv, StageInv, OncePerTick(changes, Len(changes)), NEW cfg,
           TakesLast(changes, sim.tick, cfg.changes)
    PROVE  Changed(Unstaged(sim), cfg) = sim
<1> DEFINE n == Len(changes) - Len(sim.pending)
           p == sim.pending
           b == Unstaged(sim)
<1>1. /\ SimOK(sim) /\ sim \in SimType /\ p \in Seq(Staged) /\ Len(p) \in Nat /\ sim.revision \in Nat
  BY DEF SimInv, SimOK, SimType
<1>2. b.tick = sim.tick
  BY <1>1 DEF Unstaged, SimType
<1>3. /\ sim.tick \in DOMAIN cfg.changes <=> p # <<>>
      /\ p # <<>> => cfg.changes[sim.tick] = Obeyed(sim)
  BY StagedAreDue
<1>4. CASE p = <<>>
  <2>1. b = sim
    BY <1>1, <1>4, NothingStaged
  <2> QED
    BY <1>3, <1>4, <2>1 DEF Changed
<1>5. CASE p # <<>>
  <2> DEFINE c == Obeyed(sim)
             x == p[1]
  <2>1. Len(p) = 1
    <3>1. Len(p) >= 1
      BY <1>1, <1>5
    <3>2. ASSUME Len(p) >= 2 PROVE FALSE
      <4>1. 1 \in 1 .. Len(p) /\ 2 \in 1 .. Len(p)
        BY <1>1, <3>2
      <4>2. /\ changes[n + 1].at = sim.tick /\ changes[n + 2].at = sim.tick /\ n >= 0
            /\ Len(changes) \in Nat
        <5>1. /\ changes \in Seq([at : Nat, controls : Controls]) /\ n >= 0
              /\ changes[n + 1].at = sim.tick /\ changes[n + 2].at = sim.tick
          BY <4>1 DEF StageInv
        <5>2. Len(changes) \in Nat
          BY <5>1
        <5> QED
          BY <5>1, <5>2
      <4>3. n + 1 \in 1 .. Len(changes) /\ n + 2 \in 1 .. Len(changes) /\ n + 1 # n + 2
        BY <1>1, <3>2, <4>2
      <4> HIDE DEF n
      <4> QED
        BY <4>2, <4>3 DEF OncePerTick
    <3>3. \A l \in Nat : l >= 1 /\ ~(l >= 2) => l = 1
      OBVIOUS
    <3> QED
      BY <1>1, <3>1, <3>2, <3>3, Zenon
  <2>2. x \in Staged /\ x.revision = sim.revision /\ c = x.controls /\ p = <<x>>
    <3>1. x \in Staged /\ p = <<x>>
      BY <1>1, <2>1
    <3>2. x.revision = (sim.revision - 1) + 1
      BY <1>1, <2>1 DEF SimOK
    <3>3. c = x.controls
      BY <1>5, <2>1 DEF Obeyed
    <3> QED
      BY <1>1, <3>1, <3>2, <3>3
  <2> HIDE DEF x
  <2>3. Changed(b, cfg) = SetControls(b, c)
    BY <1>2, <1>3, <1>5 DEF Changed
  <2>4. b = [sim EXCEPT !.pending = <<>>, !.revision = sim.revision - 1]
    BY <2>1 DEF Unstaged
  <2> HIDE DEF b, c
  <2>5. b.revision + 1 = sim.revision /\ b.pending = <<>>
    BY <1>1, <2>4 DEF SimType
  <2>6. SetControls(b, c) =
           [b EXCEPT !.revision = b.revision + 1,
                     !.pending = Append(b.pending, [revision |-> b.revision + 1, controls |-> c])]
    BY DEF SetControls
  <2>7. x = [revision |-> sim.revision, controls |-> c]
    BY <2>2 DEF Staged
  <2>8. Append(<<>>, x) = p
    BY <2>2
  <2>9. SetControls(b, c) = [b EXCEPT !.revision = sim.revision, !.pending = sim.pending]
    BY <2>5, <2>6, <2>7, <2>8
  <2>10. SetControls(b, c) = sim
    BY <1>1, <2>4, <2>9 DEF SimType
  <2> QED
    BY <2>3, <2>10 DEF b
<1> QED
  BY <1>4, <1>5

\* A staged change does not reach the batch run; a tick is one tick of both.
LEMMA BatchInvStep ==
    ASSUME SimInv, TickInv, StageInv, BatchInv, [Next]_vars
    PROVE  BatchInv'
<1> DEFINE A == BatchOf(sim, first, changes)
           b == Execute(A)
           n == Len(changes) - Len(sim.pending)
<1>1. /\ SimOK(sim) /\ first \in Controls /\ sim \in SimType /\ sim.tick \in Nat
      /\ sim.pending \in Seq(Staged) /\ Len(sim.pending) \in Nat /\ sim.revision \in Nat
  BY DEF SimInv, SimOK, SimType
<1>2. changes \in Seq(Change) /\ Len(changes) \in Nat /\ n >= 0 /\ sim.tick <= TickBound
  <2>1. changes \in Seq(Change) /\ n >= 0 /\ sim.tick <= TickBound
    BY DEF StageInv, TickInv, Change
  <2>2. Len(changes) \in Nat
    BY <2>1
  <2> QED
    BY <2>1, <2>2
<1>3. b.controls = sim.controls /\ Played(b).garden = Played(sim).garden
      /\ (OncePerTick(changes, n) => b = Unstaged(sim))
  BY DEF BatchInv
<1>4. first' = first /\ (Rests \/ Steps \/ \E c \in Mixes : Stages(c))
  BY StepCases
<1>5. CASE Rests
  <2>1. first' = first /\ sim' = sim /\ changes' = changes
    BY <1>4, <1>5 DEF Rests
  <2> QED
    BY <2>1 DEF BatchInv
<1>6. ASSUME NEW c \in Mixes, Stages(c) PROVE BatchInv'
  <2> DEFINE new == [at |-> sim.tick, controls |-> c]
             r == sim'
             d == changes'
             x == [revision |-> sim.revision + 1, controls |-> c]
  <2>1. c \in Controls /\ r = SetControls(sim, c) /\ d = Append(changes, new)
    BY <1>6 DEF Stages
  <2>2. /\ r.tick = sim.tick /\ r.controls = sim.controls /\ r.every = sim.every
        /\ r.log = sim.log /\ r.revision = sim.revision + 1 /\ r.pending = Append(sim.pending, x)
    BY <1>1, <2>1, SetControlsOK
  <2>3. r = [sim EXCEPT !.revision = sim.revision + 1, !.pending = Append(sim.pending, x)]
    BY <2>1 DEF SetControls
  <2>4. new \in Change /\ x \in Staged
    BY <1>1, <2>1 DEF Change, Staged
  <2>5. BatchOf(r, first', d) = A
    <3>1. LastOf(d, sim.tick - 1) = LastOf(changes, sim.tick - 1)
      <4>1. new.at > sim.tick - 1 /\ sim.tick - 1 \in Int
        BY <1>1
      <4> HIDE DEF new, d
      <4> QED
        BY <1>2, <2>1, <2>4, <4>1, LastOfGrows
    <3> QED
      BY <1>4, <2>2, <3>1 DEF BatchOf
  <2> HIDE DEF new, x, d, r
  <2>6. Played(r) = Played(sim)
    BY <2>2 DEF Played
  <2>7. Len(r.pending) = Len(sim.pending) + 1
    BY <1>1, <2>2, <2>4
  <2>8. Len(d) = Len(changes) + 1 /\ \A i \in 1 .. Len(changes) : d[i] = changes[i]
    BY <1>2, <2>1, <2>4
  <2>9. Len(d) - Len(r.pending) = n
    BY <1>1, <1>2, <2>7, <2>8
  <2>10. OncePerTick(d, n) => OncePerTick(changes, n)
    <3>1. \A i \in 1 .. n : i \in 1 .. Len(changes)
      BY <1>1, <1>2
    <3> HIDE DEF n
    <3> QED
      BY <2>8, <3>1 DEF OncePerTick
  <2>11. Unstaged(r) = Unstaged(sim)
    <3>1. r.revision - Len(r.pending) = sim.revision - Len(sim.pending)
      BY <1>1, <2>2, <2>7
    <3> QED
      BY <1>1, <2>3, <3>1 DEF Unstaged, SimType
  <2> HIDE DEF A, n
  <2>12. /\ b.controls = r.controls /\ Played(b).garden = Played(r).garden
         /\ OncePerTick(d, n) => b = Unstaged(r)
    BY <1>3, <2>2, <2>6, <2>10, <2>11
  <2> QED
    BY <2>5, <2>9, <2>12 DEF BatchInv, r, d
<1>7. CASE Steps
  <2> DEFINE r == sim'
             B == BatchOf(r, first, changes)
             D == LastOf(changes, sim.tick)
             u == Changed(b, B)
             e == Execute(B)
  <2>1. r = Step(sim) /\ changes' = changes /\ sim.tick < TickBound
    BY <1>7 DEF Steps, TickInv
  <2>2. /\ SimOK(r) /\ r.tick = sim.tick + 1 /\ r.controls = Obeyed(sim) /\ r.pending = <<>>
        /\ r.every = sim.every
    BY <1>1, <2>1, StepFacts
  <2> HIDE DEF r
  <2>3. CfgOK(A) /\ A.ticks = sim.tick /\ A.every = sim.every
    BY <1>1, <1>2, BatchOfOK DEF BatchOf
  <2>4. CfgOK(B) /\ B.ticks = sim.tick + 1 /\ B.every = sim.every /\ B.changes = D
    <3>1. r.tick <= TickBound /\ r.tick - 1 = sim.tick
      BY <1>1, <2>1, <2>2, BatchBoundsAssumption
    <3> QED
      BY <1>1, <1>2, <2>2, <3>1, BatchOfOK DEF BatchOf
  <2>5. Extends(A, B)
    BY <1>1, <1>2, <2>2, LaterBatchExtends
  <2>6. TakesLast(changes, sim.tick, D)
    BY <1>2, LastOfFacts
  <2> HIDE DEF A, B, D
  <2>7. Between(b, sim.tick, sim.every)
    BY <2>3, ExecuteFacts
  <2>8. e = Step(u)
    BY <2>3, <2>4, <2>5, ExecuteGoesOn DEF Ticked
  <2>9. Due(b, B) = Obeyed(sim)
    <3>1. /\ sim.tick \in DOMAIN D <=> sim.pending # <<>>
          /\ sim.pending # <<>> => D[sim.tick] = Obeyed(sim)
      BY <2>6, StagedAreDue
    <3>2. sim.pending = <<>> => Obeyed(sim) = sim.controls
      BY DEF Obeyed
    <3> QED
      BY <1>3, <2>4, <2>7, <3>1, <3>2 DEF Due, Between
  <2>10. /\ SimOK(u) /\ u.tick = sim.tick /\ u.every = sim.every /\ u.log = b.log
         /\ Obeyed(u) = Obeyed(sim)
    BY <2>4, <2>7, <2>9, ChangedFacts DEF Between
  <2>11. e.controls = r.controls
    <3> HIDE DEF u, e
    <3> QED
      BY <2>1, <2>2, <2>8, <2>10, StepFacts
  <2>12. Played(e).garden = Played(r).garden
    <3>1. Played(u) = Played(b)
      BY <2>10 DEF Played
    <3> HIDE DEF u, e, b
    <3> QED
      BY <1>1, <1>3, <2>1, <2>8, <2>10, <3>1, StepAlike
  <2>13. Len(changes) - Len(r.pending) = Len(changes)
    BY <1>2, <2>2
  <2>14. ASSUME OncePerTick(changes, Len(changes)) PROVE e = Unstaged(r)
    <3>1. OncePerTick(changes, n)
      <4>1. \A i \in 1 .. n : i \in 1 .. Len(changes)
        BY <1>1, <1>2
      <4> HIDE DEF n
      <4> QED
        BY <2>14, <4>1 DEF OncePerTick
    <3>2. b = Unstaged(sim)
      BY <1>3, <3>1
    <3>3. u = sim
      <4> HIDE DEF b
      <4> QED
        BY <2>4, <2>6, <2>14, <3>2, RestagedIsLive
    <3>4. Unstaged(r) = r
      BY <2>2, NothingStaged
    <3> HIDE DEF u, e
    <3> QED
      BY <2>1, <2>8, <3>3, <3>4
  <2> HIDE DEF e
  <2> QED
    BY <1>4, <2>1, <2>11, <2>12, <2>13, <2>14 DEF BatchInv, e, B, r
<1> QED
  BY <1>4, <1>5, <1>6, <1>7

\* The invariants say what the property does.
LEMMA MatchesBatch ==
    ASSUME SimInv, TickInv, StageInv, BatchInv
    PROVE  LiveMatchesBatch
<1> SUFFICES ASSUME sim.tick > 0
             PROVE  LET cfg == AsBatch(sim.tick - 1)
                        batch == Execute(cfg)
                    IN  /\ Validate(cfg) /\ (Validate(AsBatch(sim.tick)) <=> sim.pending = <<>>)
                        /\ sim.controls = batch.controls
                        /\ AtMostOnePerTick =>
                              sim.garden = batch.garden /\ sim.chain = batch.chain
                              /\ sim.log = batch.log
                        /\ sim.read = Len(sim.log) /\ batch.read = Len(batch.log) =>
                              sim.garden = batch.garden
  BY DEF LiveMatchesBatch
<1> DEFINE cfg == AsBatch(sim.tick - 1)
           now == AsBatch(sim.tick)
           batch == Execute(cfg)
           k == sim.tick
           D == LastOf(changes, k)
<1>1. /\ SimOK(sim) /\ first \in Controls /\ sim \in SimType /\ k \in Nat /\ sim.every \in Nat
      /\ sim.pending \in Seq(Staged) /\ Len(sim.pending) \in Nat
  BY DEF SimInv, SimOK, SimType
<1>2. changes \in Seq(Change) /\ Len(changes) \in Nat /\ Len(changes) - Len(sim.pending) >= 0
      /\ k <= TickBound
  <2>1. changes \in Seq(Change) /\ Len(changes) - Len(sim.pending) >= 0 /\ k <= TickBound
    BY DEF StageInv, TickInv, Change
  <2>2. Len(changes) \in Nat
    BY <2>1
  <2> QED
    BY <2>1, <2>2
<1>3. cfg = BatchOf(sim, first, changes)
  BY AsBatchIsBatchOf
<1>4. CfgOK(cfg) /\ cfg.ticks = k /\ cfg.controls = first /\ cfg.every = sim.every
  BY <1>1, <1>2, <1>3, BatchOfOK DEF BatchOf
<1>5. /\ now.ticks = k /\ now.controls = first /\ now.every = sim.every /\ now.changes = D
  BY LastPerTickIsLastOf DEF AsBatch
<1>6. Configured(first, sim.every)
  BY <1>1, BatchAssumption DEF Configured, Controls
<1>7. Validate(cfg)
  <2> DEFINE C == LastOf(changes, k - 1)
  <2>1. TakesLast(changes, k - 1, C)
    BY <1>2, LastOfFacts
  <2>2. cfg.changes = C
    BY <1>3 DEF BatchOf
  <2> HIDE DEF C, cfg
  <2>3. \A t \in DOMAIN C : t >= 0 /\ t < k /\ Acceptable(C[t])
    BY <1>1, <2>1 DEF TakesLast, Controls
  <2> QED
    BY <1>1, <1>4, <1>6, <2>2, <2>3 DEF Validate
<1>8. Validate(now) <=> sim.pending = <<>>
  <2>1. TakesLast(changes, k, D)
    BY <1>2, LastOfFacts
  <2> HIDE DEF D, now
  <2>2. k \in DOMAIN D <=> sim.pending # <<>>
    BY <2>1, StagedAreDue
  <2>3. \A t \in DOMAIN D : t \in 0 .. k /\ Acceptable(D[t])
    BY <2>1 DEF TakesLast, Controls
  <2>4. ASSUME Validate(now) PROVE sim.pending = <<>>
    <3>1. k \notin DOMAIN D
      BY <1>1, <1>5, <2>4 DEF Validate
    <3> QED
      BY <2>2, <3>1
  <2>5. ASSUME sim.pending = <<>> PROVE Validate(now)
    <3>1. \A t \in DOMAIN D : t >= 0 /\ t < k /\ Acceptable(D[t])
      BY <1>1, <2>2, <2>3, <2>5
    <3> QED
      BY <1>1, <1>5, <1>6, <3>1 DEF Validate
  <2> QED
    BY <2>4, <2>5
<1>9. /\ batch.controls = sim.controls /\ Played(batch).garden = Played(sim).garden
      /\ OncePerTick(changes, Len(changes) - Len(sim.pending)) => batch = Unstaged(sim)
  <2>1. batch = Execute(BatchOf(sim, first, changes))
    BY <1>3
  <2> HIDE DEF batch
  <2> QED
    BY <2>1 DEF BatchInv
<1>10. SimOK(batch)
  BY <1>4, ExecuteFacts DEF Between
<1> HIDE DEF batch
<1>11. ASSUME AtMostOnePerTick
       PROVE  sim.garden = batch.garden /\ sim.chain = batch.chain /\ sim.log = batch.log
  <2>1. OncePerTick(changes, Len(changes) - Len(sim.pending))
    <3>1. \A i \in 1 .. Len(changes) - Len(sim.pending) : i \in 1 .. Len(changes)
      BY <1>1, <1>2
    <3> QED
      BY <1>11, <3>1 DEF AtMostOnePerTick, OncePerTick
  <2>2. batch = Unstaged(sim)
    BY <1>9, <2>1
  <2> QED
    BY <1>1, <2>2 DEF Unstaged, SimType
<1>12. ASSUME sim.read = Len(sim.log), batch.read = Len(batch.log)
       PROVE  sim.garden = batch.garden
  <2>1. sim.garden = Played(sim).garden
    BY <1>1, <1>12 DEF SimOK, PlayedTo, Played
  <2>2. batch.garden = Played(batch).garden
    BY <1>10, <1>12 DEF SimOK, PlayedTo, Played
  <2> QED
    BY <1>9, <2>1, <2>2
<1> HIDE DEF cfg, now
<1> QED
  BY <1>7, <1>8, <1>9, <1>11, <1>12 DEF batch, cfg, now

\* Whatever the draws and whenever ticks and commands come, a live run that has been
\* through some ticks is the batch run of its control changes (internal/engine and
\* internal/run on internal/sim): the controls agree, the gardens do once both have
\* folded all they have, and with one update per tick the log and the chain agree too.
THEOREM LiveIsBatch == Spec => []LiveMatchesBatch
<1> DEFINE Inv == SimInv /\ TickInv /\ StageInv /\ BatchInv
<1>1. Init => Inv
  BY InitInv, BatchInvInit
<1>2. Inv /\ [Next]_vars => Inv'
  BY SimInvStep, TickInvStep, StageInvStep, BatchInvStep
<1>3. Inv => LiveMatchesBatch
  BY MatchesBatch
<1> QED
  BY <1>1, <1>2, <1>3, PTL DEF Spec
=============================================================================
