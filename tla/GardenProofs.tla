---------------------------- MODULE GardenProofs ----------------------------
(***************************************************************************)
(* The garden's rules for every number of organisms, every bound and every *)
(* magnitude: the percentages stay in range, a dead organism stays as it   *)
(* died, "applied" means changed, and health is what the distinct pests    *)
(* left of it.                                                             *)
(***************************************************************************)
EXTENDS Garden, SumTheorems

\* What a rule makes of an organism in range: one in range, and either the
\* same one with "no_effect" or another with "applied"; a dead one never
\* changes.
RuleIsSound(o, r) ==
    /\ r.organism \in Organism
    /\ r.outcome \in {"applied", "no_effect"}
    /\ r.outcome = "applied" <=> r.organism # o
    /\ ~Alive(o) => r.organism = o

\* Clamping gives a value in the range.
LEMMA ClampInRange ==
    ASSUME NEW v \in Int, NEW hi \in Nat
    PROVE  clamp(v, 0, hi) \in 0 .. hi
BY DEF clamp

\* Rain leaves an organism in range, and a dead one as it was.
LEMMA RainSound ==
    ASSUME NEW o \in Organism, NEW amount \in Int
    PROVE  RuleIsSound(o, applyRain(o, amount))
<1> DEFINE m == clamp(o.moisture + amount, 0, MaxMoisture)
           p == [o EXCEPT !.moisture = m]
<1>1. o.moisture \in 0 .. MaxMoisture /\ o.moisture + amount \in Int
  BY GardenAssumption DEF Organism
<1>2. CASE ~Alive(o) \/ amount <= 0 \/ o.moisture >= MaxMoisture
  BY <1>2 DEF applyRain, NoEffect, RuleIsSound
<1>3. CASE ~(~Alive(o) \/ amount <= 0 \/ o.moisture >= MaxMoisture)
  <2>1. applyRain(o, amount) = Applied(p)
    BY <1>3 DEF applyRain
  <2>2. m \in 0 .. MaxMoisture
    BY <1>1, ClampInRange, GardenAssumption
  <2>3. m # o.moisture
    BY <1>1, <1>3, GardenAssumption DEF clamp
  <2>4. p \in Organism /\ p.moisture = m
    BY <2>2 DEF Organism
  <2>5. p # o
    BY <2>3, <2>4
  <2> QED
    BY <1>3, <2>1, <2>4, <2>5 DEF Applied, RuleIsSound
<1> QED
  BY <1>2, <1>3

\* So does growth.
LEMMA GrowthSound ==
    ASSUME NEW o \in Organism
    PROVE  RuleIsSound(o, applyGrowth(o))
<1> DEFINE stays == \/ ~Alive(o) \/ o.stage >= MaxStage
                    \/ o.moisture < GrowthMoistureCost \/ o.health < GrowthHealthFloor
           p == [o EXCEPT !.moisture = @ - GrowthMoistureCost, !.stage = @ + 1]
<1>1. CASE stays
  BY <1>1 DEF applyGrowth, NoEffect, RuleIsSound
<1>2. CASE ~stays
  <2>1. applyGrowth(o) = Applied(p)
    BY <1>2 DEF applyGrowth
  <2>2. /\ o.moisture \in 0 .. MaxMoisture /\ o.stage \in 0 .. MaxStage
        /\ o.health \in 0 .. MaxHealth
    BY DEF Organism
  <2>3. /\ o.moisture - GrowthMoistureCost \in 0 .. MaxMoisture
        /\ o.stage + 1 \in 0 .. MaxStage
    BY <1>2, <2>2, GardenAssumption
  <2>4. p \in Organism /\ p.stage = o.stage + 1
    BY <2>3 DEF Organism
  <2>5. o.stage + 1 # o.stage
    BY <2>2, GardenAssumption
  <2>6. p # o
    <3> HIDE DEF p
    <3> QED
      BY <2>4, <2>5
  <2> QED
    BY <1>2, <2>1, <2>4, <2>6 DEF Applied, RuleIsSound
<1> QED
  BY <1>1, <1>2

\* So do pests.
LEMMA PestSound ==
    ASSUME NEW o \in Organism, NEW amount \in Int
    PROVE  RuleIsSound(o, applyPest(o, amount))
<1> DEFINE h == clamp(o.health - amount, 0, MaxHealth)
           p == [o EXCEPT !.health = h]
<1>1. o.health \in 0 .. MaxHealth /\ o.health - amount \in Int
  BY GardenAssumption DEF Organism
<1>2. CASE ~Alive(o) \/ amount <= 0
  BY <1>2 DEF applyPest, NoEffect, RuleIsSound
<1>3. CASE ~(~Alive(o) \/ amount <= 0)
  <2>1. applyPest(o, amount) = Applied(p)
    BY <1>3 DEF applyPest
  <2>2. h \in 0 .. MaxHealth
    BY <1>1, ClampInRange, GardenAssumption
  <2>3. h # o.health
    BY <1>1, <1>3, GardenAssumption DEF clamp, Alive
  <2>4. p \in Organism /\ p.health = h
    BY <2>2 DEF Organism
  <2>5. p # o
    BY <2>3, <2>4
  <2> QED
    BY <1>3, <2>1, <2>4, <2>5 DEF Applied, RuleIsSound
<1> QED
  BY <1>2, <1>3

\* Apply's switch: whatever the event.
LEMMA RuleSound ==
    ASSUME NEW e \in Event, IsOrganismEvent(e), NEW o \in Organism
    PROVE  RuleIsSound(o, Rule(e, o))
<1>1. CASE e.type = "rain"
  <2>1. e.amount \in Int
    BY <1>1, GardenAssumption DEF Event
  <2>2. Rule(e, o) = applyRain(o, e.amount)
    BY <1>1 DEF Rule
  <2> QED
    BY <2>1, <2>2, RainSound
<1>2. CASE e.type = "growth"
  <2>1. Rule(e, o) = applyGrowth(o)
    BY <1>2 DEF Rule
  <2> QED
    BY <2>1, GrowthSound
<1>3. CASE e.type = "pest"
  <2>1. e.amount \in Int
    BY <1>3, GardenAssumption DEF Event
  <2>2. Rule(e, o) = applyPest(o, e.amount)
    BY <1>3 DEF Rule
  <2> QED
    BY <2>1, <2>2, PestSound
<1> QED
  BY <1>1, <1>2, <1>3 DEF IsOrganismEvent

-----------------------------------------------------------------------------
\* What one delivery does: the facts the theorems below are read off.
StepIsSound ==
    /\ organisms' \in [Organisms -> Organism]
    /\ applied' \subseteq Nat
    /\ stats' \in [Outcomes \cup {"received"} -> Nat]
    /\ stats'["applied"] # stats["applied"] <=> organisms' # organisms
    /\ \A o \in Organisms : ~Alive(organisms[o]) => organisms'[o] = organisms[o]

\* A counter moves by one.
LEMMA CountSound ==
    ASSUME TypeOK, NEW k \in Outcomes, Count(k)
    PROVE  /\ stats' \in [Outcomes \cup {"received"} -> Nat]
           /\ stats'["applied"] # stats["applied"] <=> k = "applied"
<1>1. "received" \notin Outcomes /\ "applied" \in Outcomes
  BY DEF Outcomes
<1> HIDE DEF Outcomes
<1>2. stats \in [Outcomes \cup {"received"} -> Nat]
  BY DEF TypeOK
<1>3. stats' = [stats EXCEPT !["received"] = stats["received"] + 1, ![k] = stats[k] + 1]
  BY <1>1 DEF Count
<1>4. stats' \in [Outcomes \cup {"received"} -> Nat]
  BY <1>1, <1>2, <1>3
<1>5. stats'["applied"] = IF k = "applied" THEN stats["applied"] + 1 ELSE stats["applied"]
  BY <1>1, <1>2, <1>3
<1> QED
  BY <1>1, <1>2, <1>4, <1>5

\* Applying an event.
LEMMA ApplySound ==
    ASSUME TypeOK, NEW e \in Event, Apply(e)
    PROVE  /\ organisms' \in [Organisms -> Organism]
           /\ Outcome(e) \in {"applied", "no_effect", "unknown_entity"}
           /\ Outcome(e) = "applied" <=> organisms' # organisms
           /\ \A o \in Organisms : ~Alive(organisms[o]) => organisms'[o] = organisms[o]
<1>1. organisms \in [Organisms -> Organism]
  BY DEF TypeOK
<1>2. CASE ~(IsOrganismEvent(e) /\ e.entity \in Organisms)
  BY <1>1, <1>2 DEF Apply, Outcome
<1>3. CASE IsOrganismEvent(e) /\ e.entity \in Organisms
  <2> DEFINE o == organisms[e.entity]
             r == Rule(e, o)
  <2>1. RuleIsSound(o, r)
    BY <1>1, <1>3, RuleSound
  <2>2. organisms' = [organisms EXCEPT ![e.entity] = r.organism]
    BY <1>3 DEF Apply
  <2>3. Outcome(e) = r.outcome
    BY <1>3 DEF Outcome
  <2> HIDE DEF r
  <2>4. organisms' \in [Organisms -> Organism]
    BY <1>1, <1>3, <2>1, <2>2 DEF RuleIsSound
  <2>5. organisms' # organisms <=> r.organism # o
    BY <1>1, <1>3, <2>2
  <2>6. \A q \in Organisms : ~Alive(organisms[q]) => organisms'[q] = organisms[q]
    BY <1>1, <1>3, <2>1, <2>2 DEF RuleIsSound
  <2> QED
    BY <2>1, <2>3, <2>4, <2>5, <2>6 DEF RuleIsSound
<1> QED
  BY <1>2, <1>3

\* Process, with or without a redelivery.
LEMMA ProcessSound ==
    ASSUME TypeOK, NEW e \in Event, NEW id \in Nat, Process(e, id)
    PROVE  StepIsSound
<1>1. CASE UNCHANGED <<organisms, applied>> /\ (Count("rejected") \/ Count("duplicate"))
  <2>1. /\ stats' \in [Outcomes \cup {"received"} -> Nat]
        /\ stats'["applied"] = stats["applied"]
    BY <1>1, CountSound DEF Outcomes
  <2> QED
    BY <1>1, <2>1 DEF TypeOK, StepIsSound
<1>2. CASE Count(Outcome(e)) /\ applied' = applied \cup {id} /\ Apply(e)
  <2>1. Outcome(e) \in Outcomes
    BY <1>2, ApplySound DEF Outcomes
  <2>2. /\ stats' \in [Outcomes \cup {"received"} -> Nat]
        /\ stats'["applied"] # stats["applied"] <=> Outcome(e) = "applied"
    BY <1>2, <2>1, CountSound
  <2>3. applied' \subseteq Nat
    BY <1>2 DEF TypeOK
  <2> QED
    BY <1>2, <2>2, <2>3, ApplySound DEF StepIsSound
<1> QED
  BY <1>1, <1>2 DEF Process

-----------------------------------------------------------------------------
\* A new garden is in range.
LEMMA InitTypes == Init => TypeOK
<1> SUFFICES ASSUME Init PROVE TypeOK
  OBVIOUS
<1>1. [moisture |-> 0, health |-> MaxHealth, stage |-> 0] \in Organism
  BY GardenAssumption DEF Organism
<1>2. organisms \in [Organisms -> Organism]
  BY <1>1 DEF Init
<1> QED
  BY <1>2 DEF Init, TypeOK

\* Every delivery is sound and its event stays on record.
LEMMA DeliverySound ==
    ASSUME TypeOK, Next
    PROVE  StepIsSound /\ history' \in Seq(Event)
<1>1. ASSUME NEW e \in Event, Deliver(e) PROVE StepIsSound /\ history' \in Seq(Event)
  <2>1. history \in Seq(Event) /\ Len(history) + 1 \in Nat
    BY DEF TypeOK
  <2>2. StepIsSound
    BY <1>1, <2>1, ProcessSound DEF Deliver
  <2> QED
    BY <1>1, <2>1, <2>2 DEF Deliver
<1>2. ASSUME NEW id \in 1 .. Len(history), Redeliver(id)
      PROVE  StepIsSound /\ history' \in Seq(Event)
  <2>1. history \in Seq(Event) /\ history[id] \in Event /\ id \in Nat
    BY DEF TypeOK
  <2>2. StepIsSound
    BY <1>2, <2>1, ProcessSound DEF Redeliver
  <2> QED
    BY <1>2, <2>1, <2>2 DEF Redeliver
<1> QED
  BY <1>1, <1>2 DEF Next

\* The percentages and stages of every organism stay within their bounds, and
\* the other variables keep their types (clamp, applyGrowth's tests).
THEOREM GardenTypes == Spec => []TypeOK
<1>1. TypeOK /\ [Next]_vars => TypeOK'
  <2>1. TypeOK /\ Next => TypeOK'
    BY DeliverySound DEF StepIsSound, TypeOK
  <2>2. TypeOK /\ UNCHANGED vars => TypeOK'
    BY DEF vars, TypeOK
  <2> QED
    BY <2>1, <2>2
<1> QED
  BY <1>1, InitTypes, PTL DEF Spec

\* A dead organism stays exactly as it died: rain, growth and further pests
\* change nothing (the Alive test that opens every rule).
THEOREM TheDeadStayDead == Spec => DeadStayAsTheyDied
<1> DEFINE A == \A o \in Organisms : ~Alive(organisms[o]) => organisms'[o] = organisms[o]
<1>1. TypeOK /\ [Next]_vars => [A]_vars
  BY DeliverySound DEF StepIsSound
<1> QED
  BY <1>1, GardenTypes, PTL DEF Spec, DeadStayAsTheyDied

\* "applied" counts exactly the deliveries that changed the garden: no rule
\* reports an effect it did not have, and no effect goes uncounted.
THEOREM AppliedCountsChanges == Spec => AppliedMeansChanged
<1> DEFINE A == stats'["applied"] # stats["applied"] <=> organisms' # organisms
<1>1. TypeOK /\ [Next]_vars => [A]_vars
  BY DeliverySound DEF StepIsSound
<1> QED
  BY <1>1, GardenTypes, PTL DEF Spec, AppliedMeansChanged

-----------------------------------------------------------------------------
(* Health: the sum of the distinct pest events.                            *)

\* The pest events of an organism, and what they take.
Pests(h, o) == {i \in 1 .. Len(h) : h[i].type = "pest" /\ h[i].entity = o /\ h[i].amount > 0}
Takings(h)  == [i \in 1 .. Len(h) |-> h[i].amount]
Taken(h, o) == Add(Takings(h), Pests(h, o))

\* A table of Sent's partial sums.
IsSentTable(h, S, f) ==
    f = [s \in SUBSET S |-> IF s = {} THEN 0 ELSE h[Pick(s)].amount + f[s \ {Pick(s)}]]
SentOver(h, S) == (CHOOSE f : IsSentTable(h, S, f))[S]

\* An organism has met finitely many pests.
LEMMA PestsFinite ==
    ASSUME NEW h \in Seq(Event), NEW o
    PROVE  IsFiniteSet(Pests(h, o))
<1>1. Len(h) \in Nat /\ IsFiniteSet(1 .. Len(h))
  BY FS_Interval
<1> QED
  BY <1>1, FS_Subset DEF Pests

\* The sum the property takes is the one the invariant keeps.
LEMMA SentOverIsTaken ==
    ASSUME NEW h \in Seq(Event), NEW o
    PROVE  SentOver(h, Pests(h, o)) = Taken(h, o)
<1> DEFINE S == Pests(h, o)
           g == Takings(h)
           it == CHOOSE f : IsSentTable(h, S, f)
<1>0. IsFiniteSet(S)
  BY PestsFinite
<1>1. \A s \in SUBSET S : s # {} => g[Pick(s)] = h[Pick(s)].amount
  BY PickIsMember DEF Takings, Pests
<1>2. \A f : IsSentTable(h, S, f) <=> IsTable(g, S, f)
  BY <1>1 DEF IsTable, IsSentTable
<1> HIDE DEF S, g
<1>3. IsSentTable(h, S, Table(g, S))
  BY <1>0, <1>2, TableExists
<1>4. IsSentTable(h, S, it)
  BY <1>3
<1>5. it[S] = Table(g, S)[S]
  BY <1>0, <1>2, <1>4, TableExists, TablesAgree
<1> QED
  BY <1>5, AddIsTable DEF SentOver, Taken, S, g

\* What a delivered event adds.
LEMMA TakenGrows ==
    ASSUME NEW h \in Seq(Event), NEW e \in Event, NEW o, Taken(h, o) \in Nat
    PROVE  Taken(Append(h, e), o) = IF e.type = "pest" /\ e.entity = o /\ e.amount > 0
                                    THEN e.amount + Taken(h, o) ELSE Taken(h, o)
<1> DEFINE a == Append(h, e)
           n == Len(h) + 1
           S == Pests(h, o)
<1>1. /\ n \in 1 .. n /\ a \in Seq(Event) /\ Len(a) = n /\ a[n] = e
      /\ \A i \in 1 .. Len(h) : i \in 1 .. n /\ i # n /\ a[i] = h[i]
      /\ \A i \in 1 .. n : i = n \/ i \in 1 .. Len(h)
  OBVIOUS
<1>2. IsFiniteSet(S) /\ n \notin S
  BY <1>1, PestsFinite DEF Pests
<1>3. \A i \in S : Takings(a)[i] = Takings(h)[i] /\ Takings(h)[i] \in Int
  <2>1. \A i \in S : h[i] \in Event /\ h[i].type = "pest"
    BY DEF Pests
  <2>2. \A x \in Event : x.type = "pest" => x.amount \in Int
    BY GardenAssumption DEF Event
  <2> HIDE DEF a, n
  <2> QED
    BY <1>1, <2>1, <2>2 DEF Takings, Pests
<1>4. Add(Takings(a), S) = Taken(h, o)
  BY <1>2, <1>3, AddAgrees DEF Taken
<1>5. CASE e.type = "pest" /\ e.entity = o /\ e.amount > 0
  <2>1. Pests(a, o) = S \cup {n}
    <3> HIDE DEF a, n
    <3> QED
      BY <1>1, <1>5 DEF Pests
  <2>2. e.amount \in Int /\ Takings(a)[n] = e.amount
    <3>1. e.amount \in Int
      BY <1>5, GardenAssumption DEF Event
    <3> HIDE DEF a, n
    <3> QED
      BY <1>1, <3>1 DEF Takings
  <2> HIDE DEF a, n, S
  <2>3. Add(Takings(a), S \cup {n}) = e.amount + Add(Takings(a), S)
    BY <1>2, <1>3, <2>2, AddGrows
  <2>4. Taken(a, o) = e.amount + Taken(h, o)
    BY <1>4, <2>1, <2>3 DEF Taken
  <2> QED
    BY <1>5, <2>4 DEF a
<1>6. CASE ~(e.type = "pest" /\ e.entity = o /\ e.amount > 0)
  <2>1. Pests(a, o) = S
    <3> HIDE DEF a, n
    <3> QED
      BY <1>1, <1>6 DEF Pests
  <2> HIDE DEF a, n, S
  <2>2. Taken(a, o) = Taken(h, o)
    BY <1>4, <2>1 DEF Taken
  <2> QED
    BY <1>6, <2>2 DEF a
<1> QED
  BY <1>5, <1>6

\* The table of keys is the events that were valid; every organism's health is what
\* the pests of the history left of it.
HealthInv ==
    /\ applied = {i \in 1 .. Len(history) : history[i].type # "invalid"}
    /\ \A o \in Organisms :
          /\ Taken(history, o) \in Nat
          /\ organisms[o].health = clamp(MaxHealth - Taken(history, o), 0, MaxHealth)

\* A rule takes health only as a pest, and then the amount down to nothing.
LEMMA RuleTakes ==
    ASSUME NEW e \in Event, IsOrganismEvent(e), NEW o \in Organism, NEW t \in Nat,
           o.health = clamp(MaxHealth - t, 0, MaxHealth)
    PROVE  Rule(e, o).organism.health =
              clamp(MaxHealth - (IF e.type = "pest" /\ e.amount > 0 THEN e.amount + t ELSE t),
                    0, MaxHealth)
<1>1. o.health \in 0 .. MaxHealth /\ MaxHealth \in Nat
  BY GardenAssumption DEF Organism
<1>2. CASE e.type = "rain"
  <2>1. Rule(e, o) = applyRain(o, e.amount)
    BY <1>2 DEF Rule
  <2>2. applyRain(o, e.amount).organism.health = o.health
    BY DEF applyRain, NoEffect, Applied, Organism
  <2> QED
    BY <1>2, <2>1, <2>2
<1>3. CASE e.type = "growth"
  <2>1. Rule(e, o) = applyGrowth(o)
    BY <1>3 DEF Rule
  <2>2. applyGrowth(o).organism.health = o.health
    BY DEF applyGrowth, NoEffect, Applied, Organism
  <2> QED
    BY <1>3, <2>1, <2>2
<1>4. CASE e.type = "pest"
  <2>1. Rule(e, o) = applyPest(o, e.amount) /\ e.amount \in Int
    BY <1>4, GardenAssumption DEF Rule, Event
  <2>2. CASE e.amount <= 0
    BY <1>4, <2>1, <2>2 DEF applyPest, NoEffect
  <2>3. CASE e.amount > 0 /\ ~Alive(o)
    <3>1. Rule(e, o).organism.health = 0 /\ o.health = 0
      BY <1>1, <2>1, <2>3 DEF applyPest, NoEffect, Alive
    <3>2. MaxHealth - t <= 0
      BY <1>1, <3>1 DEF clamp
    <3> QED
      BY <1>1, <1>4, <2>1, <2>3, <3>1, <3>2 DEF clamp
  <2>4. CASE e.amount > 0 /\ Alive(o)
    <3>1. Rule(e, o).organism.health = clamp(o.health - e.amount, 0, MaxHealth)
      BY <2>1, <2>4 DEF applyPest, Applied, Organism
    <3>2. o.health = MaxHealth - t
      BY <1>1, <2>4 DEF clamp, Alive
    <3>3. o.health - e.amount = MaxHealth - (e.amount + t)
      BY <1>1, <2>1, <3>2
    <3> QED
      BY <1>4, <2>4, <3>1, <3>3
  <2> QED
    BY <2>1, <2>2, <2>3, <2>4
<1> QED
  BY <1>2, <1>3, <1>4 DEF IsOrganismEvent

\* A first delivery bites once, if it is a pest the organism meets.
LEMMA DeliverKeepsHealth ==
    ASSUME TypeOK, HealthInv, NEW e \in Event, Deliver(e)
    PROVE  HealthInv'
<1> DEFINE n == Len(history) + 1
<1>1. /\ history \in Seq(Event) /\ history' = Append(history, e)
      /\ n \in Nat /\ Len(history') = n /\ history'[n] = e
      /\ \A i \in 1 .. Len(history) : i \in 1 .. n /\ i # n /\ history'[i] = history[i]
      /\ \A i \in 1 .. n : i = n \/ i \in 1 .. Len(history)
  BY DEF TypeOK, Deliver
<1>2. n \notin applied
  BY <1>1 DEF HealthInv
<1> HIDE DEF n
<1>3. applied' = {i \in 1 .. Len(history') : history'[i].type # "invalid"}
  <2>1. CASE e.type = "invalid"
    BY <1>1, <2>1 DEF Deliver, Process, HealthInv, n
  <2>2. CASE e.type # "invalid"
    <3>1. applied' = applied \cup {n}
      BY <1>2, <2>2 DEF Deliver, Process, n
    <3> QED
      BY <1>1, <2>2, <3>1 DEF HealthInv
  <2> QED
    BY <2>1, <2>2
<1>4. ASSUME NEW o \in Organisms
      PROVE  /\ Taken(history', o) \in Nat
             /\ organisms'[o].health = clamp(MaxHealth - Taken(history', o), 0, MaxHealth)
  <2> DEFINE t == Taken(history, o)
             hit == e.type = "pest" /\ e.entity = o /\ e.amount > 0
  <2>1. t \in Nat /\ organisms[o].health = clamp(MaxHealth - t, 0, MaxHealth)
    BY DEF HealthInv
  <2>2. Taken(history', o) = IF hit THEN e.amount + t ELSE t
    BY <1>1, <2>1, TakenGrows
  <2>3. hit => e.amount \in Nat
    <3>1. e.type = "pest" => e.amount \in Int
      BY GardenAssumption DEF Event
    <3> QED
      BY <3>1
  <2>4. organisms \in [Organisms -> Organism]
    BY DEF TypeOK
  <2>5. CASE IsOrganismEvent(e) /\ e.entity = o
    <3>1. Apply(e)
      BY <1>2, <2>5 DEF Deliver, Process, IsOrganismEvent, n
    <3>2. organisms'[o] = Rule(e, organisms[o]).organism
      BY <2>4, <2>5, <3>1 DEF Apply
    <3>3. organisms[o] \in Organism
      BY <2>4
    <3>4. organisms'[o].health = clamp(MaxHealth - (IF e.type = "pest" /\ e.amount > 0
                                                    THEN e.amount + t ELSE t), 0, MaxHealth)
      BY <2>1, <2>5, <3>2, <3>3, RuleTakes
    <3> HIDE DEF t
    <3> QED
      BY <2>1, <2>2, <2>3, <2>5, <3>4
  <2>6. CASE ~(IsOrganismEvent(e) /\ e.entity = o)
    <3>1. ~hit
      BY <2>6 DEF IsOrganismEvent
    <3>2. organisms'[o] = organisms[o]
      BY <2>4, <2>6 DEF Deliver, Process, Apply
    <3> QED
      BY <2>1, <2>2, <3>1, <3>2
  <2> QED
    BY <2>5, <2>6
<1> QED
  BY <1>3, <1>4 DEF HealthInv

\* A redelivery changes nothing.
LEMMA RedeliverKeepsHealth ==
    ASSUME TypeOK, HealthInv, NEW id \in 1 .. Len(history), Redeliver(id)
    PROVE  HealthInv'
<1>1. history[id].type # "invalid" => id \in applied
  BY DEF HealthInv
<1>2. UNCHANGED <<history, organisms, applied>>
  BY <1>1 DEF Redeliver, Process
<1> QED
  BY <1>2 DEF HealthInv

\* However often and in whatever order events come back, health is what the distinct
\* pest events left of it: a redelivered pest bites once, a refused one never, and
\* clamping at nothing forgets no bite and invents none.
THEOREM HealthIsPestsOnce == Spec => []HealthIsWhatPestsLeft
<1>1. Init => HealthInv
  <2> SUFFICES ASSUME Init PROVE HealthInv
    OBVIOUS
  <2>1. ASSUME NEW o \in Organisms PROVE Taken(history, o) = 0
    <3>1. Pests(history, o) = {}
      BY DEF Init, Pests
    <3> QED
      BY <3>1, FS_EmptySet, AddUnfolds DEF Taken
  <2>2. \A o \in Organisms : organisms[o].health = MaxHealth
    BY DEF Init
  <2>3. clamp(MaxHealth - 0, 0, MaxHealth) = MaxHealth
    BY GardenAssumption DEF clamp
  <2>4. applied = {i \in 1 .. Len(history) : history[i].type # "invalid"}
    BY DEF Init
  <2> QED
    BY <2>1, <2>2, <2>3, <2>4 DEF HealthInv
<1>2. TypeOK /\ HealthInv /\ [Next]_vars => HealthInv'
  <2>1. TypeOK /\ HealthInv /\ Next => HealthInv'
    BY DeliverKeepsHealth, RedeliverKeepsHealth DEF Next
  <2>2. HealthInv /\ UNCHANGED vars => HealthInv'
    BY DEF vars, HealthInv
  <2> QED
    BY <2>1, <2>2
<1>3. TypeOK /\ HealthInv => HealthIsWhatPestsLeft
  <2> SUFFICES ASSUME TypeOK, HealthInv, NEW o \in Organisms
               PROVE  organisms[o].health = clamp(MaxHealth - Sent(o, "pest"), 0, MaxHealth)
    BY DEF HealthIsWhatPestsLeft
  <2>1. Sent(o, "pest") = SentOver(history, Pests(history, o))
    BY DEF Sent, SentOver, IsSentTable, Pests, Pick, MapThenSumSet, MapThenFoldSet
  <2>2. SentOver(history, Pests(history, o)) = Taken(history, o)
    BY SentOverIsTaken DEF TypeOK
  <2> QED
    BY <2>1, <2>2 DEF HealthInv
<1> QED
  BY <1>1, <1>2, <1>3, GardenTypes, PTL DEF Spec
=============================================================================
