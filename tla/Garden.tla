------------------------------- MODULE Garden -------------------------------
(***************************************************************************)
(* The projection itself: internal/processor (Process) over the rules of   *)
(* internal/domain (Apply).  Delivery is at least once, so any event that  *)
(* was delivered may be delivered again, next to its first delivery or     *)
(* much later.  An event's ID is its position in the order of first        *)
(* delivery; an envelope that Validate refuses is type "invalid".          *)
(***************************************************************************)
EXTENDS Integers, Sequences, FiniteSetsExt

CONSTANTS
    Organisms,          \* the garden's plants
    Strangers,          \* entity IDs the garden has no record of
    Amounts,            \* magnitudes a rain or pest event may carry
    MaxMoisture, MaxHealth, MaxStage,
    GrowthMoistureCost, \* moisture one growth stage spends
    GrowthHealthFloor,  \* health an organism needs to grow
    MaxEvents,          \* bound: events delivered a first time
    MaxRedeliveries     \* bound: deliveries of an event seen before

ASSUME GardenAssumption ==
    /\ Amounts \subseteq Int
    /\ MaxMoisture \in Nat /\ MaxHealth \in Nat /\ MaxStage \in Nat
    /\ GrowthMoistureCost \in Nat /\ GrowthHealthFloor \in Nat
    /\ MaxEvents \in Nat /\ MaxRedeliveries \in Nat

VARIABLES
    history,    \* the events, in the order they were first delivered
    organisms,  \* the garden
    applied,    \* the deduplication table: IDs processed
    stats       \* the processor's counters

vars == <<history, organisms, applied, stats>>

Organism == [moisture : 0 .. MaxMoisture, health : 0 .. MaxHealth, stage : 0 .. MaxStage]

Outcomes == {"applied", "no_effect", "unknown_entity", "duplicate", "rejected"}

Event ==
    [type : {"rain", "pest"}, entity : Organisms \cup Strangers, amount : Amounts]
      \cup [type : {"growth"}, entity : Organisms \cup Strangers]
      \cup [type : {"control_changed", "invalid"}]

-----------------------------------------------------------------------------
(* The rules: each takes an organism and answers with the organism         *)
(* afterwards and the outcome.                                             *)

Alive(o) == o.health > 0

clamp(v, lo, hi) == IF v < lo THEN lo ELSE IF v > hi THEN hi ELSE v

NoEffect(o) == [organism |-> o, outcome |-> "no_effect"]

Applied(o) == [organism |-> o, outcome |-> "applied"]

\* Mutant: a dead organism still drinks.
applyRainDead(o, amount) ==
    IF amount <= 0 \/ o.moisture >= MaxMoisture THEN NoEffect(o)
    ELSE Applied([o EXCEPT !.moisture = clamp(@ + amount, 0, MaxMoisture)])

\* Mutant: rain on a full organism counts as applied.
applyRainFull(o, amount) ==
    IF ~Alive(o) \/ amount <= 0 THEN NoEffect(o)
    ELSE Applied([o EXCEPT !.moisture = clamp(@ + amount, 0, MaxMoisture)])

applyRain(o, amount) ==
    IF ~Alive(o) \/ amount <= 0 \/ o.moisture >= MaxMoisture THEN NoEffect(o)
    ELSE Applied([o EXCEPT !.moisture = clamp(@ + amount, 0, MaxMoisture)])

applyGrowth(o) ==
    IF \/ ~Alive(o) \/ o.stage >= MaxStage
       \/ o.moisture < GrowthMoistureCost \/ o.health < GrowthHealthFloor
    THEN NoEffect(o)
    ELSE Applied([o EXCEPT !.moisture = @ - GrowthMoistureCost, !.stage = @ + 1])

applyPest(o, amount) ==
    IF ~Alive(o) \/ amount <= 0 THEN NoEffect(o)
    ELSE Applied([o EXCEPT !.health = clamp(@ - amount, 0, MaxHealth)])

\* Apply's switch over the event's type.
Rule(e, o) ==
    CASE e.type = "rain"   -> applyRain(o, e.amount)
      [] e.type = "growth" -> applyGrowth(o)
      [] e.type = "pest"   -> applyPest(o, e.amount)

IsOrganismEvent(e) == e.type \in {"rain", "growth", "pest"}

\* The outcome Apply reports.
Outcome(e) ==
    IF ~IsOrganismEvent(e) THEN "no_effect"
    ELSE IF e.entity \notin Organisms THEN "unknown_entity"
    ELSE Rule(e, organisms[e.entity]).outcome

\* Apply: the garden afterwards.
Apply(e) ==
    organisms' = IF IsOrganismEvent(e) /\ e.entity \in Organisms
                 THEN [organisms EXCEPT ![e.entity] = Rule(e, @).organism]
                 ELSE organisms

-----------------------------------------------------------------------------
(* The processor.                                                          *)

Count(outcome) == stats' = [stats EXCEPT !.received = @ + 1, ![outcome] = @ + 1]

\* Mutant: a key in the table is noticed and processed all the same.
ProcessAgain(e, id) ==
    /\ Count(IF e.type = "invalid" THEN "rejected" ELSE Outcome(e))
    /\ applied' = applied \cup {id}
    /\ Apply(e)

\* Process: validate, drop a redelivery, or apply the rule.
Process(e, id) ==
    \/ /\ e.type = "invalid"
       /\ Count("rejected")
       /\ UNCHANGED <<organisms, applied>>
    \/ /\ e.type # "invalid" /\ id \in applied
       /\ Count("duplicate")
       /\ UNCHANGED <<organisms, applied>>
    \/ /\ e.type # "invalid" /\ id \notin applied
       /\ Count(Outcome(e))
       /\ applied' = applied \cup {id}
       /\ Apply(e)

Deliver(e) ==
    /\ Len(history) < MaxEvents
    /\ history' = Append(history, e)
    /\ Process(e, Len(history) + 1)

Redeliver(id) ==
    /\ stats.received - Len(history) < MaxRedeliveries
    /\ Process(history[id], id)
    /\ UNCHANGED history

\* NewGarden: full health, no moisture, stage zero.
Init ==
    /\ history = <<>>
    /\ organisms = [o \in Organisms |-> [moisture |-> 0, health |-> MaxHealth, stage |-> 0]]
    /\ applied = {}
    /\ stats = [k \in Outcomes \cup {"received"} |-> 0]

Next ==
    \/ \E e \in Event : Deliver(e)
    \/ \E id \in 1 .. Len(history) : Redeliver(id)

Spec == Init /\ [][Next]_vars

-----------------------------------------------------------------------------
(* Properties.                                                             *)

\* The type of every variable; for organisms, the bounds of every percentage
\* and stage.
TypeOK ==
    /\ history \in Seq(Event)
    /\ organisms \in [Organisms -> Organism]
    /\ applied \subseteq Nat
    /\ stats \in [Outcomes \cup {"received"} -> Nat]

\* The magnitudes an organism was sent by distinct events of one type.
Sent(o, type) ==
    MapThenSumSet(LAMBDA i : history[i].amount,
        {i \in 1 .. Len(history) :
            /\ history[i].type = type
            /\ history[i].entity = o
            /\ history[i].amount > 0})

\* Health is what distinct pest events left of it: each counts once however
\* often and in whatever order they are delivered, and only pests take health
\* (Process, applyPest).
HealthIsWhatPestsLeft ==
    \A o \in Organisms : organisms[o].health = clamp(MaxHealth - Sent(o, "pest"), 0, MaxHealth)

\* A dead organism stays as it died, whatever is delivered to it afterwards
\* (the Alive test of every rule).
DeadStayAsTheyDied ==
    [][\A o \in Organisms : ~Alive(organisms[o]) => organisms'[o] = organisms[o]]_vars

\* "applied means the event changed garden state": the counter moves exactly
\* when the garden does (Outcome, Process).
AppliedMeansChanged ==
    [][stats'["applied"] # stats["applied"] <=> organisms' # organisms]_vars
=============================================================================
