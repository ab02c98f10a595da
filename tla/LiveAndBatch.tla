---------------------------- MODULE LiveAndBatch ----------------------------
(***************************************************************************)
(* The two drivers of one simulation: the live run of internal/engine, its *)
(* ticks paced by a Clock and its controls changed by commands that arrive *)
(* at any moment, and the batch run of internal/run, a function of its     *)
(* configuration. Both call internal/sim, whose Step is modelled whole     *)
(* here: the producer and its draws, the envelope and its encoding, the    *)
(* log, the deduplicating fold and the determinism chain.                  *)
(*                                                                         *)
(* A garden is kept as the events each organism was given, in order: runs  *)
(* that agree on it agree under any rules (module Garden). Crashes, and    *)
(* saves, are DurableRun's.                                                *)
(***************************************************************************)
EXTENDS Integers, Sequences, FiniteSetsExt

CONSTANTS
    Mixes,          \* controls that may be asked for
    Organisms,      \* the size of the garden
    Duplicates,     \* values of duplicate_every
    Raw,            \* Raw[tick]: what the tick's generator yields, in order
    Clocks,         \* "manual", "system"
    MaxTicks,       \* the run's tick limit; 0 is none
    TickBound,      \* bound: no tick starts at or after this one
    MaxUpdates,     \* bound: control updates
    MaxPauses       \* bound: pauses and resumes

ControlFields == {"events", "rain", "growth", "pest", "workers", "batch"}

ASSUME BatchAssumption ==
    /\ \A c \in Mixes : DOMAIN c = ControlFields /\ \A f \in ControlFields : c[f] \in Int
    /\ Organisms \in Nat \ {0} /\ Duplicates \subseteq Nat
    /\ Clocks \subseteq {"manual", "system"} /\ MaxTicks \in Nat

ASSUME BatchBoundsAssumption ==
    /\ TickBound \in Nat /\ MaxUpdates \in Nat /\ MaxPauses \in Nat
    /\ Raw \in [0 .. TickBound - 1 -> Seq(Nat)]
    /\ \A t \in 0 .. TickBound - 1, c \in Mixes : Len(Raw[t]) >= 3 * c.events

VARIABLES
    sim,        \* the live simulation
    first,      \* the controls it started with
    state,      \* its lifecycle
    loop,       \* its goroutine: "select", "advancing" or "done"
    clock,      \* which clock drives it
    ticker,     \* "live" or "stopped"
    held,       \* ticks waiting in the ticker's channel
    driver,     \* the goroutine that calls ManualClock.Tick: "idle" or "firing"
    changes,    \* the updates the run accepted: [at, controls]
    used        \* how much of the bounds was spent

vars == <<sim, first, state, loop, clock, ticker, held, driver, changes, used>>

-----------------------------------------------------------------------------
\* The member of a singleton: what a set {F(x) : x \in {e}} holds, with e evaluated once.
The(S) == CHOOSE x \in S : TRUE

-----------------------------------------------------------------------------
(* Controls.                                                               *)

TotalWeight(c) == c.rain + c.growth + c.pest
Capacity(c) == IF c.workers <= 0 \/ c.batch <= 0 THEN 0 ELSE c.workers * c.batch

\* Validate, without its upper limits.
Acceptable(c) ==
    /\ c.events >= 1 /\ c.rain >= 0 /\ c.growth >= 0 /\ c.pest >= 0
    /\ TotalWeight(c) # 0 /\ c.workers >= 0 /\ c.batch >= 0

-----------------------------------------------------------------------------
(* The envelope and its encoding.                                          *)

NoEntity == -1
Kinds == {"rain", "growth", "pest"}

\* Validate of an envelope.
WellFormed(e) ==
    /\ e.type \in Kinds \cup {"control_changed", "run_state_changed"}
    /\ e.schema > 0 /\ e.seq >= 0 /\ e.at >= 0 /\ e.attempt >= 1
    /\ e.type \in Kinds => e.entity # NoEntity

\* IdempotencyKey.
Key(e) == IF e.type \in Kinds THEN e.id ELSE <<e.type, e.revision>>

\* The body's fields, the ones left out when they are zero (omitempty), and zeros.
Body == {"id", "type", "entity", "seq", "attempt", "amount", "revision"}
Omitted == {"entity", "amount", "revision"}
Zero == [entity |-> NoEntity, amount |-> 0, revision |-> 0, attempt |-> 0]

\* Mutant: the attempt is left out, and comes back as zero.
ToCoreOmitsAttempt(e) ==
    [time |-> e.at, schema |-> e.schema,
     body |-> [f \in {g \in Body : g # "attempt" /\ (g \in Omitted => e[g] # Zero[g])} |-> e[f]]]

\* ToCore: a header, and a body without the fields that are zero.
ToCore(e) ==
    [time |-> e.at, schema |-> e.schema,
     body |-> [f \in {g \in Body : g \in Omitted => e[g] # Zero[g]} |-> e[f]]]

\* FromCore: what the body leaves out comes back as zero.
FromCore(r) ==
    LET read(f) == IF f \in DOMAIN r.body THEN r.body[f] ELSE Zero[f]
    IN  [id |-> read("id"), type |-> read("type"), entity |-> read("entity"), seq |-> read("seq"),
         attempt |-> read("attempt"), amount |-> read("amount"), revision |-> read("revision"),
         at |-> r.time, schema |-> r.schema]

-----------------------------------------------------------------------------
(* The producer.                                                           *)

\* Mutant: the generator follows the events a run has numbered, not its ticks.
DrawBySeq(tick, seq, k, n) == Raw[seq % TickBound][k] % n

\* stream and IntN: the k-th draw of a tick, below n. The stream depends on the
\* tick alone, not on what was emitted before it.
Draw(tick, seq, k, n) == Raw[tick][k] % n

\* pickType.
PickType(roll, c) ==
    IF roll < c.rain THEN "rain" ELSE IF roll < c.rain + c.growth THEN "growth" ELSE "pest"

\* One event of Tick: its type, its organism and, unless it is growth, its amount.
Emit(tick, seq, k, n, c) ==
    The({[id |-> <<"event", n>>, type |-> type, schema |-> 1,
          entity |-> Draw(tick, seq, k + 1, Organisms), seq |-> n, at |-> tick, attempt |-> 1,
          amount |-> CASE type = "rain" -> 5 + Draw(tick, seq, k + 2, 21)
                       [] type = "pest" -> 5 + Draw(tick, seq, k + 2, 16)
                       [] OTHER -> 0,
          revision |-> 0] : type \in {PickType(Draw(tick, seq, k, TotalWeight(c)), c)}})

\* Tick: the draws of an event begin where those of the one before end.
Tick(tick, seq, c) ==
    LET and(so, e) == [events |-> Append(so.events, e),
                       draw |-> so.draw + (IF e.type = "growth" THEN 2 ELSE 3)]
        upTo[i \in 0 .. c.events] ==
            IF i = 0 THEN [events |-> <<>>, draw |-> 1]
            ELSE The({and(so, Emit(tick, seq, so.draw, seq + i, c)) : so \in {upTo[i - 1]}})
    IN  upTo[c.events].events

\* ControlChanged.
ControlChanged(tick, revision, n) ==
    [id |-> <<"control", n>>, type |-> "control_changed", schema |-> 1, entity |-> NoEntity,
     seq |-> n, at |-> tick, attempt |-> 1, amount |-> 0, revision |-> revision]

\* Every n-th event is followed by its redelivery.
Redelivered(events, n) ==
    LET upTo[i \in 0 .. Len(events)] ==
            IF i = 0 THEN <<>>
            ELSE upTo[i - 1] \o <<events[i]>>
                 \o (IF n > 0 /\ i % n = 0 THEN <<[events[i] EXCEPT !.attempt = @ + 1]>> ELSE <<>>)
    IN  upTo[Len(events)]

-----------------------------------------------------------------------------
(* The simulation.                                                         *)

\* Whether New takes the configuration.
Configured(c, every) == Acceptable(c) /\ Organisms >= 1 /\ every >= 0

EmptyGarden(n) == [o \in 0 .. n - 1 |-> <<>>]

\* New.
New(c, every) ==
    [tick |-> 0, controls |-> c, revision |-> 0, pending |-> <<>>, every |-> every, seq |-> 0,
     log |-> <<>>, read |-> 0, garden |-> EmptyGarden(Organisms), keys |-> {}, chain |-> <<>>]

\* SetControls: accepted controls are staged.
SetControls(s, c) ==
    [s EXCEPT !.revision = @ + 1,
              !.pending = Append(@, [revision |-> s.revision + 1, controls |-> c])]

\* The controls of the next tick.
Obeyed(s) == IF s.pending = <<>> THEN s.controls ELSE s.pending[Len(s.pending)].controls

\* The records of a tick: the control changes, then the events.
Batch(s) ==
    LET n == Len(s.pending)
    IN  [i \in 1 .. n |-> ControlChanged(s.tick, s.pending[i].revision, s.seq + i)]
        \o Redelivered(Tick(s.tick, s.seq + n, Obeyed(s)), s.every)

\* Step, up to the append.
Appended(s) ==
    The({[s EXCEPT !.controls = Obeyed(s), !.pending = <<>>,
                   !.seq = @ + Len(s.pending) + Obeyed(s).events,
                   !.log = @ \o [i \in 1 .. Len(batch) |-> ToCore(batch[i])]] :
          batch \in {Batch(s)}})

\* Apply: an event goes to its organism, if the garden has it.
Apply(garden, e) ==
    IF e.type \in Kinds /\ e.entity \in DOMAIN garden
    THEN [garden EXCEPT ![e.entity] = Append(@, <<e.type, e.amount>>)] ELSE garden

\* Process: a well-formed event is applied once per key.
Process(s, e) ==
    IF ~WellFormed(e) \/ Key(e) \in s.keys THEN s
    ELSE [s EXCEPT !.keys = @ \cup {Key(e)}, !.garden = Apply(@, e)]

\* The chain: each record, encoded again, with the garden it left.
Chained(s, e) == [s EXCEPT !.chain = Append(@, <<ToCore(e), s.garden>>)]

\* fold: the records after s.read, up to a position, one by one as they are read back.
Fold(s, upTo) ==
    LET after[i \in s.read .. upTo] ==
            IF i = s.read THEN s
            ELSE The({Chained(Process(x[1], x[2]), x[2]) :
                        x \in {<<after[i - 1], FromCore(s.log[i])>>}})
    IN  [after[upTo] EXCEPT !.read = upTo]

\* Step, after the append: UnprocessedUpTo the capacity, and the fold.
Folded(s) ==
    LET cap == Capacity(s.controls)
    IN  [Fold(s, IF cap = 0 THEN Len(s.log) ELSE Min({s.read + cap, Len(s.log)}))
            EXCEPT !.tick = @ + 1]

\* Step.
Step(s) == The({Folded(a) : a \in {Appended(s)}})

\* Fold of a history alone, into a garden of n organisms.
Replay(n, log) ==
    Fold([garden |-> EmptyGarden(n), keys |-> {}, log |-> log, read |-> 0, chain |-> <<>>],
         Len(log)).garden

\* organismCount: the size of a garden, from the organisms its records name.
OrganismCount(log) ==
    LET entities == {FromCore(log[i]).entity :
                        i \in {j \in 1 .. Len(log) : FromCore(log[j]).type \in Kinds}}
    IN  IF entities = {} THEN 1 ELSE (CHOOSE m \in entities : \A o \in entities : o <= m) + 1

-----------------------------------------------------------------------------
(* The batch run.                                                          *)

\* Validate of a batch configuration.
Validate(cfg) ==
    /\ cfg.ticks >= 1 /\ Configured(cfg.controls, cfg.every)
    /\ \A t \in DOMAIN cfg.changes : t >= 0 /\ t < cfg.ticks /\ Acceptable(cfg.changes[t])

\* The change of a tick, if there is one.
Changed(s, cfg) ==
    IF s.tick \in DOMAIN cfg.changes THEN SetControls(s, cfg.changes[s.tick]) ELSE s

\* Execute, of a configuration Validate takes.
Execute(cfg) ==
    LET after[t \in 0 .. cfg.ticks] ==
            IF t = 0 THEN New(cfg.controls, cfg.every)
            ELSE The({Step(x) : x \in {Changed(y, cfg) : y \in {after[t - 1]}}})
    IN  after[cfg.ticks]

-----------------------------------------------------------------------------
(* The live run: its goroutine and its clock.                              *)

\* finish stops the ticker; the goroutine goes on answering.
Ends == state' = "finished" /\ ticker' = "stopped"

\* ManualClock.Tick, called.
Fire ==
    /\ clock = "manual" /\ driver = "idle"
    /\ sim.tick < TickBound - (IF loop = "advancing" THEN 1 ELSE 0)
    /\ driver' = "firing"
    /\ UNCHANGED <<sim, first, state, loop, clock, ticker, held, changes, used>>

\* The ticker's channel is unbuffered: Tick goes on when the goroutine takes the tick.
Deliver ==
    /\ driver = "firing" /\ ticker = "live" /\ loop = "select"
    /\ driver' = "idle" /\ loop' = "advancing"
    /\ UNCHANGED <<sim, first, state, clock, ticker, held, changes, used>>

\* Mutant: Tick waits for every ticker it was ever given.
SkipNever == FALSE /\ UNCHANGED vars

\* A stopped ticker is skipped.
Skip ==
    /\ driver = "firing" /\ ticker = "stopped"
    /\ driver' = "idle"
    /\ UNCHANGED <<sim, first, state, loop, clock, ticker, held, changes, used>>

\* The system ticker's channel holds one tick; one that finds it full is dropped.
SystemTick ==
    /\ clock = "system" /\ ticker = "live" /\ held = 0 /\ sim.tick < TickBound
    /\ held' = 1
    /\ UNCHANGED <<sim, first, state, loop, clock, ticker, driver, changes, used>>

\* tickC: the goroutine takes a tick that waits.
TakeTick ==
    /\ loop = "select" /\ ticker = "live" /\ held = 1 /\ sim.tick < TickBound
    /\ held' = 0 /\ loop' = "advancing"
    /\ UNCHANGED <<sim, first, state, clock, ticker, driver, changes, used>>

\* advance.
Advance ==
    /\ loop = "advancing"
    /\ loop' = "select"
    /\ \/ state # "running" /\ UNCHANGED <<sim, state, ticker>>
       \/ /\ state = "running"
          /\ sim' = Step(sim)
          /\ IF MaxTicks > 0 /\ sim'.tick >= MaxTicks THEN Ends ELSE UNCHANGED <<state, ticker>>
    /\ UNCHANGED <<first, clock, held, driver, changes, used>>

\* UpdateControls.
UpdateControls(c) ==
    /\ loop = "select" /\ state # "finished" /\ used.updates < MaxUpdates /\ Acceptable(c)
    /\ sim' = SetControls(sim, c)
    /\ changes' = Append(changes, [at |-> sim.tick, controls |-> c])
    /\ used' = [used EXCEPT !.updates = @ + 1]
    /\ UNCHANGED <<first, state, loop, clock, ticker, held, driver>>

\* PauseRun and ResumeRun.
SetPaused(paused) ==
    /\ loop = "select" /\ state # "finished" /\ used.pauses < MaxPauses
    /\ state' = (IF paused THEN "paused" ELSE "running")
    /\ used' = [used EXCEPT !.pauses = @ + 1]
    /\ UNCHANGED <<sim, first, loop, clock, ticker, held, driver, changes>>

\* FinishRun.
FinishRun ==
    /\ loop = "select" /\ state # "finished" /\ Ends
    /\ UNCHANGED <<sim, first, loop, clock, held, driver, changes, used>>

\* Close: the goroutine stops its ticker and is gone.
Quit ==
    /\ loop = "select"
    /\ loop' = "done" /\ ticker' = "stopped"
    /\ UNCHANGED <<sim, first, state, clock, held, driver, changes, used>>

-----------------------------------------------------------------------------
Init ==
    /\ first \in Mixes /\ Acceptable(first)
    /\ \E every \in Duplicates : sim = New(first, every)
    /\ state = "running" /\ loop = "select" /\ clock \in Clocks /\ ticker = "live" /\ held = 0
    /\ driver = "idle" /\ changes = <<>>
    /\ used = [updates |-> 0, pauses |-> 0]

Next ==
    \/ Fire \/ Deliver \/ Skip \/ SystemTick \/ TakeTick \/ Advance
    \/ (\E c \in Mixes : UpdateControls(c)) \/ (\E paused \in BOOLEAN : SetPaused(paused))
    \/ FinishRun \/ Quit

Spec == Init /\ [][Next]_vars

\* The goroutine runs, and takes what its select offers.
FairSpec == Spec /\ WF_vars(Deliver \/ Skip) /\ WF_vars(Advance)

-----------------------------------------------------------------------------
(* Properties.                                                             *)

\* The changes a batch run would be given: the last one accepted before each tick.
LastPerTick(upTo) ==
    LET ticks == {changes[i].at : i \in 1 .. Len(changes)} \cap 0 .. upTo
        lastAt(t) == CHOOSE i \in 1 .. Len(changes) :
                        changes[i].at = t /\ \A j \in i + 1 .. Len(changes) : changes[j].at # t
    IN  [t \in ticks |-> changes[lastAt(t)].controls]

AsBatch(upTo) ==
    [ticks |-> sim.tick, controls |-> first, every |-> sim.every, changes |-> LastPerTick(upTo)]

AtMostOnePerTick ==
    \A i, j \in 1 .. Len(changes) : changes[i].at = changes[j].at => i = j

\* What TestEngineMatchesBatchRun pins, for every order in which ticks, updates and
\* pauses may come: a live run that has been through some ticks is the batch run of
\* as many ticks with the same control changes. With one update per tick everything
\* agrees, the chain too; with more, the records differ and the gardens still agree
\* once both have folded all they have. A change staged after the last tick, which
\* no batch run would come to, is refused with its configuration.
LiveMatchesBatch ==
    sim.tick > 0 =>
        \E cfg \in {AsBatch(sim.tick - 1)} : \E batch \in {Execute(cfg)} :
        /\ Validate(cfg) /\ (Validate(AsBatch(sim.tick)) <=> sim.pending = <<>>)
        /\ sim.controls = batch.controls
        /\ AtMostOnePerTick =>
              sim.garden = batch.garden /\ sim.chain = batch.chain /\ sim.log = batch.log
        /\ sim.read = Len(sim.log) /\ batch.read = Len(batch.log) => sim.garden = batch.garden

\* The records alone tell the run. The chain folds the records the log holds, one
\* by one and in its order: what is encoded again after reading is what was written.
\* And a history without a snapshot rebuilds the garden: every organism its records
\* name, and all it leaves out was never touched.
LogTellsTheRun ==
    /\ Len(sim.chain) = sim.read
    /\ \A i \in 1 .. sim.read : sim.chain[i][1] = sim.log[i]
    /\ \A i \in 1 .. Len(sim.log) : WellFormed(FromCore(sim.log[i]))
    /\ sim.read = Len(sim.log) =>
          \E rebuilt \in {Replay(OrganismCount(sim.log), sim.log)} :
              \A o \in DOMAIN sim.garden :
                  sim.garden[o] = IF o \in DOMAIN rebuilt THEN rebuilt[o] ELSE <<>>

\* Tick returns, whatever became of the run meanwhile.
TickReturns == driver = "firing" ~> driver # "firing"

=============================================================================
