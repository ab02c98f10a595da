----------------------------- MODULE DurableRun -----------------------------
(***************************************************************************)
(* One run across the lives of the daemon: internal/sim (Step, Save,       *)
(* Rebuild, Resume) with the producer and the processor it drives, and the *)
(* run's side of internal/engine (StartRun, advance, setPaused, finish,    *)
(* UpdateControls, recoverOne).  A run is owned by one goroutine, so       *)
(* nothing interleaves with a handler except the death of the process;     *)
(* handlers are therefore cut exactly where they touch the disk: at the    *)
(* append, at the snapshot write and at the commit.                        *)
(*                                                                         *)
(* The garden is abstracted to the bag of organism events whose effect it  *)
(* carries: what recovery can get wrong is to lose an event or to apply it *)
(* twice.  What one event does to an organism is module Garden.            *)
(***************************************************************************)
EXTENDS EventLog, Bags, FiniteSets

CONSTANTS
    Controls,       \* control profiles: [events, capacity, failEvery]
    DuplicateEvery, \* redeliver every Nth event of a tick; 0 never
    SnapshotEvery,  \* snapshot cadence in ticks; 0 never
    MaxTicks,       \* the run's tick limit; 0 is none
    TickBound,      \* bound: no tick starts at or after this one
    MaxCrashes,     \* bound: deaths of the process
    MaxFaults,      \* bound: failed appends, snapshot writes and commits
    MaxReadFaults,  \* bound: failed reads of the log
    MaxUpdates,     \* bound: control updates
    MaxPauses       \* bound: pause and resume commands

\* Controls.Validate: events_per_tick is at least one; capacity is
\* worker_count * batch_size, where 0 means unbounded.
ASSUME ControlsAssumption ==
    Controls \subseteq [events : Nat \ {0}, capacity : Nat, failEvery : Nat]

ASSUME ConfigAssumption ==
    /\ DuplicateEvery \in Nat
    /\ SnapshotEvery \in Nat
    /\ MaxTicks \in Nat

ASSUME BoundsAssumption ==
    /\ TickBound \in Nat
    /\ MaxCrashes \in Nat
    /\ MaxFaults \in Nat
    /\ MaxReadFaults \in Nat
    /\ MaxUpdates \in Nat
    /\ MaxPauses \in Nat

VARIABLES
    phase,      \* "absent" (not registered), "idle", "saving" or "down"
    state,      \* the run's lifecycle: "running", "paused", "finished"
    failed,     \* whether the run recorded a failure
    save,       \* the Save in progress: what asked for it, attempt, snapshot written
    tick, controls, revision,
    pending,    \* staged control updates, in order
    seq,        \* the producer's count of events emitted
    seen,       \* the processor's deduplication table
    garden,     \* bag of organism events (by sequence) applied to the garden
    received,   \* the processor's count of records received
    published,  \* records this run appended, as the run counts them
    cadence,    \* SnapshotEvery as this life of the run has it
    saves,      \* calls of Save in this life
    giveups,    \* calls of Save that exhausted their attempts
    told,       \* the lifecycle a client was last answered; "none" while one waits
    used        \* how much of each bound was spent

simVars  == <<tick, controls, revision, pending, seq, cadence>>
foldVars == <<seen, garden, received>>
runVars  == <<phase, state, failed, save, saves, giveups>>
vars     == <<logVars, simVars, foldVars, published, runVars, told, used>>

maxSnapshotSaveAttempts == 3

-----------------------------------------------------------------------------
(* Producing one tick.                                                     *)

\* What a position of a tick's organism events holds when every Nth event is
\* followed by its redelivery: positions come in blocks of N + 1.
EventAt(p) ==
    IF DuplicateEvery = 0
    THEN [index |-> p, attempt |-> 1]
    ELSE LET block == (p - 1) \div (DuplicateEvery + 1)
             rest  == (p - 1) % (DuplicateEvery + 1)
         IN  IF rest = DuplicateEvery
             THEN [index |-> block * DuplicateEvery + rest, attempt |-> 2]
             ELSE [index |-> block * DuplicateEvery + rest + 1, attempt |-> 1]

\* The controls in force once the staged updates are applied: the last wins.
StagedControls ==
    IF pending = <<>> THEN controls ELSE pending[Len(pending)].controls

BatchLen ==
    Len(pending) + StagedControls.events
      + (IF DuplicateEvery = 0 THEN 0
         ELSE StagedControls.events \div DuplicateEvery)

\* Step, up to the append: one control_changed record per staged update, then
\* the tick's events, each redelivery right after the event it repeats.
Batch ==
    [p \in 1 .. BatchLen |->
        IF p <= Len(pending)
        THEN [kind |-> "control_changed", seq |-> seq + p, tick |-> tick,
              rev |-> pending[p].rev, attempt |-> 1]
        ELSE LET e == EventAt(p - Len(pending))
             IN  [kind |-> "organism", seq |-> seq + Len(pending) + e.index,
                  tick |-> tick, rev |-> 0, attempt |-> e.attempt]]

\* The producer's effects, whatever becomes of the append.
Produce ==
    /\ controls' = StagedControls
    /\ pending' = <<>>
    /\ seq' = seq + Len(pending) + StagedControls.events

-----------------------------------------------------------------------------
(* Folding records into the garden.                                        *)

IdempotencyKey(r) ==
    IF r.kind = "control_changed" THEN <<"rev", r.rev>> ELSE <<"id", r.seq>>

KeysIn(lg, from, to) == {IdempotencyKey(lg[i]) : i \in from + 1 .. to}

\* Process over the records at offsets from .. to - 1: an event is applied
\* unless its key is in the table, and a key met twice in the range is applied
\* once.  Control records never touch the garden.
AppliedIn(lg, from, to, table) ==
    {lg[i].seq : i \in {j \in from + 1 .. to :
        lg[j].kind = "organism" /\ IdempotencyKey(lg[j]) \notin table}}

Fold(lg, from, to) ==
    /\ garden' = garden (+) SetToBag(AppliedIn(lg, from, to, seen))
    /\ seen' = seen \cup KeysIn(lg, from, to)
    /\ received' = received + (to - from)

-----------------------------------------------------------------------------
(* The snapshot a Save writes.                                             *)

SnapshotState ==
    [tick |-> tick, revision |-> revision, controls |-> controls,
     garden |-> garden, received |-> received, published |-> published,
     state |-> state]

\* Entering Save, on behalf of a handler.
BeginSave(why) ==
    /\ phase' = "saving"
    /\ save' = [why |-> why, attempt |-> 1, wrote |-> FALSE]
    /\ saves' = saves + 1

\* finish: lifecycle first, then the final snapshot.
BeginFinish ==
    /\ state' = "finished"
    /\ BeginSave("finish")

\* Mutant: the limit is tested for equality.
EndOfAdvanceExact(t) ==
    IF MaxTicks > 0 /\ t = MaxTicks
    THEN BeginFinish
    ELSE /\ phase' = "idle"
         /\ UNCHANGED <<state, save, saves>>

\* The rest of advance once Step has returned without error at tick t.
EndOfAdvance(t) ==
    IF MaxTicks > 0 /\ t >= MaxTicks
    THEN BeginFinish
    ELSE /\ phase' = "idle"
         /\ UNCHANGED <<state, save, saves>>

-----------------------------------------------------------------------------
(* advance and Step.                                                       *)

MayStep == phase = "idle" /\ state = "running" /\ tick < TickBound

\* A tick: append the batch, fold what the capacity allows, move the tick
\* counter, and enter the cadence snapshot when one is due.
Advance ==
    /\ MayStep
    /\ Produce
    /\ AppendAll(Batch)
    /\ published' = published + BatchLen
    /\ cursor' = UnprocessedUpTo(log \o Batch, StagedControls.capacity)
    /\ Fold(log \o Batch, cursor, cursor')
    /\ tick' = tick + 1
    /\ IF cadence > 0 /\ (tick + 1) % cadence = 0
       THEN BeginSave("cadence") /\ UNCHANGED state
       ELSE EndOfAdvance(tick + 1)
    /\ UNCHANGED <<committed, snaps, revision, cadence, failed, giveups, told, used>>

\* Append returns an error, with any prefix of the batch on disk: the run
\* records the failure and finishes; the batch is not counted or folded.
AdvanceAppendFails ==
    /\ MayStep
    /\ used.faults < MaxFaults
    /\ \E k \in 0 .. BatchLen : AppendPrefix(Batch, k)
    /\ Produce
    /\ BeginFinish
    /\ failed' = TRUE
    /\ used' = [used EXCEPT !.faults = @ + 1]
    /\ UNCHANGED <<committed, snaps, cursor, tick, revision, cadence, foldVars,
                   published, giveups, told>>

\* UnprocessedUpTo returns an error after the reader moved over some records:
\* Step drops them unfolded and the run finishes.
AdvanceReadFails ==
    /\ MayStep
    /\ used.reads < MaxReadFaults
    /\ AppendAll(Batch)
    /\ published' = published + BatchLen
    /\ \E c \in cursor .. UnprocessedUpTo(log \o Batch, StagedControls.capacity) :
          cursor' = c
    /\ Produce
    /\ BeginFinish
    /\ failed' = TRUE
    /\ used' = [used EXCEPT !.reads = @ + 1]
    /\ UNCHANGED <<committed, snaps, tick, revision, cadence, foldVars,
                   giveups, told>>

-----------------------------------------------------------------------------
(* Save: up to three attempts, each a snapshot write and then a commit.    *)

\* Mutant: the injected failure hits every attempt.
InjectedEveryAttempt ==
    /\ controls.failEvery > 0
    /\ saves % controls.failEvery = 0

\* FailSnapshotEvery makes the first attempt of every Nth call fail.
Injected ==
    /\ save.attempt = 1
    /\ controls.failEvery > 0
    /\ saves % controls.failEvery = 0

\* What the handler that called Save does when it returns.
SaveReturns(ok) ==
    /\ failed' = (failed \/ (~ok /\ save.why # "start"))
    /\ CASE save.why = "start" ->
              /\ phase' = (IF ok THEN "idle" ELSE "absent")
              /\ told' = (IF ok THEN "running" ELSE "none")
              /\ UNCHANGED <<state, save, saves>>
         [] save.why = "cadence" ->
              /\ IF ok THEN EndOfAdvance(tick) ELSE BeginFinish
              /\ UNCHANGED told
         [] OTHER ->
              /\ phase' = "idle"
              /\ told' = state
              /\ UNCHANGED <<state, save, saves>>

AttemptFails ==
    IF save.attempt < maxSnapshotSaveAttempts
    THEN /\ save' = [save EXCEPT !.attempt = @ + 1, !.wrote = FALSE]
         /\ UNCHANGED <<phase, state, failed, saves, giveups, told>>
    ELSE /\ giveups' = giveups + 1
         /\ SaveReturns(FALSE)

SaveInjectedFailure ==
    /\ phase = "saving"
    /\ Injected
    /\ AttemptFails
    /\ UNCHANGED <<logVars, simVars, foldVars, published, used>>

SaveWrites ==
    /\ phase = "saving"
    /\ ~Injected /\ ~save.wrote
    /\ WriteSnapshot(SnapshotState)
    /\ save' = [save EXCEPT !.wrote = TRUE]
    /\ UNCHANGED <<log, committed, cursor, simVars, foldVars, published,
                   phase, state, failed, saves, giveups, told, used>>

\* Mutant: the commit does not wait for the snapshot.
SaveCommitsFirst ==
    /\ phase = "saving"
    /\ ~Injected
    /\ Commit
    /\ SaveReturns(TRUE)
    /\ UNCHANGED <<log, snaps, cursor, simVars, foldVars, published, giveups, used>>

SaveCommits ==
    /\ phase = "saving"
    /\ save.wrote
    /\ Commit
    /\ SaveReturns(TRUE)
    /\ UNCHANGED <<log, snaps, cursor, simVars, foldVars, published, giveups, used>>

\* A real write or commit error is retried the same way.
SaveFaults ==
    /\ phase = "saving"
    /\ ~Injected
    /\ used.faults < MaxFaults
    /\ AttemptFails
    /\ used' = [used EXCEPT !.faults = @ + 1]
    /\ UNCHANGED <<logVars, simVars, foldVars, published>>

-----------------------------------------------------------------------------
(* Commands.                                                               *)

\* Mutant: the run waits for its cadence.
FirstSaveSkipped == phase' = "idle" /\ saves' = 0 /\ UNCHANGED save

\* The snapshot at tick zero that precedes everything a run does.
FirstSave ==
    /\ phase' = "saving"
    /\ save' = [why |-> "start", attempt |-> 1, wrote |-> FALSE]
    /\ saves' = 1

\* sim.New: a fresh simulation over the log it is handed, whose reader opens at
\* the last commit.
NewSim ==
    /\ controls' \in Controls
    /\ tick' = 0 /\ revision' = 0 /\ pending' = <<>> /\ seq' = 0
    /\ cadence' = SnapshotEvery
    /\ seen' = {} /\ garden' = EmptyBag /\ received' = 0 /\ published' = 0
    /\ cursor' = committed

\* StartRun under this run's ID: the ID is free when no live run has it and
\* its log holds no records.
StartRun ==
    /\ phase = "absent"
    /\ NextOffset = 0
    /\ NewSim
    /\ state' = "running" /\ failed' = FALSE /\ giveups' = 0 /\ told' = "none"
    /\ FirstSave
    /\ UNCHANGED <<log, committed, snaps, used>>

UpdateControls ==
    /\ phase = "idle" /\ state # "finished"
    /\ used.updates < MaxUpdates
    /\ \E c \in Controls :
          pending' = Append(pending, [rev |-> revision + 1, controls |-> c])
    /\ revision' = revision + 1
    /\ used' = [used EXCEPT !.updates = @ + 1]
    /\ UNCHANGED <<logVars, tick, controls, seq, cadence, foldVars, published,
                   runVars, told>>

\* PauseRun and ResumeRun: the lifecycle changes and is saved at once.
SetPaused(paused) ==
    /\ phase = "idle" /\ state # "finished"
    /\ used.pauses < MaxPauses
    /\ state' = (IF paused THEN "paused" ELSE "running")
    /\ BeginSave("pause")
    /\ told' = "none"
    /\ used' = [used EXCEPT !.pauses = @ + 1]
    /\ UNCHANGED <<logVars, simVars, foldVars, published, failed, giveups>>

FinishRun ==
    /\ phase = "idle" /\ state # "finished"
    /\ BeginFinish
    /\ told' = "none"
    /\ UNCHANGED <<logVars, simVars, foldVars, published, failed, giveups, used>>

-----------------------------------------------------------------------------
(* Death and recovery.  A graceful Close saves nothing, so on disk it is a *)
(* crash between two handlers.  The volatile variables keep their last     *)
(* value while the process is down; no action reads them before Recover or *)
(* StartRun has assigned them.                                             *)

Dies ==
    /\ phase # "down"
    /\ used.crashes < MaxCrashes
    /\ phase' = "down"
    /\ used' = [used EXCEPT !.crashes = @ + 1]

Crash ==
    /\ Dies
    /\ UNCHANGED <<logVars, simVars, foldVars, published, state, failed, save,
                   saves, giveups, told>>

\* The process dies inside a tick's append: a prefix of the batch survives.
CrashInAppend ==
    /\ MayStep
    /\ Dies
    /\ \E k \in 1 .. BatchLen - 1 : AppendPrefix(Batch, k)
    /\ UNCHANGED <<committed, snaps, cursor, simVars, foldVars, published, state,
                   failed, save, saves, giveups, told>>

\* Mutant: the first tick of the tail is not counted.
TicksAfterShort(o) ==
    IF o = NextOffset THEN 0 ELSE log[NextOffset].tick - log[o + 1].tick

\* ticksIn: the tick boundaries the records after offset o cross.
TicksAfter(o) ==
    IF o = NextOffset THEN 0 ELSE log[NextOffset].tick - log[o + 1].tick + 1

\* Mutant: the tail is taken from the commit, not from the snapshot.
RebuiltFromCommit ==
    snaps[Latest].garden (+) SetToBag(AppliedIn(log, committed, NextOffset, {}))

\* Rebuild's garden: the newest snapshot's, then every record after it folded
\* through a processor with an empty deduplication table.
RebuiltGarden ==
    snaps[Latest].garden (+) SetToBag(AppliedIn(log, Latest, NextOffset, {}))

\* Mutant: a finished run is not told apart.
RecoverableAny == HasSnapshot

Recoverable == HasSnapshot /\ snaps[Latest].state # "finished"

\* Mutant: off by one, the last record's own number is issued again.
ResumeSeqShort == IF NextOffset = 0 THEN 0 ELSE log[NextOffset].seq - 1

\* Where Resume positions the producer: after the last record's sequence.
ResumeSeq == IF NextOffset = 0 THEN 0 ELSE log[NextOffset].seq

\* sim.Resume: the run's fields from its newest snapshot and the tail.  The
\* deduplication table, the staged controls and the cadence are not restored.
Resume ==
    /\ LET s == snaps[Latest] IN
        /\ tick' = s.tick + TicksAfter(Latest)
        /\ published' = s.published + (NextOffset - Latest)
        /\ received' = s.received + (NextOffset - Latest)
        /\ controls' = s.controls
        /\ revision' = s.revision
    /\ garden' = RebuiltGarden
    /\ MarkFolded
    /\ seq' = ResumeSeq
    /\ seen' = {}
    /\ pending' = <<>>
    /\ cadence' = 0
    /\ saves' = 0 /\ giveups' = 0

\* recoverOne: an interrupted run goes on ticking, a paused one stays paused.
Recover ==
    /\ phase = "down"
    /\ Recoverable
    /\ Resume
    /\ state' = (IF snaps[Latest].state = "paused" THEN "paused" ELSE "running")
    /\ failed' = FALSE
    /\ phase' = "idle"
    /\ UNCHANGED <<log, committed, snaps, save, told, used>>

\* A finished run is skipped, and a run with no snapshot cannot be resumed.
RecoverSkips ==
    /\ phase = "down"
    /\ ~Recoverable
    /\ phase' = "absent"
    /\ UNCHANGED <<logVars, simVars, foldVars, published, state, failed, save,
                   saves, giveups, told, used>>

-----------------------------------------------------------------------------
Init ==
    /\ log = <<>> /\ committed = 0 /\ snaps = <<>> /\ cursor = 0
    /\ phase = "absent" /\ state = "running" /\ failed = FALSE
    /\ save = [why |-> "start", attempt |-> 1, wrote |-> FALSE]
    /\ tick = 0 /\ controls \in Controls /\ revision = 0 /\ pending = <<>>
    /\ seq = 0 /\ cadence = 0
    /\ seen = {} /\ garden = EmptyBag /\ received = 0 /\ published = 0
    /\ saves = 0 /\ giveups = 0 /\ told = "none"
    /\ used = [crashes |-> 0, faults |-> 0, reads |-> 0, updates |-> 0, pauses |-> 0]

SaveStep == SaveInjectedFailure \/ SaveWrites \/ SaveCommits \/ SaveFaults

Command ==
    \/ StartRun
    \/ UpdateControls
    \/ \E paused \in BOOLEAN : SetPaused(paused)
    \/ FinishRun

Next ==
    \/ Advance
    \/ AdvanceAppendFails
    \/ AdvanceReadFails
    \/ SaveStep
    \/ Command
    \/ Crash
    \/ CrashInAppend
    \/ Recover
    \/ RecoverSkips

Spec == Init /\ [][Next]_vars

\* The ticker keeps firing and the goroutine that owns the run never waits for
\* anything else, so ticks and a Save that has begun go on.  Nothing obliges a
\* client to send a command or an operator to restart the daemon.
FairSpec == Spec /\ WF_vars(Advance) /\ WF_vars(SaveStep)

-----------------------------------------------------------------------------
(* Properties.                                                             *)

Record ==
    [kind : {"organism", "control_changed"}, seq : Nat, tick : Nat,
     rev : Nat, attempt : {1, 2}]

IsGarden(g) == IsABag(g) /\ DOMAIN g \subseteq Nat

LogType == log \in Seq(Record) /\ committed \in Nat /\ cursor \in Nat

SnapshotType ==
    /\ DOMAIN snaps \subseteq Nat
    /\ \A o \in DOMAIN snaps :
          /\ snaps[o].tick \in Nat /\ snaps[o].revision \in Nat
          /\ snaps[o].controls \in Controls
          /\ IsGarden(snaps[o].garden)
          /\ snaps[o].received \in Nat /\ snaps[o].published \in Nat
          /\ snaps[o].state \in {"running", "paused", "finished"}

SimType ==
    /\ tick \in Nat /\ controls \in Controls /\ revision \in Nat
    /\ pending \in Seq([rev : Nat, controls : Controls])
    /\ seq \in Nat /\ cadence \in Nat
    /\ IsGarden(garden) /\ received \in Nat /\ published \in Nat

RunType ==
    /\ phase \in {"absent", "idle", "saving", "down"}
    /\ state \in {"running", "paused", "finished"}
    /\ failed \in BOOLEAN
    /\ save \in [why : {"start", "cadence", "pause", "finish"},
                 attempt : 1 .. maxSnapshotSaveAttempts, wrote : BOOLEAN]
    /\ saves \in Nat /\ giveups \in Nat
    /\ told \in {"none", "running", "paused", "finished"}
    /\ used \in [crashes : Nat, faults : Nat, reads : Nat, updates : Nat, pauses : Nat]

\* The type of every variable.
TypeOK == LogType /\ SnapshotType /\ SimType /\ RunType

Live == phase \in {"idle", "saving"}

\* The organism events among the first n records.
EventsBelow(n) ==
    {log[i].seq : i \in {j \in 1 .. n : log[j].kind = "organism"}}

\* A live run's garden carries every event below its cursor, each exactly
\* once, whatever crashes, torn appends, failed saves and redeliveries came
\* before (Step, Rebuild, MarkFolded, the processor's deduplication).
\* A failed read moves the cursor over records that are never folded, so it is
\* said of runs in which no read has failed.
GardenFolded == Live => garden = SetToBag(EventsBelow(cursor))

GardenIsFold == used.reads = 0 => GardenFolded

\* A snapshot is the state built from every record below its offset: "delete
\* it and replay the records" reaches the same garden, if no read has failed
\* (Save, Rebuild).
SnapshotsFolded ==
    \A o \in DOMAIN snaps :
        o <= NextOffset /\ snaps[o].garden = SetToBag(EventsBelow(o))

SnapshotsAreFolds == used.reads = 0 => SnapshotsFolded

\* A committed offset always has durable state behind it: there is never a
\* moment at which a crash resumes past records nothing holds (Log.Save).
CommitCovered == committed > 0 => committed \in DOMAIN snaps

\* A sequence number, and so an event ID, names one event for the life of the
\* history; it appears again only as the redelivery right after it
\* (Producer.Resume after a crash, torn or not).
IdsNotReissued ==
    \A i, j \in 1 .. NextOffset :
        i < j /\ log[i].seq = log[j].seq =>
            j = i + 1 /\ log[i].attempt = 1 /\ log[j].attempt = 2

\* The run's own account agrees with its history: its tick is the one after
\* the last record's, and it counts as published what the log holds
\* (Rebuild's ticksIn and Published).
ClockAgrees ==
    Live /\ ~failed =>
        /\ tick = (IF NextOffset = 0 THEN 0 ELSE log[NextOffset].tick + 1)
        /\ published = NextOffset

\* The processor counts every delivered record once, across restarts (merge), if
\* no read has failed.
RecordsTallied == Live => received = cursor

TallyAgrees == used.reads = 0 => RecordsTallied

\* A run a client was told is paused or finished is still so after any number
\* of crashes ("comes back paused", "finished runs stay finished").
LifecycleSurvives ==
    phase = "idle" /\ told \in {"paused", "finished"} => state = told

\* A run is self-describing from its first moment: there is a snapshot before
\* there is a record, and before a client is told the run exists (StartRun).
SelfDescribing ==
    \/ NextOffset > 0
    \/ phase = "idle"
    \/ phase = "saving" /\ save.why # "start"
    => HasSnapshot

\* The injected snapshot failure always recovers on the retry (Sim.Save).
InjectedFailureRecovers == used.faults = 0 => giveups = 0

\* The garden the next recovery would serve, while no process holds one.
DurableGarden == IF HasSnapshot THEN RebuiltGarden ELSE EmptyBag

Promise == INSTANCE ProjectedHistory WITH
    history <- log,
    folded  <- IF Live THEN cursor ELSE NextOffset,
    garden  <- IF Live THEN garden ELSE DurableGarden

\* Crashes, snapshots and recoveries are invisible: the run implements an
\* uninterrupted fold of an append-only history, in which no effect is ever
\* lost, repeated or undone (Step, Save, Rebuild, Resume together).
ImplementsPromise == Promise!Spec

\* A run with a tick limit comes to its end unless it is paused or its process
\* dies: no save failure or earlier recovery leaves it running for ever
\* (advance, Save's bounded retries, finish).
RunEnds ==
    Live /\ state = "running" ~>
        (phase = "idle" /\ state = "finished") \/ state = "paused" \/ ~Live

-----------------------------------------------------------------------------
(* The inductive invariants.  DiskInv holds of every run and carries the   *)
(* type invariant and CommitCovered; FoldInv builds on it and carries      *)
(* GardenFolded and SnapshotsFolded.                                       *)

\* How the durable files and the live cursor lie: commit and snapshots inside
\* the log, one snapshot newest, none ahead of a live cursor.
FilesOrdered ==
    /\ \A o \in DOMAIN snaps : o <= NextOffset
    /\ HasSnapshot => \E o \in DOMAIN snaps : \A p \in DOMAIN snaps : p <= o
    /\ Live => cursor <= NextOffset /\ \A o \in DOMAIN snaps : o <= cursor
    /\ phase = "saving" /\ save.wrote => cursor \in DOMAIN snaps

\* Ticks never go backwards along the log, and neither a snapshot nor a live
\* run is behind the records it has seen.
TicksOrdered ==
    /\ \A i, j \in 1 .. NextOffset : i < j => log[i].tick <= log[j].tick
    /\ Live => \A i \in 1 .. NextOffset : log[i].tick <= tick
    /\ \A o \in DOMAIN snaps :
          /\ \A i \in 1 .. o : log[i].tick <= snaps[o].tick
          /\ o < NextOffset => log[o + 1].tick <= snaps[o].tick
          /\ o = NextOffset /\ Live => tick <= snaps[o].tick

\* What a crash at any moment leaves behind is something Recover can read
\* (Log.Save's order, Rebuild's ticksIn).
DiskInv == FilesOrdered /\ TicksOrdered /\ CommitCovered


\* No position the projection stops at can part an event from its redelivery:
\* either there are no redeliveries or a tick folds all it produced.
PairsKept == DuplicateEvery = 0 \/ \A c \in Controls : c.capacity = 0

\* Every record at or after offset c was numbered after every record below it.
Cut(c) ==
    \A i, j \in 1 .. NextOffset : i <= c /\ c < j => log[i].seq < log[j].seq

\* Records are numbered in log order, by a producer that is never behind them.
LogOrdered ==
    /\ \A i, j \in 1 .. NextOffset : i < j =>
          /\ log[i].seq <= log[j].seq
          /\ DuplicateEvery = 0 => log[i].seq < log[j].seq
    /\ Live => \A i \in 1 .. NextOffset : log[i].seq <= seq

\* The projection: its cursor is a clean cut, and its table knows no event it
\* has not folded.
ProjectionAtCut ==
    Live =>
        /\ Cut(cursor)
        /\ seen \subseteq KeysIn(log, 0, cursor)

\* Where a run may be interrupted without losing or repeating an event: the
\* strengthening that makes exactly-once folding inductive (Step, Save,
\* Resume).
FoldInv ==
    /\ LogOrdered
    /\ ProjectionAtCut
    /\ \A o \in DOMAIN snaps : Cut(o)
    /\ SnapshotsFolded
    /\ GardenFolded
=============================================================================
