# Signal Garden in TLA+

Signal Garden is a daemon that runs small simulated gardens. A run produces events tick by tick,
appends them to a durable log of its own, folds the log into a garden, and streams the garden to
browsers; a restarted daemon resumes the runs it was serving. This directory holds TLA+ models of
that machinery, the TLC configurations that check them on small instances, and TLAPS proofs of what
matters most for every value of the parameters.

    tlc -workers 2 -config DurableRun_drains.cfg MCDurableRun     # one run
    tlapm DurableRunProofs.tla                                    # one module's proofs

## The system

| Component | State it keeps | Operations | Talks to |
| --- | --- | --- | --- |
| event log (`internal/eventlog`) | records, the `projections` group's commit, snapshots, the reader's cursor | Append, UnprocessedUpTo, Save (snapshot, then commit), MarkFolded, Since, Last, Restore, Rewind | the event-spine library (external) |
| simulation (`internal/sim`) | tick, controls, revision, staged controls, counters | New, SetControls, Step, Save, Rebuild, Resume | log, producer, processor |
| producer (`internal/producer`) | the count of events emitted | Tick, ControlChanged, Resume | simulation |
| processor (`internal/processor`) | deduplication table, counters | Process, Restore | garden |
| garden rules (`internal/domain`) | organisms | Apply: rain, growth, pest | processor |
| engine (`internal/engine`) | registry of runs; per run one goroutine with lifecycle, subscriptions, frame sequence | StartRun, Recover, UpdateControls, Pause, Resume, Finish, Subscribe, Close | everything above; clients through `do` |
| projection stream (`internal/projection`) | one handler goroutine per WebSocket | Handler, pump, drain | engine, over a bounded channel |
| command API (`internal/service`, `internal/wire`) | none of its own: one handler goroutine per call | StartRun, GetRun, GetSnapshot, ListRuns, UpdateControls, PauseRun, ResumeRun, FinishRun; toStatus; what a Run message carries | registry |
| metrics (`internal/metrics`) | the pending total, one entry per run; counters | ObservePending, ForgetRun | called by the run's goroutine |
| daemon (`cmd/signalgardend`) | where realMain stands, its result | recover, serve, signal, drain HTTP, GracefulStop, Close | registry, handlers |
| batch run (`internal/run`) | none: a function of a configuration | Validate, Execute | simulation |
| clocks (`internal/engine/clock.go`) | tickers, a channel each | ManualClock.Tick, Stop; the system ticker | the run's goroutine |
| load burst, live mode, replay (`cmd/signalgarden`) | a client's loop; the reader's copy of the controls | runLoad, runLive, readCommands, replay | command API; engine, in process |
| tracing, CORS, generated contract, rendering | none the others depend on | | |

What is hard about it:

* **Death between two writes.** A tick appends, folds and perhaps saves; a save is a snapshot write
  and then a commit, retried up to three times. The process may die between any two of them, or
  inside an append, and everything not in the log or a snapshot is gone: deduplication table, staged
  controls, cursor.
* **At-least-once delivery over a restart.** The table that recognises a redelivery does not survive.
* **Backlogs.** `worker_count * batch_size` may be below the production rate; then the cursor, the
  tail and the tick no longer move together, and a snapshot sits in the middle of a tick.
* **Directories that outlive daemons.** A fresh process counts generated IDs from one again and meets
  the directories of runs that are recovered, finished, failed or damaged; opening a damaged log
  truncates it, under commits and snapshots that name what was there.
* **Ends that race.** A run may finish, a daemon may shut down and a client may attach, fall behind,
  resume or vanish, all at once; the close code must say which of the ends it was.

* **Calls that overlap.** A handler looks its run up, lets go of the lock and waits for the run's
  goroutine; ticks, other calls, Close and the end of the process come in between, and an answer may
  be an error for a command that did run.
* **Clients that give up.** An interrupt or a deadline ends the client's wait and not the handler's
  work: a run may start, or go on ticking, with nobody who knows its name.
* **Two drivers of one simulation.** A live run, paced by a clock and steered by commands, must be
  the batch run of the same control changes, or a history is not reproducible.

`PROJECT.json` lists these hazards one by one, at their lines, with the properties that cover them.

## Modules

| Module | Models | Used by |
| --- | --- | --- |
| `EventLog` | the durable files and the reader, as `internal/eventlog` uses the spine | `DurableRun` |
| `DurableRun` | one run across the lives of the daemon: producer, Step, fold, Save, commands, crash, Recover | the runs on `MCDurableRun` |
| `ProjectedHistory` | the abstract promise: an append-only history and a garden that moves through it forwards | instantiated by `DurableRun` as `Promise` |
| `LiveStream` | the run's goroutine, its subscribers' channels, the WebSocket handlers, Registry.Close | the runs on `MCLiveStream` |
| `Garden` | the processor and the domain rules, under redelivery | the runs on `MCGarden` |
| `Registry` | the table of runs and the data directory: StartRun, generated IDs, Recover, Close, damaged logs | the runs on `MCRegistry` |
| `Service` | the gRPC handlers, `do`, the run's goroutine as calls see it, the pending gauge, realMain's shutdown | the run on `MCService` |
| `Burst` | `runLoad`, a client with an interrupt and deadlines; extends `Service` | the run on `MCBurst` |
| `Terminal` | `runLive` and `readCommands` on a run in their own process; extends `LiveStream` | the run on `MCTerminal` |
| `LiveAndBatch` | the whole of `Step`, draws and codec included, driven by a clock and by `Execute` | the run on `MCLiveAndBatch` |
| `DurableRunProofs`, `LiveStreamProofs`, `TerminalProofs`, `GardenProofs`, `RegistryProofs`, `LiveAndBatchProofs` | theorems about the module they are named after | |
| `ServiceProofs` | theorems about `Service` and `Burst` | |
| `SumTheorems` | induction over the numbers and sums over finite sets, in a form the provers can use | `ServiceProofs`, `GardenProofs`, `LiveAndBatchProofs` |

**DurableRun.** A run's fields are owned by one goroutine, so within a process handlers do not
interleave; what interleaves with them is the death of the process. Handlers are therefore one
action each, cut exactly where they touch the disk. `Advance` is `advance` with the whole of `Step`
up to a cadence save; `AdvanceAppendFails` and `AdvanceReadFails` are its error paths. Entering
`Save` moves `phase` to `"saving"` with the reason in `save.why`; `SaveWrites`, `SaveCommits`,
`SaveInjectedFailure` and `SaveFaults` are the steps of one attempt, and `SaveReturns` is the rest
of whichever handler called. `Crash` is death between handlers or inside a save (a graceful Close
saves nothing, so on disk it is the same), `CrashInAppend` death inside an append, which leaves a
prefix of the batch. `Recover` is `recoverOne` around `Resume`. The garden is the bag of organism
events whose effect it carries, since what recovery can get wrong is to lose an event or to apply
it twice. `told` is the lifecycle a client was last answered.

**LiveStream.** The goroutine is at its select (`stage = "ready"`), between a tick's frame and the
final one (`"finishing"`), or gone (`"done"`). Publishing and closing channels are steps of the
goroutine, but receivers run beside it and may take a frame between the two. A stream is used once
and moves through `pc`: dialled, waiting in `do`, answered, streaming, closing, closed. A frame is
its sequence, the offset it is folded to and whether the run had finished.

**Garden.** One action per delivery: `Deliver` brings an event for the first time, `Redeliver` any
earlier one again. Events the envelope's Validate refuses, strangers and control changes included.

**Registry.** One step per critical section of the registry's lock. `StartRun` and `StartGenerated`
open the logs they try, and an opened log stays truncated whatever becomes of the call. `Boot`,
`Recover` (one directory of the loop) and `Serve` are the daemon's start, `Close` and `Quit` the two
halves of `Registry.Close`, with runs ticking in between. `Damage`, `Replay` and `DeleteSnapshot` act
on logs nobody has open. A run is coarse here: a tick appends and folds one record and a save is one
step, since `DurableRun` takes those apart. That a truncation is on disk once a log has been opened,
and that no reader can be placed past the tail, is taken from the comments of `internal/eventlog`
and from decision 0006; the spine's code is not in the repository.

**Service.** A call is a goroutine that moves through `pc`: called, looking its run up (or, for
StartRun, registering and then spawning it), sending, sent, answered. `do` is the pair of `Takes`
(the goroutine takes the command and executes it in one step) and `DoReturns`, with `DoFails` beside
both of them: when the run's goroutine is gone, `done` is ready and the call may be answered
ErrRunClosed although its command ran. `ListRuns` asks its runs one by one. `since` records which
calls had been answered when a call was issued, so that properties can speak of calls that do not
overlap. `Signal`, `ListenerFails`, `HTTPDrained`, `HTTPTimesOut`, `GracefulStop`, `CloseRegistry`,
`StopRun` and `Exit` are realMain, both of its error paths included. Saves and their failures are
left to `DurableRun`: they change no answer's code.

**Burst.** `runLoad` uses three calls of `Service` reserved for it. Its contexts end a call on the
client's side only (`Lost`, `FinishGivenUp`); the handler goes on. Timers may fire at any moment.

**Terminal.** `LiveStream` with its one stream in the same process. Main and the reader are two
goroutines; commands execute on the run's goroutine as `CommandTaken` and `FinishTaken` and are
answered in a later step. An interrupt goes to the context while runLive listens for it, and
kills the process before and after.

**LiveAndBatch.** `Step` is a function of the simulation's record: staged changes, the tick's draws
from a given stream of raw numbers, redeliveries, the capped fold of encoded records and the chain
(as the sequence of what is hashed). The live run applies it when a tick arrives, by the manual
clock's handover or through the system ticker's one-place channel; `Execute` applies it to a
configuration. A garden is kept as the events each organism was given, in order, so runs that agree
on it agree under any rules. The raw numbers are given for the ticks below `TickBound`, enough for the
events of any mix at three draws each, and no tick is taken beyond them.

Definitions named as a mutant (they say so) are the plausible bugs each property is tested against;
no specification uses them.

## Runs

Passing runs:

| Run | Question | States |
| --- | --- | --- |
| `drains` | Does a run that keeps up with its producer survive two crashes, a fault, an injected save failure, a control update and a pause, with every second event redelivered? It implements `ProjectedHistory`, and on the way: commits are covered, event IDs are not reissued, tick and published count agree with the log, an answered pause or finish survives, an injected failure recovers, a run is self-describing. | 237,000 |
| `backlog` | Does a run that falls behind and is recovered with a backlog fold each record once, file its snapshots where they belong and count what it folded, when nothing is redelivered and no read fails? Does it end at its limit, whatever append, read and save failures it meets and after two recoveries? | 910,000 |
| `stream_safety` | Is any stream stranded, told the wrong end, or given frames out of order? | 2,270,000 |
| `stream_ends` | Does shutdown complete, and does every stream end? On a run that folds what it appends, is the next frame of a resuming client the garden its catch-up ended at, however late it reads? | 458,000 |
| `directories` | Do two directories and three lives of the daemon, with named and generated starts, a damaged log, a failed first save, replays and a deleted snapshot, ever mix two runs, lose one, revive a finished one, or serve a garden that is not the fold of its log? | 1,100,000 |
| `garden_rules` | Do four events in any order and a redelivery keep the rules' bookkeeping? | 325,000 |
| `service` | Two overlapping calls of any kind, on a recovered and a new run, around ticks, failures and every way the daemon stops: does an answer's code tell whether the command ran, do later calls agree with earlier answers, does a control change land on the tick its receipt named, is every known run listed, once and in start order, is the pending gauge the backlog there is, and is every call answered definitely when the daemon exits cleanly? | 1,440,000 |
| `burst` | Does the load tool return, end its run and report that end, and does shutdown complete around it? | 157,000 |
| `terminal` | Does the live mode return after an interrupt or the run's end, with a full channel and nobody draining it; is its summary the end; is its copy of the controls what the run accepted? | 311,000 |
| `batch` | Is a live run the batch run of its control changes, record by record; do the records alone give back its chain and garden; does a manual tick return? | 65,000 |

Two runs show where the code and what is said of it part (the findings in `PROJECT.json` quote the
lines), both with a backlog. `backlog_straddle`: a snapshot's offset falls between an event and its
redelivery; the rebuilt garden has the event twice. `catchup_overlap`: the catch-up of a resuming client
is read to the log's tail and the frame after it is at the folded offset, so `catchup.to` is not the
frame's `folded_offset`, and the records between come again to a client that resumes from that frame.
`HandoverExact` (run `stream_ends`) states the equality where it holds, on a run that folds what it appends.

Seen while modelling, kept as notes, and carried by the models:

* After a restart. A rebuild counts a backlog's ticks and records again (`snapshot.go:200`), so the
  recovered tick is ahead of the history; a resumed run has no snapshot cadence (`snapshot.go:319`),
  and its controls are those of the newest snapshot (`snapshot.go:336`), so a change applied since is
  gone, although `src/README.md:112` and `:124` read otherwise. A revision already in the log can be
  issued again. A run recovered between its last tick and its final snapshot ticks once past
  `MaxTicks`; one whose final save fails three times is reported finished and revived.
* Damage. It is known only to the opening that truncates it (`engine.go:920`): after a refused start,
  or a replay, the next restart serves the shortened history under `refuse` and reports nothing. When
  damage empties a log (`MinIntact = 0`), the refused run's ID is free again, a new run starts over
  its snapshots, and the restart after that serves the old run's garden for it (`ServesItsLog` fails).
  Once an operator has deleted a stranded snapshot, the commit beyond the tail stays, because the next
  opening is clean and `Rewind` is not called. `engine.go:199` calls the recovery report "the only
  place a caller can learn" of a continued log, and `wire.Run` has no field for it (`Sent`).
* Backlogs and reads. A run that finishes with a backlog shows a final garden that a replay of its
  log does not reach (`src/README.md:112`); a client that comes to a
  run whose last tick failed has a catch-up past the final garden, by what that tick appended (the
  exception in `HandoverExact`); a failed read moves the cursor over
  records that are never folded, and `finish` then files its snapshot there (the reason for
  `used.reads = 0` in `GardenIsFold`, `SnapshotsAreFolds` and `TallyAgrees`, and for `MaxReadFaults = 0` in
  `drains`); a torn tick counts as a whole one.
* Ends. A subscriber that fell behind may be closed with 1000 without the final frame (the exception
  in `FinalUnlessLost`). The ID of a run finished before its first tick is free again, since
  `openRunLog` looks at records only. A burst interrupted before StartRun's answer leaves its run
  ticking (the exception in `BurstEndsItsRun`). GracefulStop has no time limit, so an open health
  watch (`Watchers` not empty) holds the shutdown; when the HTTP shutdown times out instead, the
  registry closes under running handlers, which then answer Unavailable.

**Bounds.** Every bound is a named constant. Two or three ticks with a cadence of two put a save, a
tick after it and a limit in every run; two crashes allow a crash during what recovery left behind;
one fault meets one injected failure inside the three attempts of a save, and in
`backlog` two do, which is a save that fails for good;
`backlog` may tick up to 9 although the limit is three, because a recovery counts its backlog's ticks again
and two of them step far over the limit. Two events a tick with
every second redelivered give one pair a tick, and a capacity of one below the rate leaves a growing
backlog. Two streams with a buffer of two cover two readers at different distances from a full
buffer; `stream_ends` uses a buffer of one so that it is full at once. There a tick's frame
is dropped while a resuming client has not read its first. `catchup_overlap` needs one tick. `directories` has as many
attempts as directories, so a search can skip one and can run out; its damage leaves one record at
least (`MinIntact = 1`; the note above says what happens otherwise). The garden's percentages are
scaled down so that four events reach every cap, floor and threshold. `service` has two calls on two
runs (one recovered, one new), two ticks and one fault: every pair of operations overlaps in every
order, around a tick that folds all and one that lags. `burst` has one other client and one poll on
one run, so each call of the burst can be disturbed, given up or orphaned. `terminal` has one tick, a
channel of one frame, which the first frame fills, and two typed lines, so the second builds on the
first. `batch` has three ticks, three mixes (two drain, one lags), two updates, which may land on one
tick, a pause and a resume, and redelivery off or of every second event. Streams, organisms and the calls of
`service` are symmetric (only in runs that check no liveness).

**Deadlock** is not checked: a finished run, a process that stays down and streams that have closed
really stop.

**Fairness.** `DurableRun!FairSpec`: the ticker keeps firing and the goroutine waits for nothing
else, so ticks and a save that has begun go on; nothing obliges a client to send a command or an
operator to restart the daemon, so neither is fair. `LiveStream!FairSpec`: Go's select takes each
ready case in the end, handlers that are not blocked keep running, and a client's socket accepts
its frame or fails within the write deadline; ticks, commands, new clients and shutdown are not fair.
`Burst!FairBurst`: handlers, run goroutines, the client's timers and, once it has begun to return,
realMain go on; no tick, signal, interrupt, fault or other client is obliged to come.
`Terminal!FairTerminal`: the two goroutines of the terminal and the engine's Finish and Quit go on;
typing, ticks and interrupts are not fair. `LiveAndBatch!FairSpec`: a goroutine at its select takes
the tick that is offered and finishes the one it took.

## Proofs

Every theorem holds for all values of the constants that the named ASSUMEs allow: any number of
runs, calls, streams, directories, crashes, faults and ticks. The assumptions say that bounds and
sizes are natural numbers, that a mix produces at least one event a tick (`Controls.Validate`), that a
request names an operation of the service and a run by an ID or not at all (`RequestAssumption`), that
a daemon recovers finitely many runs, that the burst names its run by an ID or leaves the name to
the daemon, and that a tick's generator yields as many numbers as its events draw
(`BatchBoundsAssumption`; the program's generator never runs dry). Where a theorem needs a hypothesis it is in its statement.

**One run (`DurableRun`).**

* What is on disk: `TypeCorrect`, `CommitIsCovered`, `DiskIsRecoverable`. The type invariant is
  not inductive: the recovered tick, a difference of two records' ticks, is a natural number only if
  ticks are ordered along the log and no snapshot is ahead of them. `DiskInv` adds exactly that:
  `FilesOrdered` (snapshots inside the log, one newest, none ahead of a live cursor, a written
  snapshot under the cursor until its commit) and `TicksOrdered`.
* Exactly once: `FoldsExactlyOnce` and `SnapshotsHoldTheFold`, under `PairsKept`: either there
  are no redeliveries or a tick folds all it produced. Both hold until a read of the log fails. `FoldInv` says where a run
  may be interrupted: records are numbered in log order by a producer never behind them, and the
  cursor and every snapshot is a clean cut, with only smaller numbers below it. That is why an empty
  table is enough after a restart. `backlog_straddle` shows the condition is needed. Then
  `RunsAreSelfDescribing`, and `RunKeepsPromise`, the refinement of `ProjectedHistory` where reads do not fail: while no
  process holds the run, the abstract garden is the one the next recovery will serve, so a crash maps
  to catching up with the log and `Recover` to a stutter.
* What a run says of itself across crashes:
  `InjectionIsAbsorbed` (`AttemptsBounded` counts what each attempt of a Save was spent on);
  `IdsNameOneEvent`, without a hypothesis: a batch is numbered above every record in the log, torn ones
  included, and two positions of a batch hold one event only as a delivery and its redelivery right
  after it (`EventAtPairs`, for every period);
  `ToldSurvives`, as long as `used.faults <= 1`: one fault and one injected failure cannot exhaust three
  attempts, so the state a client was told is in the newest snapshot (`ToldIsDurable`); with more real
  faults the code reports a finish it could not save, and the restart revives the run;
  `TallySurvives`, as long as no read failed (a failed read moves the cursor over records that are never
  folded), from the same equation on every snapshot (`SnapshotTallies`);
  `ClockSurvives`, under `NoBacklog`: every snapshot a recovery may start from has its offset's tick
  (`SnapshotClock`), which a backlog breaks, as the note on `snapshot.go:200` says.

**Streams (`LiveStream`, `Terminal`).**

* `LiveStreamProofs`: `StreamTypes`, `StreamsAreNeverAbandoned`, `CloseCodesAreHonest`,
  `FramesArriveInOrder`, `CatchupMeetsTheStream`, `FinishedMeansShown`. `ReasonsSettled` says that why a
  channel is closed is decided before a handler can see that it is, which covers the zero value of the
  reason too. `FrameInv` describes a stream by its queue: what it holds is in order, newer than what
  was delivered and no newer than the run; if no frame was lost, the last one is final once the run is.
  `CatchupMeetsTheStream` has the hypothesis that ticks fold all they append
  (`Capacity = 0 \/ Events <= Capacity`); `catchup_overlap` shows it is needed. `HandoverInv` keeps the first
  frame of a channel whose client has read nothing where that client's catch-up ended: publishing appends
  behind it or drops the new frame, never the oldest, and it says that the run has nothing left to fold
  until a tick fails.
* `TerminalProofs`: `TerminalIsAStream` (every step of the live mode is a step of `LiveStream` or leaves
  its variables alone, so the theorems above hold of the terminal), `TheEndIsPrinted`, `CopyIsTheRuns`.

**The registry (`Registry`).** `RegistryProofs`: `RunsServeTheirLogs`, `NoDirectoryIsTaken`,
`EveryRunReturns`, `FinishedRunsRest`. All four come from one invariant, `RegistryInv`, and none of them
is inductive without the others. A directory has an owner, the run whose first save made the snapshot
at offset 0; everything in it is the owner's and every snapshot the log reaches is of the records in
the log (`Sound`); a live run has folded its log to the end (`Serves`); a birth owns one directory
(`BirthInv`); a run that ended unhurt says so in its newest snapshot (`EndOK`); and a registered run
that is in no table has records (`WaitOK`), which is why `openRunLog`, which looks at records only, never
hands its directory to another: an empty log is always recovered. The hypothesis is `MinIntact > 0`:
damage leaves a log its first record. Without it the theorems are false (the note on damage below the
runs). Opening several logs at once, as a generated ID does, is one relation (`Opens`).

**Calls (`Service`, `Burst`).** `ServiceProofs`: `AnswersMeanWhatTheySay`, `ReceiptsAreKept`,
`CallsAreAnsweredInOrder`, `NoRunIsForgotten`, `CleanExitIsClean`, `ServiceTypes`, `EntriesAreCurrent`,
`GaugeIsCurrent` and, for the load tool, `BurstEnds`. `ServiceInv` has a part per owner of the state: the daemon and the lock, each
run's goroutine, each call's handler, and what a reply says of its run. What a reply says is about a
run that has gone on since, so the invariant states it in terms that only grow (`Grows`: tick,
revision, the records of applied changes, and that finished stays finished); a step of the goroutine
then cannot take an earlier reply back, and the order of two calls that do not overlap follows from
the order in which the goroutine met them. `BurstInv` adds where `runLoad` stands and which of its calls
have been answered. `NoRunIsForgotten` needs the order of starts as well: `StartOrderInv` says that a list being
put together keeps the registry's order, and that what is registered after it was copied is no run of it,
although its call may be the older one.

The gauge is a sum over a set of runs that grows and shrinks: `GaugeIsCurrent` is
`EntriesAreCurrent`, which says that every entry is right, with two facts about sums. A run without
an entry has no backlog, so leaving it out changes nothing (`AddSkipsZeros`), and the runs that exist
are finitely many (`FinitelyManyRuns`).

**The rules (`Garden`).** `GardenProofs`: `GardenTypes`, `TheDeadStayDead`, `AppliedCountsChanges`, from one
lemma per rule, and `HealthIsPestsOnce`. Its invariant `HealthInv` relates an organism's health to the sum
of the pest events in the history, which only a first delivery lengthens: a refused or a redelivered
event adds no summand, and one that finds the organism dead adds to a sum already past the clamp.

**Live and batch (`LiveAndBatch`).** `LiveAndBatchProofs`: `RecordsTellTheRun` and `LiveIsBatch`, for every
sequence of draws. The argument is about values before it is about steps:

* the codec: decoding undoes encoding on every envelope a producer makes, with the fields the body
  omits (`RoundTrip`), so folding records is folding what was produced;
* a simulation (`SimOK`): its log is numbered as the producer numbers, its table holds exactly the
  keys it has read, its chain is the records read with the gardens they left, and its garden is what
  playing those records from the beginning gives (`Play`, `ReplayIsPlay`). `New`, `SetControls` and
  `Step` keep it so (`NewOK`, `StepFacts`), with or without a backlog. `RecordsTellTheRun` follows:
  a replay into the smaller garden `OrganismCount` finds gives every organism it has the same history
  (`PlayedNarrow`), and the ones beyond it were never named;
* what a tick produces depends on the tick and the controls and not on the numbers its records get
  (`EmitOne`, `RedeliveredAlike`): two runs that obeyed different numbers of updates, and so number
  differently, still give the organisms the same events (`StepAlike`).

The live run needs three invariants: `SimInv`, that its simulation is one; `StageInv`, that the staged
updates are the last ones accepted and all at the present tick; and `BatchInv`, that `Execute` of the
changes so far has the same controls and, all records played, the same garden, and is the live
simulation itself but for what is staged when no tick saw two updates. `TickInv` keeps the ticks within
`TickBound`. `BatchInv` compares the whole simulation although `LiveMatchesBatch` is about log, chain and
garden only: cursor, table and numbering decide what the next tick does. When a tick is taken, the
batch run of one more tick is the one before it, continued (`ExecuteGoesOn`).

Induction over data is done in `SumTheorems` and in the lemmas about tables: a set of numbers
takes the place of a predicate (`NumberInduction`), and a recursive function is shown to exist and to
agree with its equation at every point, after which it is unfolded one step at a time. No theorem
takes an operator as a parameter.

`RegistryInv`, `BurstInv`, `DiskInv`, `FoldInv`, `StageInv`, `TickInv`, `BatchInv` and `StartOrderInv` were checked with TLC on the
runs' instances before they were proved, the last also with a third call and a third run: the order of two
new runs in a listing takes two starts and a listing, one call more than `service` has, so there the run shows
the order of a recovered and a new run and the theorem the rest.

Only model-checked are the liveness properties: `RunEnds`, `ShutdownCompletes`, `StreamsEnd`,
`BurstReturns`, `ShutdownEnds`, `TerminalReturns` and `TickReturns` (fairness and ENABLED are beyond this
prover). Every invariant and every safety property of a passing run is stated by a theorem.

## Not modelled, and the plan

The one thing worth proving next is that a run of `Registry` keeps its promise as a whole: a
refinement of `ProjectedHistory` in which a birth is an append-only history, from `RegistryInv`.

Left out for good: generated code (`internal/gen`) and with it the REST gateway, which calls the same
handlers; flags and terminal output (`internal/render`); tracing, CORS and route set-up; the counters
and histograms of `internal/metrics`, which nothing reads back; the hashes of the determinism chain
and of the garden's digest, and the garden's statistics; the bytes of the JSON body; the seeded
generator's numbers (a given stream in `LiveAndBatch`, any event elsewhere); and the event-spine
library, which appears only as the variables of `EventLog` and the records of `Registry`.
