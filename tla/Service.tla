------------------------------ MODULE Service ------------------------------
(***************************************************************************)
(* The command API of the daemon: the gRPC handlers of internal/service,   *)
(* the Registry calls behind them, the goroutine of each run that executes *)
(* their commands, the recorder of internal/metrics, and the shutdown of   *)
(* cmd/signalgardend.                                                      *)
(*                                                                         *)
(* A call is a goroutine of its own. It finds its run under the registry's *)
(* lock, lets go of the lock, hands a command to the run's goroutine and   *)
(* waits for it (do); ticks, other calls, Close and the end of the process *)
(* come between any two of these steps. A command executes in one step,    *)
(* because the run's goroutine takes nothing else meanwhile. Snapshots and *)
(* their failures are DurableRun's: they change no answer's code.          *)
(***************************************************************************)
EXTENDS Integers, Sequences, FiniteSetsExt

CONSTANTS
    RunIDs,     \* identifiers a run may have
    Recovered,  \* the runs recovered before serving begins
    Damaged,    \* those whose log was opened corrupt and allowed to continue
    Calls,      \* gRPC calls of other clients
    Requests,   \* what these clients ask
    Mixes,      \* control values Validate accepts
    EventsOf,   \* events_per_tick of each mix
    Mix,        \* the controls of the recovered runs
    CapacityOf, \* worker_count * batch_size of each mix; 0 is unbounded
    MaxTicks,   \* the tick limit of every run; 0 is none
    Watchers,   \* clients that keep a health watch open
    TickBound,  \* bound: no tick starts at or after this one
    MaxFaults   \* bound: failed ticks and failed starts

ASSUME ServiceAssumption ==
    /\ EventsOf \in [Mixes -> Nat \ {0}]
    /\ CapacityOf \in [Mixes -> Nat]
    /\ MaxTicks \in Nat
    /\ IsFiniteSet(Recovered) /\ Recovered \subseteq RunIDs
    /\ Damaged \subseteq Recovered /\ Mix \in Mixes
    /\ Calls \cap {"start", "poll", "finish"} = {}

ASSUME ServiceBoundsAssumption == TickBound \in Nat /\ MaxFaults \in Nat

VARIABLES
    runs, order, closed,    \* the registry: served runs, their start order, and whether it is closed
    run, loop, quit,        \* each run's state, its goroutine, and whether Close told it to go
    pendingByRun,           \* the recorder's map
    request, pc, handle,    \* each call: what it asks, where its handler is, the run it found
    reply,                  \* what the run's goroutine left for the call
    answer,                 \* what the call was answered
    list,                   \* ListRuns: the runs still to ask, and the ones that answered
    since,                  \* the calls that had been answered when this one was issued
    daemon, accepting,      \* realMain: where it stands, and whether gRPC takes new calls
    result,                 \* what realMain returns: "none" yet, "nil" or "error"
    stopping,               \* the runs Close has still to stop
    faults                  \* how much of the bound was spent

registry == <<runs, order, closed>>
engine   == <<run, loop, quit, pendingByRun>>
handlers == <<request, pc, handle, reply, answer, list, since>>
server   == <<daemon, accepting, result, stopping>>
service  == <<registry, engine, handlers, server, faults>>

\* The load tool's three calls (module Burst) and everybody else's.
BurstCalls == {"start", "poll", "finish"}
AllCalls   == Calls \cup BurstCalls

-----------------------------------------------------------------------------
(* Requests and answers.                                                   *)

NoID  == "no id"
Nil   == "nil"
NoRun == [state |-> "none"]

Operations == {"StartRun", "Query", "ListRuns", "UpdateControls", "PauseRun", "FinishRun"}

\* A client names one of the operations, and a run by an identifier or not at all.
ASSUME RequestAssumption ==
    /\ NoID \notin RunIDs
    /\ \A q \in Requests : q.op \in Operations /\ q.id \in RunIDs \cup {NoID}

\* A call that asks nothing, and a call without an answer.
NoRequest == [op |-> "none", id |-> NoID, controls |-> Nil, paused |-> FALSE]
NoReply   == [err |-> "none", value |-> NoRun]
NoAnswer  == [code |-> "none", value |-> NoRun]

\* ControlsFrom: absent controls are all zero, which no Validate accepts.
ControlsFrom(c) == IF c = Nil THEN "zero" ELSE c

\* Mutant: a run that has closed is reported as a run that never was.
toStatusClosedIsGone(err) ==
    CASE err = "nil" -> "OK"
      [] err \in {"ErrRunNotFound", "ErrRunClosed"} -> "NotFound"
      [] err \in {"ErrRunExists", "ErrRunHasHistory"} -> "AlreadyExists"
      [] err = "ErrRunFinished" -> "FailedPrecondition"
      [] err = "ErrCorruptLog" -> "DataLoss"
      [] err = "ErrRegistryDown" -> "Unavailable"
      [] OTHER -> "InvalidArgument"

\* toStatus: the code of an engine error.
toStatus(err) ==
    CASE err = "nil" -> "OK"
      [] err = "ErrRunNotFound" -> "NotFound"
      [] err \in {"ErrRunExists", "ErrRunHasHistory"} -> "AlreadyExists"
      [] err = "ErrRunFinished" -> "FailedPrecondition"
      [] err = "ErrCorruptLog" -> "DataLoss"
      [] err \in {"ErrRegistryDown", "ErrRunClosed"} -> "Unavailable"
      [] OTHER -> "InvalidArgument"

\* Mutant: the revision a client is shown is the one in force, not the one accepted.
ViewInForce(r) == [id |-> r, state |-> run[r].state, tick |-> run[r].tick,
                   revision |-> Len(run[r].applied), controls |-> run[r].controls,
                   pending |-> run[r].pending, logRecovery |-> r \in Damaged]

\* view, snapshot and telemetry: what the run's goroutine reports of itself.
View(r) == [id |-> r, state |-> run[r].state, tick |-> run[r].tick,
            revision |-> run[r].revision, controls |-> run[r].controls,
            pending |-> run[r].pending, logRecovery |-> r \in Damaged]

\* wire.Run, Snapshot and Telemetry: what of it is sent. The messages have no field
\* for log_recovery.
Sent(value) == [f \in DOMAIN value \ {"logRecovery"} |-> value[f]]

\* The handler returns.
Answer(c, err, value) ==
    /\ pc' = [pc EXCEPT ![c] = "answered"]
    /\ answer' = [answer EXCEPT ![c] = [code |-> toStatus(err), value |-> Sent(value)]]
    /\ UNCHANGED <<request, since>>

Refuse(c, err) == Answer(c, err, NoRun) /\ UNCHANGED <<handle, reply, list>>

-----------------------------------------------------------------------------
(* The handlers of internal/service and the Registry calls they make.      *)

\* A call arrives. The handler ignores the caller's context: from here on it
\* runs to its end whether or not anyone still waits for the answer.
Issue(c, q) ==
    /\ accepting /\ pc[c] = "idle"
    /\ request' = [request EXCEPT ![c] = q]
    /\ pc' = [pc EXCEPT ![c] = "called"]
    /\ since' = [since EXCEPT ![c] = {d \in Calls : pc[d] = "answered"}]
    /\ UNCHANGED <<registry, engine, handle, reply, answer, list, server, faults>>

Called(c, op) == daemon # "exited" /\ pc[c] = "called" /\ request[c].op = op

\* Validate of a StartRunRequest.
Mistaken(q) == ControlsFrom(q.controls) \notin Mixes

\* StartRun, before a run exists: the request, the closed registry and a taken
\* name are refused; the log may be taken, corrupt or unwritable.
StartRefused(c) ==
    /\ Called(c, "StartRun")
    /\ LET q == request[c]
       IN  \/ Mistaken(q) /\ Refuse(c, "invalidRequest") /\ UNCHANGED faults
           \/ ~Mistaken(q) /\ closed /\ Refuse(c, "ErrRegistryDown") /\ UNCHANGED faults
           \/ /\ ~Mistaken(q) /\ ~closed /\ q.id \in runs
              /\ Refuse(c, "ErrRunExists") /\ UNCHANGED faults
           \/ /\ ~Mistaken(q) /\ ~closed /\ q.id = NoID /\ RunIDs \subseteq runs
              /\ Refuse(c, "ErrRunHasHistory") /\ UNCHANGED faults
           \/ /\ ~Mistaken(q) /\ ~closed /\ q.id \notin runs /\ faults < MaxFaults
              /\ \E err \in {"ErrRunHasHistory", "ErrCorruptLog", "ioError"} : Refuse(c, err)
              /\ faults' = faults + 1
    /\ UNCHANGED <<registry, engine, server>>

\* The registry keeps start order.
Listed(r) == order' = Append(order, r)

FreshRun(controls) ==
    [state |-> "running", tick |-> 0, revision |-> 0, controls |-> controls,
     staged |-> <<>>, applied |-> <<>>, pending |-> 0]

\* StartRun: the run is registered under the lock; its goroutine is started, and
\* asked for the answer, after the lock is released.
StartRun(c) ==
    /\ Called(c, "StartRun") /\ ~closed
    /\ LET q == request[c]
           controls == ControlsFrom(q.controls)
       IN  /\ ~Mistaken(q) /\ q.id \notin runs
           /\ \E r \in (IF q.id = NoID THEN RunIDs ELSE {q.id}) \ runs :
                 /\ runs' = runs \cup {r}
                 /\ Listed(r)
                 /\ run' = [run EXCEPT ![r] = FreshRun(controls)]
                 /\ loop' = [loop EXCEPT ![r] = "born"]
                 /\ handle' = [handle EXCEPT ![c] = r]
    /\ pc' = [pc EXCEPT ![c] = "spawning"]
    /\ UNCHANGED <<closed, quit, pendingByRun, request, reply, answer, list, since, server, faults>>

\* Mutant: StartRun answers before it has started the goroutine of a run that
\* Close has meanwhile taken over.
SpawnUnlessClosed(c) ==
    /\ daemon # "exited" /\ pc[c] = "spawning"
    /\ \/ closed /\ Refuse(c, "ErrRegistryDown") /\ UNCHANGED loop
       \/ /\ ~closed
          /\ loop' = [loop EXCEPT ![handle[c]] = "select"]
          /\ pc' = [pc EXCEPT ![c] = "lookup"]
          /\ UNCHANGED <<request, handle, reply, answer, list, since>>
    /\ UNCHANGED <<registry, run, quit, pendingByRun, server, faults>>

\* go lr.loop(), then GetRun of the new run.
Spawn(c) ==
    /\ daemon # "exited" /\ pc[c] = "spawning"
    /\ loop' = [loop EXCEPT ![handle[c]] = "select"]
    /\ pc' = [pc EXCEPT ![c] = "lookup"]
    /\ UNCHANGED <<registry, run, quit, pendingByRun, request, handle, reply, answer, list, since,
                   server, faults>>

\* UpdateControls without controls, refused before the engine hears of it.
NilControls(c) ==
    /\ Called(c, "UpdateControls") /\ request[c].controls = Nil
    /\ Refuse(c, "controlsRequired")
    /\ UNCHANGED <<registry, engine, server, faults>>

\* lookup: what the registry says of a name, under its lock.
Found(id) ==
    IF closed THEN "ErrRegistryDown" ELSE IF id \notin runs THEN "ErrRunNotFound" ELSE "nil"

\* Every call but StartRun and ListRuns begins with lookup; StartRun ends with it.
Lookup(c) ==
    /\ daemon # "exited"
    /\ \/ pc[c] = "lookup"
       \/ /\ pc[c] = "called" /\ request[c].op \notin {"StartRun", "ListRuns"}
          /\ ~(request[c].op = "UpdateControls" /\ request[c].controls = Nil)
    /\ LET id == IF pc[c] = "lookup" THEN handle[c] ELSE request[c].id
       IN  \/ Found(id) # "nil" /\ Refuse(c, Found(id))
           \/ /\ Found(id) = "nil"
              /\ handle' = [handle EXCEPT ![c] = id]
              /\ pc' = [pc EXCEPT ![c] = "sending"]
              /\ UNCHANGED <<request, reply, answer, list, since>>
    /\ UNCHANGED <<registry, engine, server, faults>>

\* Mutant: ListRuns ranges over the map, which has no order.
ListRunsOverMap(c) ==
    /\ Called(c, "ListRuns")
    /\ \E s \in [1 .. Cardinality(runs) -> runs] :
          /\ {s[i] : i \in DOMAIN s} = runs
          /\ list' = [list EXCEPT ![c] = [left |-> s, out |-> <<>>]]
    /\ pc' = [pc EXCEPT ![c] = "listing"]
    /\ UNCHANGED <<registry, engine, request, handle, reply, answer, since, server, faults>>

\* ListRuns takes the runs under the lock and then asks them one by one.
ListRuns(c) ==
    /\ Called(c, "ListRuns")
    /\ list' = [list EXCEPT ![c] = [left |-> order, out |-> <<>>]]
    /\ pc' = [pc EXCEPT ![c] = "listing"]
    /\ UNCHANGED <<registry, engine, request, handle, reply, answer, since, server, faults>>

ListNext(c) ==
    /\ daemon # "exited" /\ pc[c] = "listing"
    /\ \/ /\ list[c].left # <<>>
          /\ handle' = [handle EXCEPT ![c] = Head(list[c].left)]
          /\ list' = [list EXCEPT ![c].left = Tail(@)]
          /\ pc' = [pc EXCEPT ![c] = "sending"]
          /\ UNCHANGED <<request, reply, answer, since>>
       \/ /\ list[c].left = <<>>
          /\ Answer(c, "nil", [state |-> "list", ids |-> list[c].out])
          /\ UNCHANGED <<handle, reply, list>>
    /\ UNCHANGED <<registry, engine, server, faults>>

\* Mutant: ListRuns leaves out the runs that are not running.
DoReturnsRunningOnly(c) ==
    /\ daemon # "exited" /\ pc[c] = "sent"
    /\ \/ /\ request[c].op = "ListRuns"
          /\ list' = IF reply[c].value.state = "running"
                     THEN [list EXCEPT ![c].out = Append(@, handle[c])]
                     ELSE list
          /\ pc' = [pc EXCEPT ![c] = "listing"]
          /\ UNCHANGED <<request, answer, since>>
       \/ /\ request[c].op # "ListRuns"
          /\ Answer(c, reply[c].err, reply[c].value)
          /\ UNCHANGED list
    /\ UNCHANGED <<registry, engine, handle, reply, server, faults>>

\* do, when the command ran: the call goes on with what the command left.
DoReturns(c) ==
    /\ daemon # "exited" /\ pc[c] = "sent"
    /\ \/ /\ request[c].op = "ListRuns"
          /\ list' = [list EXCEPT ![c].out = Append(@, handle[c])]
          /\ pc' = [pc EXCEPT ![c] = "listing"]
          /\ UNCHANGED <<request, answer, since>>
       \/ /\ request[c].op # "ListRuns"
          /\ Answer(c, reply[c].err, reply[c].value)
          /\ UNCHANGED list
    /\ UNCHANGED <<registry, engine, handle, reply, server, faults>>

\* do, when the run's goroutine is gone: also for a command that did run, if the
\* call had not yet noticed. ListRuns leaves such a run out.
DoFails(c) ==
    /\ daemon # "exited" /\ pc[c] \in {"sending", "sent"} /\ loop[handle[c]] = "done"
    /\ \/ /\ request[c].op = "ListRuns"
          /\ pc' = [pc EXCEPT ![c] = "listing"]
          /\ UNCHANGED <<request, handle, reply, answer, list, since>>
       \/ request[c].op # "ListRuns" /\ Refuse(c, "ErrRunClosed")
    /\ UNCHANGED <<registry, engine, server, faults>>

-----------------------------------------------------------------------------
(* The run's goroutine: commands, ticks and its end.                       *)

\* The goroutine takes this call's command from its select.
Takes(r, c, ops) == loop[r] = "select" /\ pc[c] = "sending" /\ handle[c] = r /\ request[c].op \in ops

\* The command has run, and leaves this for the call.
Leaves(c, err, value) ==
    /\ pc' = [pc EXCEPT ![c] = "sent"]
    /\ reply' = [reply EXCEPT ![c] = [err |-> err, value |-> value]]
    /\ UNCHANGED <<registry, loop, quit, request, handle, answer, list, since, server, faults>>

\* GetRun, GetSnapshot, GetTelemetry, the answer of StartRun, one step of ListRuns.
Query(r, c) ==
    /\ Takes(r, c, {"StartRun", "Query", "ListRuns"})
    /\ Leaves(c, "nil", View(r))
    /\ UNCHANGED <<run, pendingByRun>>

\* A finished run takes no more commands.
Over(r) == run[r].state = "finished"

\* Mutant: the receipt names the tick after the one that will obey.
ReceiptNextTick(r, rev) == [state |-> "revision", id |-> r, rev |-> rev, at |-> run[r].tick + 1]

\* ControlRevision: the revision, and the tick the producer starts obeying it.
Receipt(r, rev) == [state |-> "revision", id |-> r, rev |-> rev, at |-> run[r].tick]

\* UpdateControls, as the run executes it: staged for the next tick.
UpdateControls(r, c) ==
    /\ Takes(r, c, {"UpdateControls"})
    /\ LET controls == ControlsFrom(request[c].controls)
           rev == run[r].revision + 1
       IN  \/ Over(r) /\ Leaves(c, "ErrRunFinished", NoRun) /\ UNCHANGED run
           \/ /\ ~Over(r) /\ controls \notin Mixes
              /\ Leaves(c, "ErrInvalidControls", NoRun) /\ UNCHANGED run
           \/ /\ ~Over(r) /\ controls \in Mixes
              /\ run' = [run EXCEPT ![r].revision = rev,
                                    ![r].staged = Append(@, [rev |-> rev, controls |-> controls])]
              /\ Leaves(c, "nil", Receipt(r, rev))
    /\ UNCHANGED pendingByRun

\* setPaused.
SetPaused(r, c) ==
    /\ Takes(r, c, {"PauseRun"})
    /\ \/ Over(r) /\ Leaves(c, "ErrRunFinished", NoRun) /\ UNCHANGED run
       \/ /\ ~Over(r)
          /\ run' = [run EXCEPT ![r].state = IF request[c].paused THEN "paused" ELSE "running"]
          /\ Leaves(c, "nil", [View(r) EXCEPT !.state = run'[r].state])
    /\ UNCHANGED pendingByRun

\* No entry in the recorder's map.
NoEntry == -1

\* ForgetRun.
ForgetRun(r) == pendingByRun' = [pendingByRun EXCEPT ![r] = NoEntry]

\* ObservePending.
ObservePending(r, n) == pendingByRun' = [pendingByRun EXCEPT ![r] = n]

\* totalPending, the gauge: the sum of the entries there are.
totalPending ==
    MapThenSumSet(LAMBDA r : pendingByRun[r], {r \in RunIDs : pendingByRun[r] # NoEntry})

\* FinishRun: finish changes nothing the second time, and the summary is taken
\* after it.
FinishRun(r, c) ==
    /\ Takes(r, c, {"FinishRun"})
    /\ run' = [run EXCEPT ![r].state = "finished"]
    /\ Leaves(c, "nil", [View(r) EXCEPT !.state = "finished"])
    /\ ForgetRun(r)

\* The controls a tick runs under, and the records it appends.
InForce(s) == IF s.staged = <<>> THEN s.controls ELSE s.staged[Len(s.staged)].controls
BatchLen(s) == Len(s.staged) + EventsOf[InForce(s)]

\* What a fold of at most cap records leaves of n.
LeftOf(n, cap) == IF cap = 0 \/ n <= cap THEN 0 ELSE n - cap

\* The control_changed records of a tick, the first k of them.
Recorded(s, k) ==
    s.applied \o [i \in 1 .. (IF k < Len(s.staged) THEN k ELSE Len(s.staged)) |->
                    [rev |-> s.staged[i].rev, at |-> s.tick]]

\* Step: staged controls are recorded and obeyed, the tick's records appended
\* and folded up to the capacity.
Step(s) ==
    [s EXCEPT !.tick = @ + 1,
              !.controls = InForce(s),
              !.staged = <<>>,
              !.applied = Recorded(s, Len(s.staged)),
              !.pending = LeftOf(@ + BatchLen(s), CapacityOf[InForce(s)])]

\* A tick of the ticker that finds the run running.
Ticks(r) == loop[r] = "select" /\ run[r].state = "running" /\ run[r].tick < TickBound

\* Mutant: the tick is observed after the run may have finished in it.
RecordedByObservingLast(r, n, ends) == ObservePending(r, n)

\* What a tick leaves in the recorder: observed, and forgotten if the run ended.
RecordedBy(r, n, ends) == IF ends THEN ForgetRun(r) ELSE ObservePending(r, n)

\* advance.
Advance(r) ==
    /\ Ticks(r)
    /\ LET s == Step(run[r])
           ends == MaxTicks > 0 /\ s.tick >= MaxTicks
       IN  /\ run' = [run EXCEPT ![r] = [s EXCEPT !.state = IF ends THEN "finished" ELSE "running"]]
           /\ RecordedBy(r, s.pending, ends)
    /\ UNCHANGED <<registry, loop, quit, handlers, server, faults>>

\* advance, when Step fails: in its append, with some of the batch in the log; in
\* reading it back; or in the snapshot after the tick. The run finishes.
AdvanceFails(r) ==
    /\ Ticks(r) /\ faults < MaxFaults
    /\ \/ \E k \in 0 .. BatchLen(run[r]) :
             run' = [run EXCEPT ![r] = [run[r] EXCEPT !.state = "finished",
                                                      !.controls = InForce(run[r]),
                                                      !.staged = <<>>,
                                                      !.applied = Recorded(run[r], k),
                                                      !.pending = @ + k]]
       \/ run' = [run EXCEPT ![r] = [Step(@) EXCEPT !.state = "finished"]]
    /\ ForgetRun(r)
    /\ faults' = faults + 1
    /\ UNCHANGED <<registry, loop, quit, handlers, server>>

\* The goroutine takes its quit.
Quit(r) ==
    /\ loop[r] = "select" /\ quit[r]
    /\ loop' = [loop EXCEPT ![r] = "done"]
    /\ UNCHANGED <<registry, run, quit, pendingByRun, handlers, server, faults>>

-----------------------------------------------------------------------------
(* The daemon: realMain from the signal to the end of the process.         *)

\* A signal: unready, and the HTTP server begins to drain.
Signal ==
    /\ daemon = "serving"
    /\ daemon' = "draining"
    /\ UNCHANGED <<registry, engine, handlers, accepting, result, stopping, faults>>

\* A listener fails: the gRPC server is stopped without waiting for handlers.
ListenerFails ==
    /\ daemon = "serving"
    /\ daemon' = "returning" /\ result' = "error" /\ accepting' = FALSE
    /\ UNCHANGED <<registry, engine, handlers, stopping, faults>>

\* Shutdown of the HTTP server returns in time; GracefulStop takes no more calls.
HTTPDrained ==
    /\ daemon = "draining"
    /\ daemon' = "stopping" /\ accepting' = FALSE
    /\ UNCHANGED <<registry, engine, handlers, result, stopping, faults>>

\* Shutdown of the HTTP server runs out of time, and realMain returns with the
\* gRPC server still serving.
HTTPTimesOut ==
    /\ daemon = "draining"
    /\ daemon' = "returning" /\ result' = "error"
    /\ UNCHANGED <<registry, engine, handlers, accepting, stopping, faults>>

InFlight == {c \in AllCalls : pc[c] \notin {"idle", "answered"}}

\* Mutant: the gRPC server is stopped without waiting for its handlers.
MayStopAtOnce == TRUE

\* GracefulStop waits for every handler and every open stream, without a limit.
MayStop == InFlight = {} /\ Watchers = {}

GracefulStop ==
    /\ daemon = "stopping" /\ MayStop
    /\ daemon' = "returning" /\ result' = "nil"
    /\ UNCHANGED <<registry, engine, handlers, accepting, stopping, faults>>

\* The deferred Close of the registry: the map is emptied under the lock.
CloseRegistry ==
    /\ daemon = "returning"
    /\ daemon' = "closing"
    /\ closed' = TRUE /\ runs' = {} /\ order' = <<>>
    /\ stopping' = runs
    /\ UNCHANGED <<engine, handlers, accepting, result, faults>>

\* Close tells one run to go once the one before is gone.
StopRun(r) ==
    /\ daemon = "closing" /\ r \in stopping
    /\ \A q \in RunIDs : quit[q] => loop[q] = "done"
    /\ quit' = [quit EXCEPT ![r] = TRUE]
    /\ stopping' = stopping \ {r}
    /\ UNCHANGED <<registry, run, loop, pendingByRun, handlers, daemon, accepting, result, faults>>

Exit ==
    /\ daemon = "closing" /\ stopping = {}
    /\ \A q \in RunIDs : quit[q] => loop[q] = "done"
    /\ daemon' = "exited" /\ accepting' = FALSE
    /\ UNCHANGED <<registry, engine, handlers, result, stopping, faults>>

-----------------------------------------------------------------------------
\* Serving begins with the runs Recover brought back; their ticks are counted
\* from there, and Resume has left none of them a backlog.
Init ==
    /\ runs = Recovered /\ closed = FALSE
    /\ order \in {s \in [1 .. Cardinality(Recovered) -> Recovered] :
                    {s[i] : i \in DOMAIN s} = Recovered}
    /\ run = [r \in RunIDs |-> IF r \in Recovered THEN FreshRun(Mix) ELSE NoRun]
    /\ loop = [r \in RunIDs |-> IF r \in Recovered THEN "select" ELSE "none"]
    /\ quit = [r \in RunIDs |-> FALSE]
    /\ pendingByRun = [r \in RunIDs |-> NoEntry]
    /\ request = [c \in AllCalls |-> NoRequest]
    /\ pc = [c \in AllCalls |-> "idle"]
    /\ handle = [c \in AllCalls |-> NoID]
    /\ reply = [c \in AllCalls |-> NoReply]
    /\ answer = [c \in AllCalls |-> NoAnswer]
    /\ list = [c \in AllCalls |-> [left |-> <<>>, out |-> <<>>]]
    /\ since = [c \in AllCalls |-> {}]
    /\ daemon = "serving" /\ accepting = TRUE /\ result = "none" /\ stopping = {}
    /\ faults = 0

\* One step of a call's handler.
Handler(c) ==
    \/ StartRefused(c) \/ StartRun(c) \/ Spawn(c)
    \/ NilControls(c) \/ Lookup(c)
    \/ ListRuns(c) \/ ListNext(c)
    \/ DoReturns(c) \/ DoFails(c)

\* One step of a run's goroutine for a call, and for itself.
Command(r, c) == Query(r, c) \/ UpdateControls(r, c) \/ SetPaused(r, c) \/ FinishRun(r, c)
Loop(r) == Advance(r) \/ AdvanceFails(r) \/ Quit(r)

Daemon ==
    \/ Signal \/ ListenerFails \/ HTTPDrained \/ HTTPTimesOut \/ GracefulStop \/ CloseRegistry
    \/ (\E r \in RunIDs : StopRun(r)) \/ Exit

Next ==
    \/ \E c \in Calls, q \in Requests : Issue(c, q)
    \/ \E c \in AllCalls : Handler(c)
    \/ \E r \in RunIDs, c \in AllCalls : Command(r, c)
    \/ \E r \in RunIDs : Loop(r)
    \/ Daemon

Spec == Init /\ [][Next]_service

-----------------------------------------------------------------------------
(* Properties.                                                             *)

States == {"running", "paused", "finished"}

\* Types of the registry, the runs, the calls and the daemon.
TypeOK ==
    /\ runs \subseteq RunIDs /\ closed \in BOOLEAN
    /\ order \in Seq(RunIDs) /\ Len(order) = Cardinality(runs)
    /\ \A r \in RunIDs :
          \/ run[r] = NoRun /\ loop[r] = "none"
          \/ /\ run[r].state \in States /\ run[r].controls \in Mixes
             /\ run[r].tick \in 0 .. TickBound /\ run[r].pending \in Nat
             /\ loop[r] \in {"born", "select", "done"}
    /\ pc \in [AllCalls -> {"idle", "called", "spawning", "lookup", "listing", "sending", "sent",
                            "answered"}]
    /\ handle \in [AllCalls -> RunIDs \cup {NoID}]
    /\ daemon \in {"serving", "draining", "stopping", "returning", "closing", "exited"}
    /\ result \in {"none", "nil", "error"} /\ faults \in 0 .. MaxFaults

Answered(c, op) == pc[c] = "answered" /\ request[c].op = op
OK(c, op) == Answered(c, op) /\ answer[c].code = "OK"

Refusals == {"NotFound", "AlreadyExists", "FailedPrecondition", "InvalidArgument", "DataLoss"}

\* What an answer lets its client conclude, for every call of the API: after OK
\* the command has run; after a refusal it has not, and StartRun has registered
\* nothing; Unavailable leaves it open, because do may report a closed run for a
\* command that did run and StartRun asks its new run only after it has let go of
\* the lock, and it is given only by a registry that is closed.
AnswersAreDefinite ==
    \A c \in AllCalls : pc[c] = "answered" =>
        /\ answer[c].code = "OK" /\ request[c].op # "ListRuns" => reply[c].err = "nil"
        /\ answer[c].code \in Refusals =>
              reply[c].err # "nil" /\ (request[c].op = "StartRun" => handle[c] = NoID)
        /\ answer[c].code = "Unavailable" => closed

\* A call issued after another was answered, about the same run.
Follows(c, p) == pc[c] = "answered" /\ p \in since[c] /\ handle[c] = handle[p]

\* Calls that do not overlap see the run in the order they were made: revisions
\* grow, a query shows every update accepted before it and never an older tick, and
\* FinishRun is final and may be retried: once it has been answered no later call
\* changes the run, and a retry or a query reads the same summary.
AnswersInOrder ==
    \A c \in AllCalls, p \in Calls : Follows(c, p) =>
        /\ OK(p, "UpdateControls") /\ OK(c, "UpdateControls") =>
              answer[c].value.rev > answer[p].value.rev
        /\ OK(p, "UpdateControls") /\ OK(c, "Query") =>
              answer[c].value.revision >= answer[p].value.rev
        /\ OK(p, "Query") /\ OK(c, "Query") => answer[c].value.tick >= answer[p].value.tick
        /\ OK(p, "FinishRun") =>
              /\ ~OK(c, "UpdateControls") /\ ~OK(c, "PauseRun")
              /\ OK(c, "FinishRun") \/ OK(c, "Query") => answer[c].value = answer[p].value

\* The receipt of an update tells the truth: its control_changed record carries
\* the tick the receipt named, or the run has not moved past that tick.
ReceiptsAreHonest ==
    \A c \in AllCalls : OK(c, "UpdateControls") =>
        LET v == answer[c].value
            s == run[v.id]
        IN  \/ \E i \in 1 .. Len(s.applied) : s.applied[i] = [rev |-> v.rev, at |-> v.at]
            \/ s.tick = v.at /\ \A i \in 1 .. Len(s.applied) : s.applied[i].rev # v.rev

\* Run a started before run b: it was recovered and b was not; a client was told
\* of it before the call that started b was made; or the registry, while it is
\* open, holds it to have started first.
StartedBefore(a, b) ==
    \/ a \in Recovered /\ b \notin Recovered
    \/ \E q \in AllCalls : \E p \in since[q] :
          OK(p, "StartRun") /\ handle[p] = a /\ request[q].op = "StartRun" /\ handle[q] = b
    \/ \E i, j \in 1 .. Len(order) : i < j /\ order[i] = a /\ order[j] = b

\* ListRuns lists a run once and the runs in start order, whatever was started or
\* stopped while it asked them, and as long as the registry is open it finds
\* every run a client was told of before.
ListIsComplete ==
    \A c \in AllCalls : OK(c, "ListRuns") =>
        LET ids == answer[c].value.ids
            found == {ids[i] : i \in 1 .. Len(ids)}
        IN  /\ Cardinality(found) = Len(ids)
            /\ \A i, j \in 1 .. Len(ids) : i < j => ~StartedBefore(ids[j], ids[i])
            /\ \A p \in since[c] : OK(p, "StartRun") /\ ~closed => handle[p] \in found

\* The pending gauge is the backlog of the runs that can still catch up: what they
\* have appended and not folded, as it is now, and nothing of a run that is over.
PendingIsCurrent ==
    LET unfinished == {r \in RunIDs : run[r].state \in {"running", "paused"}}
    IN  /\ totalPending = MapThenSumSet(LAMBDA r : run[r].pending, unfinished)
        /\ \A r \in RunIDs \ unfinished : pendingByRun[r] = NoEntry

\* When realMain returns nil, every call it had accepted was answered, and none
\* with Unavailable: a client that saw the daemon go down cleanly knows what
\* became of its calls.
CleanExitAnswersAll ==
    result = "nil" =>
        \A c \in AllCalls : pc[c] = "idle" \/ (pc[c] = "answered" /\ answer[c].code # "Unavailable")

=============================================================================
