------------------------------ MODULE Terminal ------------------------------
(***************************************************************************)
(* The live mode of cmd/signalgarden: runLive's select loop, the goroutine *)
(* that turns typed lines into engine calls, and the interrupt, on the run *)
(* and the subscription of module LiveStream. The terminal is its one      *)
(* stream. The model begins when StartRun has answered.                    *)
(*                                                                         *)
(* Main drains the frames and, on an interrupt, also asks the run to       *)
(* finish: while it waits for that, nobody drains. The reader keeps its    *)
(* own copy of the controls and sends it whole.                            *)
(***************************************************************************)
EXTENDS LiveStream

CONSTANTS
    Values,           \* numbers that are typed
    Start,            \* the controls of the command line
    MaxEventsPerTick, \* the largest rate Validate takes
    MaxTyped          \* bound: typed lines

Fields == {"rate", "rain", "growth", "pest"}
T == "terminal"

ASSUME TerminalAssumption ==
    /\ Streams = {T}
    /\ Values \subseteq Int
    /\ Start \in [Fields -> Int]
    /\ MaxEventsPerTick \in Nat /\ MaxTyped \in Nat

VARIABLES
    main,         \* runLive: where it stands
    interrupted,  \* ctx is done
    notified,     \* an interrupt goes to ctx; otherwise it kills the process
    armed,        \* the select still waits for ctx
    outcome,      \* what runLive returns
    summary,      \* what FinishRun answered
    reader,       \* readCommands: where it stands
    line,         \* the line it works on
    desired,      \* its copy of the controls
    accepted,     \* the controls the run accepted last
    rejected,     \* whether the call it waits for was refused
    typed         \* lines typed

mainVars   == <<main, interrupted, notified, armed, outcome, summary>>
readerVars == <<reader, line, desired, accepted, rejected, typed>>
terminal   == <<mainVars, readerVars>>

Alive == main \notin {"returned", "killed"}

\* The engine's own steps, while the process lives.
Engine == Alive /\ (Advance \/ AdvanceFails \/ Finish \/ Quit) /\ UNCHANGED terminal

-----------------------------------------------------------------------------
(* Main.                                                                   *)

\* Subscribe: lookup, then the command on the run's goroutine.
Dials ==
    /\ main = "started"
    /\ Dial(T) /\ from'[T] = Fresh
    /\ main' = "subscribing"
    /\ UNCHANGED <<interrupted, notified, armed, outcome, summary, readerVars>>

Subscribes ==
    /\ main = "subscribing" /\ Subscribe(T)
    /\ main' = "subscribed"
    /\ UNCHANGED <<interrupted, notified, armed, outcome, summary, readerVars>>

\* The banner, NotifyContext and the reader.
Opens ==
    /\ main = "subscribed" /\ Upgrade(T)
    /\ main' = "select" /\ notified' = TRUE /\ armed' = TRUE
    /\ reader' = "scan"
    /\ UNCHANGED <<interrupted, outcome, summary, line, desired, accepted, rejected, typed>>

\* runLive returns: the signal handler is restored, the deferred calls follow.
Leave(err) ==
    /\ main' = "leaving" /\ notified' = FALSE
    /\ outcome' = err

\* A frame, and its line; the write may fail.
TakesFrame ==
    /\ main = "select" /\ Forward(T)
    /\ \/ UNCHANGED <<main, notified, outcome>>
       \/ Leave("error")
    /\ UNCHANGED <<interrupted, armed, summary, readerVars>>

\* The interrupt: the select forgets ctx, a second one kills, the run is asked to
\* finish.
TakesInterrupt ==
    /\ main = "select" /\ armed /\ interrupted
    /\ armed' = FALSE /\ notified' = FALSE
    /\ main' = "finishing"
    /\ UNCHANGED <<vars, interrupted, outcome, summary, readerVars>>

\* Mutant: the summary is read off the last frame that arrived.
TakesEndOffLastFrame ==
    /\ main = "select" /\ ch[T] = <<>> /\ ~open[T]
    /\ summary' = [tick |-> tick, folded |-> last[T].folded, final |-> last[T].final]
    /\ Leave("nil")
    /\ UNCHANGED <<vars, interrupted, armed, readerVars>>

\* The frames end: FinishRun once more, for its summary.
TakesEnd ==
    /\ main = "select" /\ ch[T] = <<>> /\ ~open[T]
    /\ main' = "summing"
    /\ UNCHANGED <<vars, interrupted, notified, armed, outcome, summary, readerVars>>

\* The run's goroutine takes main's FinishRun: it finishes, or has finished.
FinishTaken ==
    /\ main \in {"finishing", "summing"} /\ stage = "ready"
    /\ \/ FinishRun
       \/ state = "finished" /\ UNCHANGED vars
    /\ main' = (IF main = "finishing" THEN "finishingRan" ELSE "summingRan")
    /\ UNCHANGED <<interrupted, notified, armed, outcome, summary, readerVars>>

\* FinishRun answers: after the interrupt the frames are drained; at the end of
\* the frames the summary is printed.
FinishAnswered ==
    /\ stage = "ready"
    /\ \/ /\ main = "finishingRan"
          /\ main' = "select" /\ UNCHANGED <<notified, outcome, summary>>
       \/ /\ main = "summingRan"
          /\ summary' = [tick |-> tick, folded |-> folded, final |-> state = "finished"]
          /\ \E err \in {"nil", "error"} : Leave(err)
    /\ UNCHANGED <<vars, interrupted, armed, readerVars>>

\* The deferred sub.Close.
Closes ==
    /\ main = "leaving" /\ pc[T] = "streaming"
    /\ pc' = [pc EXCEPT ![T] = "closing"]
    /\ UNCHANGED <<run, stage, quit, channels, from, upto, last, code, used, terminal>>

Detaches ==
    /\ main = "leaving" /\ Detach(T)
    /\ UNCHANGED terminal

\* The deferred reg.Close, which waits for the run's goroutine.
ClosesRegistry ==
    /\ main = "leaving" /\ pc[T] = "closed" /\ CloseRegistry
    /\ UNCHANGED terminal

Returns ==
    /\ main = "leaving" /\ quit /\ stage = "done"
    /\ main' = "returned"
    /\ UNCHANGED <<vars, interrupted, notified, armed, outcome, summary, readerVars>>

\* An interrupt: the first one ends ctx, one that nobody handles kills.
Interrupt ==
    /\ Alive
    /\ \/ notified /\ ~interrupted /\ interrupted' = TRUE /\ UNCHANGED main
       \/ ~notified /\ main' = "killed" /\ UNCHANGED interrupted
    /\ UNCHANGED <<vars, notified, armed, outcome, summary, readerVars>>

-----------------------------------------------------------------------------
(* The reader.                                                             *)

\* TotalWeight and Validate, of the four controls that can be typed.
TotalWeight(c) == c.rain + c.growth + c.pest

Validate(c) ==
    /\ c.rate \in 1 .. MaxEventsPerTick
    /\ c.rain >= 0 /\ c.growth >= 0 /\ c.pest >= 0
    /\ TotalWeight(c) # 0

\* Lines: the ones applyCommand refuses itself, the lifecycle and the controls.
Mistake == [verb |-> "mistake", value |-> 0]
Lines == {Mistake} \cup [verb : {"pause", "resume", "finish"}, value : {0}]
         \cup [verb : Fields, value : Values]

\* The controls a line asks for.
Wanted == IF line.verb \in Fields THEN [desired EXCEPT ![line.verb] = line.value] ELSE desired

\* A line is typed; a mistake, and a registry that is closed, end the command.
Types(l) ==
    /\ Alive /\ reader = "scan" /\ typed < MaxTyped
    /\ typed' = typed + 1
    /\ \/ /\ l = Mistake \/ quit
          /\ UNCHANGED <<reader, line>>
       \/ /\ l # Mistake /\ ~quit
          /\ reader' = "calling" /\ line' = l
    /\ UNCHANGED <<vars, mainVars, desired, accepted, rejected>>

\* The end of the input.
EndOfInput ==
    /\ Alive /\ reader = "scan"
    /\ reader' = "gone"
    /\ UNCHANGED <<vars, mainVars, line, desired, accepted, rejected, typed>>

\* The run's goroutine takes the reader's command.
CommandTaken ==
    /\ Alive /\ reader = "calling" /\ stage = "ready"
    /\ \/ /\ line.verb \in Fields
          /\ rejected' = (state = "finished" \/ ~Validate(Wanted))
          /\ accepted' = (IF rejected' THEN accepted ELSE Wanted)
          /\ UNCHANGED vars
       \/ /\ line.verb \in {"pause", "resume"} /\ state # "finished"
          /\ SetPaused(line.verb = "pause")
          /\ rejected' = FALSE /\ UNCHANGED accepted
       \/ /\ line.verb \in {"pause", "resume"} /\ state = "finished"
          /\ rejected' = TRUE /\ UNCHANGED <<vars, accepted>>
       \/ /\ line.verb = "finish"
          /\ FinishRun \/ (state = "finished" /\ UNCHANGED vars)
          /\ rejected' = FALSE /\ UNCHANGED accepted
    /\ reader' = "ran"
    /\ UNCHANGED <<mainVars, line, desired, typed>>

\* Mutant: the reader keeps what it asked for.
KeptWhatItAsked == Wanted

\* What applyCommand returns: a rejected command leaves the copy as it was.
Kept == IF rejected THEN desired ELSE Wanted

\* The call answers.
CommandAnswered ==
    /\ Alive /\ reader = "ran" /\ stage = "ready"
    /\ desired' = Kept
    /\ reader' = "scan" /\ line' = Mistake /\ rejected' = FALSE
    /\ UNCHANGED <<vars, mainVars, accepted, typed>>

\* do finds the goroutine gone, before or after the command ran.
CommandFails ==
    /\ Alive /\ reader \in {"calling", "ran"} /\ stage = "done"
    /\ reader' = "scan" /\ line' = Mistake /\ rejected' = FALSE
    /\ UNCHANGED <<vars, mainVars, desired, accepted, typed>>

-----------------------------------------------------------------------------
TerminalInit ==
    /\ Init
    /\ main = "started" /\ interrupted = FALSE /\ notified = FALSE /\ armed = FALSE
    /\ outcome = "none" /\ summary = NoFrame
    /\ reader = "off" /\ line = Mistake /\ desired = Start /\ accepted = Start
    /\ rejected = FALSE /\ typed = 0

Main ==
    \/ Dials \/ Subscribes \/ Opens
    \/ TakesFrame \/ TakesInterrupt \/ TakesEnd \/ FinishTaken \/ FinishAnswered
    \/ Closes \/ Detaches \/ ClosesRegistry \/ Returns

Reader == CommandTaken \/ CommandAnswered \/ CommandFails

TerminalNext ==
    \/ Engine \/ Main \/ Interrupt \/ Reader
    \/ (\E l \in Lines : Types(l)) \/ EndOfInput

TerminalSpec == TerminalInit /\ [][TerminalNext]_<<vars, terminal>>

\* Both goroutines and the run's go on when they can. Nothing obliges a tick, a
\* typed line or an interrupt; a write to the terminal returns.
FairTerminal ==
    /\ TerminalSpec
    /\ WF_<<vars, terminal>>(Main)
    /\ WF_<<vars, terminal>>(Reader)
    /\ WF_<<vars, terminal>>(Alive /\ (Finish \/ Quit) /\ UNCHANGED terminal)

-----------------------------------------------------------------------------
(* Properties.                                                             *)

\* Types of the terminal's variables.
TerminalTypeOK ==
    /\ main \in {"started", "subscribing", "subscribed", "select", "finishing", "finishingRan",
                 "summing", "summingRan", "leaving", "returned", "killed"}
    /\ interrupted \in BOOLEAN /\ notified \in BOOLEAN /\ armed \in BOOLEAN
    /\ outcome \in {"none", "nil", "error"}
    /\ reader \in {"off", "scan", "calling", "ran", "gone"} /\ line \in Lines
    /\ desired \in [Fields -> Int] /\ accepted \in [Fields -> Int] 
    /\ accepted.rate >= 1 /\ TotalWeight(accepted) > 0

\* A run that has finished, by an interrupt, a typed line, its limit or a failure,
\* lets the terminal go: main returns, even when the interrupt finds its channel
\* full and nobody draining it while it waits for FinishRun (publish never waits).
TerminalReturns == interrupted \/ state = "finished" ~> ~Alive

\* What is printed at the end is the end: when runLive returns without an error
\* the run has finished and the summary is what it finished with, whichever
\* frames were dropped on the way ("the run is already finished by the time we
\* return").
SummaryShowsTheEnd ==
    main = "returned" /\ outcome = "nil" =>
        /\ state = "finished"
        /\ summary = [tick |-> tick, folded |-> folded, final |-> TRUE]

\* The reader's copy is what the run will run under: between commands it is the
\* controls the run accepted last, so a later line builds on no change that was
\* refused and undoes none that was taken. Only shutdown can part them.
DesiredIsAccepted == reader = "scan" /\ ~quit => desired = accepted

=============================================================================
