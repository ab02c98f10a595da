------------------------------- MODULE Burst -------------------------------
(***************************************************************************)
(* The load burst of cmd/signalgarden: runLoad, a client of the daemon's   *)
(* gRPC API, composed with module Service. It starts a run, samples it     *)
(* until a deadline or an interrupt, and finishes it.                      *)
(*                                                                         *)
(* The client's contexts end its calls early: what it then holds is an     *)
(* error, while the handler runs on in the daemon, which ignores the       *)
(* context. The deadline, the polls and the five seconds of the last call  *)
(* are timers: they may fire at any moment.                                *)
(***************************************************************************)
EXTENDS Service

CONSTANTS
    BurstID,        \* -run, or NoID when it was not given
    BurstControls,  \* the controls of the burst
    MaxPolls        \* bound: samples of one burst

ASSUME BurstAssumption ==
    BurstID \in RunIDs \cup {NoID} /\ BurstControls \in Mixes /\ MaxPolls \in Nat

VARIABLES
    client,       \* where runLoad stands
    interrupted,  \* ctx is done
    mine,         \* the run it was told it started
    polls,        \* samples asked for
    sample,       \* the tick of the newest sample
    timedOut,     \* FinishRun ran out of its five seconds
    outcome       \* what runLoad returned

burst == <<client, interrupted, mine, polls, sample, timedOut, outcome>>
burstVars == <<service, burst>>

-----------------------------------------------------------------------------
(* The client's side of a call.                                            *)

\* The connection is gone: a listener failed and the gRPC server was stopped, or
\* the process has ended.
Disconnected == daemon = "exited" \/ (result = "error" /\ ~accepting)

\* No answer will come to a call made under ctx.
Lost == interrupted \/ Disconnected

\* A call cannot be made.
Unreachable == ~accepting

Returns(err) == client' = "returned" /\ outcome' = err

\* StartRun, under the interruptible context.
Start ==
    /\ client = "idle"
    /\ \/ /\ ~interrupted
          /\ Issue("start", [NoRequest EXCEPT !.op = "StartRun", !.id = BurstID,
                                              !.controls = BurstControls])
          /\ client' = "starting" /\ UNCHANGED outcome
       \/ /\ interrupted \/ Unreachable
          /\ Returns("error") /\ UNCHANGED service
    /\ UNCHANGED <<interrupted, mine, polls, sample, timedOut>>

\* StartRun answers, or is given up.
Started ==
    /\ client = "starting"
    /\ \/ /\ pc["start"] = "answered" /\ answer["start"].code = "OK"
          /\ mine' = answer["start"].value.id
          /\ client' = "polling" /\ UNCHANGED outcome
       \/ /\ pc["start"] = "answered" /\ answer["start"].code # "OK"
          /\ Returns("error") /\ UNCHANGED mine
       \/ /\ Lost
          /\ Returns("error") /\ UNCHANGED mine
    /\ UNCHANGED <<service, interrupted, polls, sample, timedOut>>

\* The poll ticker: GetTelemetry, under the interruptible context.
Poll ==
    /\ client = "polling" /\ polls < MaxPolls
    /\ polls' = polls + 1
    /\ \/ /\ ~interrupted
          /\ Issue("poll", [NoRequest EXCEPT !.op = "Query", !.id = mine])
          /\ client' = "sampling"
       \/ /\ interrupted \/ Unreachable
          /\ client' = "finishing" /\ UNCHANGED service
    /\ UNCHANGED <<interrupted, mine, sample, timedOut, outcome>>

\* GetTelemetry answers, or is given up: an error ends the polling.
Polled ==
    /\ client = "sampling"
    /\ \/ /\ pc["poll"] = "answered" /\ answer["poll"].code = "OK"
          /\ sample' = answer["poll"].value.tick
          /\ client' = "polling"
          /\ pc' = [pc EXCEPT !["poll"] = "idle"]
          /\ reply' = [reply EXCEPT !["poll"] = NoReply]
          /\ answer' = [answer EXCEPT !["poll"] = NoAnswer]
          /\ UNCHANGED <<registry, engine, request, handle, list, since, server, faults>>
       \/ /\ \/ pc["poll"] = "answered" /\ answer["poll"].code # "OK"
             \/ Lost
          /\ client' = "finishing"
          /\ UNCHANGED <<service, sample>>
    /\ UNCHANGED <<interrupted, mine, polls, timedOut, outcome>>

\* Mutant: nothing ends the burst but an interrupt.
EndOfPollingNoDeadline ==
    /\ client = "polling" /\ interrupted
    /\ client' = "finishing"
    /\ UNCHANGED <<service, interrupted, mine, polls, sample, timedOut, outcome>>

\* The deadline, or ctx.Done in the select.
EndOfPolling ==
    /\ client = "polling"
    /\ client' = "finishing"
    /\ UNCHANGED <<service, interrupted, mine, polls, sample, timedOut, outcome>>

\* FinishRun, under a context of its own.
Finish ==
    /\ client = "finishing"
    /\ \/ /\ Issue("finish", [NoRequest EXCEPT !.op = "FinishRun", !.id = mine])
          /\ client' = "waiting" /\ UNCHANGED outcome
       \/ Unreachable /\ Returns("error") /\ UNCHANGED service
    /\ UNCHANGED <<interrupted, mine, polls, sample, timedOut>>

\* FinishRun answers, or its connection is gone.
Finished ==
    /\ client = "waiting"
    /\ \/ /\ pc["finish"] = "answered"
          /\ Returns(IF answer["finish"].code = "OK" THEN "nil" ELSE "error")
       \/ Disconnected /\ Returns("error")
    /\ UNCHANGED <<service, interrupted, mine, polls, sample, timedOut>>

\* Mutant: the run is finished under the context the interrupt cancels.
FinishGivenUpOnInterrupt ==
    /\ client = "waiting"
    /\ Returns("error")
    /\ timedOut' = ~interrupted
    /\ UNCHANGED <<service, interrupted, mine, polls, sample>>

\* The five seconds of FinishRun are over.
FinishGivenUp ==
    /\ client = "waiting"
    /\ Returns("error")
    /\ timedOut' = TRUE
    /\ UNCHANGED <<service, interrupted, mine, polls, sample>>

\* An interrupt, while runLoad runs.
Interrupt ==
    /\ client # "returned" /\ ~interrupted
    /\ interrupted' = TRUE
    /\ UNCHANGED <<service, client, mine, polls, sample, timedOut, outcome>>

-----------------------------------------------------------------------------
BurstInit ==
    /\ Init
    /\ client = "idle" /\ interrupted = FALSE /\ mine = NoID /\ polls = 0 /\ sample = 0
    /\ timedOut = FALSE /\ outcome = "none"

Client == Start \/ Started \/ Poll \/ Polled \/ EndOfPolling \/ Finish \/ Finished \/ FinishGivenUp

BurstNext == (Next /\ UNCHANGED burst) \/ Client \/ Interrupt

BurstSpec == BurstInit /\ [][BurstNext]_burstVars

\* What goes on by itself: each handler, each run's goroutine for a command or its
\* quit, the client, whose timers all fire in the end, and realMain once it has
\* begun to return. Nothing obliges a tick, a call, a signal, an interrupt or a
\* fault to happen.
Progress ==
    \/ /\ \/ \E c \in AllCalls : Handler(c)
          \/ \E r \in RunIDs, c \in AllCalls : Command(r, c)
          \/ \E r \in RunIDs : Quit(r)
          \/ daemon # "serving" /\ Daemon
       /\ UNCHANGED burst
    \/ Client

\* The scheduler leaves no goroutine waiting that can go on. The bounds leave every
\* goroutine finitely many steps, so fairness to them together is fairness to each.
FairBurst == BurstSpec /\ WF_burstVars(Progress)

-----------------------------------------------------------------------------
(* Properties.                                                             *)

\* The burst ends the run it started. A result it reports is the end: the run has
\* finished, the summary is the state it keeps, whatever other clients and late
\* ticks do, and no sample was ahead of it. And it leaves no run ticking behind it
\* (the comment on finishCtx in runLoad): if the run its StartRun made is unfinished
\* after runLoad returned, then FinishRun ran out of its five seconds, or the daemon
\* is going down, or the interrupt came before runLoad had learnt the run's name.
BurstEndsItsRun ==
    /\ outcome = "nil" =>
          /\ run[mine].state = "finished"
          /\ answer["finish"].value = Sent(View(mine))
          /\ sample <= run[mine].tick
    /\ client = "returned" /\ handle["start"] # NoID /\ run[handle["start"]].state # "finished" =>
          timedOut \/ daemon # "serving" \/ (interrupted /\ mine = NoID)

\* runLoad returns, with or without an answer from the daemon.
BurstReturns == client # "idle" ~> client = "returned"

\* Once realMain begins to shut down, the process ends: no handler, no run and no
\* half-started run holds it open.
ShutdownEnds == daemon = "draining" ~> daemon = "exited"

=============================================================================
