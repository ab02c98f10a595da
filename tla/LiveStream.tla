----------------------------- MODULE LiveStream -----------------------------
(***************************************************************************)
(* A live run and the projection streams attached to it: the goroutine of  *)
(* internal/engine that owns a run (loop, advance, publish, finish), the   *)
(* subscriptions it feeds through bounded channels, the handler goroutine  *)
(* of internal/projection behind each WebSocket (Handler, pump), and       *)
(* Registry.Close.                                                         *)
(*                                                                         *)
(* A handler runs on the run's goroutine, so two handlers never overlap,   *)
(* but the receivers on the channels run beside them: a tick that reaches  *)
(* the limit publishes twice, and a receiver may take a frame in between.  *)
(* The garden is left to DurableRun; a frame is the log offset it is       *)
(* folded up to, its sequence and whether the run had finished.            *)
(***************************************************************************)
EXTENDS Integers, Sequences

CONSTANTS
    Streams,    \* WebSocket connections, each used once
    Buffer,     \* frames a subscriber may fall behind
    Events,     \* records a tick appends
    Capacity,   \* records a tick folds; 0 is unbounded
    MaxTicks,   \* the run's tick limit; 0 is none
    TickBound,  \* bound: no tick starts at or after this one
    MaxPauses,  \* bound: pause and resume commands
    MaxFaults   \* bound: ticks that fail

ASSUME StreamAssumption ==
    /\ Buffer \in Nat \ {0}
    /\ Events \in Nat \ {0}
    /\ Capacity \in Nat
    /\ MaxTicks \in Nat

ASSUME StreamBoundsAssumption ==
    TickBound \in Nat /\ MaxPauses \in Nat /\ MaxFaults \in Nat

VARIABLES
    tail, folded,   \* the log's next offset, and the projection's
    tick, state,    \* the run's tick and lifecycle
    snapSeq,        \* sequence of the last published frame
    stage,          \* the run's goroutine: "ready", "finishing" or "done"
    quit,           \* Registry.Close has begun
    subs,           \* attached streams
    ch, open,       \* each stream's channel: its frames, and whether it is open
    reason,         \* why the channel closed; the zero value is "finished"
    pc,             \* the handler: "new", "calling", "answered", "streaming", "closing", "closed"
    from,           \* the offset the client resumes at, or Fresh
    upto,           \* where its catch-up frame ends
    last,           \* the last frame written to the client
    lost,           \* whether publish dropped a frame of this stream
    code,           \* the close code sent: "none", "finished" (1000), "shutdown" (1001)
    used            \* how much of the bounds was spent

run      == <<tail, folded, tick, state, snapSeq>>
channels == <<subs, ch, open, reason, lost>>
handlers == <<pc, from, upto, last, code>>
vars     == <<run, stage, quit, channels, handlers, used>>

\* A client that passed no offset.
Fresh == -1

\* No frame yet.
NoFrame == [seq |-> -1, folded |-> 0, final |-> FALSE]

-----------------------------------------------------------------------------
(* The run's goroutine.                                                    *)

\* Mutant: the frame is built before the sequence moves.
FrameAtOldSeq(f, st) == [seq |-> snapSeq, folded |-> f, final |-> st = "finished"]

\* snapshot, as publish takes it: the sequence has just moved.
Frame(f, st) == [seq |-> snapSeq + 1, folded |-> f, final |-> st = "finished"]

\* Mutant: publish waits until every attached stream has room.
PublishWaits(f, st) ==
    /\ \A s \in subs : Len(ch[s]) < Buffer
    /\ snapSeq' = (IF subs = {} THEN snapSeq ELSE snapSeq + 1)
    /\ ch' = [s \in Streams |-> IF s \in subs THEN Append(ch[s], Frame(f, st)) ELSE ch[s]]
    /\ UNCHANGED lost

\* Mutant: a subscriber that fell behind loses its oldest frame, not the new one.
PublishDropsOldest(f, st) ==
    /\ snapSeq' = (IF subs = {} THEN snapSeq ELSE snapSeq + 1)
    /\ ch' = [s \in Streams |->
                IF s \notin subs THEN ch[s]
                ELSE IF Len(ch[s]) < Buffer THEN Append(ch[s], Frame(f, st))
                ELSE Append(Tail(ch[s]), Frame(f, st))]
    /\ lost' = [s \in Streams |-> lost[s] \/ (s \in subs /\ Len(ch[s]) >= Buffer)]

\* publish: every attached stream with room gets the frame, the others lose it;
\* with nobody attached no frame is numbered.
Publish(f, st) ==
    /\ snapSeq' = (IF subs = {} THEN snapSeq ELSE snapSeq + 1)
    /\ ch' = [s \in Streams |->
                IF s \in subs /\ Len(ch[s]) < Buffer THEN Append(ch[s], Frame(f, st))
                ELSE ch[s]]
    /\ lost' = [s \in Streams |-> lost[s] \/ (s \in subs /\ Len(ch[s]) >= Buffer)]

\* closeSubs: every attached stream is detached, told why, and closed.
CloseSubs(why) ==
    /\ subs' = {}
    /\ open' = [s \in Streams |-> open[s] /\ s \notin subs]
    /\ reason' = [s \in Streams |-> IF s \in subs THEN why ELSE reason[s]]

ReadTo(next) ==
    IF Capacity = 0 \/ folded + Capacity >= next THEN next ELSE folded + Capacity

\* advance, when Step succeeds; a run at its limit goes on to finish.
Advance ==
    /\ stage = "ready" /\ state = "running" /\ tick < TickBound
    /\ tail' = tail + Events
    /\ folded' = ReadTo(tail + Events)
    /\ tick' = tick + 1
    /\ Publish(folded', state)
    /\ stage' = (IF MaxTicks > 0 /\ tick' >= MaxTicks THEN "finishing" ELSE "ready")
    /\ UNCHANGED <<state, quit, subs, open, reason, handlers, used>>

\* advance, when Step fails in its append, its read or its snapshot: no frame
\* for the tick, only the final one.
AdvanceFails ==
    /\ stage = "ready" /\ state = "running" /\ tick < TickBound
    /\ used.faults < MaxFaults
    /\ \/ \E k \in 0 .. Events :
             tail' = tail + k /\ UNCHANGED <<folded, tick>>
       \/ \E f \in folded .. ReadTo(tail + Events) :
             tail' = tail + Events /\ folded' = f /\ UNCHANGED tick
       \/ tail' = tail + Events /\ folded' = ReadTo(tail') /\ tick' = tick + 1
    /\ stage' = "finishing"
    /\ used' = [used EXCEPT !.faults = @ + 1]
    /\ UNCHANGED <<state, snapSeq, quit, channels, handlers>>

\* Mutant: the streams are closed before the final frame goes out.
FinishClosesFirst ==
    /\ stage = "finishing"
    /\ state' = "finished"
    /\ CloseSubs("finished")
    /\ stage' = "ready"
    /\ UNCHANGED <<tail, folded, tick, snapSeq, ch, lost, quit, handlers, used>>

\* finish: the final frame, then every stream is closed.
Finish ==
    /\ stage = "finishing"
    /\ state' = "finished"
    /\ Publish(folded, "finished")
    /\ CloseSubs("finished")
    /\ stage' = "ready"
    /\ UNCHANGED <<tail, folded, tick, quit, handlers, used>>

\* FinishRun; on a finished run it changes nothing.
FinishRun ==
    /\ stage = "ready" /\ state # "finished"
    /\ stage' = "finishing"
    /\ UNCHANGED <<run, quit, channels, handlers, used>>

\* PauseRun and ResumeRun.
SetPaused(paused) ==
    /\ stage = "ready" /\ state # "finished"
    /\ used.pauses < MaxPauses
    /\ state' = (IF paused THEN "paused" ELSE "running")
    /\ Publish(folded, state')
    /\ used' = [used EXCEPT !.pauses = @ + 1]
    /\ UNCHANGED <<tail, folded, tick, stage, quit, subs, open, reason, handlers>>

\* Registry.Close: from here on lookups are refused and quit is ready.
CloseRegistry ==
    /\ ~quit
    /\ quit' = TRUE
    /\ UNCHANGED <<run, stage, channels, handlers, used>>

\* Mutant: shutdown is reported as the end of the run.
QuitAsFinished ==
    /\ quit /\ stage = "ready"
    /\ CloseSubs("finished")
    /\ stage' = "done"
    /\ UNCHANGED <<run, quit, ch, lost, handlers, used>>

\* Mutant: the loop waits for its subscribers to leave.
QuitWhenAlone ==
    /\ quit /\ stage = "ready" /\ subs = {}
    /\ CloseSubs("shutdown")
    /\ stage' = "done"
    /\ UNCHANGED <<run, quit, ch, lost, handlers, used>>

\* loop's quit case: the streams are closed and the goroutine is gone.
Quit ==
    /\ quit /\ stage = "ready"
    /\ CloseSubs("shutdown")
    /\ stage' = "done"
    /\ UNCHANGED <<run, quit, ch, lost, handlers, used>>

-----------------------------------------------------------------------------
(* One stream's handler.                                                   *)

Goto(s, where) == pc' = [pc EXCEPT ![s] = where]

\* The offsets a client comes with: none, one the log has, or one it has not
\* written.
Offsets == {Fresh} \cup 0 .. tail + 1

\* Handler up to the command: lookup finds the run.
Dial(s) ==
    /\ pc[s] = "new" /\ ~quit
    /\ \E o \in Offsets : from' = [from EXCEPT ![s] = o]
    /\ Goto(s, "calling")
    /\ UNCHANGED <<run, stage, quit, channels, upto, last, code, used>>

\* Since: the catch-up is read up to the tail.
CatchupTo == tail

\* Mutant: a stream that comes to a finished run is attached like any other.
AttachAlways(s) ==
    /\ subs' = subs \cup {s}
    /\ open' = [open EXCEPT ![s] = TRUE]

\* A stream that comes to a finished run is closed at once, after its frame.
Attach(s) ==
    /\ subs' = (IF state = "finished" THEN subs ELSE subs \cup {s})
    /\ open' = [open EXCEPT ![s] = state # "finished"]

\* subscribe's command on the run's goroutine: the catch-up read, the current
\* frame and the attach in one pass.
Subscribe(s) ==
    /\ stage = "ready" /\ pc[s] = "calling"
    /\ from[s] <= tail
    /\ upto' = [upto EXCEPT ![s] = IF from[s] = Fresh THEN Fresh ELSE CatchupTo]
    /\ ch' = [ch EXCEPT ![s] =
                <<[seq |-> snapSeq, folded |-> folded, final |-> state = "finished"]>>]
    /\ Attach(s)
    /\ Goto(s, "answered")
    /\ UNCHANGED <<run, stage, quit, reason, lost, from, last, code, used>>

\* An offset outside the log is refused, and nothing is attached.
Refuse(s) ==
    /\ stage = "ready" /\ pc[s] = "calling"
    /\ from[s] > tail
    /\ Goto(s, "closed")
    /\ UNCHANGED <<run, stage, quit, channels, from, upto, last, code, used>>

\* do: the goroutine is gone.  A command that has run is answered either way,
\* since both channels are ready.
DoFails(s) ==
    /\ stage = "done" /\ pc[s] \in {"calling", "answered"}
    /\ Goto(s, "closed")
    /\ UNCHANGED <<run, stage, quit, channels, from, upto, last, code, used>>

\* Handler after the command: the upgrade and the catch-up frame.
Upgrade(s) ==
    /\ pc[s] = "answered"
    /\ Goto(s, "streaming")
    /\ UNCHANGED <<run, stage, quit, channels, from, upto, last, code, used>>

\* The connection fails: in the upgrade, in a write, or noticed by drain.
ConnectionFails(s) ==
    /\ pc[s] \in {"answered", "streaming"}
    /\ Goto(s, "closing")
    /\ UNCHANGED <<run, stage, quit, channels, from, upto, last, code, used>>

\* pump: a frame is taken from the channel and written.
Forward(s) ==
    /\ pc[s] = "streaming" /\ ch[s] # <<>>
    /\ last' = [last EXCEPT ![s] = Head(ch[s])]
    /\ ch' = [ch EXCEPT ![s] = Tail(@)]
    /\ UNCHANGED <<run, stage, quit, subs, open, reason, lost, pc, from, upto, code, used>>

\* pump: the channel is drained and closed, and closeFor picks the code.
EndStream(s) ==
    /\ pc[s] = "streaming" /\ ch[s] = <<>> /\ ~open[s]
    /\ code' = [code EXCEPT ![s] = reason[s]]
    /\ Goto(s, "closing")
    /\ UNCHANGED <<run, stage, quit, channels, from, upto, last, used>>

\* Subscription.Close: removeSub on the run's goroutine, or nothing once that
\* is gone.
Detach(s) ==
    /\ pc[s] = "closing" /\ stage \in {"ready", "done"}
    /\ IF stage = "ready"
       THEN /\ subs' = subs \ {s}
            /\ open' = [open EXCEPT ![s] = @ /\ s \notin subs]
       ELSE UNCHANGED <<subs, open>>
    /\ Goto(s, "closed")
    /\ UNCHANGED <<run, stage, quit, ch, reason, lost, from, upto, last, code, used>>

-----------------------------------------------------------------------------
Init ==
    /\ tail = 0 /\ folded = 0 /\ tick = 0 /\ state = "running" /\ snapSeq = 0
    /\ stage = "ready" /\ quit = FALSE
    /\ subs = {} /\ ch = [s \in Streams |-> <<>>] /\ open = [s \in Streams |-> FALSE]
    /\ reason = [s \in Streams |-> "finished"] /\ lost = [s \in Streams |-> FALSE]
    /\ pc = [s \in Streams |-> "new"] /\ from = [s \in Streams |-> Fresh]
    /\ upto = [s \in Streams |-> Fresh] /\ last = [s \in Streams |-> NoFrame]
    /\ code = [s \in Streams |-> "none"]
    /\ used = [pauses |-> 0, faults |-> 0]

Command == FinishRun \/ \E paused \in BOOLEAN : SetPaused(paused)

Handle(s) ==
    \/ Subscribe(s) \/ Refuse(s) \/ DoFails(s) \/ Upgrade(s) \/ Forward(s)
    \/ EndStream(s) \/ Detach(s)

Next ==
    \/ Advance \/ AdvanceFails \/ Finish \/ Command \/ CloseRegistry \/ Quit
    \/ \E s \in Streams : Dial(s) \/ ConnectionFails(s) \/ Handle(s)

Spec == Init /\ [][Next]_vars

\* The goroutine's select takes every ready case in the end, whatever else is
\* ready, and the runtime keeps running every handler that is not blocked; a
\* client's socket accepts its frames or fails within the write deadline.
FairSpec ==
    /\ Spec
    /\ WF_vars(Finish) /\ WF_vars(Quit)
    /\ \A s \in Streams :
          /\ WF_vars(Subscribe(s) \/ Refuse(s) \/ DoFails(s))
          /\ WF_vars(Upgrade(s) \/ Forward(s) \/ EndStream(s))
          /\ WF_vars(Detach(s))

-----------------------------------------------------------------------------
(* Properties.                                                             *)

FrameType == [seq : Int, folded : Nat, final : BOOLEAN]

\* The type of every variable.
TypeOK ==
    /\ tail \in Nat /\ folded \in Nat /\ tick \in Nat /\ snapSeq \in Nat
    /\ state \in {"running", "paused", "finished"}
    /\ stage \in {"ready", "finishing", "done"} /\ quit \in BOOLEAN
    /\ subs \subseteq Streams
    /\ ch \in [Streams -> Seq(FrameType)] /\ open \in [Streams -> BOOLEAN]
    /\ reason \in [Streams -> {"finished", "shutdown"}] /\ lost \in [Streams -> BOOLEAN]
    /\ pc \in [Streams -> {"new", "calling", "answered", "streaming", "closing", "closed"}]
    /\ from \in [Streams -> Int] /\ upto \in [Streams -> Int]
    /\ last \in [Streams -> FrameType]
    /\ code \in [Streams -> {"none", "finished", "shutdown"}]
    /\ used \in [pauses : Nat, faults : Nat]

\* No stream waits on a channel nobody will feed or close: an open channel is
\* attached to a run that is still going, and nothing is ever sent on a closed
\* one or closed twice (subscribe, closeSubs, removeSub).
NeverAbandoned ==
    /\ \A s \in Streams : open[s] <=> s \in subs
    /\ subs # {} => stage # "done" /\ state # "finished"

\* The close code tells the truth: 1000 only for a run that finished, 1001 only
\* for one a restarted daemon would bring back (closeSubs, closeFor).
HonestEnd ==
    \A s \in Streams :
        /\ code[s] = "finished" => state = "finished"
        /\ code[s] = "shutdown" => quit /\ state # "finished"

\* Frames reach a client in the order of their sequence, none twice, and the
\* garden they show never goes back (publish, Subscribe's first frame).
FramesOrdered ==
    \A s \in Streams :
        LET seen == <<last[s]>> \o ch[s] IN
        \A i \in 1 .. Len(seen) - 1 :
            seen[i].seq < seen[i + 1].seq /\ seen[i].folded <= seen[i + 1].folded

\* A resuming client that has been shown no frame yet: its catch-up ends at
\* upto, and the frame it gets next is the first of its channel.
AtHandover(s) ==
    pc[s] \in {"answered", "streaming"} /\ from[s] # Fresh /\ last[s] = NoFrame

\* What docs/contracts.md says of every catch-up: it ends at the garden of the
\* next frame, so that no record is missed and none is seen twice.  It is not so
\* for a run with a backlog.
CatchupMeetsFrame ==
    \A s \in Streams : AtHandover(s) => ch[s][1].folded = upto[s]

\* What is left of it for a run that folds all it appends: however late the
\* client reads and whatever was published or dropped since, its catch-up ends
\* exactly at its next frame, so it gets every record once (Resume, publish).
\* The final garden of a run whose last tick failed is excepted.
HandoverExact ==
    \A s \in Streams :
        AtHandover(s) /\ (used.faults = 0 \/ ~ch[s][1].final)
            => ch[s][1].folded = upto[s]

\* A client told the run finished has been shown the garden it ended on, unless
\* it fell behind and lost a frame (finish: publish, then close).
FinalUnlessLost ==
    \A s \in Streams : code[s] = "finished" /\ ~lost[s] => last[s].final

\* Registry.Close returns: no subscriber, finished or slow, holds a run up.
ShutdownCompletes == quit ~> stage = "done"

\* Every stream of a run that finished or was shut down comes to its end.
StreamsEnd ==
    \A s \in Streams :
        pc[s] = "streaming" /\ (state = "finished" \/ quit) ~> pc[s] = "closed"

-----------------------------------------------------------------------------
(* The inductive invariant behind HonestEnd.                               *)

\* Why a channel is closed is settled before a handler can see that it is: by
\* finish, by the quit case, or by subscribe itself (the zero value).
ReasonsSettled ==
    \A s \in Streams :
        /\ reason[s] = "shutdown" => quit /\ stage = "done" /\ state # "finished"
        /\ pc[s] \in {"answered", "streaming"} /\ ~open[s] /\ reason[s] = "finished"
             => state = "finished"
        /\ code[s] = "shutdown" => quit /\ stage = "done" /\ state # "finished"

\* What every step of the run and of the handlers keeps.
StreamInv == NeverAbandoned /\ ReasonsSettled /\ HonestEnd
=============================================================================
