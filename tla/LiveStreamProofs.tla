-------------------------- MODULE LiveStreamProofs --------------------------
(***************************************************************************)
(* Proofs about LiveStream, for any number of streams, any buffer, any     *)
(* number of ticks, faults and pauses.                                     *)
(***************************************************************************)
EXTENDS LiveStream, TLAPS

\* The states a handler is in.
Places == {"new", "calling", "answered", "streaming", "closing", "closed"}

\* The types of what the run's goroutine keeps, of the channels and of the
\* handlers.
RunTypes ==
    /\ tail \in Nat /\ folded \in Nat /\ tick \in Nat /\ snapSeq \in Nat
    /\ state \in {"running", "paused", "finished"}
    /\ stage \in {"ready", "finishing", "done"} /\ quit \in BOOLEAN
    /\ used \in [pauses : Nat, faults : Nat]

ChannelTypes ==
    /\ subs \subseteq Streams
    /\ ch \in [Streams -> Seq(FrameType)] /\ open \in [Streams -> BOOLEAN]
    /\ reason \in [Streams -> {"finished", "shutdown"}] /\ lost \in [Streams -> BOOLEAN]

HandlerTypes ==
    /\ pc \in [Streams -> Places]
    /\ from \in [Streams -> Int] /\ upto \in [Streams -> Int]
    /\ last \in [Streams -> FrameType]
    /\ code \in [Streams -> {"none", "finished", "shutdown"}]

\* TypeOK in three parts.
LEMMA TypeParts == TypeOK <=> RunTypes /\ ChannelTypes /\ HandlerTypes
BY DEF TypeOK, RunTypes, ChannelTypes, HandlerTypes, Places

\* And after a step.
LEMMA TypePartsNext ==
    ASSUME RunTypes', ChannelTypes', HandlerTypes'
    PROVE  TypeOK'
BY DEF TypeOK, RunTypes, ChannelTypes, HandlerTypes, Places

\* Where a read of at most Capacity records stops.
LEMMA ReadToType ==
    ASSUME RunTypes, NEW n \in Nat
    PROVE  ReadTo(n) \in Nat
BY StreamAssumption DEF RunTypes, ReadTo

\* publish keeps the types of channels and sequence.
LEMMA PublishType ==
    ASSUME RunTypes, ChannelTypes, NEW f \in Nat,
           NEW st \in {"running", "paused", "finished"}, Publish(f, st)
    PROVE  /\ snapSeq' \in Nat
           /\ ch' \in [Streams -> Seq(FrameType)]
           /\ lost' \in [Streams -> BOOLEAN]
<1>1. snapSeq' \in Nat
  BY DEF RunTypes, Publish
<1>2. Frame(f, st) \in FrameType
  BY DEF RunTypes, Frame, FrameType
<1>3. ASSUME NEW s \in Streams
      PROVE  ch[s] \in Seq(FrameType) /\ Append(ch[s], Frame(f, st)) \in Seq(FrameType)
  <2> HIDE DEF FrameType
  <2> QED
    BY <1>2 DEF ChannelTypes
<1>4. ch' \in [Streams -> Seq(FrameType)]
  BY <1>3 DEF Publish
<1>5. lost' \in [Streams -> BOOLEAN]
  BY Zenon DEF Publish
<1> QED
  BY <1>1, <1>4, <1>5

\* closeSubs keeps the types of the channels.
LEMMA CloseSubsType ==
    ASSUME ChannelTypes, NEW why \in {"finished", "shutdown"}, CloseSubs(why)
    PROVE  /\ subs' \subseteq Streams /\ open' \in [Streams -> BOOLEAN]
           /\ reason' \in [Streams -> {"finished", "shutdown"}]
<1>1. open' \in [Streams -> BOOLEAN]
  BY Zenon DEF CloseSubs
<1> QED
  BY <1>1 DEF ChannelTypes, CloseSubs

\* A handler moves on.
LEMMA GotoType ==
    ASSUME HandlerTypes, NEW s \in Streams, NEW where \in Places, Goto(s, where)
    PROVE  /\ pc' \in [Streams -> Places] /\ pc'[s] = where
           /\ \A t \in Streams : t # s => pc'[t] = pc[t]
BY DEF HandlerTypes, Goto

-----------------------------------------------------------------------------
(* The steps of the run's goroutine.                                       *)

\* Ticks, whether they fail or not.
LEMMA TickKeeps ==
    ASSUME TypeOK, StreamInv, Advance \/ AdvanceFails
    PROVE  TypeOK' /\ StreamInv'
<1>1. RunTypes /\ ChannelTypes /\ HandlerTypes
  BY TypeParts
<1>2. tail + Events \in Nat /\ ReadTo(tail + Events) \in Nat
  BY <1>1, ReadToType, StreamAssumption DEF RunTypes
<1>3. CASE Advance
  <2>1. /\ stage = "ready" /\ state = "running" /\ stage' \in {"ready", "finishing"}
        /\ tail' = tail + Events /\ folded' = ReadTo(tail + Events) /\ tick' = tick + 1
        /\ Publish(folded', state)
        /\ UNCHANGED <<state, quit, subs, open, reason, handlers, used>>
    BY <1>3 DEF Advance
  <2>2. /\ snapSeq' \in Nat /\ ch' \in [Streams -> Seq(FrameType)]
        /\ lost' \in [Streams -> BOOLEAN]
    BY <1>1, <1>2, <2>1, PublishType
  <2>3. RunTypes' /\ HandlerTypes'
    BY <1>1, <1>2, <2>1, <2>2 DEF RunTypes, HandlerTypes, handlers
  <2>4. ChannelTypes'
    BY <1>1, <2>1, <2>2 DEF ChannelTypes
  <2>5. StreamInv'
    BY <2>1 DEF StreamInv, NeverAbandoned, ReasonsSettled, HonestEnd, handlers
  <2> QED
    BY <2>3, <2>4, <2>5, TypePartsNext
<1>4. CASE AdvanceFails
  <2>1. /\ stage = "ready" /\ state = "running" /\ stage' = "finishing"
        /\ used' = [used EXCEPT !.faults = @ + 1]
        /\ UNCHANGED <<state, snapSeq, quit, channels, handlers>>
    BY <1>4 DEF AdvanceFails
  <2>2. tail' \in Nat /\ folded' \in Nat /\ tick' \in Nat
    <3>1. CASE \E k \in 0 .. Events : tail' = tail + k /\ UNCHANGED <<folded, tick>>
      BY <1>1, <3>1, StreamAssumption DEF RunTypes
    <3>2. CASE \E f \in folded .. ReadTo(tail + Events) :
                 tail' = tail + Events /\ folded' = f /\ UNCHANGED tick
      BY <1>1, <1>2, <3>2 DEF RunTypes
    <3>3. CASE tail' = tail + Events /\ folded' = ReadTo(tail') /\ tick' = tick + 1
      BY <1>1, <1>2, <3>3 DEF RunTypes
    <3> QED
      BY <1>4, <3>1, <3>2, <3>3 DEF AdvanceFails
  <2>3. used' \in [pauses : Nat, faults : Nat]
    BY <1>1, <2>1 DEF RunTypes
  <2>4. RunTypes' /\ ChannelTypes' /\ HandlerTypes'
    BY <1>1, <2>1, <2>2, <2>3 DEF RunTypes, ChannelTypes, HandlerTypes, channels, handlers
  <2>5. StreamInv'
    BY <2>1 DEF StreamInv, NeverAbandoned, ReasonsSettled, HonestEnd, channels, handlers
  <2> QED
    BY <2>4, <2>5, TypePartsNext
<1> QED
  BY <1>3, <1>4

\* finish: nobody is attached any more, and the reason is the truth.
LEMMA FinishKeeps ==
    ASSUME TypeOK, StreamInv, Finish
    PROVE  TypeOK' /\ StreamInv'
<1>1. RunTypes /\ ChannelTypes /\ HandlerTypes
  BY TypeParts
<1>2. /\ stage = "finishing" /\ stage' = "ready" /\ state' = "finished"
      /\ Publish(folded, "finished") /\ CloseSubs("finished")
      /\ UNCHANGED <<tail, folded, tick, quit, handlers, used>>
  BY DEF Finish
<1>3. /\ snapSeq' \in Nat /\ ch' \in [Streams -> Seq(FrameType)]
      /\ lost' \in [Streams -> BOOLEAN]
  BY <1>1, <1>2, PublishType DEF RunTypes
<1>4. /\ subs' \subseteq Streams /\ open' \in [Streams -> BOOLEAN]
      /\ reason' \in [Streams -> {"finished", "shutdown"}]
  BY <1>1, <1>2, CloseSubsType
<1>5. RunTypes' /\ ChannelTypes' /\ HandlerTypes'
  BY <1>1, <1>2, <1>3, <1>4 DEF RunTypes, ChannelTypes, HandlerTypes, handlers
<1>6. NeverAbandoned'
  BY <1>2 DEF StreamInv, NeverAbandoned, CloseSubs
<1>7. ReasonsSettled'
  <2>1. \A s \in Streams : reason'[s] = "finished" \/ reason'[s] = reason[s]
    BY <1>2 DEF CloseSubs
  <2> QED
    BY <1>2, <2>1 DEF StreamInv, ReasonsSettled, handlers
<1>8. HonestEnd'
  BY <1>2 DEF StreamInv, ReasonsSettled, HonestEnd, handlers
<1> QED
  BY <1>5, <1>6, <1>7, <1>8, TypePartsNext DEF StreamInv

\* The quit case: nobody is attached any more, and the run had not finished if
\* anybody was.
LEMMA QuitKeeps ==
    ASSUME TypeOK, StreamInv, Quit
    PROVE  TypeOK' /\ StreamInv'
<1>1. RunTypes /\ ChannelTypes /\ HandlerTypes
  BY TypeParts
<1>2. /\ quit /\ stage = "ready" /\ stage' = "done" /\ CloseSubs("shutdown")
      /\ UNCHANGED <<run, quit, ch, lost, handlers, used>>
  BY DEF Quit
<1>3. /\ subs' \subseteq Streams /\ open' \in [Streams -> BOOLEAN]
      /\ reason' \in [Streams -> {"finished", "shutdown"}]
  BY <1>1, <1>2, CloseSubsType
<1>4. RunTypes' /\ ChannelTypes' /\ HandlerTypes'
  BY <1>1, <1>2, <1>3 DEF RunTypes, ChannelTypes, HandlerTypes, handlers, run
<1>5. NeverAbandoned'
  BY <1>2 DEF StreamInv, NeverAbandoned, CloseSubs
<1>6. ASSUME NEW s \in Streams
      PROVE  /\ reason'[s] = "shutdown" => state # "finished"
             /\ pc[s] \in {"answered", "streaming"} /\ ~open'[s] /\ reason'[s] = "finished"
                  => state = "finished"
  <2>1. CASE s \in subs
    BY <1>2, <2>1 DEF CloseSubs, StreamInv, NeverAbandoned
  <2>2. CASE s \notin subs
    <3>1. reason'[s] = reason[s] /\ ~open[s]
      BY <1>2, <2>2 DEF CloseSubs, StreamInv, NeverAbandoned
    <3> QED
      BY <3>1 DEF StreamInv, ReasonsSettled
  <2> QED
    BY <2>1, <2>2
<1>7. ReasonsSettled'
  BY <1>2, <1>6 DEF StreamInv, ReasonsSettled, handlers, run
<1>8. HonestEnd'
  BY <1>2 DEF StreamInv, HonestEnd, handlers, run
<1> QED
  BY <1>4, <1>5, <1>7, <1>8, TypePartsNext DEF StreamInv

\* PauseRun, ResumeRun, FinishRun and Registry.Close.
LEMMA CommandKeeps ==
    ASSUME TypeOK, StreamInv, Command \/ CloseRegistry
    PROVE  TypeOK' /\ StreamInv'
<1>1. RunTypes /\ ChannelTypes /\ HandlerTypes
  BY TypeParts
<1>2. CASE \E paused \in BOOLEAN : SetPaused(paused)
  <2>1. /\ stage = "ready" /\ state # "finished" /\ state' \in {"running", "paused"}
        /\ Publish(folded, state')
        /\ used' = [used EXCEPT !.pauses = @ + 1]
        /\ UNCHANGED <<tail, folded, tick, stage, quit, subs, open, reason, handlers>>
    BY <1>2 DEF SetPaused
  <2>2. /\ snapSeq' \in Nat /\ ch' \in [Streams -> Seq(FrameType)]
        /\ lost' \in [Streams -> BOOLEAN]
    <3>1. state' \in {"running", "paused", "finished"} /\ folded \in Nat
      BY <1>1, <2>1 DEF RunTypes
    <3> QED
      BY <1>1, <2>1, <3>1, PublishType
  <2>3. used' \in [pauses : Nat, faults : Nat]
    BY <1>1, <2>1 DEF RunTypes
  <2>4. RunTypes' /\ ChannelTypes' /\ HandlerTypes'
    BY <1>1, <2>1, <2>2, <2>3 DEF RunTypes, ChannelTypes, HandlerTypes, handlers
  <2>5. StreamInv'
    BY <2>1 DEF StreamInv, NeverAbandoned, ReasonsSettled, HonestEnd, handlers
  <2> QED
    BY <2>4, <2>5, TypePartsNext
<1>3. CASE FinishRun \/ CloseRegistry
  <2>1. /\ stage' = stage \/ (stage = "ready" /\ stage' = "finishing")
        /\ quit' = quit \/ quit' = TRUE
        /\ quit => quit'
        /\ UNCHANGED <<run, channels, handlers, used>>
    <3>1. CASE FinishRun
      BY <3>1, Zenon DEF FinishRun
    <3>2. CASE CloseRegistry
      BY <3>2, Zenon DEF CloseRegistry
    <3> QED
      BY <1>3, <3>1, <3>2, Zenon
  <2>2. quit' \in BOOLEAN
    BY <1>1, <2>1 DEF RunTypes
  <2>3. RunTypes' /\ ChannelTypes' /\ HandlerTypes'
    BY <1>1, <2>1, <2>2
    DEF RunTypes, ChannelTypes, HandlerTypes, run, channels, handlers
  <2>4. StreamInv'
    BY <2>1 DEF StreamInv, NeverAbandoned, ReasonsSettled, HonestEnd, run, channels, handlers
  <2> QED
    BY <2>3, <2>4, TypePartsNext
<1> QED
  BY <1>2, <1>3 DEF Command

-----------------------------------------------------------------------------
(* The steps of a handler.                                                 *)

\* Steps that only move the handler, record an offset or a code, or take a
\* frame; a handler that gets to its channel finds the reason settled.
LEMMA HandlerOnlyKeeps ==
    ASSUME TypeOK, StreamInv, NEW s \in Streams,
           \/ Dial(s) \/ Refuse(s) \/ DoFails(s) \/ Upgrade(s) \/ ConnectionFails(s)
           \/ Forward(s) \/ EndStream(s)
    PROVE  TypeOK' /\ StreamInv'
<1>1. RunTypes /\ ChannelTypes /\ HandlerTypes
  BY TypeParts
<1>2. UNCHANGED <<run, stage, quit, subs, open, reason, lost, upto, used>>
  BY DEF Dial, Refuse, DoFails, Upgrade, ConnectionFails, Forward, EndStream, channels
<1>3. /\ pc' \in [Streams -> Places]
      /\ \A t \in Streams : pc'[t] \in {"answered", "streaming"}
                              => pc[t] \in {"answered", "streaming"}
  <2>1. CASE Forward(s)
    BY <1>1, <2>1 DEF Forward, HandlerTypes
  <2>2. CASE Dial(s) \/ Refuse(s) \/ DoFails(s) \/ Upgrade(s) \/ ConnectionFails(s)
             \/ EndStream(s)
    <3>1. \E where \in Places :
            /\ Goto(s, where)
            /\ where \in {"answered", "streaming"} => pc[s] \in {"answered", "streaming"}
      BY <2>2 DEF Dial, Refuse, DoFails, Upgrade, ConnectionFails, EndStream, Places
    <3> QED
      BY <1>1, <3>1, GotoType
  <2> QED
    BY <2>1, <2>2
<1>4. from' \in [Streams -> Int]
  <2>1. CASE Dial(s)
    <3>1. PICK o \in Offsets : from' = [from EXCEPT ![s] = o]
      BY <2>1 DEF Dial
    <3>2. o \in Int
      BY <1>1 DEF RunTypes, Offsets, Fresh
    <3> QED
      BY <1>1, <3>1, <3>2 DEF HandlerTypes
  <2>2. CASE ~Dial(s)
    BY <1>1, <2>2
    DEF Refuse, DoFails, Upgrade, ConnectionFails, Forward, EndStream, HandlerTypes
  <2> QED
    BY <2>1, <2>2
<1>5. last' \in [Streams -> FrameType] /\ ch' \in [Streams -> Seq(FrameType)]
  <2>1. CASE Forward(s)
    <3>1. /\ ch[s] # <<>> /\ last' = [last EXCEPT ![s] = Head(ch[s])]
          /\ ch' = [ch EXCEPT ![s] = Tail(ch[s])]
      BY <2>1 DEF Forward
    <3>2. ch[s] \in Seq(FrameType) /\ last \in [Streams -> FrameType]
          /\ ch \in [Streams -> Seq(FrameType)]
      BY <1>1 DEF ChannelTypes, HandlerTypes
    <3> HIDE DEF FrameType
    <3>3. Head(ch[s]) \in FrameType /\ Tail(ch[s]) \in Seq(FrameType)
      BY <3>1, <3>2
    <3> QED
      BY <3>1, <3>2, <3>3
  <2>2. CASE ~Forward(s)
    BY <1>1, <2>2
    DEF Dial, Refuse, DoFails, Upgrade, ConnectionFails, EndStream, channels,
        ChannelTypes, HandlerTypes
  <2> QED
    BY <2>1, <2>2
<1>6. /\ code' \in [Streams -> {"none", "finished", "shutdown"}]
      /\ \A t \in Streams : code'[t] # code[t] =>
            /\ code'[t] = reason[t] /\ ~open[t] /\ pc[t] = "streaming"
  <2>1. CASE EndStream(s)
    <3>1. /\ pc[s] = "streaming" /\ ~open[s]
          /\ code' = [code EXCEPT ![s] = reason[s]]
      BY <2>1 DEF EndStream
    <3>2. reason[s] \in {"finished", "shutdown"}
      BY <1>1 DEF ChannelTypes
    <3> QED
      BY <1>1, <3>1, <3>2 DEF HandlerTypes
  <2>2. CASE ~EndStream(s)
    BY <1>1, <2>2
    DEF Dial, Refuse, DoFails, Upgrade, ConnectionFails, Forward, HandlerTypes
  <2> QED
    BY <2>1, <2>2
<1>7. RunTypes' /\ ChannelTypes' /\ HandlerTypes'
  BY <1>1, <1>2, <1>3, <1>4, <1>5, <1>6 DEF RunTypes, ChannelTypes, HandlerTypes, run
<1>8. NeverAbandoned'
  BY <1>2 DEF StreamInv, NeverAbandoned, run
<1>9. ReasonsSettled'
  BY <1>2, <1>3, <1>6 DEF StreamInv, ReasonsSettled, run
<1>10. HonestEnd'
  BY <1>2, <1>6 DEF StreamInv, ReasonsSettled, HonestEnd, run
<1> QED
  BY <1>7, <1>8, <1>9, <1>10, TypePartsNext DEF StreamInv

\* subscribe's command: attached if the run goes on, closed at once if not.
LEMMA SubscribeKeeps ==
    ASSUME TypeOK, StreamInv, NEW s \in Streams, Subscribe(s)
    PROVE  TypeOK' /\ StreamInv'
<1>1. RunTypes /\ ChannelTypes /\ HandlerTypes
  BY TypeParts
<1> DEFINE first == [seq |-> snapSeq, folded |-> folded, final |-> state = "finished"]
<1>2. /\ stage = "ready" /\ pc[s] = "calling"
      /\ upto' = [upto EXCEPT ![s] = IF from[s] = Fresh THEN Fresh ELSE CatchupTo]
      /\ ch' = [ch EXCEPT ![s] = <<first>>]
      /\ subs' = (IF state = "finished" THEN subs ELSE subs \cup {s})
      /\ open' = [open EXCEPT ![s] = state # "finished"]
      /\ Goto(s, "answered")
      /\ UNCHANGED <<run, stage, quit, reason, lost, from, last, code, used>>
  BY DEF Subscribe, Attach
<1>3. ch' \in [Streams -> Seq(FrameType)]
  <2>1. first \in FrameType
    BY <1>1 DEF RunTypes, FrameType
  <2> HIDE DEF first, FrameType
  <2>2. <<first>> \in Seq(FrameType)
    BY <2>1
  <2> QED
    BY <1>1, <1>2, <2>2 DEF ChannelTypes
<1> HIDE DEF first
<1>4. open' \in [Streams -> BOOLEAN] /\ subs' \subseteq Streams
  <2>1. open' \in [Streams -> BOOLEAN]
    BY <1>1, <1>2 DEF ChannelTypes
  <2> QED
    BY <1>1, <1>2, <2>1 DEF ChannelTypes
<1>5. upto' \in [Streams -> Int]
  BY <1>1, <1>2 DEF HandlerTypes, RunTypes, Fresh, CatchupTo
<1>6. /\ pc' \in [Streams -> Places] /\ pc'[s] = "answered"
      /\ \A t \in Streams : t # s => pc'[t] = pc[t]
  BY <1>1, <1>2, GotoType DEF Places
<1>7. RunTypes' /\ ChannelTypes' /\ HandlerTypes'
  BY <1>1, <1>2, <1>3, <1>4, <1>5, <1>6 DEF RunTypes, ChannelTypes, HandlerTypes, run
<1>8. /\ open'[s] <=> state # "finished"
      /\ \A t \in Streams : t # s => open'[t] = open[t]
  BY <1>1, <1>2 DEF ChannelTypes
<1>9. s \notin subs \/ state # "finished"
  BY DEF StreamInv, NeverAbandoned
<1>10. NeverAbandoned'
  BY <1>2, <1>8, <1>9 DEF StreamInv, NeverAbandoned, run
<1>11. ReasonsSettled'
  BY <1>2, <1>6, <1>8 DEF StreamInv, ReasonsSettled, run
<1>12. HonestEnd'
  BY <1>2 DEF StreamInv, HonestEnd, run
<1> QED
  BY <1>7, <1>10, <1>11, <1>12, TypePartsNext DEF StreamInv

\* Subscription.Close.
LEMMA DetachKeeps ==
    ASSUME TypeOK, StreamInv, NEW s \in Streams, Detach(s)
    PROVE  TypeOK' /\ StreamInv'
<1>1. RunTypes /\ ChannelTypes /\ HandlerTypes
  BY TypeParts
<1>2. /\ pc[s] = "closing" /\ Goto(s, "closed")
      /\ \/ /\ subs' = subs \ {s} /\ open' = [open EXCEPT ![s] = @ /\ s \notin subs]
         \/ UNCHANGED <<subs, open>>
      /\ UNCHANGED <<run, stage, quit, ch, reason, lost, from, upto, last, code, used>>
  BY DEF Detach
<1>3. /\ pc' \in [Streams -> Places] /\ pc'[s] = "closed"
      /\ \A t \in Streams : t # s => pc'[t] = pc[t]
  BY <1>1, <1>2, GotoType DEF Places
<1>4. open' \in [Streams -> BOOLEAN] /\ subs' \subseteq Streams
  BY <1>1, <1>2 DEF ChannelTypes
<1>5. RunTypes' /\ ChannelTypes' /\ HandlerTypes'
  BY <1>1, <1>2, <1>3, <1>4 DEF RunTypes, ChannelTypes, HandlerTypes, run
<1>6. /\ \A t \in Streams : t # s => (open'[t] = open[t]) /\ (t \in subs' <=> t \in subs)
      /\ open'[s] <=> s \in subs'
      /\ subs' \subseteq subs
  <2>1. open[s] <=> s \in subs
    BY DEF StreamInv, NeverAbandoned
  <2> QED
    BY <1>1, <1>2, <2>1 DEF ChannelTypes
<1>7. NeverAbandoned'
  BY <1>2, <1>6 DEF StreamInv, NeverAbandoned, run
<1>8. ReasonsSettled'
  BY <1>2, <1>3, <1>6 DEF StreamInv, ReasonsSettled, run
<1>9. HonestEnd'
  BY <1>2 DEF StreamInv, HonestEnd, run
<1> QED
  BY <1>5, <1>7, <1>8, <1>9, TypePartsNext DEF StreamInv

-----------------------------------------------------------------------------
\* The initial state.
LEMMA InitStream == Init => TypeOK /\ StreamInv
<1> SUFFICES ASSUME Init PROVE TypeOK /\ StreamInv
  OBVIOUS
<1>1. NoFrame \in FrameType
  BY DEF NoFrame, FrameType
<1>2. last \in [Streams -> FrameType]
  BY <1>1 DEF Init
<1>3. ch \in [Streams -> Seq(FrameType)]
  <2> HIDE DEF FrameType
  <2> QED
    BY DEF Init
<1>4. RunTypes
  BY DEF Init, RunTypes
<1>5. ChannelTypes
  <2>1. open \in [Streams -> BOOLEAN] /\ lost \in [Streams -> BOOLEAN]
    BY Zenon DEF Init
  <2>2. subs \subseteq Streams /\ reason \in [Streams -> {"finished", "shutdown"}]
    BY DEF Init
  <2> QED
    BY <1>3, <2>1, <2>2 DEF ChannelTypes
<1>6. HandlerTypes
  BY <1>2 DEF Init, HandlerTypes, Fresh, Places
<1>7. TypeOK
  BY <1>4, <1>5, <1>6, TypeParts
<1>8. StreamInv
  BY DEF Init, StreamInv, NeverAbandoned, ReasonsSettled, HonestEnd
<1> QED
  BY <1>7, <1>8

\* Every step.
LEMMA NextStream == TypeOK /\ StreamInv /\ [Next]_vars => TypeOK' /\ StreamInv'
<1> SUFFICES ASSUME TypeOK, StreamInv, [Next]_vars PROVE TypeOK' /\ StreamInv'
  OBVIOUS
<1>1. CASE UNCHANGED vars
  <2>1. RunTypes /\ ChannelTypes /\ HandlerTypes
    BY TypeParts
  <2>2. RunTypes' /\ ChannelTypes' /\ HandlerTypes'
    BY <1>1, <2>1
    DEF vars, run, channels, handlers, RunTypes, ChannelTypes, HandlerTypes
  <2>3. StreamInv'
    BY <1>1
    DEF vars, run, channels, handlers, StreamInv, NeverAbandoned, ReasonsSettled, HonestEnd
  <2> QED
    BY <2>2, <2>3, TypePartsNext
<1>2. CASE Next
  BY <1>2, TickKeeps, FinishKeeps, QuitKeeps, CommandKeeps, HandlerOnlyKeeps,
     SubscribeKeeps, DetachKeeps
  DEF Next, Handle
<1> QED
  BY <1>1, <1>2

\* TypeOK and StreamInv together are inductive.
LEMMA StreamInduction == Spec => [](TypeOK /\ StreamInv)
BY InitStream, NextStream, PTL DEF Spec

\* Every variable keeps its type, for any number of streams, any buffer and any
\* rate (every handler of the run and of the streams).
THEOREM StreamTypes == Spec => []TypeOK
BY StreamInduction, PTL

\* No stream ever waits on a channel nobody will feed or close, and no channel
\* is closed twice or sent on after it is closed, however many streams come and
\* go around a run's end and a shutdown (subscribe, closeSubs, removeSub).
THEOREM StreamsAreNeverAbandoned == Spec => []NeverAbandoned
<1>1. StreamInv => NeverAbandoned
  BY DEF StreamInv
<1> QED
  BY <1>1, StreamInduction, PTL

\* The close code is honest: 1000 only for a finished run, 1001 only for one
\* that the daemon's shutdown interrupted (finish, loop's quit case, closeFor).
THEOREM CloseCodesAreHonest == Spec => []HonestEnd
<1>1. StreamInv => HonestEnd
  BY DEF StreamInv
<1> QED
  BY <1>1, StreamInduction, PTL

-----------------------------------------------------------------------------
(* What the frames show.                                                   *)

\* A queue behind the last frame written: in order, and none ahead of the
\* run's sequence n and projection f.
QueueOK(q, l, n, f) ==
    /\ l.seq <= n /\ l.folded <= f
    /\ \A i \in 1 .. Len(q) :
          /\ l.seq < q[i].seq /\ l.folded <= q[i].folded
          /\ q[i].seq <= n /\ q[i].folded <= f
    /\ \A i, j \in 1 .. Len(q) : i < j =>
          q[i].seq < q[j].seq /\ q[i].folded <= q[j].folded

\* The newest frame of a stream is the run's final one.
EndsFinal(q, l) == IF q = <<>> THEN l.final ELSE q[Len(q)].final

\* What holds of one stream: its frames are in order; nothing was written to a
\* client before its subscription; a channel finish closed ends with the final
\* frame unless one was lost; and a close code is the last thing a client is
\* sent.
StreamFrames(s) ==
    /\ QueueOK(ch[s], last[s], snapSeq, folded) /\ last[s].seq >= NoFrame.seq
    /\ pc[s] \in {"new", "calling"} => last[s] = NoFrame
    /\ pc[s] \in {"answered", "streaming"} /\ ~open[s] /\ reason[s] = "finished"
         /\ ~lost[s] => EndsFinal(ch[s], last[s])
    /\ code[s] # "none" => pc[s] \in {"closing", "closed"}
    /\ code[s] = "finished" /\ ~lost[s] => last[s].final

\* Every stream's frames, and a projection within the log.
FrameInv == folded <= tail /\ \A s \in Streams : StreamFrames(s)

\* The fields of a queue's frames.
LEMMA FrameFields ==
    ASSUME NEW q \in Seq(FrameType), NEW i \in 1 .. Len(q)
    PROVE  q[i] \in FrameType /\ q[i].seq \in Int /\ q[i].folded \in Nat
<1>1. q[i] \in FrameType
  <2> HIDE DEF FrameType
  <2> QED
    OBVIOUS
<1> QED
  BY <1>1 DEF FrameType

\* Appending a frame.
LEMMA QueueAppended ==
    ASSUME NEW q \in Seq(FrameType), NEW x \in FrameType
    PROVE  /\ Append(q, x) \in Seq(FrameType)
           /\ Len(Append(q, x)) = Len(q) + 1 /\ Len(q) \in Nat
           /\ \A i \in 1 .. Len(q) : Append(q, x)[i] = q[i]
           /\ Append(q, x)[Len(q) + 1] = x
           /\ Append(q, x) # <<>>
<1> HIDE DEF FrameType
<1> QED
  OBVIOUS

\* A queue without a length is the empty one.
LEMMA QueueEmpty ==
    ASSUME NEW q \in Seq(FrameType)
    PROVE  q = <<>> <=> Len(q) = 0
<1> HIDE DEF FrameType
<1> QED
  OBVIOUS

\* Taking a frame.
LEMMA QueueTaken ==
    ASSUME NEW q \in Seq(FrameType), q # <<>>
    PROVE  /\ Tail(q) \in Seq(FrameType) /\ Head(q) \in FrameType
           /\ Len(q) \in Nat /\ Len(q) >= 1 /\ Head(q) = q[1]
           /\ Len(Tail(q)) = Len(q) - 1
           /\ \A i \in 1 .. Len(q) - 1 : Tail(q)[i] = q[i + 1]
           /\ Tail(q) = <<>> <=> Len(q) = 1
<1> HIDE DEF FrameType
<1>1. /\ Tail(q) \in Seq(FrameType) /\ Head(q) \in FrameType
      /\ Len(q) \in Nat /\ Len(q) >= 1 /\ Head(q) = q[1]
      /\ Len(Tail(q)) = Len(q) - 1
      /\ \A i \in 1 .. Len(q) - 1 : Tail(q)[i] = q[i + 1]
  OBVIOUS
<1>2. Tail(q) = <<>> <=> Len(Tail(q)) = 0
  BY <1>1, QueueEmpty
<1>3. Len(Tail(q)) = 0 <=> Len(q) = 1
  BY <1>1
<1> QED
  BY <1>1, <1>2, <1>3, Zenon

\* A run that moves on leaves a queue in order.
LEMMA QueueAges ==
    ASSUME NEW q \in Seq(FrameType), NEW l \in FrameType,
           NEW n \in Nat, NEW f \in Nat, NEW m \in Nat, NEW g \in Nat,
           QueueOK(q, l, n, f), n <= m, f <= g
    PROVE  QueueOK(q, l, m, g)
<1>1. l.seq \in Int /\ l.folded \in Nat
  BY DEF FrameType
<1>2. \A i \in 1 .. Len(q) : q[i].seq \in Int /\ q[i].folded \in Nat
  BY FrameFields
<1> QED
  BY <1>1, <1>2 DEF QueueOK

\* A published frame goes to the end.
LEMMA QueueGains ==
    ASSUME NEW q \in Seq(FrameType), NEW l \in FrameType,
           NEW n \in Nat, NEW f \in Nat, NEW g \in Nat, f <= g,
           QueueOK(q, l, n, f), NEW x \in FrameType, x.seq = n + 1, x.folded = g
    PROVE  QueueOK(Append(q, x), l, n + 1, g)
<1> DEFINE r == Append(q, x)
<1>1. l.seq \in Int /\ l.folded \in Nat
  BY DEF FrameType
<1>2. \A i \in 1 .. Len(q) : q[i].seq \in Int /\ q[i].folded \in Nat
  BY FrameFields
<1>3. /\ Len(r) = Len(q) + 1 /\ Len(q) \in Nat
      /\ \A i \in 1 .. Len(q) : r[i] = q[i]
      /\ r[Len(q) + 1] = x
  BY QueueAppended
<1> HIDE DEF r
<1>4. l.seq <= n + 1 /\ l.folded <= g /\ l.seq < n + 1
  BY <1>1 DEF QueueOK
<1>5. ASSUME NEW i \in 1 .. Len(r)
      PROVE  /\ l.seq < r[i].seq /\ l.folded <= r[i].folded
             /\ r[i].seq <= n + 1 /\ r[i].folded <= g
  <2>1. CASE i \in 1 .. Len(q)
    BY <1>2, <1>3, <2>1 DEF QueueOK
  <2>2. CASE i = Len(q) + 1
    BY <1>3, <1>4, <2>2
  <2> QED
    BY <1>3, <2>1, <2>2
<1>6. ASSUME NEW i \in 1 .. Len(r), NEW j \in 1 .. Len(r), i < j
      PROVE  r[i].seq < r[j].seq /\ r[i].folded <= r[j].folded
  <2>1. i \in 1 .. Len(q) /\ r[i] = q[i]
    BY <1>3, <1>6
  <2>2. CASE j \in 1 .. Len(q)
    BY <1>3, <1>6, <2>1, <2>2 DEF QueueOK
  <2>3. CASE j = Len(q) + 1
    <3>1. q[i].seq <= n /\ q[i].folded <= f
      BY <2>1 DEF QueueOK
    <3> QED
      BY <1>2, <1>3, <2>1, <2>3, <3>1
  <2> QED
    BY <1>3, <2>2, <2>3
<1> QED
  BY <1>4, <1>5, <1>6 DEF QueueOK, r

\* A frame that is taken becomes the last one written.
LEMMA QueueLoses ==
    ASSUME NEW q \in Seq(FrameType), q # <<>>, NEW l, NEW n \in Nat, NEW f \in Nat,
           QueueOK(q, l, n, f)
    PROVE  QueueOK(Tail(q), Head(q), n, f) /\ EndsFinal(Tail(q), Head(q)) = EndsFinal(q, l)
<1>1. /\ Len(q) \in Nat /\ Len(q) >= 1 /\ Head(q) = q[1]
      /\ Len(Tail(q)) = Len(q) - 1
      /\ \A i \in 1 .. Len(q) - 1 : Tail(q)[i] = q[i + 1]
      /\ Tail(q) = <<>> <=> Len(q) = 1
  BY QueueTaken
<1>2. QueueOK(Tail(q), Head(q), n, f)
  BY <1>1 DEF QueueOK
<1>3. EndsFinal(Tail(q), Head(q)) = EndsFinal(q, l)
  BY <1>1 DEF EndsFinal
<1> QED
  BY <1>2, <1>3

\* publish, seen by one stream, with the projection at g.
LEMMA PublishFrames ==
    ASSUME TypeOK, StreamInv, FrameInv, NEW g \in Nat, folded <= g,
           NEW st \in {"running", "paused", "finished"}, Publish(g, st),
           NEW s \in Streams
    PROVE  /\ QueueOK(ch'[s], last[s], snapSeq', g)
           /\ ch[s] # <<>> => ch'[s] # <<>> /\ ch'[s][1] = ch[s][1]
           /\ s \notin subs => ch'[s] = ch[s] /\ (lost'[s] <=> lost[s])
           /\ lost[s] => lost'[s]
           /\ s \in subs /\ ~lost'[s] /\ st = "finished" => EndsFinal(ch'[s], last[s])
<1>1. /\ snapSeq \in Nat /\ folded \in Nat /\ subs \subseteq Streams
      /\ ch[s] \in Seq(FrameType) /\ last[s] \in FrameType
  BY DEF TypeOK
<1>2. QueueOK(ch[s], last[s], snapSeq, folded)
  BY DEF FrameInv, StreamFrames
<1>3. /\ ch'[s] = IF s \in subs /\ Len(ch[s]) < Buffer THEN Append(ch[s], Frame(g, st))
                  ELSE ch[s]
      /\ snapSeq' = (IF subs = {} THEN snapSeq ELSE snapSeq + 1)
  BY DEF Publish
<1>4. lost'[s] <=> (lost[s] \/ (s \in subs /\ Len(ch[s]) >= Buffer))
  BY Zenon DEF Publish
<1>5. /\ Frame(g, st) \in FrameType /\ Frame(g, st).seq = snapSeq + 1
      /\ Frame(g, st).folded = g /\ (st = "finished" => Frame(g, st).final)
  <2>1. Frame(g, st) \in FrameType
    BY <1>1 DEF Frame, FrameType
  <2>2. Frame(g, st).seq = snapSeq + 1 /\ Frame(g, st).folded = g
    BY DEF Frame
  <2>3. st = "finished" => Frame(g, st).final
    BY Zenon DEF Frame
  <2> QED
    BY <2>1, <2>2, <2>3
<1> DEFINE x == Frame(g, st)
<1> HIDE DEF x
<1>6. CASE s \in subs /\ Len(ch[s]) < Buffer
  <2>1. ch'[s] = Append(ch[s], x) /\ snapSeq' = snapSeq + 1
    BY <1>3, <1>6 DEF x
  <2>2. x \in FrameType /\ x.seq = snapSeq + 1 /\ x.folded = g /\ (st = "finished" => x.final)
    BY <1>5 DEF x
  <2>3. QueueOK(ch'[s], last[s], snapSeq', g)
    BY <1>1, <1>2, <2>1, <2>2, QueueGains
  <2>4. /\ Len(ch'[s]) = Len(ch[s]) + 1 /\ Len(ch[s]) \in Nat
        /\ \A i \in 1 .. Len(ch[s]) : ch'[s][i] = ch[s][i]
        /\ ch'[s][Len(ch[s]) + 1] = x /\ ch'[s] # <<>>
    BY <1>1, <2>1, <2>2, QueueAppended
  <2>5. ch[s] # <<>> => ch'[s][1] = ch[s][1]
    BY <1>1, <2>4
  <2>6. st = "finished" => EndsFinal(ch'[s], last[s])
    BY <2>2, <2>4 DEF EndsFinal
  <2> QED
    BY <1>4, <1>6, <2>3, <2>4, <2>5, <2>6
<1>7. CASE ~(s \in subs /\ Len(ch[s]) < Buffer)
  <2>1. ch'[s] = ch[s] /\ snapSeq <= snapSeq' /\ snapSeq' \in Nat
    BY <1>1, <1>3, <1>7
  <2>2. QueueOK(ch'[s], last[s], snapSeq', g)
    BY <1>1, <1>2, <2>1, QueueAges
  <2>3. s \in subs => lost'[s]
    <3>1. Len(ch[s]) \in Nat /\ Buffer \in Nat
      BY <1>1, StreamAssumption
    <3>2. s \in subs => Len(ch[s]) >= Buffer
      BY <1>7, <3>1
    <3> QED
      BY <1>4, <3>2
  <2> QED
    BY <1>4, <2>1, <2>2, <2>3
<1> QED
  BY <1>6, <1>7

\* Ticks and commands of the run's goroutine that close no stream.
LEMMA RunKeepsFrames ==
    ASSUME TypeOK, StreamInv, FrameInv, NEW g \in Nat, folded <= g, folded' = g,
           folded' <= tail', UNCHANGED <<subs, open, reason, handlers>>,
           \/ \E st \in {"running", "paused", "finished"} : Publish(g, st)
           \/ UNCHANGED <<snapSeq, ch, lost>>
    PROVE  FrameInv'
<1> SUFFICES ASSUME NEW s \in Streams PROVE StreamFrames(s)'
  BY DEF FrameInv
<1>1. /\ snapSeq \in Nat /\ folded \in Nat
      /\ ch[s] \in Seq(FrameType) /\ last[s] \in FrameType
  BY DEF TypeOK
<1>2. StreamFrames(s) /\ QueueOK(ch[s], last[s], snapSeq, folded)
  BY DEF FrameInv, StreamFrames
<1>3. open[s] <=> s \in subs
  BY DEF StreamInv, NeverAbandoned
<1>4. UNCHANGED <<pc, from, upto, last, code>>
  BY DEF handlers
<1>5. /\ QueueOK(ch'[s], last[s], snapSeq', g)
      /\ ch[s] # <<>> => ch'[s] # <<>> /\ ch'[s][1] = ch[s][1]
      /\ s \notin subs => ch'[s] = ch[s] /\ (lost'[s] <=> lost[s])
      /\ lost[s] => lost'[s]
  <2>1. CASE \E st \in {"running", "paused", "finished"} : Publish(g, st)
    BY <2>1, PublishFrames
  <2>2. CASE UNCHANGED <<snapSeq, ch, lost>>
    BY <1>1, <1>2, <2>2, QueueAges
  <2> QED
    BY <2>1, <2>2
<1> QED
  BY <1>2, <1>3, <1>4, <1>5 DEF StreamFrames

\* Where a tick's reading stops: not before the projection, nor past the log.
LEMMA ReadsForward ==
    ASSUME TypeOK, FrameInv, NEW n \in Nat, tail <= n
    PROVE  ReadTo(n) \in folded .. n
BY StreamAssumption DEF TypeOK, FrameInv, ReadTo

\* Ticks.
LEMMA TickKeepsFrames ==
    ASSUME TypeOK, StreamInv, FrameInv, Advance \/ AdvanceFails
    PROVE  FrameInv'
<1>1. /\ tail \in Nat /\ folded \in Nat /\ tail + Events \in Nat /\ tail <= tail + Events
      /\ Events \in Nat /\ folded <= tail
  BY StreamAssumption DEF TypeOK, FrameInv
<1>2. ReadTo(tail + Events) \in folded .. tail + Events
  BY <1>1, ReadsForward
<1>3. CASE Advance
  <2>1. /\ tail' = tail + Events /\ folded' = ReadTo(tail + Events)
        /\ Publish(folded', "running")
        /\ UNCHANGED <<subs, open, reason, handlers>>
    BY <1>3 DEF Advance
  <2> DEFINE g == ReadTo(tail + Events)
  <2>2. g \in Nat /\ folded <= g /\ folded' = g /\ folded' <= tail' /\ Publish(g, "running")
    BY <1>1, <1>2, <2>1
  <2> HIDE DEF g
  <2> QED
    BY <2>1, <2>2, RunKeepsFrames
<1>4. CASE AdvanceFails
  <2>1. UNCHANGED <<subs, open, reason, handlers, snapSeq, ch, lost>>
    BY <1>4 DEF AdvanceFails, channels
  <2>2. folded' \in Nat /\ folded <= folded' /\ folded' <= tail'
    <3>1. CASE \E k \in 0 .. Events : tail' = tail + k /\ UNCHANGED <<folded, tick>>
      BY <1>1, <3>1
    <3>2. CASE \E f \in folded .. ReadTo(tail + Events) :
                 tail' = tail + Events /\ folded' = f /\ UNCHANGED tick
      BY <1>1, <1>2, <3>2
    <3>3. CASE tail' = tail + Events /\ folded' = ReadTo(tail') /\ tick' = tick + 1
      BY <1>1, <1>2, <3>3
    <3> QED
      BY <1>4, <3>1, <3>2, <3>3 DEF AdvanceFails
  <2>3. PICK g \in Nat : folded <= g /\ folded' = g /\ folded' <= tail'
    BY <2>2
  <2> QED
    BY <2>1, <2>3, RunKeepsFrames
<1> QED
  BY <1>3, <1>4

\* Commands and the start of a shutdown.
LEMMA CommandKeepsFrames ==
    ASSUME TypeOK, StreamInv, FrameInv, Command \/ CloseRegistry
    PROVE  FrameInv'
<1>1. folded \in Nat /\ folded <= tail /\ tail \in Nat
  BY DEF TypeOK, FrameInv
<1>2. CASE \E paused \in BOOLEAN : SetPaused(paused)
  <2>1. /\ Publish(folded, state') /\ state' \in {"running", "paused", "finished"}
        /\ UNCHANGED <<tail, folded, subs, open, reason, handlers>>
    BY <1>2 DEF SetPaused
  <2>2. \E st \in {"running", "paused", "finished"} : Publish(folded, st)
    BY <2>1, Zenon
  <2>3. folded <= folded /\ folded' = folded /\ folded' <= tail'
    BY <1>1, <2>1
  <2> QED
    BY <1>1, <2>1, <2>2, <2>3, RunKeepsFrames
<1>3. CASE FinishRun \/ CloseRegistry
  <2>1. UNCHANGED <<run, channels, handlers>>
    BY <1>3 DEF FinishRun, CloseRegistry
  <2> QED
    BY <1>1, <2>1, RunKeepsFrames DEF run, channels
<1> QED
  BY <1>2, <1>3 DEF Command

\* finish: what it closes ends with the final frame, unless that was lost.
LEMMA FinishKeepsFrames ==
    ASSUME TypeOK, StreamInv, FrameInv, Finish
    PROVE  FrameInv'
<1>1. /\ Publish(folded, "finished") /\ CloseSubs("finished")
      /\ UNCHANGED <<tail, folded, handlers>>
  BY DEF Finish
<1>2. folded \in Nat /\ folded <= tail /\ folded <= folded
  BY DEF TypeOK, FrameInv
<1> SUFFICES ASSUME NEW s \in Streams PROVE StreamFrames(s)'
  BY <1>1, <1>2 DEF FrameInv
<1>3. /\ QueueOK(ch'[s], last[s], snapSeq', folded)
      /\ ch[s] # <<>> => ch'[s] # <<>> /\ ch'[s][1] = ch[s][1]
      /\ s \notin subs => ch'[s] = ch[s] /\ (lost'[s] <=> lost[s])
      /\ lost[s] => lost'[s]
      /\ s \in subs /\ ~lost'[s] => EndsFinal(ch'[s], last[s])
  BY <1>1, <1>2, PublishFrames
<1>4. /\ s \notin subs => reason'[s] = reason[s] /\ ~open[s]
      /\ open[s] <=> s \in subs
  BY <1>1 DEF CloseSubs, StreamInv, NeverAbandoned
<1>5. UNCHANGED <<pc, from, upto, last, code, folded>>
  BY <1>1 DEF handlers
<1>6. StreamFrames(s)
  BY DEF FrameInv
<1>7. ~lost'[s] /\ pc[s] \in {"answered", "streaming"} /\ reason'[s] = "finished"
        => EndsFinal(ch'[s], last[s])
  <2>1. CASE s \in subs
    BY <1>3, <2>1
  <2>2. CASE s \notin subs
    BY <1>3, <1>4, <1>6, <2>2 DEF StreamFrames
  <2> QED
    BY <2>1, <2>2
<1> QED
  BY <1>3, <1>5, <1>6, <1>7 DEF StreamFrames

\* The quit case: what it closes it does not call finished.
LEMMA QuitKeepsFrames ==
    ASSUME TypeOK, StreamInv, FrameInv, Quit
    PROVE  FrameInv'
<1>1. CloseSubs("shutdown") /\ UNCHANGED <<run, ch, lost, handlers>>
  BY DEF Quit
<1>2. ASSUME NEW s \in Streams
      PROVE  /\ s \in subs => reason'[s] = "shutdown"
             /\ s \notin subs => reason'[s] = reason[s] /\ ~open[s]
  BY <1>1 DEF CloseSubs, StreamInv, NeverAbandoned
<1> QED
  BY <1>1, <1>2 DEF FrameInv, StreamFrames, run, handlers

\* Steps of a handler that move no frame.
LEMMA HandlerKeepsFrames ==
    ASSUME TypeOK, FrameInv, NEW s \in Streams,
           \/ Dial(s) \/ Refuse(s) \/ DoFails(s) \/ Upgrade(s) \/ ConnectionFails(s)
           \/ Detach(s)
    PROVE  FrameInv'
<1>1. UNCHANGED <<tail, folded, snapSeq, ch, reason, lost, upto, last, code>>
  BY DEF Dial, Refuse, DoFails, Upgrade, ConnectionFails, Detach, run, channels
<1>2. \A t \in Streams \ {s} : pc'[t] = pc[t] /\ from'[t] = from[t] /\ open'[t] = open[t]
  BY DEF Dial, Refuse, DoFails, Upgrade, ConnectionFails, Detach, Goto, channels, TypeOK
<1>3. /\ pc'[s] \in {"new", "calling"} => pc[s] \in {"new", "calling"}
      /\ pc'[s] # "answered"
      /\ pc'[s] = "streaming" => pc[s] = "answered" /\ open'[s] = open[s]
      /\ pc[s] \in {"closing", "closed"} => pc'[s] \in {"closing", "closed"}
  BY DEF Dial, Refuse, DoFails, Upgrade, ConnectionFails, Detach, Goto, channels, TypeOK
<1>4. ASSUME NEW t \in Streams PROVE StreamFrames(t)'
  <2>1. StreamFrames(t)
    BY DEF FrameInv
  <2>2. CASE t = s
    BY <1>1, <1>3, <2>1, <2>2 DEF StreamFrames
  <2>3. CASE t # s
    BY <1>1, <1>2, <2>1, <2>3 DEF StreamFrames
  <2> QED
    BY <2>2, <2>3
<1> QED
  BY <1>1, <1>4 DEF FrameInv

\* pump takes a frame.
LEMMA ForwardKeepsFrames ==
    ASSUME TypeOK, FrameInv, NEW s \in Streams, Forward(s)
    PROVE  FrameInv'
<1>1. /\ pc[s] = "streaming" /\ ch[s] # <<>>
      /\ last' = [last EXCEPT ![s] = Head(ch[s])]
      /\ ch' = [ch EXCEPT ![s] = Tail(ch[s])]
      /\ UNCHANGED <<tail, folded, snapSeq, open, reason, lost, pc, from, upto, code>>
  BY DEF Forward, run
<1>2. /\ last'[s] = Head(ch[s]) /\ ch'[s] = Tail(ch[s])
      /\ \A t \in Streams \ {s} : last'[t] = last[t] /\ ch'[t] = ch[t]
      /\ ch[s] \in Seq(FrameType) /\ snapSeq \in Nat /\ folded \in Nat
  BY <1>1 DEF TypeOK
<1>3. ASSUME NEW t \in Streams PROVE StreamFrames(t)'
  <2>1. StreamFrames(t)
    BY DEF FrameInv
  <2>2. CASE t = s
    <3>1. QueueOK(ch[s], last[s], snapSeq, folded)
      BY <2>1, <2>2 DEF StreamFrames
    <3>2. /\ QueueOK(Tail(ch[s]), Head(ch[s]), snapSeq, folded)
          /\ EndsFinal(Tail(ch[s]), Head(ch[s])) = EndsFinal(ch[s], last[s])
      BY <1>1, <1>2, <3>1, QueueLoses
    <3>3. Head(ch[s]).seq >= NoFrame.seq
      <4>1. last[s] \in FrameType /\ 1 \in 1 .. Len(ch[s]) /\ Head(ch[s]) = ch[s][1]
        BY <1>1, <1>2, QueueTaken DEF TypeOK
      <4>2. last[s].seq < ch[s][1].seq /\ last[s].seq >= NoFrame.seq
        BY <2>1, <2>2, <4>1 DEF StreamFrames, QueueOK
      <4>3. last[s].seq \in Int /\ ch[s][1].seq \in Int
        BY <1>2, <4>1, FrameFields DEF FrameType
      <4> QED
        BY <4>1, <4>2, <4>3 DEF NoFrame
    <3> QED
      BY <1>1, <1>2, <2>1, <2>2, <3>2, <3>3 DEF StreamFrames
  <2>3. CASE t # s
    BY <1>1, <1>2, <2>1, <2>3 DEF StreamFrames
  <2> QED
    BY <2>2, <2>3
<1> QED
  BY <1>1, <1>3 DEF FrameInv

\* pump finds its channel drained and closed.
LEMMA EndKeepsFrames ==
    ASSUME TypeOK, FrameInv, NEW s \in Streams, EndStream(s)
    PROVE  FrameInv'
<1>1. /\ pc[s] = "streaming" /\ ch[s] = <<>> /\ ~open[s]
      /\ code' = [code EXCEPT ![s] = reason[s]] /\ Goto(s, "closing")
      /\ UNCHANGED <<tail, folded, snapSeq, ch, open, reason, lost, from, upto, last>>
  BY DEF EndStream, run, channels
<1>2. /\ code'[s] = reason[s] /\ pc'[s] = "closing"
      /\ \A t \in Streams \ {s} : code'[t] = code[t] /\ pc'[t] = pc[t]
  BY <1>1 DEF TypeOK, Goto
<1>3. ASSUME NEW t \in Streams PROVE StreamFrames(t)'
  <2>1. StreamFrames(t)
    BY DEF FrameInv
  <2>2. CASE t = s
    <3>1. reason[s] = "finished" /\ ~lost[s] => last[s].final
      BY <1>1, <2>1, <2>2 DEF StreamFrames, EndsFinal
    <3> QED
      BY <1>1, <1>2, <2>1, <2>2, <3>1 DEF StreamFrames
  <2>3. CASE t # s
    BY <1>1, <1>2, <2>1, <2>3 DEF StreamFrames
  <2> QED
    BY <2>2, <2>3
<1> QED
  BY <1>1, <1>3 DEF FrameInv

\* subscribe's command: the current frame opens the stream.
LEMMA SubscribeKeepsFrames ==
    ASSUME TypeOK, FrameInv, NEW s \in Streams, Subscribe(s)
    PROVE  FrameInv'
<1> DEFINE first == [seq |-> snapSeq, folded |-> folded, final |-> state = "finished"]
<1>1. /\ pc[s] = "calling"
      /\ ch' = [ch EXCEPT ![s] = <<first>>]
      /\ open' = [open EXCEPT ![s] = state # "finished"]
      /\ Goto(s, "answered")
      /\ UNCHANGED <<tail, folded, snapSeq, reason, lost, last, code>>
  BY DEF Subscribe, Attach, run
<1>2. /\ first.seq = snapSeq /\ first.folded = folded
      /\ (state = "finished" => first.final)
  OBVIOUS
<1> HIDE DEF first
<1>3. /\ ch'[s] = <<first>> /\ pc'[s] = "answered"
      /\ \A t \in Streams \ {s} : ch'[t] = ch[t] /\ pc'[t] = pc[t]
      /\ snapSeq \in Nat /\ folded \in Nat
  BY <1>1 DEF TypeOK, Goto
<1>4. /\ open'[s] <=> state # "finished"
      /\ \A t \in Streams \ {s} : open'[t] = open[t]
  BY <1>1 DEF TypeOK
<1>5. folded <= tail
  BY DEF FrameInv
<1>6. ASSUME NEW t \in Streams PROVE StreamFrames(t)'
  <2>1. StreamFrames(t)
    BY DEF FrameInv
  <2>2. CASE t = s
    <3>1. last[s] = NoFrame /\ code[s] = "none"
      BY <1>1, <2>1, <2>2 DEF StreamFrames
    <3>2. /\ Len(<<first>>) = 1 /\ <<first>>[1] = first /\ <<first>> # <<>>
      OBVIOUS
    <3>3. QueueOK(<<first>>, NoFrame, snapSeq, folded)
      BY <1>2, <1>3, <3>2 DEF QueueOK, NoFrame
    <3>4. state = "finished" => EndsFinal(<<first>>, NoFrame)
      BY <1>2, <3>2 DEF EndsFinal
    <3>5. NoFrame.seq >= NoFrame.seq
      BY DEF NoFrame
    <3> QED
      BY <1>1, <1>3, <1>4, <2>2, <3>1, <3>2, <3>3, <3>4, <3>5 DEF StreamFrames
  <2>3. CASE t # s
    BY <1>1, <1>3, <1>4, <2>1, <2>3 DEF StreamFrames
  <2> QED
    BY <2>2, <2>3
<1> QED
  BY <1>1, <1>5, <1>6 DEF FrameInv

\* FrameInv is an invariant.
LEMMA FrameInduction == Spec => []FrameInv
<1>1. Init => FrameInv
  BY DEF Init, FrameInv, StreamFrames, QueueOK, NoFrame
<1>2. TypeOK /\ StreamInv /\ FrameInv /\ [Next]_vars => FrameInv'
  <2> SUFFICES ASSUME TypeOK, StreamInv, FrameInv, [Next]_vars PROVE FrameInv'
    OBVIOUS
  <2>1. CASE UNCHANGED vars
    BY <2>1 DEF vars, run, channels, handlers, FrameInv, StreamFrames
  <2>2. CASE Next
    BY <2>2, TickKeepsFrames, FinishKeepsFrames, QuitKeepsFrames, CommandKeepsFrames,
       HandlerKeepsFrames, ForwardKeepsFrames, EndKeepsFrames, SubscribeKeepsFrames
    DEF Next, Handle
  <2> QED
    BY <2>1, <2>2
<1> QED
  BY <1>1, <1>2, StreamInduction, PTL DEF Spec

\* Frames reach a client in the order of their sequence, none twice, and the
\* garden they show never goes back, for any buffer and any number of lost
\* frames, pauses and failed ticks (publish, subscribe's first frame).
THEOREM FramesArriveInOrder == Spec => []FramesOrdered
<1>1. TypeOK /\ FrameInv => FramesOrdered
  <2> SUFFICES ASSUME TypeOK, FrameInv, NEW s \in Streams,
                      NEW i \in 1 .. Len(<<last[s]>> \o ch[s]) - 1
               PROVE  LET seen == <<last[s]>> \o ch[s] IN
                      /\ seen[i].seq < seen[i + 1].seq
                      /\ seen[i].folded <= seen[i + 1].folded
    BY DEF FramesOrdered
  <2>1. QueueOK(ch[s], last[s], snapSeq, folded)
    BY DEF FrameInv, StreamFrames
  <2>2. ch[s] \in Seq(FrameType) /\ last[s] \in FrameType
    BY DEF TypeOK
  <2> DEFINE seen == <<last[s]>> \o ch[s]
  <2>3. /\ Len(seen) = Len(ch[s]) + 1 /\ Len(ch[s]) \in Nat /\ seen[1] = last[s]
        /\ \A k \in 1 .. Len(ch[s]) : seen[k + 1] = ch[s][k]
    <3> HIDE DEF FrameType
    <3> QED
      BY <2>2
  <2> HIDE DEF seen
  <2>4. i \in 1 .. Len(ch[s])
    BY <2>3 DEF seen
  <2>5. CASE i = 1
    BY <2>1, <2>3, <2>4, <2>5 DEF QueueOK, seen
  <2>6. CASE i > 1
    <3>1. i - 1 \in 1 .. Len(ch[s]) /\ seen[i] = ch[s][i - 1] /\ seen[i + 1] = ch[s][i]
      BY <2>3, <2>4, <2>6
    <3> QED
      BY <2>1, <2>3, <2>4, <3>1 DEF QueueOK, seen
  <2>7. i = 1 \/ i > 1
    BY <2>3, <2>4
  <2> QED
    BY <2>5, <2>6, <2>7 DEF seen
<1> QED
  BY <1>1, StreamTypes, FrameInduction, PTL

\* For a run that folds all it appends, the log and the projection are level
\* whenever a command runs, unless the run's last tick failed; and a client that
\* resumed finds, as its next frame, the one its catch-up was read for.
HandoverInv ==
    /\ used.faults = 0 \/ (stage = "ready" /\ state # "finished") => tail = folded
    /\ \A s \in Streams : AtHandover(s) =>
          /\ ch[s] # <<>>
          /\ used.faults = 0 \/ ~ch[s][1].final => ch[s][1].folded = upto[s]

\* A step that leaves the handlers where they are and takes no frame keeps every
\* client's next frame.
LEMMA HandoverRests ==
    ASSUME HandoverInv, UNCHANGED handlers, used.faults = 0 \/ used'.faults # 0,
           NEW s \in Streams, AtHandover(s)',
           ch[s] # <<>> => ch'[s] # <<>> /\ ch'[s][1] = ch[s][1]
    PROVE  /\ ch'[s] # <<>>
           /\ used'.faults = 0 \/ ~ch'[s][1].final => ch'[s][1].folded = upto'[s]
<1>1. AtHandover(s) /\ UNCHANGED upto
  BY DEF AtHandover, handlers
<1>2. ch[s] # <<>> /\ (used.faults = 0 \/ ~ch[s][1].final => ch[s][1].folded = upto[s])
  BY <1>1 DEF HandoverInv
<1> QED
  BY <1>1, <1>2

\* Ticks: all a tick appends it folds.
LEMMA TickHandsOver ==
    ASSUME Capacity = 0 \/ Events <= Capacity,
           TypeOK, StreamInv, FrameInv, HandoverInv, Advance \/ AdvanceFails
    PROVE  HandoverInv'
<1>1. /\ tail \in Nat /\ folded \in Nat /\ tick \in Nat
      /\ used \in [pauses : Nat, faults : Nat]
      /\ Events \in Nat /\ Capacity \in Nat
  BY StreamAssumption DEF TypeOK
<1>2. stage = "ready" /\ state = "running" /\ UNCHANGED <<state, handlers>>
  BY DEF Advance, AdvanceFails
<1>3. tail = folded
  BY <1>2 DEF HandoverInv
<1>4. ReadTo(tail + Events) = tail + Events
  BY <1>1, <1>3 DEF ReadTo
<1>5. CASE Advance
  <2>1. /\ tail' = tail + Events /\ folded' = tail + Events /\ UNCHANGED used
        /\ Publish(folded', "running")
    BY <1>2, <1>4, <1>5 DEF Advance
  <2>2. folded' \in Nat /\ folded <= folded'
    BY <1>1, <1>3, <2>1
  <2>3. ASSUME NEW s \in Streams
        PROVE  ch[s] # <<>> => ch'[s] # <<>> /\ ch'[s][1] = ch[s][1]
    <3> DEFINE g == tail + Events
    <3>1. g \in Nat /\ folded <= g /\ Publish(g, "running")
      BY <1>1, <2>1, <2>2
    <3> HIDE DEF g
    <3> QED
      BY <3>1, PublishFrames
  <2>4. used.faults = 0 \/ used'.faults # 0
    BY <2>1
  <2> QED
    BY <1>2, <2>1, <2>3, <2>4, HandoverRests DEF HandoverInv
<1>6. CASE AdvanceFails
  <2>1. used'.faults # 0 /\ stage' = "finishing" /\ UNCHANGED ch
    BY <1>1, <1>6 DEF AdvanceFails, channels
  <2> QED
    BY <1>2, <2>1, HandoverRests DEF HandoverInv
<1> QED
  BY <1>5, <1>6

\* Pauses and resumes, the final frame, and the end of the goroutine.
LEMMA RunHandsOver ==
    ASSUME TypeOK, StreamInv, FrameInv, HandoverInv,
           Command \/ Finish \/ CloseRegistry \/ Quit
    PROVE  HandoverInv'
<1>1. folded \in Nat /\ folded <= folded
  BY DEF TypeOK
<1>2. /\ UNCHANGED <<tail, folded, handlers>>
      /\ used'.faults = used.faults
      /\ stage' = "ready" /\ state' # "finished" => stage = "ready" /\ state # "finished"
  BY DEF Command, FinishRun, SetPaused, Finish, CloseRegistry, Quit, run, TypeOK
<1>3. ASSUME NEW s \in Streams
      PROVE  ch[s] # <<>> => ch'[s] # <<>> /\ ch'[s][1] = ch[s][1]
  <2>1. CASE \E paused \in BOOLEAN : SetPaused(paused)
    <3>1. Publish(folded, state') /\ state' \in {"running", "paused", "finished"}
      BY <2>1 DEF SetPaused
    <3>2. PICK st \in {"running", "paused", "finished"} : Publish(folded, st)
      BY <3>1
    <3> QED
      BY <1>1, <3>2, PublishFrames
  <2>2. CASE Finish
    <3>1. Publish(folded, "finished")
      BY <2>2 DEF Finish
    <3> QED
      BY <1>1, <3>1, PublishFrames
  <2>3. CASE FinishRun \/ CloseRegistry \/ Quit
    BY <2>3 DEF FinishRun, CloseRegistry, Quit, channels
  <2> QED
    BY <2>1, <2>2, <2>3 DEF Command
<1> QED
  BY <1>2, <1>3, HandoverRests DEF HandoverInv

\* subscribe's command reads its catch-up to the tail and takes its frame at the
\* projection, which are level.
LEMMA SubscribeHandsOver ==
    ASSUME TypeOK, HandoverInv, NEW s \in Streams, Subscribe(s)
    PROVE  HandoverInv'
<1> DEFINE first == [seq |-> snapSeq, folded |-> folded, final |-> state = "finished"]
<1>1. /\ stage = "ready"
      /\ upto' = [upto EXCEPT ![s] = IF from[s] = Fresh THEN Fresh ELSE tail]
      /\ ch' = [ch EXCEPT ![s] = <<first>>]
      /\ pc' = [pc EXCEPT ![s] = "answered"]
      /\ UNCHANGED <<tail, folded, stage, state, from, last, used>>
  BY DEF Subscribe, CatchupTo, Goto, run
<1>2. /\ ch'[s] = <<first>>
      /\ upto'[s] = (IF from[s] = Fresh THEN Fresh ELSE tail)
      /\ \A t \in Streams \ {s} :
            ch'[t] = ch[t] /\ pc'[t] = pc[t] /\ upto'[t] = upto[t]
  BY <1>1 DEF TypeOK
<1>3. /\ <<first>> # <<>> /\ <<first>>[1] = first
      /\ first.folded = folded /\ (first.final <=> state = "finished")
  OBVIOUS
<1> HIDE DEF first
<1>4. ASSUME NEW t \in Streams, AtHandover(t)'
      PROVE  /\ ch'[t] # <<>>
             /\ used'.faults = 0 \/ ~ch'[t][1].final => ch'[t][1].folded = upto'[t]
  <2>1. CASE t = s
    <3>1. from[s] # Fresh
      BY <1>1, <1>4, <2>1 DEF AtHandover
    <3>2. used.faults = 0 \/ ~first.final => tail = folded
      BY <1>1, <1>3 DEF HandoverInv
    <3> QED
      BY <1>1, <1>2, <1>3, <2>1, <3>1, <3>2
  <2>2. CASE t # s
    <3>1. AtHandover(t)
      BY <1>1, <1>2, <1>4, <2>2 DEF AtHandover
    <3> QED
      BY <1>1, <1>2, <2>2, <3>1 DEF HandoverInv
  <2> QED
    BY <2>1, <2>2
<1> QED
  BY <1>1, <1>4 DEF HandoverInv

\* The other steps of a handler; one that takes a frame is past the handover.
LEMMA HandlerHandsOver ==
    ASSUME TypeOK, FrameInv, HandoverInv, NEW s \in Streams,
           \/ Dial(s) \/ Refuse(s) \/ DoFails(s) \/ Upgrade(s) \/ ConnectionFails(s)
           \/ Forward(s) \/ EndStream(s) \/ Detach(s)
    PROVE  HandoverInv'
<1>1. UNCHANGED <<tail, folded, state, stage, upto, used>>
  BY DEF Dial, Refuse, DoFails, Upgrade, ConnectionFails, Forward, EndStream, Detach, run
<1>2. ASSUME NEW t \in Streams, AtHandover(t)'
      PROVE  AtHandover(t) /\ ch'[t] = ch[t]
  <2>1. CASE Forward(s)
    <3>1. /\ ch[s] # <<>> /\ last' = [last EXCEPT ![s] = Head(ch[s])]
          /\ ch' = [ch EXCEPT ![s] = Tail(ch[s])] /\ UNCHANGED <<pc, from>>
      BY <2>1 DEF Forward
    <3>2. Head(ch[s]) # NoFrame
      <4>1. ch[s] \in Seq(FrameType) /\ last[s] \in FrameType
        BY DEF TypeOK
      <4>2. Head(ch[s]) = ch[s][1] /\ 1 \in 1 .. Len(ch[s])
        BY <3>1, <4>1, QueueTaken
      <4>3. last[s].seq < ch[s][1].seq
        BY <4>2 DEF FrameInv, StreamFrames, QueueOK
      <4>4. last[s].seq >= -1 /\ ch[s][1].seq \in Int /\ last[s].seq \in Int
        BY <4>1, <4>2, FrameFields DEF FrameInv, StreamFrames, FrameType, NoFrame
      <4> QED
        BY <4>2, <4>3, <4>4 DEF NoFrame
    <3>3. t # s
      BY <1>2, <3>1, <3>2 DEF AtHandover, TypeOK
    <3> QED
      BY <1>2, <3>1, <3>3 DEF AtHandover, TypeOK
  <2>2. CASE ~Forward(s)
    <3>1. UNCHANGED <<ch, last>>
      BY <2>2 DEF Dial, Refuse, DoFails, Upgrade, ConnectionFails, EndStream, Detach,
                  channels
    <3>2. /\ pc'[t] \in {"answered", "streaming"} => pc[t] \in {"answered", "streaming"}
          /\ pc'[t] \in {"answered", "streaming"} => from'[t] = from[t]
      BY <2>2 DEF Dial, Refuse, DoFails, Upgrade, ConnectionFails, EndStream, Detach,
                  Goto, TypeOK
    <3> QED
      BY <1>2, <3>1, <3>2 DEF AtHandover
  <2> QED
    BY <2>1, <2>2
<1> QED
  BY <1>1, <1>2 DEF HandoverInv

\* The handover is exact for every run whose ticks fold all they append, for any
\* number of streams, any buffer and any number of lost frames: whatever was
\* published since the catch-up was read, the client's next frame is where it
\* ended, so no record is missed or seen twice (Resume, publish).
THEOREM CatchupMeetsTheStream ==
    ASSUME Capacity = 0 \/ Events <= Capacity
    PROVE  Spec => []HandoverExact
<1>1. Init => HandoverInv
  BY DEF Init, HandoverInv, AtHandover
<1>2. TypeOK /\ StreamInv /\ FrameInv /\ HandoverInv /\ [Next]_vars => HandoverInv'
  <2> SUFFICES ASSUME TypeOK, StreamInv, FrameInv, HandoverInv, [Next]_vars
               PROVE  HandoverInv'
    OBVIOUS
  <2>1. CASE UNCHANGED vars
    BY <2>1 DEF vars, run, channels, handlers, HandoverInv, AtHandover
  <2>2. CASE Next
    BY <2>2, TickHandsOver, RunHandsOver, SubscribeHandsOver, HandlerHandsOver
    DEF Next, Handle
  <2> QED
    BY <2>1, <2>2
<1>3. HandoverInv => HandoverExact
  BY DEF HandoverInv, HandoverExact
<1> QED
  BY <1>1, <1>2, <1>3, StreamInduction, FrameInduction, PTL DEF Spec

\* A client told the run finished was shown the garden it ended on, unless it
\* fell behind and lost a frame (finish publishes before it closes).
THEOREM FinishedMeansShown == Spec => []FinalUnlessLost
<1>1. FrameInv => FinalUnlessLost
  BY DEF FrameInv, StreamFrames, FinalUnlessLost
<1> QED
  BY <1>1, FrameInduction, PTL
=============================================================================
