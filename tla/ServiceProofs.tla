--------------------------- MODULE ServiceProofs ---------------------------
(***************************************************************************)
(* What a client of the daemon may rely on, proved for every number of     *)
(* calls, runs and control values: what an answer's code means, that calls *)
(* that do not overlap are answered in order, that a receipt's tick is     *)
(* kept, that ListRuns forgets no run and keeps start order, and what a    *)
(* clean exit has answered.                                                *)
(*                                                                         *)
(* The invariant ServiceInv has a part per owner of the state: the daemon  *)
(* and the registry's lock (DaemonInv), each run's goroutine (RunOK), each *)
(* call's handler (Shape, HandleOK, AnswerOK, ListOK), and what a reply    *)
(* says of the run it came from for as long as the run lives (ReplyOK,     *)
(* OrderOK). A step of a run's goroutine disturbs the replies it has given *)
(* before; Grows says what it may not take back.                           *)
(***************************************************************************)
EXTENDS Burst, FunctionTheorems, SumTheorems

-----------------------------------------------------------------------------
(* The inductive invariant.                                                *)

Staged  == [rev : Nat, controls : Mixes]
Applied == [rev : Nat, at : Nat]

RunType == [state : States, tick : Nat, revision : Nat, controls : Mixes,
            staged : Seq(Staged), applied : Seq(Applied), pending : Nat]

Codes == Refusals \cup {"OK", "Unavailable", "none"}

RegistryTypes ==
    /\ runs \subseteq RunIDs /\ closed \in BOOLEAN /\ order \in Seq(RunIDs)
    /\ run \in [RunIDs -> RunType \cup {NoRun}]
    /\ loop \in [RunIDs -> {"none", "born", "select", "done"}]
    /\ quit \in [RunIDs -> BOOLEAN]
    /\ pendingByRun \in [RunIDs -> Int]

CallTypes ==
    /\ request = [c \in AllCalls |-> request[c]]
    /\ \A c \in AllCalls : request[c].id \in RunIDs \cup {NoID}
    /\ pc \in [AllCalls -> {"idle", "called", "spawning", "lookup", "listing", "sending", "sent",
                            "answered"}]
    /\ handle \in [AllCalls -> RunIDs \cup {NoID}]
    /\ reply = [c \in AllCalls |-> reply[c]]
    /\ answer = [c \in AllCalls |-> answer[c]]
    /\ list \in [AllCalls -> [left : Seq(RunIDs), out : Seq(RunIDs)]]
    /\ since \in [AllCalls -> SUBSET Calls]

DaemonTypes ==
    /\ daemon \in {"serving", "draining", "stopping", "returning", "closing", "exited"}
    /\ accepting \in BOOLEAN /\ result \in {"none", "nil", "error"}
    /\ stopping \subseteq RunIDs /\ faults \in 0 .. MaxFaults

Types == RegistryTypes /\ CallTypes /\ DaemonTypes

\* realMain and the registry's lock: runs go only after Close, and every run that
\* was started is in the map until then.
DaemonInv ==
    /\ closed <=> daemon \in {"closing", "exited"}
    /\ \A r \in RunIDs : quit[r] \/ loop[r] = "done" => closed
    /\ daemon = "serving" => accepting
    /\ daemon \in {"stopping", "exited"} => ~accepting
    /\ result = "nil" => ~accepting /\ daemon \in {"returning", "closing", "exited"}
    /\ \A r \in runs : run[r] # NoRun
    /\ ~closed => \A r \in RunIDs : run[r] # NoRun => r \in runs

\* Close holds nothing in the map, and ListRuns' order names every run once.
OrderInv ==
    /\ \A i, j \in 1 .. Len(order) : order[i] = order[j] => i = j
    /\ runs = {order[i] : i \in 1 .. Len(order)}

\* A run: revisions are counted up, staged ones are newer than the recorded ones,
\* and no revision is staged twice.
RunShape(s) ==
    /\ s.tick <= TickBound
    /\ \A i \in 1 .. Len(s.applied) : s.applied[i].rev <= s.revision
    /\ \A i \in 1 .. Len(s.staged) : s.staged[i].rev <= s.revision
    /\ \A i \in 1 .. Len(s.staged), k \in 1 .. Len(s.applied) : s.staged[i].rev # s.applied[k].rev
    /\ \A i, j \in 1 .. Len(s.staged) : s.staged[i].rev = s.staged[j].rev => i = j

RunOK(r) ==
    /\ run[r] = NoRun <=> loop[r] = "none"
    /\ run[r] # NoRun => RunShape(run[r])

\* Where a handler stands and what it holds there. (Only the call "poll" of a burst
\* is made again, and it asks nothing but a query.)
Shape(c) ==
    /\ pc[c] \in {"idle", "called"} =>
          /\ reply[c] = NoReply /\ (c # "poll" => handle[c] = NoID)
          /\ (c = "poll" => request[c].op \in {"none", "Query"})
    /\ pc[c] \in {"spawning", "lookup"} =>
          request[c].op = "StartRun" /\ reply[c] = NoReply /\ handle[c] # NoID
    /\ pc[c] = "listing" => request[c].op = "ListRuns"
    /\ pc[c] = "sending" => handle[c] # NoID /\ (request[c].op # "ListRuns" => reply[c] = NoReply)
    /\ pc[c] = "sent" =>
          /\ handle[c] # NoID
          /\ request[c].op # "ListRuns" =>
                reply[c].err \in {"nil", "ErrRunFinished", "ErrInvalidControls"}
          /\ request[c].op \in {"StartRun", "FinishRun"} => reply[c].err = "nil"

\* A handler holds only runs that exist, and that are in the map until Close.
HandleOK(c) ==
    handle[c] # NoID => run[handle[c]] # NoRun /\ (closed \/ handle[c] \in runs)

\* What an answer says of the reply behind it.
AnswerOK(c) ==
    pc[c] = "answered" =>
        /\ answer[c].code \in Refusals \cup {"OK", "Unavailable"}
        /\ answer[c].code = "OK" /\ request[c].op # "ListRuns" =>
              reply[c].err = "nil" /\ answer[c].value = Sent(reply[c].value)
        /\ answer[c].code \in Refusals =>
              reply[c].err # "nil" /\ (request[c].op = "StartRun" => handle[c] = NoID)
        /\ answer[c].code = "Unavailable" => closed

\* The command of a call has run and succeeded.
Executed(c) == pc[c] \in {"sent", "answered"} /\ reply[c].err = "nil" /\ request[c].op # "ListRuns"

\* A revision accepted for a tick is recorded under it, or waits for it, or was lost
\* with the tick in which the run ended.
Honest(s, rev, at) ==
    \/ \E i \in 1 .. Len(s.applied) : s.applied[i] = [rev |-> rev, at |-> at]
    \/ /\ s.tick = at /\ \A i \in 1 .. Len(s.applied) : s.applied[i].rev # rev
       /\ s.state = "finished" \/ \E i \in 1 .. Len(s.staged) : s.staged[i].rev = rev

\* What remains true of a run after it has replied to a call.
ReplyOK(c) ==
    Executed(c) =>
        LET v == reply[c].value
            r == handle[c]
            s == run[r]
        IN  /\ r # NoID
            /\ request[c].op = "UpdateControls" =>
                  /\ v = [state |-> "revision", id |-> r, rev |-> v.rev, at |-> v.at]
                  /\ v.rev \in Nat /\ v.rev <= s.revision /\ Honest(s, v.rev, v.at)
            /\ request[c].op \in {"Query", "StartRun"} =>
                  /\ {"id", "tick", "revision"} \subseteq DOMAIN v /\ v.id = r
                  /\ v.tick \in Nat /\ v.tick <= s.tick
                  /\ v.revision \in Nat /\ v.revision <= s.revision
            /\ request[c].op = "FinishRun" => s.state = "finished" /\ v = View(r)

\* Two calls that do not overlap, once the second has run.
OrderOK(c, p) ==
    p \in since[c] /\ pc[c] # "idle" =>
        /\ pc[p] = "answered"
        /\ Executed(c) /\ Executed(p) /\ handle[c] = handle[p] =>
            LET v == reply[c].value
                w == reply[p].value
            IN  /\ request[p].op = "UpdateControls" =>
                      /\ request[c].op = "UpdateControls" => v.rev > w.rev
                      /\ request[c].op = "Query" => v.revision >= w.rev
                /\ request[p].op = "Query" /\ request[c].op = "Query" => v.tick >= w.tick
                /\ request[p].op = "FinishRun" =>
                      /\ request[c].op \notin {"UpdateControls", "PauseRun"}
                      /\ request[c].op \in {"FinishRun", "Query"} => v = w

Distinct(s) == \A i, j \in 1 .. Len(s) : s[i] = s[j] => i = j

Has(s, x) == \E i \in 1 .. Len(s) : s[i] = x

Apart(s, t) == \A i \in 1 .. Len(s) : ~Has(t, s[i])

\* ListRuns is asking the run it holds.
Asking(c) == pc[c] \in {"sending", "sent"}

\* The runs still to be asked are runs of the map, until Close.
LeftOK(c) ==
    \A i \in 1 .. Len(list[c].left) :
        run[list[c].left[i]] # NoRun /\ (closed \/ list[c].left[i] \in runs)

\* As long as the registry is open, a run that was answered before is listed, being
\* asked, or still to be asked.
ListKnows(c) ==
    ~closed => \A p \in since[c] : OK(p, "StartRun") =>
        \/ Has(list[c].out, handle[p]) \/ Has(list[c].left, handle[p])
        \/ Asking(c) /\ handle[c] = handle[p]

\* ListRuns under way: no run is asked twice, and none is forgotten.
ListOK(c) ==
    request[c].op = "ListRuns" /\ pc[c] \in {"listing", "sending", "sent", "answered"} =>
        LET out == list[c].out
            left == list[c].left
        IN  /\ Distinct(out) /\ Distinct(left) /\ Apart(out, left)
            /\ Asking(c) => ~Has(out, handle[c]) /\ ~Has(left, handle[c])
            /\ pc[c] = "answered" =>
                  left = <<>> /\ answer[c].value = [state |-> "list", ids |-> out]
            /\ LeftOK(c) /\ ListKnows(c)

CallOK(c) == Shape(c) /\ HandleOK(c) /\ AnswerOK(c) /\ ReplyOK(c) /\ ListOK(c)

CallsOK ==
    /\ \A c \in AllCalls : CallOK(c)
    /\ \A c \in AllCalls, p \in Calls : OrderOK(c, p)

ServiceInv ==
    /\ Types /\ DaemonInv /\ OrderInv
    /\ \A r \in RunIDs : RunOK(r)
    /\ CallsOK

\* The recorder's entry of an unfinished run is its backlog; no entry stands for none.
EntryOK(r) ==
    IF run[r].state \in {"running", "paused"}
    THEN IF pendingByRun[r] = NoEntry THEN run[r].pending = 0 ELSE pendingByRun[r] = run[r].pending
    ELSE pendingByRun[r] = NoEntry

-----------------------------------------------------------------------------
(* What a step leaves alone.                                               *)

\* A run goes on without taking back what it has replied.
Grows(s, t) ==
    /\ t \in RunType /\ s.tick <= t.tick /\ s.revision <= t.revision
    /\ s.state = "finished" => t = s
    /\ \A rev, at : Honest(s, rev, at) => Honest(t, rev, at)

\* The registry and the runs, as a call that takes no step sees them move.
World ==
    /\ closed => closed'
    /\ closed' \/ runs \subseteq runs'
    /\ \A r \in RunIDs : run[r] # NoRun => run'[r] # NoRun /\ Grows(run[r], run'[r])

\* Nothing of this call changes.
Rests(d) ==
    /\ request'[d] = request[d] /\ pc'[d] = pc[d] /\ handle'[d] = handle[d]
    /\ reply'[d] = reply[d] /\ answer'[d] = answer[d]
    /\ list'[d] = list[d] /\ since'[d] = since[d]

LEMMA ShapeRests ==
    ASSUME NEW d \in AllCalls, Rests(d), Shape(d)
    PROVE  Shape(d)'
BY DEF Rests, Shape

LEMMA HandleRests ==
    ASSUME NEW d \in AllCalls, Rests(d), World, CallTypes, HandleOK(d)
    PROVE  HandleOK(d)'
BY DEF Rests, World, HandleOK, CallTypes

LEMMA AnswerRests ==
    ASSUME NEW d \in AllCalls, Rests(d), World, AnswerOK(d)
    PROVE  AnswerOK(d)'
BY DEF Rests, World, AnswerOK, Sent

\* What a reply says stays true of the run.
LEMMA ReplyStays ==
    ASSUME NEW d \in AllCalls, World, RegistryTypes, CallTypes, HandleOK(d), ReplyOK(d),
           request'[d] = request[d], handle'[d] = handle[d], reply'[d] = reply[d],
           Executed(d)' => Executed(d)
    PROVE  ReplyOK(d)'
<1> SUFFICES ASSUME Executed(d)' PROVE ReplyOK(d)'
  BY DEF ReplyOK
<1> DEFINE r == handle[d]
           v == reply[d].value
<1>1. Executed(d) /\ handle'[d] = r /\ reply'[d].value = v /\ request'[d].op = request[d].op
  OBVIOUS
<1>2. r # NoID /\ r \in RunIDs
  BY <1>1 DEF ReplyOK, CallTypes
<1>3. run[r] # NoRun /\ run[r] \in RunType /\ Grows(run[r], run'[r])
  BY <1>2 DEF HandleOK, World, RegistryTypes
<1>4. /\ run[r].tick \in Nat /\ run[r].revision \in Nat
      /\ run'[r].tick \in Nat /\ run'[r].revision \in Nat
  BY <1>3 DEF RunType, Grows
<1>5. request[d].op = "UpdateControls" =>
          /\ v = [state |-> "revision", id |-> r, rev |-> v.rev, at |-> v.at]
          /\ v.rev \in Nat /\ v.rev <= run'[r].revision /\ Honest(run'[r], v.rev, v.at)
  BY <1>1, <1>3, <1>4 DEF ReplyOK, Grows
<1>6. request[d].op \in {"Query", "StartRun"} =>
          /\ {"id", "tick", "revision"} \subseteq DOMAIN v /\ v.id = r
          /\ v.tick \in Nat /\ v.tick <= run'[r].tick
          /\ v.revision \in Nat /\ v.revision <= run'[r].revision
  BY <1>1, <1>3, <1>4 DEF ReplyOK, Grows
<1>7. request[d].op = "FinishRun" => run'[r].state = "finished" /\ v = View(r)'
  BY <1>1, <1>3 DEF ReplyOK, Grows, View
<1> QED
  BY <1>1, <1>2, <1>5, <1>6, <1>7 DEF ReplyOK

LEMMA ReplyRests ==
    ASSUME NEW d \in AllCalls, Rests(d), World, RegistryTypes, CallTypes, HandleOK(d), ReplyOK(d)
    PROVE  ReplyOK(d)'
<1>1. Executed(d)' => Executed(d)
  BY DEF Executed, Rests
<1> QED
  BY <1>1, ReplyStays DEF Rests

LEMMA OrderRests ==
    ASSUME NEW c \in AllCalls, NEW p \in Calls, Rests(c), Rests(p), OrderOK(c, p)
    PROVE  OrderOK(c, p)'
<1>1. (Executed(c)' <=> Executed(c)) /\ (Executed(p)' <=> Executed(p))
  BY DEF Rests, Executed
<1> QED
  BY <1>1 DEF Rests, OrderOK

LEMMA ListRests ==
    ASSUME NEW c \in AllCalls, CallTypes, World, Rests(c), ListOK(c),
           \A p \in since[c] : pc[c] # "idle" => pc[p] = "answered" /\ Rests(p)
    PROVE  ListOK(c)'
<1> SUFFICES ASSUME request[c].op = "ListRuns",
                    pc[c] \in {"listing", "sending", "sent", "answered"}
             PROVE  ListOK(c)'
  BY DEF ListOK, Rests
<1>1. \A i \in 1 .. Len(list[c].left) : list[c].left[i] \in RunIDs
  BY DEF CallTypes
<1>2. LeftOK(c)'
  BY <1>1 DEF ListOK, LeftOK, World, Rests
<1>3. ASSUME ~closed', NEW p \in since'[c], OK(p, "StartRun")'
      PROVE  \/ Has(list'[c].out, handle'[p]) \/ Has(list'[c].left, handle'[p])
             \/ Asking(c)' /\ handle'[c] = handle'[p]
  <2>1. OK(p, "StartRun") /\ handle'[p] = handle[p] /\ ~closed /\ p \in since[c]
    BY <1>3 DEF OK, Answered, Rests, World
  <2> QED
    BY <2>1 DEF ListOK, ListKnows, Rests, Asking
<1>4. Asking(c)' <=> Asking(c)
  BY DEF Asking, Rests
<1> QED
  BY <1>2, <1>3, <1>4 DEF ListOK, ListKnows, Rests

\* A step in which only one call moves, or none. A call that is answered moves only
\* if nothing was issued after it.
LEMMA OneCallMoves ==
    ASSUME ServiceInv, World, NEW c \in AllCalls, c \in Calls => pc[c] # "answered",
           \A d \in AllCalls \ {c} : Rests(d),
           CallOK(c)', \A p \in Calls : OrderOK(c, p)'
    PROVE  CallsOK'
<1>0. CallTypes /\ RegistryTypes /\ Calls \subseteq AllCalls
  BY DEF ServiceInv, Types, AllCalls
<1>1. ASSUME NEW d \in AllCalls, d # c
      PROVE  CallOK(d)' /\ \A p \in Calls : OrderOK(d, p)'
  <2>1. Rests(d) /\ CallOK(d)
    BY <1>1 DEF ServiceInv, CallsOK
  <2>2. ASSUME NEW p \in since[d], pc[d] # "idle" PROVE pc[p] = "answered" /\ Rests(p)
    <3>1. p \in Calls /\ OrderOK(d, p)
      BY DEF ServiceInv, CallsOK, Types, CallTypes
    <3>2. pc[p] = "answered"
      BY <2>2, <3>1 DEF OrderOK
    <3> QED
      BY <1>0, <3>1, <3>2
  <2>3. CallOK(d)'
    BY <1>0, <2>1, <2>2, ShapeRests, HandleRests, AnswerRests, ReplyRests, ListRests DEF CallOK
  <2>4. ASSUME NEW p \in Calls PROVE OrderOK(d, p)'
    <3>1. CASE p # c
      BY <1>0, <2>1, <3>1, OrderRests DEF ServiceInv, CallsOK
    <3>2. CASE p = c
      <4>1. ~(p \in since[d] /\ pc[d] # "idle")
        BY <1>0, <3>2 DEF ServiceInv, CallsOK, OrderOK
      <4> QED
        BY <2>1, <4>1 DEF OrderOK, Rests
    <3> QED
      BY <3>1, <3>2
  <2> QED
    BY <2>3, <2>4
<1> QED
  BY <1>1 DEF CallsOK

LEMMA NoCallMoves ==
    ASSUME ServiceInv, World, UNCHANGED handlers
    PROVE  CallsOK'
<1>0. CallTypes /\ RegistryTypes /\ Calls \subseteq AllCalls
  BY DEF ServiceInv, Types, AllCalls
<1>1. \A d \in AllCalls : Rests(d)
  BY DEF handlers, Rests
<1>2. ASSUME NEW d \in AllCalls PROVE CallOK(d)'
  <2>1. CallOK(d)
    BY DEF ServiceInv, CallsOK
  <2>2. \A p \in since[d] : pc[d] # "idle" => pc[p] = "answered" /\ Rests(p)
    BY <1>0, <1>1 DEF ServiceInv, CallsOK, OrderOK, CallTypes
  <2> QED
    BY <1>0, <1>1, <2>1, <2>2, ShapeRests, HandleRests, AnswerRests, ReplyRests, ListRests
       DEF CallOK
<1>3. \A d \in AllCalls, p \in Calls : OrderOK(d, p)'
  BY <1>0, <1>1, OrderRests DEF ServiceInv, CallsOK
<1> QED
  BY <1>2, <1>3 DEF CallsOK

\* A run that does not move takes nothing back.
LEMMA WorldRests ==
    ASSUME RegistryTypes, UNCHANGED <<registry, run>>
    PROVE  World
<1>1. ASSUME NEW r \in RunIDs, run[r] # NoRun PROVE Grows(run[r], run'[r])
  <2>1. run[r] \in RunType /\ run'[r] = run[r]
    BY <1>1 DEF RegistryTypes
  <2>2. run[r].tick \in Nat /\ run[r].revision \in Nat
    BY <2>1 DEF RunType
  <2> QED
    BY <2>1, <2>2 DEF Grows
<1> QED
  BY <1>1 DEF World, registry

\* The rest of the invariant, in a step of a handler.
LEMMA EngineRests ==
    ASSUME ServiceInv, UNCHANGED <<registry, engine, server>>, faults' \in 0 .. MaxFaults
    PROVE  /\ World /\ RegistryTypes' /\ DaemonTypes' /\ DaemonInv' /\ OrderInv'
           /\ \A r \in RunIDs : RunOK(r)'
<1>1. World
  BY WorldRests DEF ServiceInv, Types, engine
<1>2. RegistryTypes'
  BY DEF ServiceInv, Types, RegistryTypes, registry, engine
<1>3. DaemonTypes'
  BY DEF ServiceInv, Types, DaemonTypes, server
<1>4. DaemonInv'
  BY DEF ServiceInv, DaemonInv, registry, engine, server
<1>5. OrderInv'
  BY DEF ServiceInv, OrderInv, registry
<1>6. \A r \in RunIDs : RunOK(r)'
  BY DEF ServiceInv, RunOK, engine
<1> QED
  BY <1>1, <1>2, <1>3, <1>4, <1>5, <1>6

-----------------------------------------------------------------------------
(* The handlers.                                                           *)

\* A handler that returns: what its answer may say.
LEMMA AnswerKeeps ==
    ASSUME ServiceInv, World, NEW c \in AllCalls, pc[c] \notin {"idle", "answered"},
           request[c].op # "ListRuns", NEW err, NEW value, Answer(c, err, value), UNCHANGED <<handle, reply, list>>,
           toStatus(err) = "OK" => reply[c].err = "nil" /\ value = reply[c].value,
           toStatus(err) \in Refusals =>
               reply[c].err # "nil" /\ (request[c].op = "StartRun" => handle[c] = NoID),
           toStatus(err) = "Unavailable" => closed
    PROVE  CallTypes' /\ CallsOK'
<1>1. CallTypes /\ CallOK(c) /\ Calls \subseteq AllCalls
  BY DEF ServiceInv, Types, CallsOK, AllCalls
<1>2. /\ pc'[c] = "answered"
      /\ answer'[c].code = toStatus(err) /\ answer'[c].value = Sent(value)
      /\ request' = request /\ since' = since
      /\ pc' \in [AllCalls -> {"idle", "called", "spawning", "lookup", "listing", "sending",
                               "sent", "answered"}]
      /\ answer' = [d \in AllCalls |-> answer'[d]]
      /\ \A d \in AllCalls \ {c} : pc'[d] = pc[d] /\ answer'[d] = answer[d]
  BY <1>1 DEF Answer, CallTypes
<1>3. CallTypes'
  BY <1>1, <1>2 DEF CallTypes
<1>4. \A d \in AllCalls \ {c} : Rests(d)
  BY <1>2 DEF Rests
<1>5. toStatus(err) \in Refusals \cup {"OK", "Unavailable"}
  BY DEF toStatus, Refusals
<1>6. Shape(c)' /\ ListOK(c)'
  BY <1>2 DEF Shape, ListOK
<1>7. HandleOK(c)'
  BY <1>1 DEF HandleOK, World, CallTypes, CallOK
<1>8. AnswerOK(c)'
  BY <1>2, <1>5 DEF AnswerOK, Sent, World
<1>9. Executed(c)' => Executed(c)
  BY <1>1, <1>2 DEF Executed, CallOK, Shape, NoReply, CallTypes
<1>10. ReplyOK(c)'
  <2>1. RegistryTypes /\ ReplyOK(c) /\ HandleOK(c)
    BY <1>1 DEF CallOK, ServiceInv, Types
  <2> QED
    BY <1>1, <1>2, <1>9, <2>1, ReplyStays
<1>11. ASSUME NEW p \in Calls PROVE OrderOK(c, p)'
  <2>1. OrderOK(c, p)
    BY DEF ServiceInv, CallsOK
  <2>2. CASE p \in since[c] /\ pc[c] # "idle"
    <3>1. p # c /\ pc[p] = "answered"
      BY <2>1, <2>2 DEF OrderOK
    <3>2. Rests(p)
      BY <1>1, <1>4, <3>1
    <3>3. Executed(p)' <=> Executed(p)
      BY <3>2 DEF Executed, Rests
    <3> QED
      BY <1>2, <1>9, <2>1, <2>2, <3>1, <3>2, <3>3 DEF OrderOK, Rests
  <2> QED
    BY <1>2, <2>1, <2>2 DEF OrderOK
<1> QED
  BY <1>3, <1>4, <1>6, <1>7, <1>8, <1>10, <1>11, OneCallMoves DEF CallOK

\* A handler that goes on: its place among the calls before it.
LEMMA OrderMoves ==
    ASSUME ServiceInv, NEW c \in AllCalls, pc[c] \notin {"idle", "answered"},
           since'[c] = since[c], ~Executed(c)', \A d \in AllCalls \ {c} : Rests(d),
           NEW p \in Calls
    PROVE  OrderOK(c, p)'
<1>1. OrderOK(c, p) /\ p \in AllCalls
  BY DEF ServiceInv, CallsOK, AllCalls
<1>2. p \in since[c] => pc[p] = "answered" /\ p # c
  BY <1>1 DEF OrderOK
<1> QED
  BY <1>1, <1>2 DEF OrderOK, Rests

LEMMA StartRefusedKeeps ==
    ASSUME ServiceInv, NEW c \in AllCalls, StartRefused(c)
    PROVE  ServiceInv'
<1>1. /\ pc[c] = "called" /\ request[c].op = "StartRun"
      /\ UNCHANGED <<registry, engine, server>>
  BY DEF StartRefused, Called
<1>2. reply[c] = NoReply /\ handle[c] = NoID
  BY <1>1 DEF ServiceInv, CallsOK, CallOK, Shape
<1>3. PICK err \in {"invalidRequest", "ErrRegistryDown", "ErrRunExists", "ErrRunHasHistory",
                    "ErrCorruptLog", "ioError"} :
        Refuse(c, err) /\ (err = "ErrRegistryDown" => closed)
  BY DEF StartRefused
<1>4. faults' \in 0 .. MaxFaults
  <2>1. faults' = faults \/ (faults < MaxFaults /\ faults' = faults + 1)
    BY DEF StartRefused
  <2>2. faults \in 0 .. MaxFaults
    BY DEF ServiceInv, Types, DaemonTypes
  <2> QED
    BY <2>1, <2>2, ServiceBoundsAssumption
<1>5. toStatus(err) # "OK" /\ (toStatus(err) = "Unavailable" => err = "ErrRegistryDown")
  BY <1>3 DEF toStatus
<1>6. World
  BY <1>1, <1>4, EngineRests
<1>7. Answer(c, err, NoRun) /\ UNCHANGED <<handle, reply, list>> /\ reply[c].err # "nil"
  BY <1>2, <1>3 DEF Refuse, NoReply
<1> HIDE DEF toStatus
<1>8. CallTypes' /\ CallsOK'
  BY <1>1, <1>2, <1>3, <1>5, <1>6, <1>7, AnswerKeeps
<1> QED
  BY <1>1, <1>4, <1>8, EngineRests DEF ServiceInv, Types

LEMMA NilControlsKeeps ==
    ASSUME ServiceInv, NEW c \in AllCalls, NilControls(c)
    PROVE  ServiceInv'
<1>1. /\ pc[c] = "called" /\ request[c].op = "UpdateControls"
      /\ UNCHANGED <<registry, engine, server>> /\ faults' = faults
      /\ Refuse(c, "controlsRequired")
  BY DEF NilControls, Called
<1>2. reply[c] = NoReply
  BY <1>1 DEF ServiceInv, CallsOK, CallOK, Shape
<1>3. faults' \in 0 .. MaxFaults
  BY <1>1 DEF ServiceInv, Types, DaemonTypes
<1>4. toStatus("controlsRequired") = "InvalidArgument"
  BY DEF toStatus
<1>5. World
  BY <1>1, <1>3, EngineRests
<1>6. /\ Answer(c, "controlsRequired", NoRun)
      /\ UNCHANGED <<handle, reply, list>> /\ reply[c].err # "nil"
  BY <1>1, <1>2 DEF Refuse, NoReply
<1>7. CallTypes' /\ CallsOK'
  BY <1>1, <1>4, <1>5, <1>6, AnswerKeeps
<1> QED
  BY <1>1, <1>3, <1>7, EngineRests DEF ServiceInv, Types

LEMMA LookupKeeps ==
    ASSUME ServiceInv, NEW c \in AllCalls, Lookup(c)
    PROVE  ServiceInv'
<1> DEFINE id == IF pc[c] = "lookup" THEN handle[c] ELSE request[c].id
<1>1. /\ pc[c] \in {"lookup", "called"} /\ (pc[c] = "called" => request[c].op # "StartRun")
      /\ pc[c] = "called" => request[c].op # "ListRuns"
      /\ UNCHANGED <<registry, engine, server>> /\ faults' = faults
  BY DEF Lookup
<1>2. /\ reply[c] = NoReply /\ request[c].op # "ListRuns"
      /\ pc[c] = "lookup" => handle[c] # NoID
  BY <1>1 DEF ServiceInv, CallsOK, CallOK, Shape
<1>3. faults' \in 0 .. MaxFaults
  BY <1>1 DEF ServiceInv, Types, DaemonTypes
<1>4. World
  BY <1>1, <1>3, EngineRests
<1>5. CASE Found(id) # "nil" /\ Refuse(c, Found(id))
  <2>1. Found(id) \in {"ErrRegistryDown", "ErrRunNotFound"}
    BY <1>5 DEF Found
  <2>2. /\ toStatus(Found(id)) # "OK"
        /\ toStatus(Found(id)) = "Unavailable" => Found(id) = "ErrRegistryDown"
    BY <2>1 DEF toStatus
  <2>3. Found(id) = "ErrRegistryDown" => closed
    BY DEF Found
  <2>4. pc[c] = "lookup" => Found(id) = "ErrRegistryDown"
    BY <1>2, <1>5 DEF ServiceInv, CallsOK, CallOK, HandleOK, Found
  <2>5. toStatus("ErrRegistryDown") = "Unavailable"
    BY DEF toStatus
  <2>6. toStatus(Found(id)) \in Refusals => request[c].op # "StartRun"
    BY <1>1, <2>4, <2>5 DEF Refusals
  <2>7. CallTypes' /\ CallsOK'
    BY <1>1, <1>2, <1>4, <1>5, <2>2, <2>3, <2>6, AnswerKeeps DEF Refuse, NoReply
  <2> QED
    BY <1>1, <1>3, <2>7, EngineRests DEF ServiceInv, Types
<1>6. CASE /\ Found(id) = "nil"
           /\ handle' = [handle EXCEPT ![c] = id]
           /\ pc' = [pc EXCEPT ![c] = "sending"]
           /\ UNCHANGED <<request, reply, answer, list, since>>
  <2>1. id \in runs
    BY <1>6 DEF Found
  <2>2. id \in RunIDs /\ run[id] # NoRun /\ id # NoID
    BY <2>1, RequestAssumption DEF ServiceInv, Types, RegistryTypes, DaemonInv
  <2>3. CallTypes'
    BY <1>6, <2>2 DEF ServiceInv, Types, CallTypes
  <2>4. pc'[c] = "sending" /\ handle'[c] = id /\ \A d \in AllCalls \ {c} : Rests(d)
    BY <1>6 DEF ServiceInv, Types, CallTypes, Rests
  <2>5. CallOK(c)'
    BY <1>1, <1>2, <1>6, <2>1, <2>2, <2>4
       DEF CallOK, Shape, HandleOK, AnswerOK, ReplyOK, Executed, ListOK, registry, engine
  <2>6. \A p \in Calls : OrderOK(c, p)'
    BY <1>1, <1>6, <2>4, OrderMoves DEF Executed
  <2>7. CallsOK'
    BY <1>1, <1>4, <2>4, <2>5, <2>6, OneCallMoves
  <2> QED
    BY <1>1, <1>3, <2>3, <2>7, EngineRests DEF ServiceInv, Types
<1> QED
  BY <1>5, <1>6 DEF Lookup

\* A sequence loses its head.
LEMMA SeqTail ==
    ASSUME NEW S, NEW s \in Seq(S), s # <<>>
    PROVE  /\ Tail(s) \in Seq(S) /\ Head(s) \in S /\ Head(s) = s[1] /\ Len(s) \in Nat
           /\ Len(s) >= 1 /\ Len(Tail(s)) = Len(s) - 1
           /\ \A i \in 1 .. Len(s) - 1 : Tail(s)[i] = s[i + 1]
OBVIOUS

\* A sequence without elements keeps nothing apart.
LEMMA NoneListed ==
    ASSUME NEW s
    PROVE  Distinct(<<>>) /\ Apart(<<>>, s) /\ Apart(s, <<>>) /\ \A x : ~Has(<<>>, x)
BY DEF Distinct, Apart, Has

\* ListRuns takes the next of the runs it has left.
LEMMA TailListed ==
    ASSUME NEW S, NEW s \in Seq(S), s # <<>>, Distinct(s)
    PROVE  /\ Distinct(Tail(s)) /\ ~Has(Tail(s), Head(s)) /\ Has(s, Head(s))
           /\ \A x : Has(Tail(s), x) => Has(s, x)
           /\ \A x : Has(s, x) => x = Head(s) \/ Has(Tail(s), x)
<1>1. /\ Head(s) = s[1] /\ Len(s) \in Nat
      /\ Len(s) >= 1 /\ Len(Tail(s)) = Len(s) - 1
      /\ \A i \in 1 .. Len(s) - 1 : Tail(s)[i] = s[i + 1]
  BY SeqTail
<1>2. Distinct(Tail(s))
  <2> SUFFICES ASSUME NEW i \in 1 .. Len(Tail(s)), NEW j \in 1 .. Len(Tail(s)),
                      Tail(s)[i] = Tail(s)[j]
               PROVE  i = j
    BY DEF Distinct
  <2>1. i + 1 \in 1 .. Len(s) /\ j + 1 \in 1 .. Len(s) /\ s[i + 1] = s[j + 1]
    BY <1>1
  <2>2. i + 1 = j + 1
    BY <2>1 DEF Distinct
  <2> QED
    BY <1>1, <2>2
<1>3. ~Has(Tail(s), Head(s))
  <2> SUFFICES ASSUME NEW i \in 1 .. Len(Tail(s)), Tail(s)[i] = s[1] PROVE FALSE
    BY <1>1 DEF Has
  <2>1. i + 1 \in 1 .. Len(s) /\ 1 \in 1 .. Len(s) /\ s[i + 1] = s[1]
    BY <1>1
  <2>2. i + 1 = 1
    BY <2>1 DEF Distinct
  <2> QED
    BY <1>1, <2>2
<1>4. Has(s, Head(s))
  BY <1>1 DEF Has
<1>5. ASSUME NEW x, Has(Tail(s), x) PROVE Has(s, x)
  <2>1. PICK i \in 1 .. Len(Tail(s)) : Tail(s)[i] = x
    BY <1>5 DEF Has
  <2>2. i + 1 \in 1 .. Len(s) /\ s[i + 1] = x
    BY <1>1, <2>1
  <2> QED
    BY <2>2 DEF Has
<1>6. ASSUME NEW x, Has(s, x), x # Head(s) PROVE Has(Tail(s), x)
  <2>1. PICK i \in 1 .. Len(s) : s[i] = x
    BY <1>6 DEF Has
  <2>2. i # 1
    BY <1>1, <1>6, <2>1
  <2>3. i - 1 \in 1 .. Len(s) - 1 /\ i = (i - 1) + 1
    BY <1>1, <2>1, <2>2
  <2>4. Tail(s)[i - 1] = x
    BY <1>1, <2>1, <2>3
  <2> QED
    BY <1>1, <2>3, <2>4 DEF Has
<1> QED
  BY <1>2, <1>3, <1>4, <1>5, <1>6

\* ListRuns lists a run that answered.
LEMMA AppendListed ==
    ASSUME NEW S, NEW s \in Seq(S), NEW x \in S, Distinct(s), ~Has(s, x)
    PROVE  /\ Distinct(Append(s, x)) /\ Append(s, x) \in Seq(S)
           /\ \A y : Has(Append(s, x), y) <=> Has(s, y) \/ y = x
<1> DEFINE t == Append(s, x)
<1>1. /\ t \in Seq(S) /\ Len(s) \in Nat /\ Len(t) = Len(s) + 1 /\ t[Len(s) + 1] = x
      /\ \A i \in 1 .. Len(s) : t[i] = s[i]
  OBVIOUS
<1> HIDE DEF t
<1>2. \A i \in 1 .. Len(t) : i \in 1 .. Len(s) \/ i = Len(s) + 1
  BY <1>1
<1>3. Distinct(t)
  BY <1>1, <1>2 DEF Distinct, Has
<1>4. ASSUME NEW y PROVE Has(t, y) <=> Has(s, y) \/ y = x
  <2>1. Has(t, y) => Has(s, y) \/ y = x
    BY <1>1, <1>2 DEF Has
  <2>2. Has(s, y) => Has(t, y)
    <3> SUFFICES ASSUME NEW i \in 1 .. Len(s), s[i] = y PROVE Has(t, y)
      BY DEF Has
    <3>1. i \in 1 .. Len(t)
      BY <1>1
    <3> QED
      BY <1>1, <3>1 DEF Has
  <2>3. Has(t, x)
    <3>1. Len(s) + 1 \in 1 .. Len(t)
      BY <1>1
    <3> QED
      BY <1>1, <3>1 DEF Has
  <2> QED
    BY <2>1, <2>2, <2>3
<1> QED
  BY <1>1, <1>3, <1>4 DEF t

LEMMA ListRunsKeeps ==
    ASSUME ServiceInv, NEW c \in AllCalls, ListRuns(c)
    PROVE  ServiceInv'
<1>1. /\ pc[c] = "called" /\ request[c].op = "ListRuns"
      /\ UNCHANGED <<registry, engine, server>> /\ faults' = faults
      /\ UNCHANGED <<request, handle, reply, answer, since>>
      /\ list' = [list EXCEPT ![c] = [left |-> order, out |-> <<>>]]
      /\ pc' = [pc EXCEPT ![c] = "listing"]
  BY DEF ListRuns, Called
<1>2. faults' \in 0 .. MaxFaults
  BY <1>1 DEF ServiceInv, Types, DaemonTypes
<1>3. World
  BY <1>1, <1>2, EngineRests
<1>4. CallTypes /\ order \in Seq(RunIDs) /\ CallOK(c)
  BY DEF ServiceInv, Types, RegistryTypes, CallsOK
<1>5. /\ pc'[c] = "listing" /\ list'[c].left = order /\ list'[c].out = <<>>
      /\ \A d \in AllCalls \ {c} : Rests(d)
  BY <1>1, <1>4 DEF CallTypes, Rests
<1>6. CallTypes'
  <2>1. [left |-> order, out |-> <<>>] \in [left : Seq(RunIDs), out : Seq(RunIDs)]
    BY <1>4
  <2> QED
    BY <1>1, <1>4, <2>1 DEF CallTypes
<1>7. ListKnows(c)'
  <2> SUFFICES ASSUME ~closed, NEW p \in since[c], OK(p, "StartRun")' PROVE Has(order, handle'[p])
    BY <1>1, <1>5 DEF ListKnows, registry
  <2>1. OrderOK(c, p) /\ p \in Calls /\ p \in AllCalls
    BY <1>4 DEF ServiceInv, CallsOK, CallTypes, AllCalls
  <2>2. p # c /\ pc[p] = "answered"
    BY <1>1, <2>1 DEF OrderOK
  <2>3. OK(p, "StartRun") /\ handle'[p] = handle[p] /\ CallOK(p)
    BY <1>5, <2>1, <2>2 DEF OK, Answered, Rests, ServiceInv, CallsOK
  <2>4. Executed(p)
    BY <2>2, <2>3 DEF OK, Answered, CallOK, AnswerOK, Executed
  <2>5. handle[p] \in runs
    BY <2>3, <2>4 DEF CallOK, ReplyOK, HandleOK
  <2> QED
    BY <2>3, <2>5 DEF ServiceInv, OrderInv, Has
<1>8. LeftOK(c)'
  <2> SUFFICES ASSUME NEW i \in 1 .. Len(order) PROVE run[order[i]] # NoRun /\ order[i] \in runs
    BY <1>1, <1>5 DEF LeftOK, registry, engine
  <2>1. order[i] \in runs
    BY DEF ServiceInv, OrderInv
  <2> QED
    BY <2>1 DEF ServiceInv, DaemonInv
<1>9. Distinct(order)
  BY DEF ServiceInv, OrderInv, Distinct
<1>10. CallOK(c)'
  <2>1. ListOK(c)'
    BY <1>1, <1>5, <1>7, <1>8, <1>9, NoneListed DEF ListOK, Asking
  <2>2. HandleOK(c)'
    BY <1>1, <1>4 DEF CallOK, HandleOK, registry, engine
  <2> QED
    BY <1>1, <1>5, <2>1, <2>2 DEF CallOK, Shape, AnswerOK, ReplyOK, Executed
<1>11. \A p \in Calls : OrderOK(c, p)'
  BY <1>1, <1>5, OrderMoves DEF Executed
<1>12. CallsOK'
  BY <1>1, <1>3, <1>5, <1>10, <1>11, OneCallMoves
<1> QED
  BY <1>1, <1>2, <1>6, <1>12, EngineRests DEF ServiceInv, Types

\* The list is sent as it is.
LEMMA SentList ==
    ASSUME NEW ids
    PROVE  Sent([state |-> "list", ids |-> ids]) = [state |-> "list", ids |-> ids]
BY DEF Sent

\* ListRuns asks the next run.
LEMMA ListAsksKeeps ==
    ASSUME ServiceInv, NEW c \in AllCalls, pc[c] = "listing", list[c].left # <<>>,
           UNCHANGED <<registry, engine, server, faults>>,
           handle' = [handle EXCEPT ![c] = Head(list[c].left)],
           list' = [list EXCEPT ![c].left = Tail(@)],
           pc' = [pc EXCEPT ![c] = "sending"],
           UNCHANGED <<request, reply, answer, since>>
    PROVE  ServiceInv'
<1> DEFINE out == list[c].out
           left == list[c].left
<1>1. CallTypes /\ CallOK(c)
  BY DEF ServiceInv, Types, CallsOK
<1>2. request[c].op = "ListRuns" /\ out \in Seq(RunIDs) /\ left \in Seq(RunIDs)
  BY <1>1 DEF CallOK, Shape, CallTypes
<1>3. Distinct(out) /\ Distinct(left) /\ Apart(out, left) /\ LeftOK(c) /\ ListKnows(c)
  BY <1>1, <1>2 DEF CallOK, ListOK
<1>4. /\ Head(left) \in RunIDs /\ Tail(left) \in Seq(RunIDs)
      /\ Head(left) = left[1] /\ 1 \in 1 .. Len(left) /\ Len(left) \in Nat
      /\ Len(Tail(left)) = Len(left) - 1
      /\ \A i \in 1 .. Len(left) - 1 : Tail(left)[i] = left[i + 1]
  BY <1>2, SeqTail
<1>5. /\ Distinct(Tail(left)) /\ ~Has(Tail(left), Head(left)) /\ Has(left, Head(left))
      /\ \A x : Has(Tail(left), x) => Has(left, x)
      /\ \A x : Has(left, x) => x = Head(left) \/ Has(Tail(left), x)
  BY <1>2, <1>3, TailListed
<1>6. /\ pc'[c] = "sending" /\ list'[c].left = Tail(left) /\ list'[c].out = out
      /\ handle'[c] = Head(left) /\ \A d \in AllCalls \ {c} : Rests(d)
  BY <1>1 DEF CallTypes, Rests
<1>7. CallTypes'
  <2>1. list' \in [AllCalls -> [left : Seq(RunIDs), out : Seq(RunIDs)]]
    BY <1>1, <1>4 DEF CallTypes
  <2>2. /\ handle' \in [AllCalls -> RunIDs \cup {NoID}]
        /\ pc' \in [AllCalls -> {"idle", "called", "spawning", "lookup", "listing", "sending",
                                 "sent", "answered"}]
    BY <1>1, <1>4 DEF CallTypes
  <2> QED
    BY <1>1, <2>1, <2>2 DEF CallTypes
<1>8. World /\ faults' \in 0 .. MaxFaults
  BY WorldRests DEF ServiceInv, Types, DaemonTypes, engine
<1>9. Head(left) # NoID /\ run[Head(left)] # NoRun /\ (closed \/ Head(left) \in runs)
  BY <1>3, <1>4, RequestAssumption DEF LeftOK
<1>10. LeftOK(c)'
  <2>1. ASSUME NEW i \in 1 .. Len(Tail(left))
        PROVE  run[Tail(left)[i]] # NoRun /\ (closed \/ Tail(left)[i] \in runs)
    <3>1. i + 1 \in 1 .. Len(left) /\ Tail(left)[i] = left[i + 1]
      BY <1>4
    <3> QED
      BY <1>3, <3>1 DEF LeftOK
  <2>2. run' = run /\ runs' = runs /\ closed' = closed
    BY DEF registry, engine
  <2> DEFINE rest == Tail(left)
  <2> HIDE DEF left, rest
  <2>3. list'[c].left = rest
    BY <1>6 DEF rest
  <2>4. \A i \in 1 .. Len(rest) : run[rest[i]] # NoRun /\ (closed \/ rest[i] \in runs)
    BY <2>1 DEF rest
  <2> QED
    BY <2>2, <2>3, <2>4 DEF LeftOK
<1>11. ListKnows(c)'
  <2> SUFFICES ASSUME ~closed, NEW p \in since[c], OK(p, "StartRun")'
               PROVE  Has(out, handle'[p]) \/ Has(Tail(left), handle'[p]) \/ Head(left) = handle'[p]
    BY <1>6 DEF ListKnows, Asking, registry
  <2>1. OrderOK(c, p) /\ p \in AllCalls
    BY <1>1 DEF ServiceInv, CallsOK, CallTypes, AllCalls
  <2>2. p # c
    BY <2>1 DEF OrderOK
  <2>3. OK(p, "StartRun") /\ handle'[p] = handle[p]
    BY <1>6, <2>1, <2>2 DEF OK, Answered, Rests
  <2> QED
    BY <1>3, <1>5, <2>3 DEF ListKnows, Asking
<1>12. Apart(out, Tail(left)) /\ ~Has(out, Head(left))
  BY <1>3, <1>5 DEF Apart, Has
<1>13. CallOK(c)'
  <2>1. ListOK(c)'
    BY <1>2, <1>3, <1>5, <1>6, <1>10, <1>11, <1>12 DEF ListOK
  <2>2. HandleOK(c)'
    BY <1>6, <1>9 DEF HandleOK, registry, engine
  <2> QED
    BY <1>2, <1>6, <1>9, <2>1, <2>2 DEF CallOK, Shape, AnswerOK, ReplyOK, Executed
<1>14. \A p \in Calls : OrderOK(c, p)'
  BY <1>6, OrderMoves DEF Executed
<1>15. CallsOK'
  BY <1>6, <1>8, <1>13, <1>14, OneCallMoves
<1> QED
  BY <1>7, <1>8, <1>15, EngineRests DEF ServiceInv, Types

\* ListRuns has asked every run, and answers.
LEMMA ListEndsKeeps ==
    ASSUME ServiceInv, NEW c \in AllCalls, pc[c] = "listing", list[c].left = <<>>,
           UNCHANGED <<registry, engine, server, faults>>,
           Answer(c, "nil", [state |-> "list", ids |-> list[c].out]),
           UNCHANGED <<handle, reply, list>>
    PROVE  ServiceInv'
<1>1. CallTypes /\ CallOK(c)
  BY DEF ServiceInv, Types, CallsOK
<1>2. request[c].op = "ListRuns" /\ toStatus("nil") = "OK"
  BY <1>1 DEF CallOK, Shape, toStatus
<1>3. /\ pc'[c] = "answered" /\ answer'[c].code = "OK"
      /\ answer'[c].value = [state |-> "list", ids |-> list[c].out]
      /\ UNCHANGED <<request, since>> /\ \A d \in AllCalls \ {c} : Rests(d)
  BY <1>1, <1>2, SentList DEF Answer, CallTypes, Rests
<1>4. CallTypes'
  BY <1>1 DEF CallTypes, Answer
<1>5. World /\ faults' \in 0 .. MaxFaults
  BY WorldRests DEF ServiceInv, Types, DaemonTypes, engine
<1>6. ListOK(c)
  BY <1>1 DEF CallOK
<1>7. ListKnows(c)'
  <2> SUFFICES ASSUME ~closed, NEW p \in since[c], OK(p, "StartRun")'
               PROVE  Has(list[c].out, handle[p]) \/ Has(list[c].left, handle[p])
    BY <1>3 DEF ListKnows, registry
  <2>1. OrderOK(c, p) /\ p \in AllCalls
    BY <1>1 DEF ServiceInv, CallsOK, CallTypes, AllCalls
  <2>2. p # c
    BY <2>1 DEF OrderOK
  <2>3. OK(p, "StartRun")
    BY <1>3, <2>1, <2>2 DEF OK, Answered, Rests
  <2> QED
    BY <1>2, <1>6, <2>3 DEF ListOK, ListKnows, Asking
<1>8. LeftOK(c)'
  BY <1>2, <1>6 DEF ListOK, LeftOK, registry, engine
<1>9. CallOK(c)'
  <2>1. ListOK(c)'
    BY <1>2, <1>3, <1>6, <1>7, <1>8 DEF ListOK, Asking
  <2>2. HandleOK(c)'
    BY <1>1 DEF CallOK, HandleOK, registry, engine
  <2> QED
    BY <1>2, <1>3, <2>1, <2>2 DEF CallOK, Shape, AnswerOK, ReplyOK, Executed, Refusals
<1>10. \A p \in Calls : OrderOK(c, p)'
  BY <1>2, <1>3, OrderMoves DEF Executed
<1>11. CallsOK'
  BY <1>3, <1>5, <1>9, <1>10, OneCallMoves
<1> QED
  BY <1>4, <1>5, <1>11, EngineRests DEF ServiceInv, Types

\* A run answered ListRuns.
LEMMA ListAddsKeeps ==
    ASSUME ServiceInv, NEW c \in AllCalls, pc[c] = "sent", request[c].op = "ListRuns",
           UNCHANGED <<registry, engine, handle, reply, server, faults>>,
           list' = [list EXCEPT ![c].out = Append(@, handle[c])],
           pc' = [pc EXCEPT ![c] = "listing"],
           UNCHANGED <<request, answer, since>>
    PROVE  ServiceInv'
<1> DEFINE out == list[c].out
           left == list[c].left
<1>1. CallTypes /\ CallOK(c)
  BY DEF ServiceInv, Types, CallsOK
<1>2. out \in Seq(RunIDs) /\ left \in Seq(RunIDs) /\ handle[c] \in RunIDs
  BY <1>1 DEF CallOK, Shape, CallTypes
<1>3. /\ Distinct(out) /\ Distinct(left) /\ Apart(out, left) /\ LeftOK(c) /\ ListKnows(c)
      /\ ~Has(out, handle[c]) /\ ~Has(left, handle[c])
  BY <1>1 DEF CallOK, ListOK, Asking
<1>4. /\ Distinct(Append(out, handle[c])) /\ Append(out, handle[c]) \in Seq(RunIDs)
      /\ \A y : Has(Append(out, handle[c]), y) <=> Has(out, y) \/ y = handle[c]
  BY <1>2, <1>3, AppendListed
<1>5. /\ pc'[c] = "listing" /\ list'[c].left = left /\ list'[c].out = Append(out, handle[c])
      /\ \A d \in AllCalls \ {c} : Rests(d)
  BY <1>1 DEF CallTypes, Rests
<1>6. CallTypes'
  <2>1. list' \in [AllCalls -> [left : Seq(RunIDs), out : Seq(RunIDs)]]
    BY <1>1, <1>4 DEF CallTypes
  <2> QED
    BY <1>1, <2>1 DEF CallTypes
<1>7. World /\ faults' \in 0 .. MaxFaults
  BY WorldRests DEF ServiceInv, Types, DaemonTypes, engine
<1>8. Apart(Append(out, handle[c]), left)
  <2> SUFFICES ASSUME NEW i \in 1 .. Len(Append(out, handle[c]))
               PROVE  ~Has(left, Append(out, handle[c])[i])
    BY DEF Apart
  <2>1. Has(Append(out, handle[c]), Append(out, handle[c])[i])
    BY DEF Has
  <2>2. \A y : Has(out, y) => ~Has(left, y)
    BY <1>3 DEF Apart, Has
  <2> QED
    BY <1>3, <1>4, <2>1, <2>2
<1>9. LeftOK(c)'
  BY <1>3, <1>5 DEF LeftOK, registry, engine
<1>10. ListKnows(c)'
  <2> SUFFICES ASSUME ~closed, NEW p \in since[c], OK(p, "StartRun")'
               PROVE  Has(Append(out, handle[c]), handle[p]) \/ Has(left, handle[p])
    BY <1>5 DEF ListKnows, registry
  <2>1. OrderOK(c, p) /\ p \in AllCalls
    BY <1>1 DEF ServiceInv, CallsOK, CallTypes, AllCalls
  <2>2. p # c
    BY <2>1 DEF OrderOK
  <2>3. OK(p, "StartRun")
    BY <1>5, <2>1, <2>2 DEF OK, Answered, Rests
  <2> QED
    BY <1>3, <1>4, <2>3 DEF ListKnows
<1>11. CallOK(c)'
  <2>1. ListOK(c)'
    BY <1>3, <1>4, <1>5, <1>8, <1>9, <1>10 DEF ListOK, Asking
  <2>2. HandleOK(c)'
    BY <1>1 DEF CallOK, HandleOK, registry, engine
  <2> QED
    BY <1>5, <2>1, <2>2 DEF CallOK, Shape, AnswerOK, ReplyOK, Executed
<1>12. \A p \in Calls : OrderOK(c, p)'
  BY <1>5, OrderMoves DEF Executed
<1>13. CallsOK'
  BY <1>5, <1>7, <1>11, <1>12, OneCallMoves
<1> QED
  BY <1>6, <1>7, <1>13, EngineRests DEF ServiceInv, Types

LEMMA ListNextKeeps ==
    ASSUME ServiceInv, NEW c \in AllCalls, ListNext(c)
    PROVE  ServiceInv'
<1>1. CASE list[c].left # <<>>
  BY <1>1, ListAsksKeeps DEF ListNext
<1>2. CASE list[c].left = <<>>
  BY <1>2, ListEndsKeeps DEF ListNext
<1> QED
  BY <1>1, <1>2

LEMMA DoReturnsKeeps ==
    ASSUME ServiceInv, NEW c \in AllCalls, DoReturns(c)
    PROVE  ServiceInv'
<1>1. CASE request[c].op = "ListRuns"
  BY <1>1, ListAddsKeeps DEF DoReturns
<1>2. CASE request[c].op # "ListRuns"
  <2>1. /\ pc[c] = "sent" /\ Answer(c, reply[c].err, reply[c].value)
        /\ UNCHANGED <<handle, reply, list>>
        /\ UNCHANGED <<registry, engine, server>> /\ faults' = faults
    BY <1>2 DEF DoReturns
  <2>2. /\ reply[c].err \in {"nil", "ErrRunFinished", "ErrInvalidControls"}
        /\ request[c].op = "StartRun" => reply[c].err = "nil"
    BY <1>2, <2>1 DEF ServiceInv, CallsOK, CallOK, Shape
  <2>3. faults' \in 0 .. MaxFaults
    BY <2>1 DEF ServiceInv, Types, DaemonTypes
  <2>4. World
    BY <2>1, <2>3, EngineRests
  <2>5. /\ toStatus(reply[c].err) = "OK" <=> reply[c].err = "nil"
        /\ toStatus(reply[c].err) # "Unavailable"
    BY <2>2 DEF toStatus
  <2>6. toStatus(reply[c].err) \in Refusals => reply[c].err # "nil"
    BY <2>5 DEF Refusals
  <2>7. CallTypes' /\ CallsOK'
    BY <1>2, <2>1, <2>2, <2>4, <2>5, <2>6, AnswerKeeps
  <2> QED
    BY <2>1, <2>3, <2>7, EngineRests DEF ServiceInv, Types
<1> QED
  BY <1>1, <1>2

LEMMA DoFailsKeeps ==
    ASSUME ServiceInv, NEW c \in AllCalls, DoFails(c)
    PROVE  ServiceInv'
<1>1. /\ pc[c] \in {"sending", "sent"} /\ loop[handle[c]] = "done"
      /\ UNCHANGED <<registry, engine, server>> /\ faults' = faults
  BY DEF DoFails
<1>2. CallTypes /\ CallOK(c)
  BY DEF ServiceInv, Types, CallsOK
<1>3. handle[c] # NoID /\ handle[c] \in RunIDs
  BY <1>1, <1>2 DEF CallOK, Shape, CallTypes
<1>4. closed
  BY <1>1, <1>3 DEF ServiceInv, DaemonInv
<1>5. faults' \in 0 .. MaxFaults
  BY <1>1 DEF ServiceInv, Types, DaemonTypes
<1>6. World
  BY <1>1, <1>5, EngineRests
<1>7. CASE request[c].op = "ListRuns"
  <2>1. /\ pc' = [pc EXCEPT ![c] = "listing"]
        /\ UNCHANGED <<request, handle, reply, answer, list, since>>
    BY <1>7 DEF DoFails
  <2>2. pc'[c] = "listing" /\ \A d \in AllCalls \ {c} : Rests(d)
    BY <1>2, <2>1 DEF CallTypes, Rests
  <2>3. CallTypes'
    BY <1>2, <2>1 DEF CallTypes
  <2>4. closed' /\ ListOK(c)
    BY <1>1, <1>2, <1>4 DEF registry, CallOK
  <2>5. LeftOK(c)'
    BY <1>1, <1>7, <2>1, <2>4 DEF ListOK, LeftOK, registry, engine
  <2>6. ListOK(c)'
    BY <1>1, <1>7, <2>1, <2>2, <2>4, <2>5 DEF ListOK, ListKnows, Asking
  <2>7. HandleOK(c)'
    BY <1>1, <1>2, <2>1 DEF CallOK, HandleOK, registry, engine
  <2>8. CallOK(c)'
    BY <1>7, <2>1, <2>2, <2>6, <2>7 DEF CallOK, Shape, AnswerOK, ReplyOK, Executed
  <2>9. \A p \in Calls : OrderOK(c, p)'
    BY <1>1, <2>1, <2>2, OrderMoves DEF Executed
  <2>10. CallsOK'
    BY <1>1, <1>6, <2>2, <2>8, <2>9, OneCallMoves
  <2> QED
    BY <1>1, <1>5, <2>3, <2>10, EngineRests DEF ServiceInv, Types
<1>8. CASE request[c].op # "ListRuns"
  <2>1. Answer(c, "ErrRunClosed", NoRun) /\ UNCHANGED <<handle, reply, list>>
    BY <1>8 DEF DoFails, Refuse
  <2>2. toStatus("ErrRunClosed") = "Unavailable" /\ "Unavailable" \notin Refusals
    BY DEF toStatus, Refusals
  <2>3. CallTypes' /\ CallsOK'
    BY <1>1, <1>4, <1>6, <1>8, <2>1, <2>2, AnswerKeeps
  <2> QED
    BY <1>1, <1>5, <2>3, EngineRests DEF ServiceInv, Types
<1> QED
  BY <1>7, <1>8

LEMMA SpawnKeeps ==
    ASSUME ServiceInv, NEW c \in AllCalls, Spawn(c)
    PROVE  ServiceInv'
<1>1. /\ pc[c] = "spawning" /\ loop' = [loop EXCEPT ![handle[c]] = "select"]
      /\ pc' = [pc EXCEPT ![c] = "lookup"]
      /\ UNCHANGED <<registry, run, quit, pendingByRun, server>> /\ faults' = faults
      /\ UNCHANGED <<request, handle, reply, answer, list, since>>
  BY DEF Spawn
<1>2. CallTypes /\ CallOK(c) /\ RegistryTypes
  BY DEF ServiceInv, Types, CallsOK
<1>3. /\ request[c].op = "StartRun" /\ reply[c] = NoReply
      /\ handle[c] # NoID /\ handle[c] \in RunIDs /\ run[handle[c]] # NoRun
  BY <1>1, <1>2 DEF CallOK, Shape, CallTypes, HandleOK
<1>4. World
  BY <1>1, <1>2, WorldRests
<1>5. RegistryTypes' /\ DaemonTypes'
  BY <1>1, <1>2 DEF RegistryTypes, ServiceInv, Types, DaemonTypes, registry, server
<1>6. DaemonInv'
  BY <1>1, <1>2 DEF ServiceInv, DaemonInv, RegistryTypes, registry, server
<1>7. OrderInv'
  BY <1>1 DEF ServiceInv, OrderInv, registry
<1>8. \A r \in RunIDs : RunOK(r)'
  BY <1>1, <1>2, <1>3 DEF ServiceInv, RunOK, RegistryTypes
<1>9. pc'[c] = "lookup" /\ \A d \in AllCalls \ {c} : Rests(d)
  BY <1>1, <1>2 DEF CallTypes, Rests
<1>10. CallTypes'
  BY <1>1, <1>2 DEF CallTypes
<1>11. CallOK(c)'
  <2>1. HandleOK(c)'
    BY <1>1, <1>2 DEF CallOK, HandleOK, registry
  <2> QED
    BY <1>1, <1>3, <1>9, <2>1 DEF CallOK, Shape, AnswerOK, ReplyOK, Executed, ListOK
<1>12. \A p \in Calls : OrderOK(c, p)'
  BY <1>1, <1>9, OrderMoves DEF Executed
<1>13. CallsOK'
  BY <1>1, <1>4, <1>9, <1>11, <1>12, OneCallMoves
<1> QED
  BY <1>5, <1>6, <1>7, <1>8, <1>10, <1>13 DEF ServiceInv, Types

\* A call arrives.
LEMMA IssueKeeps ==
    ASSUME ServiceInv, NEW c \in AllCalls, NEW q, Issue(c, q),
           q.id \in RunIDs \cup {NoID}, c = "poll" => q.op = "Query"
    PROVE  ServiceInv'
<1>1. /\ pc[c] = "idle" /\ request' = [request EXCEPT ![c] = q]
      /\ pc' = [pc EXCEPT ![c] = "called"]
      /\ since' = [since EXCEPT ![c] = {d \in Calls : pc[d] = "answered"}]
      /\ UNCHANGED <<registry, engine, server>> /\ faults' = faults
      /\ UNCHANGED <<handle, reply, answer, list>>
  BY DEF Issue
<1>2. CallTypes /\ CallOK(c) /\ Calls \subseteq AllCalls
  BY DEF ServiceInv, Types, CallsOK, AllCalls
<1>3. faults' \in 0 .. MaxFaults
  BY <1>1 DEF ServiceInv, Types, DaemonTypes
<1>4. World
  BY <1>1, <1>3, EngineRests
<1>5. /\ pc'[c] = "called" /\ request'[c] = q /\ since'[c] = {d \in Calls : pc[d] = "answered"}
      /\ \A d \in AllCalls \ {c} : Rests(d)
  BY <1>1, <1>2 DEF CallTypes, Rests
<1>6. CallTypes'
  <2>1. since' \in [AllCalls -> SUBSET Calls]
    BY <1>1, <1>2 DEF CallTypes
  <2>2. request' = [d \in AllCalls |-> request'[d]]
    BY <1>1, <1>2 DEF CallTypes
  <2>3. \A d \in AllCalls : request'[d].id \in RunIDs \cup {NoID}
    BY <1>1, <1>2 DEF CallTypes
  <2> QED
    BY <1>1, <1>2, <2>1, <2>2, <2>3 DEF CallTypes
<1>7. CallOK(c)'
  <2>1. HandleOK(c)'
    BY <1>1, <1>2 DEF CallOK, HandleOK, registry, engine
  <2>2. reply[c] = NoReply /\ (c # "poll" => handle[c] = NoID)
    BY <1>1, <1>2 DEF CallOK, Shape
  <2> QED
    BY <1>1, <1>5, <2>1, <2>2 DEF CallOK, Shape, AnswerOK, ReplyOK, Executed, ListOK
<1>8. ASSUME NEW p \in Calls PROVE OrderOK(c, p)'
  <2>1. p \in since'[c] => pc[p] = "answered" /\ p # c
    BY <1>1, <1>5
  <2>2. ~Executed(c)'
    BY <1>5 DEF Executed
  <2> QED
    BY <1>2, <1>5, <2>1, <2>2 DEF OrderOK, Rests
<1>9. CallsOK'
  BY <1>1, <1>4, <1>5, <1>7, <1>8, OneCallMoves
<1> QED
  BY <1>1, <1>3, <1>6, <1>9, EngineRests DEF ServiceInv, Types

\* A run that starts.
LEMMA FreshRunOK ==
    ASSUME NEW m \in Mixes
    PROVE  FreshRun(m) \in RunType /\ FreshRun(m) # NoRun /\ RunShape(FreshRun(m))
<1>1. FreshRun(m) \in RunType
  BY DEF FreshRun, RunType, States
<1>2. FreshRun(m).state # NoRun.state
  BY DEF FreshRun, NoRun
<1>3. RunShape(FreshRun(m))
  BY ServiceBoundsAssumption DEF FreshRun, RunShape
<1> QED
  BY <1>1, <1>2, <1>3

LEMMA StartRunKeeps ==
    ASSUME ServiceInv, NEW c \in AllCalls, StartRun(c)
    PROVE  ServiceInv'
<1> DEFINE m == ControlsFrom(request[c].controls)
<1>1. /\ pc[c] = "called" /\ request[c].op = "StartRun" /\ ~closed /\ m \in Mixes
      /\ pc' = [pc EXCEPT ![c] = "spawning"]
      /\ UNCHANGED <<closed, quit, pendingByRun, request, reply, answer, list, since, server>>
      /\ faults' = faults
  BY DEF StartRun, Called, Mistaken
<1>2. CallTypes /\ CallOK(c) /\ RegistryTypes /\ DaemonTypes
  BY DEF ServiceInv, Types, CallsOK
<1>3. PICK r \in (IF request[c].id = NoID THEN RunIDs ELSE {request[c].id}) \ runs :
        /\ runs' = runs \cup {r} /\ order' = Append(order, r)
        /\ run' = [run EXCEPT ![r] = FreshRun(m)]
        /\ loop' = [loop EXCEPT ![r] = "born"]
        /\ handle' = [handle EXCEPT ![c] = r]
  BY DEF StartRun, Listed
<1>4. r \in RunIDs /\ r # NoID /\ r \notin runs
  BY <1>2, <1>3, RequestAssumption DEF CallTypes
<1>5. run[r] = NoRun
  BY <1>1, <1>4 DEF ServiceInv, DaemonInv
<1>6. FreshRun(m) \in RunType /\ FreshRun(m) # NoRun /\ RunShape(FreshRun(m))
  BY <1>1, FreshRunOK
<1> HIDE DEF m
<1>7. World
  <2>1. ASSUME NEW q \in RunIDs, run[q] # NoRun PROVE run'[q] # NoRun /\ Grows(run[q], run'[q])
    <3>1. run'[q] = run[q] /\ run[q] \in RunType
      BY <1>2, <1>3, <1>5, <2>1 DEF RegistryTypes
    <3>2. run[q].tick \in Nat /\ run[q].revision \in Nat
      BY <3>1 DEF RunType
    <3> QED
      BY <2>1, <3>1, <3>2 DEF Grows
  <2> QED
    BY <1>1, <1>3, <2>1 DEF World
<1>8. RegistryTypes'
  <2>1. order' \in Seq(RunIDs)
    BY <1>2, <1>3, <1>4 DEF RegistryTypes
  <2>2. run' \in [RunIDs -> RunType \cup {NoRun}]
    BY <1>2, <1>3, <1>4, <1>6 DEF RegistryTypes
  <2> QED
    BY <1>1, <1>2, <1>3, <1>4, <2>1, <2>2 DEF RegistryTypes
<1>9. DaemonTypes'
  BY <1>1, <1>2 DEF DaemonTypes, server
<1>10. DaemonInv'
  <2>1. \A q \in RunIDs : quit'[q] \/ loop'[q] = "done" => closed'
    BY <1>1, <1>2, <1>3, <1>4 DEF ServiceInv, DaemonInv, RegistryTypes
  <2>2. \A q \in runs' : run'[q] # NoRun
    BY <1>2, <1>3, <1>4, <1>6 DEF ServiceInv, DaemonInv, RegistryTypes
  <2>3. \A q \in RunIDs : run'[q] # NoRun => q \in runs'
    BY <1>1, <1>2, <1>3, <1>4 DEF ServiceInv, DaemonInv, RegistryTypes
  <2> QED
    BY <1>1, <2>1, <2>2, <2>3 DEF ServiceInv, DaemonInv, server
<1>11. OrderInv'
  <2>1. order \in Seq(RunIDs) /\ Distinct(order) /\ ~Has(order, r)
    BY <1>2, <1>4 DEF RegistryTypes, ServiceInv, OrderInv, Distinct, Has
  <2>2. /\ Distinct(order') /\ \A y : Has(order', y) <=> Has(order, y) \/ y = r
    BY <1>3, <1>4, <2>1, AppendListed
  <2>3. \A y : Has(order, y) <=> y \in runs
    BY DEF ServiceInv, OrderInv, Has
  <2>4. \A y : Has(order', y) <=> y \in runs'
    BY <1>3, <2>2, <2>3
  <2>5. runs' = {order'[i] : i \in 1 .. Len(order')}
    BY <2>4 DEF Has
  <2> QED
    BY <2>2, <2>5 DEF OrderInv, Distinct
<1>12. ASSUME NEW q \in RunIDs PROVE RunOK(q)'
  <2>1. CASE q = r
    BY <1>2, <1>3, <1>4, <1>6, <2>1 DEF RunOK, RegistryTypes
  <2>2. CASE q # r
    BY <1>2, <1>3, <1>4, <2>2 DEF ServiceInv, RunOK, RegistryTypes
  <2> QED
    BY <2>1, <2>2
<1>13. /\ pc'[c] = "spawning" /\ handle'[c] = r /\ \A d \in AllCalls \ {c} : Rests(d)
  BY <1>1, <1>2, <1>3 DEF CallTypes, Rests
<1>14. CallTypes'
  <2>1. handle' \in [AllCalls -> RunIDs \cup {NoID}]
    BY <1>2, <1>3, <1>4 DEF CallTypes
  <2>2. pc' \in [AllCalls -> {"idle", "called", "spawning", "lookup", "listing", "sending",
                              "sent", "answered"}]
    BY <1>1, <1>2 DEF CallTypes
  <2> QED
    BY <1>1, <1>2, <2>1, <2>2 DEF CallTypes
<1>15. CallOK(c)'
  <2>1. reply[c] = NoReply
    BY <1>1, <1>2 DEF CallOK, Shape
  <2>2. HandleOK(c)'
    BY <1>2, <1>3, <1>4, <1>6, <1>13 DEF HandleOK, RegistryTypes
  <2> QED
    BY <1>1, <1>4, <1>13, <2>1, <2>2 DEF CallOK, Shape, AnswerOK, ReplyOK, Executed, ListOK
<1>16. \A p \in Calls : OrderOK(c, p)'
  BY <1>1, <1>13, OrderMoves DEF Executed
<1>17. CallsOK'
  BY <1>1, <1>7, <1>13, <1>15, <1>16, OneCallMoves
<1> QED
  BY <1>8, <1>9, <1>10, <1>11, <1>12, <1>14, <1>17 DEF ServiceInv, Types

\* One step of a handler.
LEMMA HandlerKeeps ==
    ASSUME ServiceInv, NEW c \in AllCalls, Handler(c)
    PROVE  ServiceInv'
BY StartRefusedKeeps, StartRunKeeps, SpawnKeeps, NilControlsKeeps, LookupKeeps, ListRunsKeeps,
   ListNextKeeps, DoReturnsKeeps, DoFailsKeeps DEF Handler

-----------------------------------------------------------------------------
(* A run's goroutine.                                                      *)

\* The fields of a run.
LEMMA RunFields ==
    ASSUME NEW s \in RunType
    PROVE  /\ s.state \in States /\ s.tick \in Nat /\ s.revision \in Nat
           /\ s.controls \in Mixes /\ s.pending \in Nat
           /\ s.staged \in Seq(Staged) /\ s.applied \in Seq(Applied)
           /\ Len(s.staged) \in Nat /\ Len(s.applied) \in Nat
           /\ \A i \in 1 .. Len(s.staged) : s.staged[i].rev \in Nat /\ s.staged[i].controls \in Mixes
           /\ \A i \in 1 .. Len(s.applied) : s.applied[i] \in Applied /\ s.applied[i].rev \in Nat
           /\ s # NoRun
<1>1. /\ s.state \in States /\ s.tick \in Nat /\ s.revision \in Nat
      /\ s.controls \in Mixes /\ s.pending \in Nat
      /\ s.staged \in Seq(Staged) /\ s.applied \in Seq(Applied)
  BY DEF RunType
<1>2. /\ Len(s.staged) \in Nat /\ Len(s.applied) \in Nat
      /\ \A i \in 1 .. Len(s.staged) : s.staged[i] \in Staged
      /\ \A i \in 1 .. Len(s.applied) : s.applied[i] \in Applied
  <2> HIDE DEF Staged, Applied
  <2> QED
    BY <1>1
<1>3. s.state # NoRun.state
  BY <1>1 DEF NoRun, States
<1> QED
  BY <1>1, <1>2, <1>3 DEF Staged, Applied

\* Pausing, resuming and finishing.
LEMMA StateGrows ==
    ASSUME NEW s \in RunType, RunShape(s), NEW st \in States, s.state # "finished" \/ st = "finished"
    PROVE  /\ [s EXCEPT !.state = st] \in RunType
           /\ Grows(s, [s EXCEPT !.state = st]) /\ RunShape([s EXCEPT !.state = st])
<1> DEFINE t == [s EXCEPT !.state = st]
<1>1. /\ t \in RunType /\ t.state = st /\ t.tick = s.tick /\ t.revision = s.revision
      /\ t.staged = s.staged /\ t.applied = s.applied
  BY DEF RunType
<1>2. s.state = "finished" => t = s
  BY DEF RunType
<1> HIDE DEF t
<1>3. \A rev, at : Honest(s, rev, at) => Honest(t, rev, at)
  BY <1>1 DEF Honest
<1>4. RunShape(t)
  BY <1>1 DEF RunShape
<1>5. Grows(s, t)
  BY <1>1, <1>2, <1>3, RunFields DEF Grows
<1> QED
  BY <1>1, <1>4, <1>5 DEF t

\* A revision is staged.
LEMMA UpdateGrows ==
    ASSUME NEW s \in RunType, RunShape(s), s.state # "finished", NEW m \in Mixes, NEW t,
           t = [s EXCEPT !.revision = s.revision + 1,
                         !.staged = Append(@, [rev |-> s.revision + 1, controls |-> m])]
    PROVE  t \in RunType /\ Grows(s, t) /\ RunShape(t) /\ Honest(t, s.revision + 1, s.tick)
<1> DEFINE n == s.revision + 1
           x == [rev |-> n, controls |-> m]
<1>1. /\ s.tick \in Nat /\ s.revision \in Nat /\ n \in Nat /\ n > s.revision
      /\ s.staged \in Seq(Staged) /\ Len(s.staged) \in Nat /\ Len(s.applied) \in Nat
      /\ \A i \in 1 .. Len(s.staged) : s.staged[i].rev \in Nat
      /\ \A i \in 1 .. Len(s.applied) : s.applied[i].rev \in Nat
  BY RunFields
<1>2. x \in Staged /\ x.rev = n
  BY <1>1 DEF Staged
<1>3. /\ t.revision = n /\ t.tick = s.tick /\ t.state = s.state /\ t.applied = s.applied
      /\ t.staged = Append(s.staged, x)
  BY DEF RunType
<1> HIDE DEF x
<1>4. /\ t.staged \in Seq(Staged) /\ Len(t.staged) = Len(s.staged) + 1
      /\ \A i \in 1 .. Len(s.staged) : t.staged[i] = s.staged[i]
      /\ t.staged[Len(s.staged) + 1] = x
  <2> HIDE DEF Staged
  <2> QED
    BY <1>1, <1>2, <1>3
<1>5. t \in RunType
  <2> HIDE DEF Staged, Applied
  <2> QED
    BY <1>1, <1>3, <1>4 DEF RunType, x
<1> HIDE DEF n
<1>6. \A i \in 1 .. Len(t.staged) : i \in 1 .. Len(s.staged) \/ i = Len(s.staged) + 1
  BY <1>1, <1>4
<1>7. \A i \in 1 .. Len(s.staged) : i \in 1 .. Len(t.staged)
  BY <1>1, <1>4
<1>8. RunShape(t)
  <2>1. \A i \in 1 .. Len(t.applied) : t.applied[i].rev <= t.revision /\ t.applied[i].rev # n
    BY <1>1, <1>3 DEF RunShape
  <2>2. \A i \in 1 .. Len(s.staged) :
            t.staged[i].rev <= t.revision /\ t.staged[i].rev # n /\ t.staged[i].rev = s.staged[i].rev
    BY <1>1, <1>3, <1>4 DEF RunShape
  <2>3. t.staged[Len(s.staged) + 1].rev = n /\ n <= t.revision
    BY <1>1, <1>2, <1>3, <1>4
  <2>4. \A i \in 1 .. Len(t.staged) : t.staged[i].rev <= t.revision
    BY <1>6, <2>2, <2>3
  <2>5. \A i \in 1 .. Len(t.staged), k \in 1 .. Len(t.applied) : t.staged[i].rev # t.applied[k].rev
    BY <1>3, <1>6, <2>1, <2>2, <2>3 DEF RunShape
  <2>6. \A i, j \in 1 .. Len(t.staged) : t.staged[i].rev = t.staged[j].rev => i = j
    BY <1>6, <2>2, <2>3 DEF RunShape
  <2> QED
    BY <1>3, <2>1, <2>4, <2>5, <2>6 DEF RunShape
<1>9. ASSUME NEW rev, NEW at, Honest(s, rev, at) PROVE Honest(t, rev, at)
  BY <1>3, <1>4, <1>7, <1>9 DEF Honest
<1>10. Grows(s, t)
  BY <1>1, <1>3, <1>5, <1>9 DEF Grows
<1>11. Honest(t, n, s.tick)
  <2>1. \A i \in 1 .. Len(t.applied) : t.applied[i].rev # n
    BY <1>1, <1>3 DEF RunShape
  <2>2. Len(s.staged) + 1 \in 1 .. Len(t.staged) /\ t.staged[Len(s.staged) + 1].rev = n
    BY <1>1, <1>2, <1>4
  <2> QED
    BY <1>3, <2>1, <2>2 DEF Honest
<1> QED
  BY <1>5, <1>8, <1>10, <1>11 DEF n

\* w is u with v behind it.
Joined(u, v, w) ==
    /\ Len(w) = Len(u) + Len(v)
    /\ \A i \in 1 .. Len(u) : w[i] = u[i]
    /\ \A i \in 1 .. Len(v) : w[Len(u) + i] = v[i]

LEMMA SeqConcat ==
    ASSUME NEW S, NEW u \in Seq(S), NEW v \in Seq(S)
    PROVE  u \o v \in Seq(S) /\ Joined(u, v, u \o v)
<1>1. u \o v \in Seq(S) /\ Len(u) \in Nat /\ Len(v) \in Nat /\ Len(u \o v) = Len(u) + Len(v)
  OBVIOUS
<1>2. \A i \in 1 .. Len(u) : (u \o v)[i] = u[i]
  BY <1>1
<1>3. ASSUME NEW i \in 1 .. Len(v) PROVE (u \o v)[Len(u) + i] = v[i]
  <2>1. /\ Len(u) + i \in 1 .. Len(u) + Len(v)
        /\ ~(Len(u) + i <= Len(u)) /\ (Len(u) + i) - Len(u) = i
    BY <1>1
  <2> QED
    BY <1>1, <2>1
<1> QED
  BY <1>1, <1>2, <1>3 DEF Joined

\* How many of the staged revisions are among the first k records of a tick.
Kept(s, k) == IF k < Len(s.staged) THEN k ELSE Len(s.staged)

\* The log of a run's revisions after some of the staged ones were recorded.
Records(s, k, w) ==
    /\ Len(w) = Len(s.applied) + Kept(s, k)
    /\ \A i \in 1 .. Len(s.applied) : w[i] = s.applied[i]
    /\ \A i \in 1 .. Kept(s, k) :
          w[Len(s.applied) + i] = [rev |-> s.staged[i].rev, at |-> s.tick]

LEMMA RecordedFacts ==
    ASSUME NEW s \in RunType, NEW k \in Nat
    PROVE  /\ Kept(s, k) \in Nat /\ Kept(s, k) <= Len(s.staged)
           /\ k = Len(s.staged) => Kept(s, k) = Len(s.staged)
           /\ Recorded(s, k) \in Seq(Applied) /\ Records(s, k, Recorded(s, k))
<1> DEFINE m == Kept(s, k)
           q == [i \in 1 .. m |-> [rev |-> s.staged[i].rev, at |-> s.tick]]
<1>1. /\ s.tick \in Nat /\ Len(s.staged) \in Nat /\ Len(s.applied) \in Nat
      /\ s.applied \in Seq(Applied)
      /\ \A i \in 1 .. Len(s.staged) : s.staged[i].rev \in Nat
  BY RunFields
<1>2. m \in Nat /\ m <= Len(s.staged) /\ (k = Len(s.staged) => m = Len(s.staged))
  BY <1>1 DEF Kept
<1>3. Recorded(s, k) = s.applied \o q
  BY DEF Recorded, Kept
<1> HIDE DEF m
<1>4. \A i \in 1 .. m : q[i] \in Applied
  BY <1>1, <1>2 DEF Applied
<1>5. q \in Seq(Applied) /\ Len(q) = m
  <2> HIDE DEF Applied
  <2>1. q \in [1 .. m -> Applied]
    BY <1>4
  <2> HIDE DEF q
  <2> QED
    BY <1>2, <2>1
<1>6. \A i \in 1 .. m : q[i] = [rev |-> s.staged[i].rev, at |-> s.tick]
  OBVIOUS
<1> HIDE DEF q
<1>7. s.applied \o q \in Seq(Applied) /\ Joined(s.applied, q, s.applied \o q)
  <2> HIDE DEF Applied, Joined
  <2> QED
    BY <1>1, <1>5, SeqConcat
<1> DEFINE w == s.applied \o q
<1> HIDE DEF w
<1>8. Joined(s.applied, q, w)
  BY <1>7 DEF w
<1>9. Records(s, k, w)
  BY <1>2, <1>5, <1>6, <1>8 DEF Joined, Records, m
<1> QED
  BY <1>2, <1>3, <1>7, <1>9 DEF m, w

\* A tick records what was staged under its own number; a tick that fails records
\* some of it, and is the last.
LEMMA TickGrows ==
    ASSUME NEW s \in RunType, RunShape(s), s.state # "finished", NEW k \in Nat, NEW t \in RunType,
           t.applied = Recorded(s, k), t.staged = <<>>, t.revision = s.revision,
           t.tick <= TickBound, s.tick <= t.tick,
           (t.tick = s.tick /\ t.state = "finished") \/ k = Len(s.staged)
    PROVE  Grows(s, t) /\ RunShape(t)
<1> DEFINE m == Kept(s, k)
           a == Len(s.applied)
<1>1. /\ s.tick \in Nat /\ s.revision \in Nat /\ Len(s.staged) \in Nat /\ a \in Nat
      /\ \A i \in 1 .. Len(s.staged) : s.staged[i].rev \in Nat
      /\ \A i \in 1 .. a : s.applied[i].rev \in Nat
  BY RunFields
<1>2. /\ m \in Nat /\ m <= Len(s.staged) /\ (k = Len(s.staged) => m = Len(s.staged))
      /\ Len(t.applied) = a + m
      /\ \A i \in 1 .. a : t.applied[i] = s.applied[i]
      /\ \A i \in 1 .. m : t.applied[a + i] = [rev |-> s.staged[i].rev, at |-> s.tick]
  <2>1. /\ Records(s, k, t.applied) /\ m \in Nat /\ m <= Len(s.staged)
        /\ k = Len(s.staged) => m = Len(s.staged)
    BY RecordedFacts
  <2> QED
    BY <2>1 DEF Records
<1> HIDE DEF m, a
<1>3. ASSUME NEW j \in 1 .. m PROVE t.applied[a + j].rev = s.staged[j].rev
  <2>1. t.applied[a + j] = [rev |-> s.staged[j].rev, at |-> s.tick]
    BY <1>2, Zenon
  <2> QED
    BY <2>1
<1>4. ASSUME NEW i \in 1 .. Len(t.applied)
      PROVE  \/ i \in 1 .. a
             \/ \E j \in 1 .. m : i = a + j
  <2>1. CASE i > a
    <3>1. i - a \in 1 .. m /\ i = a + (i - a)
      BY <1>1, <1>2, <2>1
    <3> QED
      BY <3>1
  <2> QED
    BY <1>1, <1>2, <2>1
<1>5. /\ \A i \in 1 .. a : i \in 1 .. Len(t.applied)
      /\ \A j \in 1 .. m : a + j \in 1 .. Len(t.applied) /\ j \in 1 .. Len(s.staged)
  BY <1>1, <1>2
<1>6. RunShape(t)
  <2>1. ASSUME NEW i \in 1 .. Len(t.applied) PROVE t.applied[i].rev <= t.revision
    <3>1. CASE i \in 1 .. a
      BY <1>2, <3>1 DEF RunShape, a
    <3>2. ASSUME NEW j \in 1 .. m, i = a + j PROVE t.applied[i].rev <= t.revision
      BY <1>3, <1>5, <3>2 DEF RunShape
    <3> QED
      BY <1>4, <3>1, <3>2
  <2> QED
    BY <2>1 DEF RunShape
<1>7. ASSUME NEW rev, NEW at, Honest(s, rev, at) PROVE Honest(t, rev, at)
  <2>1. CASE \E i \in 1 .. a : s.applied[i] = [rev |-> rev, at |-> at]
    BY <1>2, <1>5, <2>1 DEF Honest
  <2>2. ASSUME s.tick = at, \A i \in 1 .. a : s.applied[i].rev # rev,
               NEW i \in 1 .. Len(s.staged), s.staged[i].rev = rev
        PROVE  Honest(t, rev, at)
    <3>1. CASE i \in 1 .. m
      <4>1. t.applied[a + i] = [rev |-> rev, at |-> at] /\ a + i \in 1 .. Len(t.applied)
        BY <1>2, <1>5, <2>2, <3>1
      <4> QED
        BY <4>1 DEF Honest
    <3>2. CASE i \notin 1 .. m
      <4>1. t.tick = s.tick /\ t.state = "finished"
        BY <1>1, <1>2, <3>2
      <4>2. ASSUME NEW x \in 1 .. Len(t.applied) PROVE t.applied[x].rev # rev
        <5>1. CASE x \in 1 .. a
          BY <1>2, <2>2, <5>1
        <5>2. ASSUME NEW j \in 1 .. m, x = a + j PROVE t.applied[x].rev # rev
          <6>1. t.applied[x].rev = s.staged[j].rev /\ j \in 1 .. Len(s.staged) /\ j # i
            BY <1>3, <1>5, <3>2, <5>2
          <6> QED
            BY <2>2, <6>1 DEF RunShape
        <5> QED
          BY <1>4, <5>1, <5>2
      <4> QED
        BY <2>2, <4>1, <4>2 DEF Honest
    <3> QED
      BY <3>1, <3>2
  <2> QED
    BY <1>7, <2>1, <2>2 DEF Honest, a
<1> QED
  BY <1>1, <1>6, <1>7 DEF Grows

\* The step of one run, as the registry and the other runs see it.
LEMMA RunMoves ==
    ASSUME ServiceInv, NEW r \in RunIDs, run[r] # NoRun, NEW t \in RunType,
           run' = [run EXCEPT ![r] = t], Grows(run[r], t), RunShape(t),
           pendingByRun' \in [RunIDs -> Int],
           UNCHANGED <<registry, loop, quit, server>>, faults' \in 0 .. MaxFaults
    PROVE  /\ World /\ RegistryTypes' /\ DaemonTypes' /\ DaemonInv' /\ OrderInv'
           /\ \A q \in RunIDs : RunOK(q)'
<1>1. RegistryTypes /\ DaemonTypes
  BY DEF ServiceInv, Types
<1>2. run'[r] = t /\ \A q \in RunIDs \ {r} : run'[q] = run[q]
  BY <1>1 DEF RegistryTypes
<1>3. t # NoRun
  BY RunFields
<1>4. World
  <2>1. ASSUME NEW q \in RunIDs, run[q] # NoRun, q # r PROVE Grows(run[q], run'[q])
    <3>1. run'[q] = run[q] /\ run[q] \in RunType
      BY <1>1, <1>2, <2>1 DEF RegistryTypes
    <3>2. run[q].tick \in Nat /\ run[q].revision \in Nat
      BY <3>1, RunFields
    <3> QED
      BY <3>1, <3>2 DEF Grows
  <2> QED
    BY <1>2, <1>3, <2>1 DEF World, registry
<1>5. RegistryTypes'
  <2>1. run' \in [RunIDs -> RunType \cup {NoRun}]
    BY <1>1 DEF RegistryTypes
  <2> QED
    BY <1>1, <2>1 DEF RegistryTypes, registry
<1>6. DaemonTypes'
  BY <1>1 DEF DaemonTypes, server
<1>7. DaemonInv'
  <2>1. \A q \in runs' : run'[q] # NoRun
    BY <1>1, <1>2, <1>3 DEF RegistryTypes, ServiceInv, DaemonInv, registry
  <2>2. ~closed' => \A q \in RunIDs : run'[q] # NoRun => q \in runs'
    BY <1>2 DEF ServiceInv, DaemonInv, registry
  <2>3. \A q \in RunIDs : quit'[q] \/ loop'[q] = "done" => closed'
    BY DEF ServiceInv, DaemonInv, registry
  <2> QED
    BY <2>1, <2>2, <2>3 DEF ServiceInv, DaemonInv, registry, server
<1>8. OrderInv'
  BY DEF ServiceInv, OrderInv, registry
<1>9. \A q \in RunIDs : RunOK(q)'
  BY <1>2, <1>3 DEF ServiceInv, RunOK
<1> QED
  BY <1>4, <1>5, <1>6, <1>7, <1>8, <1>9

\* A command in the hands of the run it is for.
LEMMA Taken ==
    ASSUME ServiceInv, NEW r \in RunIDs, NEW c \in AllCalls, NEW ops, Takes(r, c, ops)
    PROVE  /\ handle[c] = r /\ pc[c] = "sending" /\ request[c].op \in ops /\ r # NoID
           /\ run[r] \in RunType /\ RunShape(run[r]) /\ run[r] # NoRun /\ CallOK(c)
<1>1. handle[c] = r /\ pc[c] = "sending" /\ request[c].op \in ops
  BY DEF Takes
<1>2. CallOK(c) /\ RegistryTypes
  BY DEF ServiceInv, CallsOK, Types
<1>3. r # NoID /\ run[r] # NoRun
  BY <1>1, <1>2 DEF CallOK, Shape, HandleOK
<1> QED
  BY <1>1, <1>2, <1>3 DEF ServiceInv, RunOK, RegistryTypes

\* What the command leaves for the call.
LEMMA LeavesFacts ==
    ASSUME ServiceInv, NEW c \in AllCalls, NEW err, NEW value, Leaves(c, err, value)
    PROVE  /\ pc'[c] = "sent" /\ reply'[c].err = err /\ reply'[c].value = value
           /\ UNCHANGED <<registry, loop, quit, server>> /\ faults' = faults
           /\ UNCHANGED <<request, handle, answer, list, since>>
           /\ CallTypes' /\ \A d \in AllCalls \ {c} : Rests(d)
<1>1. CallTypes
  BY DEF ServiceInv, Types
<1>2. /\ pc' = [pc EXCEPT ![c] = "sent"]
      /\ reply' = [reply EXCEPT ![c] = [err |-> err, value |-> value]]
      /\ UNCHANGED <<registry, loop, quit, server>> /\ faults' = faults
      /\ UNCHANGED <<request, handle, answer, list, since>>
  BY DEF Leaves
<1>3. CallTypes'
  BY <1>1, <1>2 DEF CallTypes
<1> QED
  BY <1>1, <1>2, <1>3 DEF CallTypes, Rests

\* A command that ran.
LEMMA CommandKeeps ==
    ASSUME ServiceInv, NEW r \in RunIDs, NEW c \in AllCalls, NEW ops, Takes(r, c, ops),
           NEW t \in RunType, run' = [run EXCEPT ![r] = t], Grows(run[r], t), RunShape(t),
           pendingByRun' \in [RunIDs -> Int], NEW err, NEW value, Leaves(c, err, value),
           err \in {"nil", "ErrRunFinished", "ErrInvalidControls"},
           request[c].op \in {"StartRun", "FinishRun"} => err = "nil",
           ReplyOK(c)', \A p \in Calls : OrderOK(c, p)'
    PROVE  ServiceInv'
<1>1. /\ handle[c] = r /\ pc[c] = "sending" /\ r # NoID
      /\ run[r] # NoRun /\ CallOK(c)
  BY Taken
<1>2. /\ pc'[c] = "sent" /\ reply'[c].err = err
      /\ UNCHANGED <<registry, loop, quit, server>> /\ faults' = faults
      /\ UNCHANGED <<request, handle, answer, list, since>>
      /\ CallTypes' /\ \A d \in AllCalls \ {c} : Rests(d)
  BY LeavesFacts
<1>3. CallTypes /\ faults' \in 0 .. MaxFaults
  BY <1>2 DEF ServiceInv, Types, DaemonTypes
<1>4. /\ World /\ RegistryTypes' /\ DaemonTypes' /\ DaemonInv' /\ OrderInv'
      /\ \A q \in RunIDs : RunOK(q)'
  BY <1>1, <1>2, <1>3, RunMoves
<1>5. HandleOK(c)'
  BY <1>1, <1>2, <1>3, <1>4, HandleRests DEF CallOK, HandleOK, World, registry
<1>6. ListOK(c)'
  <2> SUFFICES ASSUME request[c].op = "ListRuns" PROVE ListOK(c)'
    BY <1>2 DEF ListOK
  <2>1. ListOK(c) /\ list[c].left \in Seq(RunIDs)
    BY <1>1, <1>3 DEF CallOK, CallTypes
  <2>2. \A i \in 1 .. Len(list[c].left) : list[c].left[i] \in RunIDs
    BY <2>1
  <2>3. LeftOK(c)'
    BY <1>1, <1>2, <1>4, <2>1, <2>2 DEF ListOK, LeftOK, World
  <2>4. ListKnows(c)'
    <3> SUFFICES ASSUME ~closed, NEW p \in since[c], OK(p, "StartRun")'
                 PROVE  Has(list[c].out, handle[p]) \/ Has(list[c].left, handle[p])
                        \/ handle[c] = handle[p]
      BY <1>2 DEF ListKnows, registry, Asking
    <3>1. OrderOK(c, p) /\ p \in AllCalls
      BY <1>3 DEF ServiceInv, CallsOK, CallTypes, AllCalls
    <3>2. p # c
      BY <1>1, <3>1 DEF OrderOK
    <3>3. OK(p, "StartRun")
      BY <1>2, <3>1, <3>2 DEF OK, Answered, Rests
    <3> QED
      BY <1>1, <2>1, <3>3 DEF ListOK, ListKnows, Asking
  <2> QED
    BY <1>1, <1>2, <2>1, <2>3, <2>4 DEF ListOK, Asking
<1>7. CallOK(c)'
  BY <1>1, <1>2, <1>5, <1>6 DEF CallOK, Shape, AnswerOK
<1>8. CallsOK'
  BY <1>1, <1>2, <1>4, <1>7, OneCallMoves
<1> QED
  BY <1>2, <1>4, <1>8 DEF ServiceInv, Types

\* What the calls before this one were told of the run that now executes it.
LEMMA ToldBefore ==
    ASSUME ServiceInv, NEW r \in RunIDs, NEW c \in AllCalls, pc[c] = "sending", handle[c] = r,
           NEW p \in Calls, p \in since[c], Executed(p), handle[p] = r
    PROVE  /\ p # c /\ pc[p] = "answered" /\ ReplyOK(p)
           /\ request[p].op = "UpdateControls" =>
                 reply[p].value.rev \in Nat /\ reply[p].value.rev <= run[r].revision
           /\ request[p].op = "Query" =>
                 reply[p].value.tick \in Nat /\ reply[p].value.tick <= run[r].tick
           /\ request[p].op = "FinishRun" =>
                 run[r].state = "finished" /\ reply[p].value = View(r)
<1>1. OrderOK(c, p) /\ p \in AllCalls
  BY DEF ServiceInv, CallsOK, AllCalls
<1>2. p # c /\ pc[p] = "answered"
  BY <1>1 DEF OrderOK
<1>3. ReplyOK(p)
  BY <1>1 DEF ServiceInv, CallsOK, CallOK
<1> QED
  BY <1>2, <1>3 DEF ReplyOK

\* The calls before this one, when its command leaves an error.
LEMMA OrderAfterError ==
    ASSUME ServiceInv, NEW c \in AllCalls, pc[c] = "sending", NEW err, NEW value,
           Leaves(c, err, value), err # "nil"
    PROVE  ReplyOK(c)' /\ \A p \in Calls : OrderOK(c, p)'
<1>1. /\ pc'[c] = "sent" /\ reply'[c].err = err /\ since'[c] = since[c]
      /\ \A d \in AllCalls \ {c} : Rests(d)
  BY LeavesFacts
<1>2. ~Executed(c)'
  BY <1>1 DEF Executed
<1> QED
  BY <1>1, <1>2, OrderMoves DEF ReplyOK

\* The calls before this one, when its command ran.
LEMMA OrderAfterCommand ==
    ASSUME ServiceInv, NEW r \in RunIDs, NEW c \in AllCalls, pc[c] = "sending", handle[c] = r,
           NEW value, Leaves(c, "nil", value), NEW p \in Calls,
           p \in since[c] /\ Executed(p) /\ handle[p] = r =>
                /\ request[p].op = "UpdateControls" =>
                      /\ request[c].op = "UpdateControls" => value.rev > reply[p].value.rev
                      /\ request[c].op = "Query" => value.revision >= reply[p].value.rev
                /\ request[p].op = "Query" /\ request[c].op = "Query" =>
                      value.tick >= reply[p].value.tick
                /\ request[p].op = "FinishRun" =>
                      /\ request[c].op \notin {"UpdateControls", "PauseRun"}
                      /\ request[c].op \in {"FinishRun", "Query"} => value = reply[p].value
    PROVE  OrderOK(c, p)'
<1>1. /\ pc'[c] = "sent" /\ reply'[c].err = "nil" /\ reply'[c].value = value
      /\ UNCHANGED <<request, handle, answer, list, since>>
      /\ \A d \in AllCalls \ {c} : Rests(d)
  BY LeavesFacts
<1>2. OrderOK(c, p) /\ p \in AllCalls
  BY DEF ServiceInv, CallsOK, AllCalls
<1>3. CASE p \in since[c]
  <2>1. p # c /\ pc[p] = "answered" /\ Rests(p)
    BY <1>1, <1>2, <1>3 DEF OrderOK
  <2>2. Executed(p)' <=> Executed(p)
    BY <2>1 DEF Executed, Rests
  <2> QED
    BY <1>1, <1>3, <2>1, <2>2 DEF OrderOK, Rests
<1> QED
  BY <1>1, <1>3 DEF OrderOK

\* A run that stays as it is.
LEMMA SameGrows ==
    ASSUME RegistryTypes, NEW r \in RunIDs, run[r] \in RunType, run' = run
    PROVE  run' = [run EXCEPT ![r] = run[r]] /\ Grows(run[r], run[r])
<1>1. run[r].tick \in Nat /\ run[r].revision \in Nat
  BY RunFields
<1> QED
  BY <1>1 DEF RegistryTypes, Grows

\* A command that ends in an error changes nothing.
LEMMA ErrorKeeps ==
    ASSUME ServiceInv, NEW r \in RunIDs, NEW c \in AllCalls, NEW ops, Takes(r, c, ops),
           UNCHANGED <<run, pendingByRun>>, NEW err, NEW value, Leaves(c, err, value),
           err \in {"ErrRunFinished", "ErrInvalidControls"},
           request[c].op \notin {"StartRun", "FinishRun"}
    PROVE  ServiceInv'
<1>1. pc[c] = "sending" /\ run[r] \in RunType /\ RunShape(run[r])
  BY Taken
<1>2. RegistryTypes /\ pendingByRun' \in [RunIDs -> Int]
  BY DEF ServiceInv, Types, RegistryTypes
<1>3. run' = [run EXCEPT ![r] = run[r]] /\ Grows(run[r], run[r])
  BY <1>1, <1>2, SameGrows
<1>4. ReplyOK(c)' /\ \A p \in Calls : OrderOK(c, p)'
  BY <1>1, OrderAfterError
<1> QED
  BY <1>1, <1>2, <1>3, <1>4, CommandKeeps

LEMMA QueryKeeps ==
    ASSUME ServiceInv, NEW r \in RunIDs, NEW c \in AllCalls, Query(r, c)
    PROVE  ServiceInv'
<1> DEFINE ops == {"StartRun", "Query", "ListRuns"}
           v == View(r)
<1>1. Takes(r, c, ops) /\ Leaves(c, "nil", v) /\ UNCHANGED <<run, pendingByRun>>
  BY DEF Query
<1>2. /\ handle[c] = r /\ pc[c] = "sending" /\ request[c].op \in ops /\ r # NoID
      /\ run[r] \in RunType /\ RunShape(run[r])
  BY <1>1, Taken
<1>3. /\ pc'[c] = "sent" /\ reply'[c].err = "nil" /\ reply'[c].value = v
      /\ UNCHANGED <<request, handle, answer, list, since>>
  BY <1>1, LeavesFacts
<1>4. RegistryTypes /\ pendingByRun' \in [RunIDs -> Int]
  BY <1>1 DEF ServiceInv, Types, RegistryTypes
<1>5. run' = [run EXCEPT ![r] = run[r]] /\ Grows(run[r], run[r])
  BY <1>1, <1>2, <1>4, SameGrows
<1>6. /\ run[r].tick \in Nat /\ run[r].revision \in Nat
  BY <1>2, RunFields
<1>7. /\ {"id", "tick", "revision"} \subseteq DOMAIN v /\ v.id = r
      /\ v.tick = run[r].tick /\ v.revision = run[r].revision
  BY DEF View
<1> HIDE DEF v
<1>8. ReplyOK(c)'
  BY <1>1, <1>2, <1>3, <1>6, <1>7 DEF ReplyOK
<1>9. ASSUME NEW p \in Calls PROVE OrderOK(c, p)'
  <2>1. ASSUME p \in since[c], Executed(p), handle[p] = r
        PROVE  /\ request[p].op = "UpdateControls" => v.revision >= reply[p].value.rev
               /\ request[p].op = "Query" => v.tick >= reply[p].value.tick
               /\ request[p].op = "FinishRun" => v = reply[p].value
    BY <1>2, <1>6, <1>7, <2>1, ToldBefore DEF v
  <2> QED
    BY <1>1, <1>2, <2>1, OrderAfterCommand
<1> QED
  BY <1>1, <1>2, <1>4, <1>5, <1>8, <1>9, CommandKeeps

LEMMA UpdateControlsKeeps ==
    ASSUME ServiceInv, NEW r \in RunIDs, NEW c \in AllCalls, UpdateControls(r, c)
    PROVE  ServiceInv'
<1> DEFINE m == ControlsFrom(request[c].controls)
           n == run[r].revision + 1
           v == Receipt(r, n)
<1>1. Takes(r, c, {"UpdateControls"}) /\ pendingByRun' = pendingByRun
  BY DEF UpdateControls
<1>2. /\ handle[c] = r /\ pc[c] = "sending" /\ request[c].op = "UpdateControls" /\ r # NoID
      /\ run[r] \in RunType /\ RunShape(run[r])
  BY <1>1, Taken
<1>3. CASE Leaves(c, "ErrRunFinished", NoRun) /\ UNCHANGED run
  BY <1>1, <1>2, <1>3, ErrorKeeps
<1>4. CASE Leaves(c, "ErrInvalidControls", NoRun) /\ UNCHANGED run
  BY <1>1, <1>2, <1>4, ErrorKeeps
<1>5. ASSUME ~Over(r), m \in Mixes, Leaves(c, "nil", v),
             run' = [run EXCEPT ![r].revision = n,
                                ![r].staged = Append(@, [rev |-> n, controls |-> m])]
      PROVE  ServiceInv'
  <2> DEFINE t == [run[r] EXCEPT !.revision = n,
                                 !.staged = Append(@, [rev |-> n, controls |-> m])]
  <2> HIDE DEF m
  <2>1. RegistryTypes /\ pendingByRun' \in [RunIDs -> Int]
    BY <1>1 DEF ServiceInv, Types, RegistryTypes
  <2>2. run' = [run EXCEPT ![r] = t]
    BY <1>5, <2>1 DEF RegistryTypes
  <2>3. /\ t \in RunType /\ Grows(run[r], t) /\ RunShape(t) /\ Honest(t, n, run[r].tick)
    BY <1>2, <1>5, UpdateGrows DEF Over
  <2>4. run'[r] = t /\ t.revision = n
    BY <1>2, <2>1, <2>2 DEF RegistryTypes, RunType
  <2> HIDE DEF t
  <2>5. /\ pc'[c] = "sent" /\ reply'[c].err = "nil" /\ reply'[c].value = v
        /\ UNCHANGED <<request, handle, answer, list, since>>
    BY <1>5, LeavesFacts
  <2>6. n \in Nat /\ n > run[r].revision /\ run[r].revision \in Nat /\ n <= n
    BY <1>2, RunFields
  <2>7. /\ v = [state |-> "revision", id |-> r, rev |-> v.rev, at |-> v.at]
        /\ v.rev = n /\ v.at = run[r].tick
    BY DEF Receipt
  <2> HIDE DEF v, n
  <2>8. ReplyOK(c)'
    BY <1>2, <2>3, <2>4, <2>5, <2>6, <2>7 DEF ReplyOK
  <2>9. ASSUME NEW p \in Calls PROVE OrderOK(c, p)'
    <3>1. ASSUME p \in since[c], Executed(p), handle[p] = r
          PROVE  /\ request[p].op = "UpdateControls" => v.rev > reply[p].value.rev
                 /\ request[p].op # "FinishRun"
      BY <1>2, <1>5, <2>6, <2>7, <3>1, ToldBefore DEF Over
    <3> QED
      BY <1>2, <1>5, <3>1, OrderAfterCommand
  <2> QED
    BY <1>1, <1>2, <1>5, <2>1, <2>2, <2>3, <2>8, <2>9, CommandKeeps
<1> QED
  BY <1>3, <1>4, <1>5 DEF UpdateControls

LEMMA SetPausedKeeps ==
    ASSUME ServiceInv, NEW r \in RunIDs, NEW c \in AllCalls, SetPaused(r, c)
    PROVE  ServiceInv'
<1> DEFINE st == IF request[c].paused THEN "paused" ELSE "running"
<1>1. Takes(r, c, {"PauseRun"}) /\ pendingByRun' = pendingByRun
  BY DEF SetPaused
<1>2. /\ handle[c] = r /\ pc[c] = "sending" /\ request[c].op = "PauseRun" /\ r # NoID
      /\ run[r] \in RunType /\ RunShape(run[r])
  BY <1>1, Taken
<1>3. CASE Leaves(c, "ErrRunFinished", NoRun) /\ UNCHANGED run
  BY <1>1, <1>2, <1>3, ErrorKeeps
<1>4. ASSUME ~Over(r), run' = [run EXCEPT ![r].state = st], NEW v, Leaves(c, "nil", v)
      PROVE  ServiceInv'
  <2> DEFINE t == [run[r] EXCEPT !.state = st]
  <2>1. RegistryTypes /\ pendingByRun' \in [RunIDs -> Int]
    BY <1>1 DEF ServiceInv, Types, RegistryTypes
  <2>2. run' = [run EXCEPT ![r] = t]
    BY <1>4, <2>1 DEF RegistryTypes
  <2>3. st \in States
    BY DEF States
  <2> HIDE DEF st
  <2>4. t \in RunType /\ Grows(run[r], t) /\ RunShape(t)
    BY <1>2, <1>4, <2>3, StateGrows DEF Over
  <2> HIDE DEF t
  <2>5. /\ pc'[c] = "sent" /\ reply'[c].err = "nil" /\ UNCHANGED <<request, handle>>
    BY <1>4, LeavesFacts
  <2>6. ReplyOK(c)'
    BY <1>2, <2>5 DEF ReplyOK
  <2>7. ASSUME NEW p \in Calls PROVE OrderOK(c, p)'
    <3>1. ASSUME p \in since[c], Executed(p), handle[p] = r PROVE request[p].op # "FinishRun"
      BY <1>2, <1>4, <3>1, ToldBefore DEF Over
    <3> QED
      BY <1>2, <1>4, <3>1, OrderAfterCommand
  <2> QED
    BY <1>1, <1>2, <1>4, <2>1, <2>2, <2>4, <2>6, <2>7, CommandKeeps
<1> QED
  BY <1>3, <1>4 DEF SetPaused

LEMMA FinishRunKeeps ==
    ASSUME ServiceInv, NEW r \in RunIDs, NEW c \in AllCalls, FinishRun(r, c)
    PROVE  ServiceInv'
<1> DEFINE v == [View(r) EXCEPT !.state = "finished"]
           t == [run[r] EXCEPT !.state = "finished"]
<1>1. /\ Takes(r, c, {"FinishRun"}) /\ Leaves(c, "nil", v)
      /\ run' = [run EXCEPT ![r].state = "finished"]
      /\ pendingByRun' = [pendingByRun EXCEPT ![r] = NoEntry]
  BY DEF FinishRun, ForgetRun
<1>2. /\ handle[c] = r /\ pc[c] = "sending" /\ request[c].op = "FinishRun" /\ r # NoID
      /\ run[r] \in RunType /\ RunShape(run[r])
  BY <1>1, Taken
<1>3. RegistryTypes /\ pendingByRun' \in [RunIDs -> Int]
  BY <1>1 DEF ServiceInv, Types, RegistryTypes, NoEntry
<1>4. run' = [run EXCEPT ![r] = t] /\ run'[r] = t
  BY <1>1, <1>3 DEF RegistryTypes
<1>5. t \in RunType /\ Grows(run[r], t) /\ RunShape(t)
  BY <1>2, StateGrows DEF States
<1>6. t.state = "finished" /\ v = View(r)'
  <2>1. /\ t.state = "finished" /\ t.tick = run[r].tick /\ t.revision = run[r].revision
        /\ t.controls = run[r].controls /\ t.pending = run[r].pending
    BY <1>2 DEF RunType
  <2>2. v = [id |-> r, state |-> "finished", tick |-> run[r].tick,
             revision |-> run[r].revision, controls |-> run[r].controls,
             pending |-> run[r].pending, logRecovery |-> r \in Damaged]
    BY DEF View
  <2> HIDE DEF t, v
  <2>3. View(r)' = [id |-> r, state |-> t.state, tick |-> t.tick,
                    revision |-> t.revision, controls |-> t.controls,
                    pending |-> t.pending, logRecovery |-> r \in Damaged]
    BY <1>4 DEF View
  <2> QED
    BY <2>1, <2>2, <2>3
<1>7. run[r].state = "finished" => v = View(r)
  BY DEF View
<1> HIDE DEF t, v
<1>8. /\ pc'[c] = "sent" /\ reply'[c].err = "nil" /\ reply'[c].value = v
      /\ UNCHANGED <<request, handle>>
  BY <1>1, LeavesFacts
<1>9. ReplyOK(c)'
  BY <1>2, <1>4, <1>6, <1>8 DEF ReplyOK
<1>10. ASSUME NEW p \in Calls PROVE OrderOK(c, p)'
  <2>1. ASSUME p \in since[c], Executed(p), handle[p] = r, request[p].op = "FinishRun"
        PROVE  v = reply[p].value
    BY <1>2, <1>7, <2>1, ToldBefore
  <2> QED
    BY <1>1, <1>2, <2>1, OrderAfterCommand
<1> QED
  BY <1>1, <1>2, <1>3, <1>4, <1>5, <1>9, <1>10, CommandKeeps

\* The controls a tick obeys, and the records it appends.
LEMMA TickTypes ==
    ASSUME NEW s \in RunType
    PROVE  InForce(s) \in Mixes /\ BatchLen(s) \in Nat
<1>1. /\ s.controls \in Mixes /\ s.staged \in Seq(Staged) /\ Len(s.staged) \in Nat
      /\ \A i \in 1 .. Len(s.staged) : s.staged[i].controls \in Mixes
  BY RunFields
<1>2. s.staged # <<>> => Len(s.staged) \in 1 .. Len(s.staged)
  <2> HIDE DEF Staged
  <2> QED
    BY <1>1
<1>3. InForce(s) \in Mixes
  BY <1>1, <1>2 DEF InForce
<1>4. EventsOf[InForce(s)] \in Nat
  BY <1>3, ServiceAssumption
<1> QED
  BY <1>1, <1>3, <1>4 DEF BatchLen

\* Step, whatever state the run is left in.
LEMMA StepGrows ==
    ASSUME NEW s \in RunType, RunShape(s), s.state # "finished", s.tick < TickBound,
           NEW st \in States, NEW t, t = [Step(s) EXCEPT !.state = st]
    PROVE  /\ t \in RunType /\ Grows(s, t) /\ RunShape(t) /\ t.state = st
           /\ t.pending = Step(s).pending /\ t.pending \in Nat
<1>1. /\ InForce(s) \in Mixes /\ BatchLen(s) \in Nat
  BY TickTypes
<1>2. s.tick \in Nat /\ s.revision \in Nat /\ s.pending \in Nat /\ Len(s.staged) \in Nat
  BY RunFields
<1>3. LeftOf(s.pending + BatchLen(s), CapacityOf[InForce(s)]) \in Nat
  <2>1. CapacityOf[InForce(s)] \in Nat
    BY <1>1, ServiceAssumption
  <2> QED
    BY <1>1, <1>2, <2>1 DEF LeftOf
<1>4. /\ Recorded(s, Len(s.staged)) \in Seq(Applied) /\ s.tick + 1 \in Nat
      /\ <<>> \in Seq(Staged)
  BY <1>2, RecordedFacts
<1> DEFINE left == LeftOf(s.pending + BatchLen(s), CapacityOf[InForce(s)])
           recorded == Recorded(s, Len(s.staged))
           n == s.tick + 1
           m == InForce(s)
<1>5. t = [s EXCEPT !.state = st, !.tick = n, !.controls = m,
                    !.staged = <<>>, !.applied = recorded, !.pending = left]
  BY DEF Step, RunType
<1>6. Step(s).pending = left
  BY DEF Step, RunType
<1> HIDE DEF left, recorded, n, m
<1>7. /\ t \in RunType /\ t.tick = n /\ t.revision = s.revision /\ t.state = st
      /\ t.staged = <<>> /\ t.applied = recorded /\ t.pending = left
  <2>1. n \in Nat /\ m \in Mixes /\ left \in Nat /\ recorded \in Seq(Applied)
    BY <1>1, <1>3, <1>4 DEF left, recorded, n, m
  <2> HIDE DEF Staged, Applied, States
  <2> QED
    BY <1>4, <1>5, <2>1 DEF RunType
<1>8. t.tick <= TickBound /\ s.tick <= t.tick
  BY <1>2, <1>7, ServiceBoundsAssumption DEF n
<1>9. Grows(s, t) /\ RunShape(t)
  <2>1. t.applied = Recorded(s, Len(s.staged))
    BY <1>7 DEF recorded
  <2> QED
    BY <1>2, <1>7, <1>8, <2>1, TickGrows
<1> QED
  BY <1>3, <1>6, <1>7, <1>9 DEF left

\* A tick of a run, seen by everybody.
LEMMA LoopKeeps ==
    ASSUME ServiceInv, NEW r \in RunIDs, run[r] # NoRun, NEW t \in RunType,
           run' = [run EXCEPT ![r] = t], Grows(run[r], t), RunShape(t),
           pendingByRun' \in [RunIDs -> Int],
           UNCHANGED <<registry, loop, quit, handlers, server>>, faults' \in 0 .. MaxFaults
    PROVE  ServiceInv'
<1>1. /\ World /\ RegistryTypes' /\ DaemonTypes' /\ DaemonInv' /\ OrderInv'
      /\ \A q \in RunIDs : RunOK(q)'
  BY RunMoves
<1>2. CallsOK'
  BY <1>1, NoCallMoves
<1>3. CallTypes'
  BY DEF ServiceInv, Types, CallTypes, handlers
<1> QED
  BY <1>1, <1>2, <1>3 DEF ServiceInv, Types

LEMMA AdvanceKeeps ==
    ASSUME ServiceInv, NEW r \in RunIDs, Advance(r)
    PROVE  ServiceInv'
<1> DEFINE s == Step(run[r])
           ends == MaxTicks > 0 /\ s.tick >= MaxTicks
           st == IF ends THEN "finished" ELSE "running"
           t == [s EXCEPT !.state = st]
<1>1. /\ run[r].state = "running" /\ run[r].tick < TickBound
      /\ run' = [run EXCEPT ![r] = t] /\ RecordedBy(r, s.pending, ends)
      /\ UNCHANGED <<registry, loop, quit, handlers, server, faults>>
  BY DEF Advance, Ticks
<1>2. RegistryTypes /\ faults' \in 0 .. MaxFaults
  BY <1>1 DEF ServiceInv, Types, DaemonTypes
<1>3. run[r] # NoRun /\ run[r] \in RunType /\ RunShape(run[r])
  BY <1>1, <1>2 DEF NoRun, RegistryTypes, ServiceInv, RunOK
<1>4. st \in States
  BY DEF States
<1> HIDE DEF st
<1>5. /\ t \in RunType /\ Grows(run[r], t) /\ RunShape(t)
      /\ t.pending = s.pending /\ t.pending \in Nat
  BY <1>1, <1>3, <1>4, StepGrows
<1> HIDE DEF t, s, ends
<1>6. pendingByRun' \in [RunIDs -> Int]
  BY <1>1, <1>2, <1>5 DEF RecordedBy, ForgetRun, ObservePending, RegistryTypes, NoEntry
<1> QED
  BY <1>1, <1>2, <1>3, <1>5, <1>6, LoopKeeps

LEMMA AdvanceFailsKeeps ==
    ASSUME ServiceInv, NEW r \in RunIDs, AdvanceFails(r)
    PROVE  ServiceInv'
<1>1. /\ run[r].state = "running" /\ run[r].tick < TickBound /\ faults < MaxFaults
      /\ pendingByRun' = [pendingByRun EXCEPT ![r] = NoEntry] /\ faults' = faults + 1
      /\ UNCHANGED <<registry, loop, quit, handlers, server>>
  BY DEF AdvanceFails, Ticks, ForgetRun
<1>2. RegistryTypes /\ faults \in 0 .. MaxFaults
  BY DEF ServiceInv, Types, DaemonTypes
<1>3. run[r] # NoRun /\ run[r] \in RunType /\ RunShape(run[r])
  BY <1>1, <1>2 DEF NoRun, RegistryTypes, ServiceInv, RunOK
<1>4. faults' \in 0 .. MaxFaults /\ pendingByRun' \in [RunIDs -> Int]
  BY <1>1, <1>2, ServiceBoundsAssumption DEF RegistryTypes, NoEntry
<1>5. ASSUME NEW k \in 0 .. BatchLen(run[r]),
             run' = [run EXCEPT ![r] = [run[r] EXCEPT !.state = "finished",
                                                      !.controls = InForce(run[r]),
                                                      !.staged = <<>>,
                                                      !.applied = Recorded(run[r], k),
                                                      !.pending = @ + k]]
      PROVE  ServiceInv'
  <2> DEFINE s == run[r]
             m == InForce(s)
             recorded == Recorded(s, k)
             n == s.pending + k
             t == [s EXCEPT !.state = "finished", !.controls = m, !.staged = <<>>,
                            !.applied = recorded, !.pending = n]
  <2>1. k \in Nat /\ m \in Mixes
    BY <1>3, TickTypes
  <2>2. recorded \in Seq(Applied) /\ n \in Nat /\ s.tick \in Nat /\ s.revision \in Nat
    <3>1. s.pending \in Nat /\ s.tick \in Nat /\ s.revision \in Nat
      BY <1>3, RunFields
    <3>2. recorded \in Seq(Applied)
      BY <1>3, <2>1, RecordedFacts
    <3> QED
      BY <2>1, <3>1, <3>2
  <2>3. run' = [run EXCEPT ![r] = t]
    <3>1. t = [s EXCEPT !.state = "finished", !.controls = InForce(run[r]), !.staged = <<>>,
                        !.applied = Recorded(run[r], k), !.pending = @ + k]
      BY <1>3 DEF RunType
    <3> HIDE DEF t
    <3> QED
      BY <1>5, <3>1, Zenon
  <2> HIDE DEF recorded, n, m
  <2>4. /\ t \in RunType /\ t.tick = s.tick /\ t.revision = s.revision /\ t.state = "finished"
        /\ t.staged = <<>> /\ t.applied = recorded
    <3> HIDE DEF Applied, Staged
    <3>1. "finished" \in States /\ <<>> \in Seq(Staged)
      BY DEF States
    <3> HIDE DEF States
    <3> QED
      BY <1>3, <2>1, <2>2, <3>1 DEF RunType
  <2> HIDE DEF t
  <2>5. Grows(run[r], t) /\ RunShape(t)
    <3>1. t.tick <= TickBound /\ s.tick <= t.tick
      BY <1>1, <2>2, <2>4, ServiceBoundsAssumption
    <3>2. t.applied = Recorded(s, k) /\ s.state # "finished"
      BY <1>1, <2>4 DEF recorded
    <3> QED
      BY <1>3, <2>1, <2>4, <3>1, <3>2, TickGrows
  <2> QED
    BY <1>1, <1>3, <1>4, <2>3, <2>4, <2>5, LoopKeeps
<1>6. CASE run' = [run EXCEPT ![r] = [Step(@) EXCEPT !.state = "finished"]]
  <2> DEFINE t == [Step(run[r]) EXCEPT !.state = "finished"]
  <2>1. run' = [run EXCEPT ![r] = t] /\ "finished" \in States
    BY <1>2, <1>6 DEF RegistryTypes, States
  <2>2. t \in RunType /\ Grows(run[r], t) /\ RunShape(t)
    BY <1>1, <1>3, <2>1, StepGrows
  <2> HIDE DEF t
  <2> QED
    BY <1>1, <1>3, <1>4, <2>1, <2>2, LoopKeeps
<1> QED
  BY <1>5, <1>6 DEF AdvanceFails

LEMMA QuitKeeps ==
    ASSUME ServiceInv, NEW r \in RunIDs, Quit(r)
    PROVE  ServiceInv'
<1>1. /\ loop[r] = "select" /\ quit[r] /\ loop' = [loop EXCEPT ![r] = "done"]
      /\ UNCHANGED <<registry, run, quit, pendingByRun, handlers, server, faults>>
  BY DEF Quit
<1>2. RegistryTypes
  BY DEF ServiceInv, Types
<1>3. closed
  BY <1>1 DEF ServiceInv, DaemonInv
<1>4. World
  BY <1>1, <1>2, WorldRests
<1>5. CallsOK'
  BY <1>1, <1>4, NoCallMoves
<1>6. RegistryTypes'
  BY <1>1, <1>2 DEF RegistryTypes, registry
<1>7. CallTypes' /\ DaemonTypes'
  BY <1>1 DEF ServiceInv, Types, CallTypes, DaemonTypes, handlers, server
<1>8. DaemonInv' /\ OrderInv'
  BY <1>1, <1>3 DEF ServiceInv, DaemonInv, OrderInv, registry, server
<1>9. \A q \in RunIDs : RunOK(q)'
  BY <1>1, <1>2 DEF ServiceInv, RunOK, RegistryTypes
<1> QED
  BY <1>5, <1>6, <1>7, <1>8, <1>9 DEF ServiceInv, Types

-----------------------------------------------------------------------------
(* The daemon.                                                             *)

\* realMain between the signal and Close leaves the registry and the runs alone.
LEMMA ShutdownKeeps ==
    ASSUME ServiceInv, UNCHANGED <<registry, engine, handlers, stopping, faults>>,
           Signal \/ ListenerFails \/ HTTPDrained \/ HTTPTimesOut \/ GracefulStop
    PROVE  ServiceInv'
<1>1. RegistryTypes /\ World
  BY WorldRests DEF ServiceInv, Types, engine
<1>2. CallsOK'
  BY <1>1, NoCallMoves
<1>3. RegistryTypes' /\ CallTypes'
  BY <1>1 DEF RegistryTypes, ServiceInv, Types, CallTypes, registry, engine, handlers
<1>4. DaemonTypes'
  BY DEF ServiceInv, Types, DaemonTypes, Signal, ListenerFails, HTTPDrained, HTTPTimesOut,
         GracefulStop
<1>5. DaemonInv'
  <2>1. \A r \in RunIDs : quit'[r] \/ loop'[r] = "done" => closed'
    BY DEF ServiceInv, DaemonInv, registry, engine
  <2>2. /\ \A r \in runs' : run'[r] # NoRun
        /\ ~closed' => \A r \in RunIDs : run'[r] # NoRun => r \in runs'
    BY DEF ServiceInv, DaemonInv, registry, engine
  <2>3. closed' = closed
    BY DEF registry
  <2> QED
    BY <2>1, <2>2, <2>3 DEF ServiceInv, DaemonInv, Signal, ListenerFails, HTTPDrained,
                            HTTPTimesOut, GracefulStop
<1>6. OrderInv' /\ \A r \in RunIDs : RunOK(r)'
  BY DEF ServiceInv, OrderInv, RunOK, registry, engine
<1> QED
  BY <1>2, <1>3, <1>4, <1>5, <1>6 DEF ServiceInv, Types

LEMMA CloseRegistryKeeps ==
    ASSUME ServiceInv, CloseRegistry
    PROVE  ServiceInv'
<1>1. /\ daemon = "returning" /\ daemon' = "closing" /\ closed' = TRUE /\ runs' = {}
      /\ order' = <<>> /\ stopping' = runs
      /\ UNCHANGED <<engine, handlers, accepting, result, faults>>
  BY DEF CloseRegistry
<1>2. RegistryTypes /\ DaemonTypes
  BY DEF ServiceInv, Types
<1>3. World
  <2>1. ASSUME NEW r \in RunIDs, run[r] # NoRun PROVE Grows(run[r], run'[r])
    <3>1. run[r] \in RunType /\ run'[r] = run[r]
      BY <1>1, <1>2, <2>1 DEF RegistryTypes, engine
    <3>2. run[r].tick \in Nat /\ run[r].revision \in Nat
      BY <3>1, RunFields
    <3> QED
      BY <3>1, <3>2 DEF Grows
  <2> QED
    BY <1>1, <2>1 DEF World, engine
<1>4. CallsOK'
  BY <1>1, <1>3, NoCallMoves
<1>5. RegistryTypes' /\ CallTypes' /\ DaemonTypes'
  BY <1>1, <1>2 DEF RegistryTypes, DaemonTypes, ServiceInv, Types, CallTypes, engine, handlers
<1>6. DaemonInv' /\ OrderInv'
  BY <1>1 DEF ServiceInv, DaemonInv, OrderInv
<1>7. \A r \in RunIDs : RunOK(r)'
  BY <1>1 DEF ServiceInv, RunOK, engine
<1> QED
  BY <1>4, <1>5, <1>6, <1>7 DEF ServiceInv, Types

LEMMA StopRunKeeps ==
    ASSUME ServiceInv, NEW r \in RunIDs, StopRun(r)
    PROVE  ServiceInv'
<1>1. /\ daemon = "closing" /\ quit' = [quit EXCEPT ![r] = TRUE]
      /\ stopping' = stopping \ {r}
      /\ UNCHANGED <<registry, run, loop, pendingByRun, handlers, daemon, accepting, result, faults>>
  BY DEF StopRun
<1>2. RegistryTypes /\ DaemonTypes /\ closed
  BY <1>1 DEF ServiceInv, Types, DaemonInv
<1>3. World
  BY <1>1, <1>2, WorldRests
<1>4. CallsOK'
  BY <1>1, <1>3, NoCallMoves
<1>5. RegistryTypes' /\ CallTypes' /\ DaemonTypes'
  BY <1>1, <1>2 DEF RegistryTypes, DaemonTypes, ServiceInv, Types, CallTypes, registry, handlers
<1>6. DaemonInv' /\ OrderInv'
  BY <1>1, <1>2 DEF ServiceInv, DaemonInv, OrderInv, registry
<1>7. \A q \in RunIDs : RunOK(q)'
  BY <1>1 DEF ServiceInv, RunOK
<1> QED
  BY <1>4, <1>5, <1>6, <1>7 DEF ServiceInv, Types

LEMMA ExitKeeps ==
    ASSUME ServiceInv, Exit
    PROVE  ServiceInv'
<1>1. /\ daemon = "closing" /\ daemon' = "exited" /\ accepting' = FALSE
      /\ UNCHANGED <<registry, engine, handlers, result, stopping, faults>>
  BY DEF Exit
<1>2. RegistryTypes /\ DaemonTypes /\ World
  BY <1>1, WorldRests DEF ServiceInv, Types, engine
<1>3. CallsOK'
  BY <1>1, <1>2, NoCallMoves
<1>4. RegistryTypes' /\ CallTypes' /\ DaemonTypes'
  BY <1>1, <1>2 DEF RegistryTypes, DaemonTypes, ServiceInv, Types, CallTypes, registry, engine,
                    handlers
<1>5. DaemonInv' /\ OrderInv'
  BY <1>1 DEF ServiceInv, DaemonInv, OrderInv, registry, engine
<1>6. \A q \in RunIDs : RunOK(q)'
  BY <1>1 DEF ServiceInv, RunOK, engine
<1> QED
  BY <1>3, <1>4, <1>5, <1>6 DEF ServiceInv, Types

LEMMA DaemonKeeps ==
    ASSUME ServiceInv, Daemon
    PROVE  ServiceInv'
<1>1. CASE Signal \/ ListenerFails \/ HTTPDrained \/ HTTPTimesOut \/ GracefulStop
  <2>1. UNCHANGED <<registry, engine, handlers, stopping, faults>>
    BY <1>1 DEF Signal, ListenerFails, HTTPDrained, HTTPTimesOut, GracefulStop
  <2> QED
    BY <1>1, <2>1, ShutdownKeeps
<1> QED
  BY <1>1, CloseRegistryKeeps, StopRunKeeps, ExitKeeps DEF Daemon

-----------------------------------------------------------------------------
(* The invariant holds.                                                    *)

\* A sequence that is onto a set of its length names everything once.
LEMMA OntoIsDistinct ==
    ASSUME NEW S, IsFiniteSet(S), NEW s \in [1 .. Cardinality(S) -> S],
           {s[i] : i \in DOMAIN s} = S
    PROVE  /\ s \in Seq(S) /\ Len(s) = Cardinality(S) /\ Cardinality(S) \in Nat
           /\ \A i, j \in 1 .. Len(s) : s[i] = s[j] => i = j
           /\ S = {s[i] : i \in 1 .. Len(s)}
<1> DEFINE n == Cardinality(S)
<1>1. n \in Nat
  BY FS_CardinalityType
<1>2. IsFiniteSet(1 .. n) /\ Cardinality(1 .. n) = n
  BY <1>1, FS_Interval
<1>3. s \in Surjection(1 .. n, S)
  BY DEF Surjection
<1>4. s \in Injection(1 .. n, S)
  BY <1>2, <1>3, FS_SurjSameCardinalityImpliesInj
<1>5. s \in [1 .. n -> S]
  OBVIOUS
<1>6. S = {s[i] : i \in 1 .. n}
  BY <1>5
<1> HIDE DEF n
<1>7. \A i, j \in 1 .. n : s[i] = s[j] => i = j
  BY <1>4, Fun_InjectionProperties, Zenon
<1>8. s \in Seq(S) /\ Len(s) = n
  BY <1>1, <1>5
<1> QED
  BY <1>1, <1>6, <1>7, <1>8 DEF n

LEMMA InitKeeps ==
    ASSUME Init
    PROVE  ServiceInv
<1>1. /\ IsFiniteSet(Recovered) /\ Recovered \subseteq RunIDs /\ Mix \in Mixes
      /\ Calls \subseteq AllCalls
  BY ServiceAssumption DEF AllCalls
<1>2. /\ order \in Seq(Recovered) /\ \A i, j \in 1 .. Len(order) : order[i] = order[j] => i = j
      /\ Recovered = {order[i] : i \in 1 .. Len(order)}
  <2>1. /\ order \in [1 .. Cardinality(Recovered) -> Recovered]
        /\ {order[i] : i \in DOMAIN order} = Recovered
    BY DEF Init
  <2> QED
    BY <1>1, <2>1, OntoIsDistinct
<1>3. FreshRun(Mix) \in RunType /\ FreshRun(Mix) # NoRun /\ RunShape(FreshRun(Mix))
  BY <1>1, FreshRunOK
<1>4. /\ run = [r \in RunIDs |-> IF r \in Recovered THEN FreshRun(Mix) ELSE NoRun]
      /\ loop = [r \in RunIDs |-> IF r \in Recovered THEN "select" ELSE "none"]
      /\ runs = Recovered
  BY DEF Init
<1>5. RegistryTypes
  <2>1. order \in Seq(RunIDs)
    <3>1. order \in [1 .. Len(order) -> Recovered] /\ Len(order) \in Nat
      BY <1>2
    <3>2. order \in [1 .. Len(order) -> RunIDs]
      BY <1>1, <3>1
    <3> QED
      BY <3>1, <3>2
  <2>2. run \in [RunIDs -> RunType \cup {NoRun}]
    BY <1>3, <1>4
  <2>3. loop \in [RunIDs -> {"none", "born", "select", "done"}]
    BY <1>4
  <2>4. quit = [r \in RunIDs |-> FALSE] /\ closed \in BOOLEAN
    BY DEF Init
  <2>5. quit \in [RunIDs -> BOOLEAN]
    BY <2>4, Zenon
  <2>6. pendingByRun \in [RunIDs -> Int]
    BY DEF Init, NoEntry
  <2> QED
    BY <1>1, <1>4, <2>1, <2>2, <2>3, <2>4, <2>5, <2>6 DEF RegistryTypes
<1>6. /\ \A c \in AllCalls : request[c] = NoRequest /\ pc[c] = "idle" /\ handle[c] = NoID
      /\ \A c \in AllCalls : reply[c] = NoReply /\ since[c] = {}
  BY DEF Init
<1>7. CallTypes
  <2>1. /\ request = [c \in AllCalls |-> request[c]] /\ reply = [c \in AllCalls |-> reply[c]]
        /\ answer = [c \in AllCalls |-> answer[c]]
    BY DEF Init
  <2>2. \A c \in AllCalls : request[c].id \in RunIDs \cup {NoID}
    BY <1>6 DEF NoRequest
  <2>3. /\ pc \in [AllCalls -> {"idle", "called", "spawning", "lookup", "listing", "sending",
                                "sent", "answered"}]
        /\ handle \in [AllCalls -> RunIDs \cup {NoID}]
        /\ since \in [AllCalls -> SUBSET Calls]
    BY DEF Init
  <2>4. list \in [AllCalls -> [left : Seq(RunIDs), out : Seq(RunIDs)]]
    BY DEF Init
  <2> QED
    BY <2>1, <2>2, <2>3, <2>4 DEF CallTypes
<1>8. DaemonTypes
  BY ServiceBoundsAssumption DEF Init, DaemonTypes
<1>9. DaemonInv
  <2>1. \A r \in RunIDs : loop[r] # "done" /\ ~quit[r]
    BY <1>4 DEF Init
  <2>2. \A r \in RunIDs : run[r] # NoRun <=> r \in runs
    BY <1>3, <1>4
  <2> QED
    BY <1>1, <1>4, <2>1, <2>2 DEF Init, DaemonInv
<1>10. OrderInv
  BY <1>2, <1>4 DEF OrderInv
<1>11. \A r \in RunIDs : RunOK(r)
  BY <1>3, <1>4 DEF RunOK
<1>12. ASSUME NEW c \in AllCalls PROVE CallOK(c)
  <2>1. Shape(c)
    BY <1>6 DEF Shape, NoRequest
  <2> QED
    BY <1>6, <2>1 DEF CallOK, HandleOK, AnswerOK, ReplyOK, Executed, ListOK
<1>13. \A c \in AllCalls, p \in Calls : OrderOK(c, p)
  BY <1>6 DEF OrderOK
<1> QED
  BY <1>5, <1>7, <1>8, <1>9, <1>10, <1>11, <1>12, <1>13 DEF ServiceInv, Types, CallsOK

\* Steps of the daemon and of its other clients, whoever else shares them.
LEMMA NextKeeps ==
    ASSUME ServiceInv, Next
    PROVE  ServiceInv'
<1>1. ASSUME NEW c \in Calls, NEW q \in Requests, Issue(c, q) PROVE ServiceInv'
  <2>1. c \in AllCalls /\ c # "poll" /\ q.id \in RunIDs \cup {NoID}
    BY ServiceAssumption, RequestAssumption DEF AllCalls
  <2> QED
    BY <1>1, <2>1, IssueKeeps
<1>2. ASSUME NEW c \in AllCalls, Handler(c) PROVE ServiceInv'
  BY <1>2, HandlerKeeps
<1>3. ASSUME NEW r \in RunIDs, NEW c \in AllCalls, Command(r, c) PROVE ServiceInv'
  BY <1>3, QueryKeeps, UpdateControlsKeeps, SetPausedKeeps, FinishRunKeeps DEF Command
<1>4. ASSUME NEW r \in RunIDs, Loop(r) PROVE ServiceInv'
  BY <1>4, AdvanceKeeps, AdvanceFailsKeeps, QuitKeeps DEF Loop
<1>5. CASE Daemon
  BY <1>5, DaemonKeeps
<1> QED
  BY <1>1, <1>2, <1>3, <1>4, <1>5 DEF Next

\* Nothing happens.
LEMMA ServiceRests ==
    ASSUME ServiceInv, UNCHANGED service
    PROVE  ServiceInv'
<1>1. /\ UNCHANGED <<registry, engine, server>> /\ UNCHANGED handlers /\ faults' = faults
      /\ UNCHANGED <<request, pc, handle, reply, answer, list, since>>
  BY DEF service, handlers
<1>2. faults' \in 0 .. MaxFaults
  BY <1>1 DEF ServiceInv, Types, DaemonTypes
<1>3. /\ World /\ RegistryTypes' /\ DaemonTypes' /\ DaemonInv' /\ OrderInv'
      /\ \A r \in RunIDs : RunOK(r)'
  BY <1>1, <1>2, EngineRests
<1>4. CallTypes'
  BY <1>1 DEF ServiceInv, Types, CallTypes
<1>5. CallsOK'
  BY <1>1, <1>3, NoCallMoves
<1> QED
  BY <1>3, <1>4, <1>5 DEF ServiceInv, Types

-----------------------------------------------------------------------------
(* What the invariant says to a client.                                    *)

\* The invariant, in every state the daemon and its clients reach.
THEOREM ServiceHolds == Spec => []ServiceInv
<1>1. Init => ServiceInv
  BY InitKeeps
<1>2. ServiceInv /\ [Next]_service => ServiceInv'
  BY NextKeeps, ServiceRests
<1> QED
  BY <1>1, <1>2, PTL DEF Spec

\* An answer's code says what became of the command: after OK it has run, after a
\* refusal it has not and StartRun has registered nothing, and Unavailable comes
\* only from a registry that is closed. do may report a closed run for a command
\* that ran, so the codes are no echo of the reply.
THEOREM AnswersMeanWhatTheySay == Spec => []AnswersAreDefinite
<1>1. ServiceInv => AnswersAreDefinite
  BY DEF ServiceInv, CallsOK, CallOK, AnswerOK, AnswersAreDefinite
<1> QED
  BY <1>1, ServiceHolds, PTL

\* What is sent of a reply has the fields the engine gave it.
LEMMA SentFields ==
    ASSUME NEW v, NEW f, f \in DOMAIN v, f # "logRecovery"
    PROVE  Sent(v)[f] = v[f]
BY DEF Sent

\* The answer of a call that was accepted is the reply its run left for it.
LEMMA AcceptedIsExecuted ==
    ASSUME ServiceInv, NEW c \in AllCalls, NEW op, op # "ListRuns", OK(c, op)
    PROVE  /\ Executed(c) /\ request[c].op = op /\ answer[c].value = Sent(reply[c].value)
           /\ handle[c] \in RunIDs
<1>1. pc[c] = "answered" /\ request[c].op = op /\ answer[c].code = "OK"
  BY DEF OK, Answered
<1>2. AnswerOK(c) /\ ReplyOK(c) /\ CallTypes
  BY DEF ServiceInv, CallsOK, CallOK, Types
<1>3. reply[c].err = "nil" /\ answer[c].value = Sent(reply[c].value)
  BY <1>1, <1>2 DEF AnswerOK
<1>4. Executed(c)
  BY <1>1, <1>3 DEF Executed
<1>5. handle[c] # NoID /\ handle[c] \in RunIDs \cup {NoID}
  BY <1>2, <1>4 DEF ReplyOK, CallTypes
<1> QED
  BY <1>1, <1>3, <1>4, <1>5

\* The receipt of an accepted update.
LEMMA ReceiptFields ==
    ASSUME ServiceInv, NEW c \in AllCalls, OK(c, "UpdateControls")
    PROVE  /\ answer[c].value.id = handle[c] /\ answer[c].value.rev = reply[c].value.rev
           /\ answer[c].value.at = reply[c].value.at
           /\ Honest(run[handle[c]], reply[c].value.rev, reply[c].value.at)
           /\ reply[c].value.rev \in Nat
<1> DEFINE v == reply[c].value
<1>1. Executed(c) /\ request[c].op = "UpdateControls" /\ answer[c].value = Sent(v)
  BY AcceptedIsExecuted
<1>2. /\ v = [state |-> "revision", id |-> handle[c], rev |-> v.rev, at |-> v.at]
      /\ v.rev \in Nat /\ Honest(run[handle[c]], v.rev, v.at)
  BY <1>1 DEF ServiceInv, CallsOK, CallOK, ReplyOK
<1>3. {"id", "rev", "at"} \subseteq DOMAIN v /\ v.id = handle[c]
  BY <1>2
<1>4. Sent(v)["id"] = v["id"] /\ Sent(v)["rev"] = v["rev"] /\ Sent(v)["at"] = v["at"]
  BY <1>3, SentFields
<1> QED
  BY <1>1, <1>2, <1>3, <1>4

\* The receipt of UpdateControls tells the truth: its control_changed record carries
\* the tick the receipt named, or the run has not moved past that tick. The receipt
\* is made when the update is staged; the tick that records it comes later, and may
\* fail or never come.
THEOREM ReceiptsAreKept == Spec => []ReceiptsAreHonest
<1>1. ASSUME ServiceInv, NEW c \in AllCalls, OK(c, "UpdateControls")
      PROVE  LET v == answer[c].value
                 s == run[v.id]
             IN  \/ \E i \in 1 .. Len(s.applied) : s.applied[i] = [rev |-> v.rev, at |-> v.at]
                 \/ s.tick = v.at /\ \A i \in 1 .. Len(s.applied) : s.applied[i].rev # v.rev
  <2> DEFINE v == answer[c].value
  <2>1. Honest(run[handle[c]], reply[c].value.rev, reply[c].value.at)
    BY <1>1, ReceiptFields
  <2>2. v.id = handle[c] /\ v.rev = reply[c].value.rev /\ v.at = reply[c].value.at
    BY <1>1, ReceiptFields
  <2>3. Honest(run[v.id], v.rev, v.at)
    BY <2>1, <2>2
  <2> QED
    BY <2>3 DEF Honest
<1>2. ServiceInv => ReceiptsAreHonest
  BY <1>1 DEF ReceiptsAreHonest
<1> QED
  BY <1>2, ServiceHolds, PTL

\* The view an accepted query sends.
LEMMA QueryFields ==
    ASSUME ServiceInv, NEW c \in AllCalls, OK(c, "Query")
    PROVE  /\ answer[c].value.revision = reply[c].value.revision
           /\ answer[c].value.tick = reply[c].value.tick
<1> DEFINE v == reply[c].value
<1>1. Executed(c) /\ request[c].op = "Query" /\ answer[c].value = Sent(v)
  BY AcceptedIsExecuted
<1>2. {"id", "tick", "revision"} \subseteq DOMAIN v
  BY <1>1 DEF ServiceInv, CallsOK, CallOK, ReplyOK
<1>3. Sent(v)["tick"] = v["tick"] /\ Sent(v)["revision"] = v["revision"]
  BY <1>2, SentFields
<1> QED
  BY <1>1, <1>3

\* Calls that do not overlap see the run in the order they were made: revisions
\* grow, a query shows every update accepted before it and never an older tick, and
\* FinishRun is final and may be retried. Each call reaches the run's goroutine
\* through a lookup and a channel of its own; only the goroutine orders them.
THEOREM CallsAreAnsweredInOrder == Spec => []AnswersInOrder
<1>1. ASSUME ServiceInv, NEW c \in AllCalls, NEW p \in Calls, Follows(c, p)
      PROVE  /\ OK(p, "UpdateControls") /\ OK(c, "UpdateControls") =>
                    answer[c].value.rev > answer[p].value.rev
             /\ OK(p, "UpdateControls") /\ OK(c, "Query") =>
                    answer[c].value.revision >= answer[p].value.rev
             /\ OK(p, "Query") /\ OK(c, "Query") => answer[c].value.tick >= answer[p].value.tick
             /\ OK(p, "FinishRun") =>
                    /\ ~OK(c, "UpdateControls") /\ ~OK(c, "PauseRun")
                    /\ OK(c, "FinishRun") \/ OK(c, "Query") => answer[c].value = answer[p].value
  <2>1. p \in AllCalls /\ OrderOK(c, p) /\ p \in since[c] /\ pc[c] # "idle" /\ handle[c] = handle[p]
    BY <1>1 DEF ServiceInv, CallsOK, AllCalls, Follows
  <2>2. ASSUME OK(p, "UpdateControls"), OK(c, "UpdateControls")
        PROVE  answer[c].value.rev > answer[p].value.rev
    BY <1>1, <2>1, <2>2, AcceptedIsExecuted, ReceiptFields DEF OrderOK
  <2>3. ASSUME OK(p, "UpdateControls"), OK(c, "Query")
        PROVE  answer[c].value.revision >= answer[p].value.rev
    BY <1>1, <2>1, <2>3, AcceptedIsExecuted, ReceiptFields, QueryFields DEF OrderOK
  <2>4. ASSUME OK(p, "Query"), OK(c, "Query")
        PROVE  answer[c].value.tick >= answer[p].value.tick
    BY <1>1, <2>1, <2>4, AcceptedIsExecuted, QueryFields DEF OrderOK
  <2>5. ASSUME OK(p, "FinishRun"), OK(c, "UpdateControls") \/ OK(c, "PauseRun")
        PROVE  FALSE
    BY <1>1, <2>1, <2>5, AcceptedIsExecuted DEF OrderOK
  <2>6. ASSUME OK(p, "FinishRun"), OK(c, "FinishRun") \/ OK(c, "Query")
        PROVE  answer[c].value = answer[p].value
    BY <1>1, <2>1, <2>6, AcceptedIsExecuted DEF OrderOK
  <2> QED
    BY <2>2, <2>3, <2>4, <2>5, <2>6
<1>2. ServiceInv => AnswersInOrder
  BY <1>1 DEF AnswersInOrder
<1> QED
  BY <1>2, ServiceHolds, PTL

-----------------------------------------------------------------------------
(* What a clean exit has answered.                                         *)

\* This call moves, and no other does.
Moves(c) ==
    /\ pc[c] \notin {"idle", "answered"} /\ pc'[c] # "idle" /\ request'[c] = request[c]
    /\ \A d \in AllCalls \ {c} : Rests(d)

LEMMA HandlerMoves ==
    ASSUME CallTypes, NEW c \in AllCalls, Handler(c)
    PROVE  Moves(c) /\ UNCHANGED server
<1>1. ASSUME NEW err, NEW v, Answer(c, err, v), UNCHANGED <<handle, reply, list>>,
             pc[c] \notin {"idle", "answered"}
      PROVE  Moves(c)
  BY <1>1 DEF Answer, Moves, Rests, CallTypes
<1>2. ASSUME NEW err, Refuse(c, err), pc[c] \notin {"idle", "answered"} PROVE Moves(c)
  BY <1>1, <1>2 DEF Refuse
<1>3. CASE StartRefused(c)
  BY <1>2, <1>3 DEF StartRefused, Called
<1>4. CASE StartRun(c)
  BY <1>4 DEF StartRun, Called, Moves, Rests, CallTypes
<1>5. CASE Spawn(c)
  BY <1>5 DEF Spawn, Moves, Rests, CallTypes
<1>6. CASE NilControls(c)
  BY <1>2, <1>6 DEF NilControls, Called
<1>7. CASE Lookup(c)
  <2>1. pc[c] \in {"lookup", "called"} /\ UNCHANGED server
    BY <1>7 DEF Lookup
  <2>2. CASE \E err : Refuse(c, err)
    BY <1>2, <2>1, <2>2
  <2>3. CASE ~\E err : Refuse(c, err)
    BY <1>7, <2>1, <2>3 DEF Lookup, Moves, Rests, CallTypes
  <2> QED
    BY <2>2, <2>3
<1>8. CASE ListRuns(c)
  BY <1>8 DEF ListRuns, Called, Moves, Rests, CallTypes
<1>9. CASE ListNext(c)
  <2>1. pc[c] = "listing" /\ UNCHANGED server
    BY <1>9 DEF ListNext
  <2>2. CASE list[c].left = <<>>
    BY <1>1, <1>9, <2>1, <2>2 DEF ListNext
  <2>3. CASE list[c].left # <<>>
    BY <1>9, <2>1, <2>3 DEF ListNext, Moves, Rests, CallTypes
  <2> QED
    BY <2>2, <2>3
<1>10. CASE DoReturns(c)
  <2>1. pc[c] = "sent" /\ UNCHANGED server
    BY <1>10 DEF DoReturns
  <2>2. CASE request[c].op # "ListRuns"
    BY <1>1, <1>10, <2>1, <2>2 DEF DoReturns
  <2>3. CASE request[c].op = "ListRuns"
    BY <1>10, <2>1, <2>3 DEF DoReturns, Moves, Rests, CallTypes
  <2> QED
    BY <2>2, <2>3
<1>11. CASE DoFails(c)
  <2>1. pc[c] \in {"sending", "sent"} /\ UNCHANGED server
    BY <1>11 DEF DoFails
  <2>2. CASE request[c].op # "ListRuns"
    BY <1>2, <1>11, <2>1, <2>2 DEF DoFails
  <2>3. CASE request[c].op = "ListRuns"
    BY <1>11, <2>1, <2>3 DEF DoFails, Moves, Rests, CallTypes
  <2> QED
    BY <2>2, <2>3
<1> QED
  BY <1>3, <1>4, <1>5, <1>6, <1>7, <1>8, <1>9, <1>10, <1>11 DEF Handler

LEMMA CommandMoves ==
    ASSUME CallTypes, NEW r \in RunIDs, NEW c \in AllCalls, Command(r, c)
    PROVE  Moves(c) /\ handle' = handle /\ answer' = answer /\ pc[c] = "sending" /\ pc'[c] = "sent"
           /\ UNCHANGED server
<1>1. ASSUME NEW err, NEW v, Leaves(c, err, v), pc[c] = "sending"
      PROVE  Moves(c) /\ handle' = handle /\ answer' = answer /\ pc'[c] = "sent" /\ UNCHANGED server
  BY <1>1 DEF Leaves, Moves, Rests, CallTypes
<1>2. pc[c] = "sending" /\ \E err, v : Leaves(c, err, v)
  BY DEF Command, Query, UpdateControls, SetPaused, FinishRun, Takes
<1> QED
  BY <1>1, <1>2

LEMMA OthersRest ==
    ASSUME Daemon \/ \E r \in RunIDs : Loop(r)
    PROVE  UNCHANGED handlers
BY DEF Daemon, Loop, Signal, ListenerFails, HTTPDrained, HTTPTimesOut, GracefulStop, CloseRegistry,
       StopRun, Exit, Advance, AdvanceFails, Quit

\* A call that is not under way does not move, unless it is issued.
LEMMA IdleRests ==
    ASSUME CallTypes, Next, NEW c \in AllCalls
    PROVE  /\ pc[c] = "answered" => Rests(c)
           /\ pc[c] = "idle" /\ (c \notin Calls \/ ~accepting) => Rests(c)
           /\ pc[c] # "idle" => pc'[c] # "idle" /\ request'[c] = request[c]
<1>1. ASSUME NEW d \in Calls, NEW q \in Requests, Issue(d, q)
      PROVE  accepting /\ pc[d] = "idle" /\ \A e \in AllCalls \ {d} : Rests(e)
  BY <1>1 DEF Issue, Rests, CallTypes
<1>2. ASSUME NEW d \in AllCalls, Moves(d)
      PROVE  /\ pc[c] = "answered" => Rests(c)
             /\ pc[c] = "idle" => Rests(c)
             /\ pc[c] # "idle" => pc'[c] # "idle" /\ request'[c] = request[c]
  BY <1>2 DEF Moves, Rests
<1>3. UNCHANGED handlers => Rests(c)
  BY DEF handlers, Rests
<1>4. CASE \E d \in Calls, q \in Requests : Issue(d, q)
  BY <1>1, <1>4 DEF Rests
<1>5. CASE \E d \in AllCalls : Handler(d)
  BY <1>2, <1>5, HandlerMoves
<1>6. CASE \E r \in RunIDs, d \in AllCalls : Command(r, d)
  BY <1>2, <1>6, CommandMoves
<1>7. CASE Daemon \/ \E r \in RunIDs : Loop(r)
  BY <1>3, <1>7, OthersRest DEF Rests
<1> QED
  BY <1>4, <1>5, <1>6, <1>7 DEF Next

\* Once GracefulStop has returned nothing moves a call: every one was answered while
\* the registry was open, and no new one is taken.
LEMMA CleanExitKeeps ==
    ASSUME ServiceInv, CleanExitAnswersAll, Next
    PROVE  CleanExitAnswersAll'
<1> SUFFICES ASSUME result' = "nil", NEW c \in AllCalls
             PROVE  pc'[c] = "idle" \/ (pc'[c] = "answered" /\ answer'[c].code # "Unavailable")
  BY DEF CleanExitAnswersAll
<1>1. CallTypes /\ DaemonInv /\ CallOK(c)
  BY DEF ServiceInv, Types, CallsOK
<1>2. CASE result = "nil"
  <2>1. ~accepting /\ (pc[c] = "idle" \/ (pc[c] = "answered" /\ answer[c].code # "Unavailable"))
    BY <1>1, <1>2 DEF DaemonInv, CleanExitAnswersAll
  <2>2. Rests(c)
    BY <1>1, <2>1, IdleRests
  <2> QED
    BY <2>1, <2>2 DEF Rests
<1>3. CASE result # "nil"
  <2>1. ~\E d \in Calls, q \in Requests : Issue(d, q)
    BY <1>3 DEF Issue, server
  <2>2. ~\E d \in AllCalls : Handler(d)
    BY <1>1, <1>3, HandlerMoves DEF server
  <2>3. ~\E r \in RunIDs, d \in AllCalls : Command(r, d)
    BY <1>1, <1>3, CommandMoves DEF server
  <2>4. ~\E r \in RunIDs : Loop(r)
    BY <1>3 DEF Loop, Advance, AdvanceFails, Quit, server
  <2>5. GracefulStop
    BY <1>3, <2>1, <2>2, <2>3, <2>4 DEF Next, Daemon, Signal, ListenerFails, HTTPDrained,
       HTTPTimesOut, CloseRegistry, StopRun, Exit, server
  <2>6. daemon = "stopping" /\ pc[c] \in {"idle", "answered"} /\ UNCHANGED handlers
    BY <2>5 DEF GracefulStop, MayStop, InFlight
  <2>7. ~closed
    BY <1>1, <2>6 DEF DaemonInv
  <2> QED
    BY <1>1, <2>6, <2>7 DEF CallOK, AnswerOK, handlers
<1> QED
  BY <1>2, <1>3

\* When realMain returns nil, every call it had accepted was answered, and none with
\* Unavailable: GracefulStop waits for the handlers before the deferred Close takes
\* the runs from under them.
THEOREM CleanExitIsClean == Spec => []CleanExitAnswersAll
<1>1. Init => CleanExitAnswersAll
  BY DEF Init, CleanExitAnswersAll
<1>2. CleanExitAnswersAll /\ UNCHANGED service => CleanExitAnswersAll'
  BY DEF CleanExitAnswersAll, service, handlers, server
<1>3. ServiceInv /\ CleanExitAnswersAll /\ [Next]_service => CleanExitAnswersAll'
  BY <1>2, CleanExitKeeps
<1> QED
  BY <1>1, <1>3, ServiceHolds, PTL DEF Spec

-----------------------------------------------------------------------------
(* What ListRuns lists.                                                    *)

\* x comes before y in s.
Ahead(s, x, y) == \E i, j \in 1 .. Len(s) : i < j /\ s[i] = x /\ s[j] = y

\* ListRuns has listed x, or will have listed it, when it comes to y.
Precedes(c, x, y) ==
    \/ Ahead(list[c].out, x, y) \/ Ahead(list[c].left, x, y)
    \/ Has(list[c].out, x) /\ Has(list[c].left, y)
    \/ Asking(c) /\ Has(list[c].out, x) /\ handle[c] = y
    \/ Asking(c) /\ handle[c] = x /\ Has(list[c].left, y)

Listing(c) == request[c].op = "ListRuns" /\ pc[c] \in {"listing", "sending", "sent", "answered"}

\* ListRuns under way keeps the order it took under the lock, and that stays the
\* start order, because what is registered later is no run of the list.
ListInOrder(c) ==
    Listing(c) =>
        /\ \A x : Has(list[c].out, x) => run[x] # NoRun
        /\ \A x, y : Precedes(c, x, y) => ~StartedBefore(y, x)

StartOrderInv ==
    /\ \A r \in Recovered : run[r] # NoRun
    /\ \A x, y : Ahead(order, x, y) => ~StartedBefore(y, x)
    /\ \A c \in AllCalls : ListInOrder(c)

\* Taking the head, or appending, puts nothing before what was ahead of it.
LEMMA AheadMoves ==
    ASSUME NEW S, NEW s \in Seq(S), NEW z \in S
    PROVE  /\ \A x, y : Ahead(Append(s, z), x, y) => Ahead(s, x, y) \/ (Has(s, x) /\ y = z)
           /\ s # <<>> => /\ \A x, y : Ahead(Tail(s), x, y) => Ahead(s, x, y)
                          /\ \A y : Has(Tail(s), y) => Ahead(s, Head(s), y)
<1>1. ASSUME NEW x, NEW y, Ahead(Append(s, z), x, y)
      PROVE  Ahead(s, x, y) \/ (Has(s, x) /\ y = z)
  <2> DEFINE t == Append(s, z)
  <2>1. /\ Len(s) \in Nat /\ Len(t) = Len(s) + 1 /\ t[Len(s) + 1] = z
        /\ \A i \in 1 .. Len(s) : t[i] = s[i]
    OBVIOUS
  <2>2. PICK i \in 1 .. Len(t), j \in 1 .. Len(t) : i < j /\ t[i] = x /\ t[j] = y
    BY <1>1 DEF Ahead
  <2> HIDE DEF t
  <2>3. i \in 1 .. Len(s) /\ s[i] = x
    BY <2>1, <2>2
  <2>4. CASE j \in 1 .. Len(s)
    BY <2>1, <2>2, <2>3, <2>4 DEF Ahead
  <2>5. CASE j = Len(s) + 1
    BY <2>1, <2>2, <2>3, <2>5 DEF Has
  <2> QED
    BY <2>1, <2>4, <2>5
<1>2. ASSUME s # <<>>
      PROVE  /\ \A x, y : Ahead(Tail(s), x, y) => Ahead(s, x, y)
             /\ \A y : Has(Tail(s), y) => Ahead(s, Head(s), y)
  <2>1. /\ Head(s) = s[1] /\ Len(s) \in Nat /\ Len(s) >= 1 /\ Len(Tail(s)) = Len(s) - 1
        /\ \A i \in 1 .. Len(s) - 1 : Tail(s)[i] = s[i + 1]
    BY <1>2, SeqTail
  <2>2. ASSUME NEW x, NEW y, Ahead(Tail(s), x, y) PROVE Ahead(s, x, y)
    <3>1. PICK i \in 1 .. Len(Tail(s)), j \in 1 .. Len(Tail(s)) :
            i < j /\ Tail(s)[i] = x /\ Tail(s)[j] = y
      BY <2>2 DEF Ahead
    <3>2. /\ i + 1 \in 1 .. Len(s) /\ j + 1 \in 1 .. Len(s) /\ i + 1 < j + 1
          /\ s[i + 1] = x /\ s[j + 1] = y
      BY <2>1, <3>1
    <3> QED
      BY <3>2 DEF Ahead
  <2>3. ASSUME NEW y, Has(Tail(s), y) PROVE Ahead(s, Head(s), y)
    <3>1. PICK i \in 1 .. Len(Tail(s)) : Tail(s)[i] = y
      BY <2>3 DEF Has
    <3>2. 1 \in 1 .. Len(s) /\ i + 1 \in 1 .. Len(s) /\ 1 < i + 1 /\ s[i + 1] = y
      BY <2>1, <3>1
    <3> QED
      BY <2>1, <3>2 DEF Ahead
  <2> QED
    BY <2>2, <2>3
<1> QED
  BY <1>1, <1>2

\* What comes before or after is listed.
LEMMA AheadHas ==
    ASSUME NEW s, NEW x, NEW y, Ahead(s, x, y)
    PROVE  Has(s, x) /\ Has(s, y)
BY DEF Ahead, Has

\* In a sequence without repetitions nothing comes before what it comes after.
LEMMA AheadOnce ==
    ASSUME NEW S, NEW s \in Seq(S), Distinct(s), NEW x, NEW y, Ahead(s, x, y)
    PROVE  ~Ahead(s, y, x)
<1> SUFFICES ASSUME Ahead(s, y, x) PROVE FALSE
  OBVIOUS
<1>1. PICK i \in 1 .. Len(s), j \in 1 .. Len(s) : i < j /\ s[i] = x /\ s[j] = y
  BY DEF Ahead
<1>2. PICK k \in 1 .. Len(s), m \in 1 .. Len(s) : k < m /\ s[k] = y /\ s[m] = x
  BY DEF Ahead
<1>3. i = m /\ j = k
  BY <1>1, <1>2 DEF Distinct
<1> QED
  BY <1>1, <1>2, <1>3

\* The registry's order names the runs it serves.
LEMMA OrderedRuns ==
    ASSUME ServiceInv
    PROVE  /\ order \in Seq(RunIDs) /\ Distinct(order)
           /\ \A x : Has(order, x) <=> x \in runs
           /\ \A x : Has(order, x) => x \in RunIDs /\ run[x] # NoRun
<1>1. order \in Seq(RunIDs) /\ runs \subseteq RunIDs /\ Distinct(order)
  BY DEF ServiceInv, Types, RegistryTypes, OrderInv, Distinct
<1>2. \A x : Has(order, x) <=> x \in runs
  BY DEF ServiceInv, OrderInv, Has
<1>3. \A x \in runs : run[x] # NoRun
  BY DEF ServiceInv, DaemonInv
<1> QED
  BY <1>1, <1>2, <1>3

\* A run is never unmade.
LEMMA RunsStay ==
    ASSUME ServiceInv, Next, NEW r \in RunIDs, run[r] # NoRun
    PROVE  run'[r] # NoRun
<1>1. ServiceInv'
  BY NextKeeps
<1>2. loop \in [RunIDs -> {"none", "born", "select", "done"}] /\ loop[r] # "none"
  BY DEF ServiceInv, Types, RegistryTypes, RunOK
<1>3. ASSUME NEW x, NEW v \in {"born", "select", "done"}, loop' = [loop EXCEPT ![x] = v]
      PROVE  loop'[r] # "none"
  BY <1>2, <1>3
<1>4. ASSUME NEW c \in AllCalls, Handler(c) PROVE loop'[r] # "none"
  <2>1. CASE StartRun(c)
    BY <1>3, <2>1 DEF StartRun
  <2>2. CASE Spawn(c)
    BY <1>3, <2>2 DEF Spawn
  <2> QED
    BY <1>2, <1>4, <2>1, <2>2 DEF Handler, StartRefused, NilControls, Lookup, ListRuns, ListNext,
       DoReturns, DoFails, engine
<1>5. ASSUME NEW q \in RunIDs, Loop(q) PROVE loop'[r] # "none"
  <2>1. CASE Quit(q)
    BY <1>3, <2>1 DEF Quit
  <2> QED
    BY <1>2, <1>5, <2>1 DEF Loop, Advance, AdvanceFails
<1>6. ASSUME NEW q \in RunIDs, NEW c \in AllCalls, Command(q, c) PROVE loop'[r] # "none"
  BY <1>2, <1>6 DEF Command, Query, UpdateControls, SetPaused, FinishRun, Leaves
<1>7. ASSUME NEW c \in Calls, NEW q \in Requests, Issue(c, q) PROVE loop'[r] # "none"
  BY <1>2, <1>7 DEF Issue, engine
<1>8. ASSUME Daemon PROVE loop'[r] # "none"
  BY <1>2, <1>8 DEF Daemon, Signal, ListenerFails, HTTPDrained, HTTPTimesOut, GracefulStop,
     CloseRegistry, StopRun, Exit, engine
<1>9. loop'[r] # "none"
  BY <1>4, <1>5, <1>6, <1>7, <1>8 DEF Next
<1>10. \A q \in RunIDs : RunOK(q)'
  BY <1>1 DEF ServiceInv
<1> QED
  BY <1>9, <1>10 DEF RunOK

\* The order grows by runs that did not exist, until Close empties it.
LEMMA OrderSteps ==
    ASSUME ServiceInv, Next
    PROVE  \/ order' = order \/ order' = <<>>
           \/ \E r \in RunIDs : run[r] = NoRun /\ order' = Append(order, r)
<1>1. ASSUME NEW c \in AllCalls, StartRun(c)
      PROVE  \E r \in RunIDs : run[r] = NoRun /\ order' = Append(order, r)
  <2>1. request[c].id \in RunIDs \cup {NoID}
    BY DEF ServiceInv, Types, CallTypes
  <2>2. PICK r \in (IF request[c].id = NoID THEN RunIDs ELSE {request[c].id}) \ runs :
          order' = Append(order, r)
    BY <1>1 DEF StartRun, Listed
  <2>3. r \in RunIDs /\ r \notin runs /\ ~closed
    BY <1>1, <2>1, <2>2 DEF StartRun
  <2>4. run[r] = NoRun
    BY <2>3 DEF ServiceInv, DaemonInv
  <2> QED
    BY <2>2, <2>3, <2>4
<1>2. CASE \E c \in Calls, q \in Requests : Issue(c, q)
  BY <1>2 DEF Issue, registry
<1>3. CASE \E c \in AllCalls : Handler(c)
  BY <1>1, <1>3 DEF Handler, StartRefused, Spawn, NilControls, Lookup, ListRuns, ListNext,
     DoReturns, DoFails, registry
<1>4. CASE \E r \in RunIDs, c \in AllCalls : Command(r, c)
  BY <1>4 DEF Command, Query, UpdateControls, SetPaused, FinishRun, Leaves, registry
<1>5. CASE \E r \in RunIDs : Loop(r)
  BY <1>5 DEF Loop, Advance, AdvanceFails, Quit, registry
<1>6. CASE Daemon
  BY <1>6 DEF Daemon, Signal, ListenerFails, HTTPDrained, HTTPTimesOut, GracefulStop,
     CloseRegistry, StopRun, Exit, registry
<1> QED
  BY <1>2, <1>3, <1>4, <1>5, <1>6 DEF Next

\* A StartRun that holds a run held it before, unless the run is new.
LEMMA StartHolds ==
    ASSUME ServiceInv, Next, NEW b \in RunIDs, run[b] # NoRun, NEW q \in AllCalls,
           request'[q].op = "StartRun", handle'[q] = b
    PROVE  /\ request[q].op = "StartRun" /\ handle[q] = b /\ pc[q] # "idle"
           /\ since'[q] = since[q]
<1>1. CallTypes /\ Shape(q) /\ b # NoID
  BY RequestAssumption DEF ServiceInv, Types, CallsOK, CallOK
<1>2. request[q].op = "StartRun" /\ handle[q] = b /\ since'[q] = since[q] =>
        pc[q] # "idle"
  BY <1>1 DEF Shape
<1>3. CASE Rests(q)
  BY <1>2, <1>3 DEF Rests
<1>4. CASE UNCHANGED handlers
  BY <1>3, <1>4 DEF handlers, Rests
<1>5. ASSUME NEW c \in Calls, NEW w \in Requests, Issue(c, w)
      PROVE  Rests(q)
  <2>1. c # "poll" /\ c \in AllCalls
    BY ServiceAssumption DEF AllCalls
  <2>2. pc[c] = "idle" /\ handle' = handle /\ \A e \in AllCalls \ {c} : Rests(e)
    BY <1>1, <1>5 DEF Issue, Rests, CallTypes
  <2>3. handle[c] = NoID
    BY <2>1, <2>2 DEF ServiceInv, CallsOK, CallOK, Shape
  <2> QED
    BY <1>1, <2>2, <2>3
<1>6. ASSUME NEW c \in AllCalls, Handler(c), c # q PROVE Rests(q)
  BY <1>1, <1>6, HandlerMoves DEF Moves
<1>7. CASE Handler(q)
  <2>1. request[q].op = "StartRun" /\ pc[q] # "idle"
    BY <1>1, <1>7, HandlerMoves DEF Moves
  <2>2. pc[q] # "listing"
    BY <1>1, <2>1 DEF Shape
  <2>3. ~StartRun(q)
    <3> SUFFICES ASSUME StartRun(q) PROVE FALSE
      OBVIOUS
    <3>1. request[q].id \in RunIDs \cup {NoID}
      BY <1>1 DEF CallTypes
    <3>2. PICK r \in (IF request[q].id = NoID THEN RunIDs ELSE {request[q].id}) \ runs :
            handle' = [handle EXCEPT ![q] = r]
      BY DEF StartRun
    <3>3. handle'[q] = r /\ r \notin runs /\ ~closed
      BY <1>1, <3>2 DEF CallTypes, StartRun
    <3> QED
      BY <3>3 DEF ServiceInv, DaemonInv
  <2>4. since' = since
    BY <1>7 DEF Handler, StartRefused, StartRun, Spawn, NilControls, Lookup, ListRuns, ListNext,
       DoReturns, DoFails, Refuse, Answer
  <2>5. CASE Lookup(q)
    <3>1. pc[q] = "lookup"
      BY <2>1, <2>5 DEF Lookup
    <3>2. UNCHANGED handle \/ handle' = [handle EXCEPT ![q] = handle[q]]
      BY <2>5, <3>1 DEF Lookup, Refuse
    <3> QED
      BY <1>1, <2>1, <2>4, <3>2 DEF CallTypes
  <2>6. CASE ~Lookup(q)
    BY <1>7, <2>1, <2>2, <2>3, <2>4, <2>6 DEF Handler, StartRefused, Spawn, NilControls, ListRuns,
       ListNext, DoReturns, DoFails, Refuse, Called
  <2> QED
    BY <2>5, <2>6
<1>8. ASSUME NEW r \in RunIDs, NEW c \in AllCalls, Command(r, c)
      PROVE  request' = request /\ handle' = handle /\ since' = since
  BY <1>8 DEF Command, Query, UpdateControls, SetPaused, FinishRun, Leaves
<1> QED
  BY <1>2, <1>3, <1>4, <1>5, <1>6, <1>7, <1>8, OthersRest DEF Next

\* What started before another run exists.
LEMMA BeforeExists ==
    ASSUME ServiceInv, StartOrderInv, NEW a, NEW b, StartedBefore(a, b)
    PROVE  a \in RunIDs /\ run[a] # NoRun
<1>1. CASE a \in Recovered
  BY <1>1, ServiceAssumption DEF StartOrderInv
<1>2. CASE Ahead(order, a, b)
  BY <1>2, AheadHas, OrderedRuns
<1>3. ASSUME NEW q \in AllCalls, NEW p \in since[q], OK(p, "StartRun"), handle[p] = a
      PROVE  a \in RunIDs /\ run[a] # NoRun
  <2>1. p \in AllCalls /\ HandleOK(p)
    BY <1>3 DEF ServiceInv, Types, CallTypes, CallsOK, CallOK, AllCalls
  <2>2. a \in RunIDs
    BY <1>3, <2>1, AcceptedIsExecuted
  <2> QED
    BY <1>3, <2>1, <2>2, RequestAssumption DEF HandleOK
<1> QED
  BY <1>1, <1>2, <1>3 DEF StartedBefore, Ahead

\* No step lets a run start before one that exists.
LEMMA BeforeStays ==
    ASSUME ServiceInv, Next, NEW a, NEW b \in RunIDs, run[b] # NoRun, StartedBefore(a, b)'
    PROVE  StartedBefore(a, b)
<1>1. CASE a \in Recovered /\ b \notin Recovered
  BY <1>1 DEF StartedBefore
<1>2. CASE Ahead(order', a, b)
  <2>1. order \in Seq(RunIDs)
    BY OrderedRuns
  <2>2. order' # <<>>
    BY <1>2 DEF Ahead
  <2>3. ASSUME NEW r \in RunIDs, run[r] = NoRun, order' = Append(order, r)
        PROVE  Ahead(order, a, b)
    BY <1>2, <2>1, <2>3, AheadMoves
  <2>4. Ahead(order, a, b)
    BY <1>2, <2>2, <2>3, OrderSteps
  <2> QED
    BY <2>4 DEF StartedBefore, Ahead
<1>3. ASSUME NEW q \in AllCalls, NEW p \in since'[q], OK(p, "StartRun")', handle'[p] = a,
             request'[q].op = "StartRun", handle'[q] = b
      PROVE  StartedBefore(a, b)
  <2>1. /\ request[q].op = "StartRun" /\ handle[q] = b /\ pc[q] # "idle"
        /\ p \in since[q]
    BY <1>3, StartHolds
  <2>2. p \in Calls /\ p \in AllCalls /\ CallTypes
    BY <2>1 DEF ServiceInv, Types, CallTypes, AllCalls
  <2>3. pc[p] = "answered"
    BY <2>1, <2>2 DEF ServiceInv, CallsOK, OrderOK
  <2>4. Rests(p)
    BY <2>2, <2>3, IdleRests
  <2>5. OK(p, "StartRun") /\ handle[p] = a
    BY <1>3, <2>4 DEF Rests, OK, Answered
  <2> QED
    BY <2>1, <2>5 DEF StartedBefore
<1> QED
  BY <1>1, <1>2, <1>3 DEF StartedBefore, Ahead

\* The order stays the start order.
LEMMA OrderFits ==
    ASSUME ServiceInv, StartOrderInv, Next, NEW x, NEW y, Ahead(order', x, y)
    PROVE  ~StartedBefore(y, x)'
<1> SUFFICES ASSUME StartedBefore(y, x)' PROVE FALSE
  OBVIOUS
<1>1. order \in Seq(RunIDs) /\ order' # <<>>
  BY OrderedRuns DEF Ahead
<1>2. ASSUME Has(order, x) PROVE StartedBefore(y, x)
  BY <1>2, OrderedRuns, BeforeStays
<1>3. CASE Ahead(order, x, y)
  BY <1>2, <1>3, AheadHas DEF StartOrderInv
<1>4. ASSUME NEW r \in RunIDs, run[r] = NoRun, order' = Append(order, r) PROVE FALSE
  <2>1. Ahead(order, x, y) \/ (Has(order, x) /\ y = r)
    BY <1>1, <1>4, AheadMoves
  <2>2. ~(Has(order, x) /\ y = r)
    BY <1>2, <1>4, BeforeExists
  <2> QED
    BY <1>3, <2>1, <2>2
<1>5. order' # order
  BY <1>3
<1> QED
  BY <1>1, <1>4, <1>5, OrderSteps

\* What a listing mentions exists.
LEMMA ListedExists ==
    ASSUME ServiceInv, StartOrderInv, NEW c \in AllCalls, Listing(c),
           NEW x, NEW y, Precedes(c, x, y)
    PROVE  x \in RunIDs /\ run[x] # NoRun
<1>1. /\ list[c].out \in Seq(RunIDs) /\ list[c].left \in Seq(RunIDs)
      /\ handle[c] \in RunIDs \cup {NoID} /\ CallOK(c) /\ ListInOrder(c)
  BY DEF ServiceInv, Types, CallTypes, CallsOK, StartOrderInv
<1>2. CASE Has(list[c].out, x)
  BY <1>1, <1>2 DEF ListInOrder, Has
<1>3. CASE Has(list[c].left, x)
  BY <1>1, <1>3 DEF CallOK, ListOK, LeftOK, Listing, Has
<1>4. CASE Asking(c) /\ handle[c] = x
  BY <1>1, <1>4 DEF CallOK, Shape, HandleOK, Asking
<1> QED
  BY <1>2, <1>3, <1>4, AheadHas DEF Precedes

\* A listing that only goes on keeps its order.
LEMMA ListingStays ==
    ASSUME ServiceInv, StartOrderInv, Next, NEW c \in AllCalls, Listing(c),
           \A x, y : Precedes(c, x, y)' => Precedes(c, x, y),
           \A x : Has(list'[c].out, x) =>
                     Has(list[c].out, x) \/ (Asking(c) /\ handle[c] = x)
    PROVE  ListInOrder(c)'
<1>1. /\ list[c].out \in Seq(RunIDs) /\ handle[c] \in RunIDs \cup {NoID}
      /\ CallOK(c) /\ ListInOrder(c)
  BY DEF ServiceInv, Types, CallTypes, CallsOK, StartOrderInv
<1>2. ASSUME NEW x, Has(list'[c].out, x) PROVE run'[x] # NoRun
  <2>1. CASE Has(list[c].out, x)
    BY <1>1, <2>1, RunsStay DEF ListInOrder, Has
  <2>2. CASE Asking(c) /\ handle[c] = x
    BY <1>1, <2>2, RunsStay DEF CallOK, Shape, HandleOK, Asking
  <2> QED
    BY <1>2, <2>1, <2>2
<1>3. ASSUME NEW x, NEW y, Precedes(c, x, y)' PROVE ~StartedBefore(y, x)'
  <2>1. Precedes(c, x, y)
    BY <1>3
  <2>2. ~StartedBefore(y, x)
    BY <1>1, <2>1 DEF ListInOrder
  <2> QED
    BY <2>1, <2>2, ListedExists, BeforeStays
<1> QED
  BY <1>2, <1>3 DEF ListInOrder

\* A call that rests.
LEMMA ListingRests ==
    ASSUME ServiceInv, StartOrderInv, Next, NEW c \in AllCalls, Rests(c)
    PROVE  ListInOrder(c)'
<1>1. CASE Listing(c)
  BY <1>1, ListingStays DEF Rests, Precedes, Asking
<1>2. CASE ~Listing(c)
  BY <1>2 DEF Rests, Listing, ListInOrder
<1> QED
  BY <1>1, <1>2

\* The steps of ListRuns: it takes the order under the lock, hands on the head of
\* what it has left, and appends a run that answered or leaves it out.
LEMMA ListingKeeps ==
    ASSUME ServiceInv, StartOrderInv, Next, NEW c \in AllCalls, Handler(c)
    PROVE  ListInOrder(c)'
<1> DEFINE out == list[c].out
           left == list[c].left
<1>1. /\ out \in Seq(RunIDs) /\ left \in Seq(RunIDs) /\ list \in [AllCalls -> [left : Seq(RunIDs), out : Seq(RunIDs)]]
      /\ CallTypes /\ Shape(c) /\ handle[c] \in RunIDs \cup {NoID}
  BY DEF ServiceInv, Types, CallTypes, CallsOK, CallOK
<1>2. request'[c] = request[c]
  BY <1>1, HandlerMoves DEF Moves
<1>3. CASE request[c].op # "ListRuns"
  BY <1>2, <1>3 DEF ListInOrder, Listing
<1>4. CASE request[c].op = "ListRuns" /\ ListRuns(c)
  <2>1. list'[c] = [left |-> order, out |-> <<>>] /\ pc'[c] = "listing"
    BY <1>1, <1>4 DEF ListRuns, CallTypes
  <2>2. list'[c].left = order /\ list'[c].out = <<>> /\ order' = order /\ ~Asking(c)'
    BY <1>4, <2>1 DEF ListRuns, registry, Asking
  <2>3. \A x : ~Has(list'[c].out, x)
    BY <2>2, NoneListed
  <2>4. ASSUME NEW x, NEW y, Precedes(c, x, y)' PROVE ~StartedBefore(y, x)'
    <3>1. ~Ahead(list'[c].out, x, y)
      BY <2>3, AheadHas
    <3>2. Ahead(order', x, y)
      BY <2>2, <2>3, <2>4, <3>1 DEF Precedes
    <3> QED
      BY <3>2, OrderFits
  <2> QED
    BY <2>3, <2>4 DEF ListInOrder
<1>5. CASE request[c].op = "ListRuns" /\ ListNext(c) /\ left # <<>>
  <2>1. /\ pc[c] = "listing" /\ pc'[c] = "sending" /\ handle'[c] = Head(left)
        /\ list'[c].left = Tail(left) /\ list'[c].out = out
    <3>1. /\ pc[c] = "listing" /\ pc' = [pc EXCEPT ![c] = "sending"]
          /\ handle' = [handle EXCEPT ![c] = Head(left)]
          /\ list' = [list EXCEPT ![c].left = Tail(left)]
      BY <1>5 DEF ListNext
    <3>2. list[c] \in [left : Seq(RunIDs), out : Seq(RunIDs)]
      BY <1>1
    <3> QED
      BY <1>1, <3>1, <3>2 DEF CallTypes
  <2>2. \A y : Has(Tail(left), y) => Ahead(left, Head(left), y)
    BY <1>1, <1>5, AheadMoves, SeqTail
  <2>3. \A x, y : Ahead(Tail(left), x, y) => Ahead(left, x, y)
    BY <1>1, <1>5, AheadMoves, SeqTail
  <2>4. Has(left, Head(left)) /\ \A y : Has(Tail(left), y) => Has(left, y)
    <3>1. Head(left) = left[1] /\ 1 \in 1 .. Len(left)
      BY <1>1, <1>5, SeqTail
    <3> QED
      BY <2>2, <3>1, AheadHas DEF Has
  <2> HIDE DEF out, left
  <2>5. \A x, y : Precedes(c, x, y)' => Precedes(c, x, y)
    BY <2>1, <2>2, <2>3, <2>4 DEF Precedes, Asking, out, left
  <2>6. \A x : Has(list'[c].out, x) => Has(list[c].out, x)
    BY <2>1 DEF out
  <2>7. Listing(c)
    BY <1>5, <2>1 DEF Listing
  <2> QED
    BY <2>5, <2>6, <2>7, ListingStays
<1>6. CASE request[c].op = "ListRuns" /\ ListNext(c) /\ left = <<>>
  <2>1. pc[c] = "listing" /\ pc'[c] = "answered" /\ list' = list
    BY <1>1, <1>6 DEF ListNext, CallTypes, Answer
  <2>2. Listing(c) /\ \A x, y : Precedes(c, x, y)' => Precedes(c, x, y)
    BY <1>6, <2>1 DEF Precedes, Asking, Listing
  <2> QED
    BY <2>1, <2>2, ListingStays
<1>7. CASE request[c].op = "ListRuns" /\ DoReturns(c)
  <2>1. /\ pc[c] = "sent" /\ pc'[c] = "listing" /\ handle[c] \in RunIDs
        /\ list'[c].left = left /\ list'[c].out = Append(out, handle[c])
    BY <1>1, <1>7 DEF DoReturns, CallTypes, Shape
  <2>2. /\ \A x, y : Ahead(Append(out, handle[c]), x, y) =>
              Ahead(out, x, y) \/ (Has(out, x) /\ y = handle[c])
    BY <1>1, <2>1, AheadMoves
  <2>3. \A x : Has(Append(out, handle[c]), x) => Has(out, x) \/ x = handle[c]
    <3>1. /\ Len(out) \in Nat /\ Len(Append(out, handle[c])) = Len(out) + 1
          /\ Append(out, handle[c])[Len(out) + 1] = handle[c]
          /\ \A i \in 1 .. Len(out) : Append(out, handle[c])[i] = out[i]
      BY <1>1, <2>1
    <3>2. \A i \in 1 .. Len(Append(out, handle[c])) : i \in 1 .. Len(out) \/ i = Len(out) + 1
      BY <3>1
    <3> QED
      BY <3>1, <3>2 DEF Has
  <2> HIDE DEF out, left
  <2>4. Asking(c) /\ ~Asking(c)' /\ Listing(c)
    BY <1>7, <2>1 DEF Asking, Listing
  <2>5. \A x, y : Precedes(c, x, y)' => Precedes(c, x, y)
    BY <2>1, <2>2, <2>3, <2>4 DEF Precedes, out, left
  <2>6. \A x : Has(list'[c].out, x) => Has(list[c].out, x) \/ (Asking(c) /\ handle[c] = x)
    BY <2>1, <2>3, <2>4 DEF out
  <2> QED
    BY <2>4, <2>5, <2>6, ListingStays
<1>8. CASE request[c].op = "ListRuns" /\ DoFails(c)
  <2>1. pc[c] \in {"sending", "sent"} /\ pc'[c] = "listing" /\ list' = list
    BY <1>1, <1>8 DEF DoFails, CallTypes
  <2>2. Listing(c) /\ \A x, y : Precedes(c, x, y)' => Precedes(c, x, y)
    BY <1>8, <2>1 DEF Precedes, Asking, Listing
  <2> QED
    BY <2>1, <2>2, ListingStays
<1>9. request[c].op = "ListRuns" => ListRuns(c) \/ ListNext(c) \/ DoReturns(c) \/ DoFails(c)
  BY <1>1 DEF Handler, StartRefused, StartRun, Spawn, NilControls, Lookup, Called, Shape
<1> QED
  BY <1>3, <1>4, <1>5, <1>6, <1>7, <1>8, <1>9

\* Every listing, in every step.
LEMMA ListingsKeep ==
    ASSUME ServiceInv, StartOrderInv, Next, NEW c \in AllCalls
    PROVE  ListInOrder(c)'
<1>1. CallTypes
  BY DEF ServiceInv, Types
<1>2. CASE Rests(c)
  BY <1>2, ListingRests
<1>3. ASSUME NEW d \in AllCalls, Handler(d) PROVE ListInOrder(c)'
  BY <1>1, <1>2, <1>3, HandlerMoves, ListingKeeps DEF Moves
<1>4. ASSUME NEW r \in RunIDs, NEW d \in AllCalls, Command(r, d) PROVE ListInOrder(c)'
  <2>1. Moves(d) /\ handle' = handle /\ pc[d] = "sending" /\ pc'[d] = "sent" /\ list' = list
    BY <1>1, <1>4, CommandMoves DEF Command, Query, UpdateControls, SetPaused, FinishRun, Leaves
  <2>2. CASE c = d /\ request[c].op = "ListRuns"
    BY <2>1, <2>2, ListingStays DEF Listing, Precedes, Asking
  <2>3. CASE c = d /\ request[c].op # "ListRuns"
    BY <2>1, <2>3 DEF ListInOrder, Listing, Moves
  <2> QED
    BY <1>2, <2>1, <2>2, <2>3 DEF Moves
<1>5. ASSUME NEW d \in Calls, NEW q \in Requests, Issue(d, q) PROVE ListInOrder(c)'
  <2>1. d \in AllCalls /\ pc' = [pc EXCEPT ![d] = "called"] /\ \A e \in AllCalls \ {d} : Rests(e)
    BY <1>1, <1>5 DEF Issue, Rests, CallTypes, AllCalls
  <2>2. CASE c = d
    BY <1>1, <2>1, <2>2 DEF ListInOrder, Listing, CallTypes
  <2> QED
    BY <1>2, <2>1, <2>2
<1>6. CASE Daemon \/ \E r \in RunIDs : Loop(r)
  BY <1>2, <1>6, OthersRest DEF Rests, handlers
<1> QED
  BY <1>3, <1>4, <1>5, <1>6 DEF Next

\* StartOrderInv is an invariant.
LEMMA StartOrderHolds == Spec => []StartOrderInv
<1>1. Init => StartOrderInv
  <2> SUFFICES ASSUME Init PROVE StartOrderInv
    OBVIOUS
  <2>1. ServiceInv /\ runs = Recovered
    BY InitKeeps DEF Init
  <2>2. \A r \in Recovered : run[r] # NoRun
    BY <2>1 DEF ServiceInv, DaemonInv
  <2>3. ASSUME NEW x, NEW y, Ahead(order, x, y) PROVE ~StartedBefore(y, x)
    <3>1. x \in Recovered /\ order \in Seq(RunIDs) /\ Distinct(order)
      BY <2>1, <2>3, AheadHas, OrderedRuns
    <3>2. ~Ahead(order, y, x)
      BY <2>3, <3>1, AheadOnce
    <3>3. \A q \in AllCalls : since[q] = {}
      BY DEF Init
    <3> QED
      BY <3>1, <3>2, <3>3 DEF StartedBefore, Ahead
  <2>4. \A c \in AllCalls : ListInOrder(c)
    BY DEF Init, ListInOrder, Listing
  <2> QED
    BY <2>2, <2>3, <2>4 DEF StartOrderInv
<1>2. ServiceInv /\ StartOrderInv /\ [Next]_service => StartOrderInv'
  <2> SUFFICES ASSUME ServiceInv, StartOrderInv, [Next]_service PROVE StartOrderInv'
    OBVIOUS
  <2>1. CASE Next
    <3>1. \A r \in Recovered : run'[r] # NoRun
      BY <2>1, RunsStay, ServiceAssumption DEF StartOrderInv
    <3> QED
      BY <2>1, <3>1, OrderFits, ListingsKeep DEF StartOrderInv
  <2>2. CASE UNCHANGED service
    BY <2>2 DEF service, registry, engine, handlers, StartOrderInv, ListInOrder, Listing,
       Precedes, Asking, StartedBefore, OK, Answered
  <2> QED
    BY <2>1, <2>2
<1> QED
  BY <1>1, <1>2, ServiceHolds, PTL DEF Spec

\* A sequence without repetitions names as many things as it is long.
LEMMA DistinctIsCounted ==
    ASSUME NEW S, NEW s \in Seq(S), Distinct(s)
    PROVE  Cardinality({s[i] : i \in 1 .. Len(s)}) = Len(s)
<1> DEFINE n == Len(s)
           T == {s[i] : i \in 1 .. n}
<1>0. n \in Nat
  OBVIOUS
<1>1. IsFiniteSet(1 .. n) /\ Cardinality(1 .. n) = n
  <2> HIDE DEF n
  <2> QED
    BY <1>0, FS_Interval
<1>2. s \in [1 .. n -> T]
  OBVIOUS
<1>3. \A a, b \in 1 .. n : s[a] = s[b] => a = b
  BY DEF Distinct
<1>4. \A t \in T : \E i \in 1 .. n : s[i] = t
  OBVIOUS
<1> HIDE DEF n, T
<1>5. s \in Bijection(1 .. n, T)
  BY <1>2, <1>3, <1>4, Fun_IsBij
<1>6. ExistsBijection(1 .. n, T)
  BY <1>5 DEF ExistsBijection
<1>7. Cardinality(T) = Cardinality(1 .. n)
  BY <1>1, <1>6, FS_Bijection
<1> QED
  BY <1>1, <1>7 DEF n, T

\* ListRuns lists every run once and in start order, whatever is started or stopped
\* while it asks them, and as long as the registry is open it finds every run a
\* client was told of before: the order is copied under the lock, and runs are
\* registered, answer and go while the list is put together.
THEOREM NoRunIsForgotten == Spec => []ListIsComplete
<1>1. ASSUME ServiceInv, StartOrderInv, NEW c \in AllCalls, OK(c, "ListRuns")
      PROVE  LET ids == answer[c].value.ids
                 found == {ids[i] : i \in 1 .. Len(ids)}
             IN  /\ Cardinality(found) = Len(ids)
                 /\ \A i, j \in 1 .. Len(ids) : i < j => ~StartedBefore(ids[j], ids[i])
                 /\ \A p \in since[c] : OK(p, "StartRun") /\ ~closed => handle[p] \in found
  <2>1. pc[c] = "answered" /\ request[c].op = "ListRuns"
    BY <1>1 DEF OK, Answered
  <2>2. ListOK(c) /\ CallTypes
    BY <1>1 DEF ServiceInv, CallsOK, CallOK, Types
  <2>3. /\ Distinct(list[c].out) /\ list[c].left = <<>> /\ ListKnows(c)
        /\ answer[c].value = [state |-> "list", ids |-> list[c].out]
    BY <2>1, <2>2 DEF ListOK
  <2>4. answer[c].value.ids = list[c].out
    BY <2>3
  <2>5. list[c].out \in Seq(RunIDs)
    BY <2>2 DEF CallTypes
  <2>6. ASSUME NEW p \in since[c], OK(p, "StartRun"), ~closed
        PROVE  Has(list[c].out, handle[p])
    BY <2>1, <2>3, <2>6 DEF ListKnows, Has, Asking
  <2>7. Cardinality({list[c].out[i] : i \in 1 .. Len(list[c].out)}) = Len(list[c].out)
    BY <2>3, <2>5, DistinctIsCounted
  <2>8. ASSUME NEW i \in 1 .. Len(list[c].out), NEW j \in 1 .. Len(list[c].out), i < j
        PROVE  ~StartedBefore(list[c].out[j], list[c].out[i])
    <3>1. Ahead(list[c].out, list[c].out[i], list[c].out[j])
      BY <2>8 DEF Ahead
    <3>2. Precedes(c, list[c].out[i], list[c].out[j]) /\ Listing(c)
      BY <2>1, <3>1 DEF Precedes, Listing
    <3> QED
      BY <1>1, <3>2 DEF StartOrderInv, ListInOrder
  <2> QED
    BY <2>4, <2>6, <2>7, <2>8 DEF Has
<1>2. ServiceInv /\ StartOrderInv => ListIsComplete
  BY <1>1 DEF ListIsComplete
<1> QED
  BY <1>2, ServiceHolds, StartOrderHolds, PTL

-----------------------------------------------------------------------------
(* Types, and the recorder's entries.                                      *)

\* The registry, the runs, the calls and the daemon keep their types, and the start
\* order lists as many runs as are served.
THEOREM ServiceTypes == Spec => []TypeOK
<1>1. ASSUME ServiceInv PROVE TypeOK
  <2>1. Types /\ OrderInv /\ \A r \in RunIDs : RunOK(r)
    BY <1>1 DEF ServiceInv
  <2>2. Len(order) = Cardinality(runs)
    <3>1. order \in Seq(RunIDs) /\ Distinct(order) /\ runs = {order[i] : i \in 1 .. Len(order)}
      BY <2>1 DEF Types, RegistryTypes, OrderInv, Distinct
    <3> QED
      BY <3>1, DistinctIsCounted
  <2>3. ASSUME NEW r \in RunIDs
        PROVE  \/ run[r] = NoRun /\ loop[r] = "none"
               \/ /\ run[r].state \in States /\ run[r].controls \in Mixes
                  /\ run[r].tick \in 0 .. TickBound /\ run[r].pending \in Nat
                  /\ loop[r] \in {"born", "select", "done"}
    <3>1. CASE run[r] = NoRun
      BY <2>1, <3>1 DEF RunOK
    <3>2. CASE run[r] # NoRun
      <4>1. /\ loop[r] \in {"born", "select", "done"} /\ RunShape(run[r]) /\ run[r] \in RunType
        BY <2>1, <3>2 DEF RunOK, Types, RegistryTypes
      <4>2. /\ run[r].state \in States /\ run[r].controls \in Mixes /\ run[r].tick \in Nat
            /\ run[r].pending \in Nat
        BY <4>1 DEF RunType
      <4> QED
        BY <4>1, <4>2, ServiceBoundsAssumption DEF RunShape
    <3> QED
      BY <3>1, <3>2
  <2> QED
    BY <2>1, <2>2, <2>3 DEF TypeOK, Types, RegistryTypes, CallTypes, DaemonTypes
<1>2. ServiceInv => TypeOK
  BY <1>1
<1> QED
  BY <1>2, ServiceHolds, PTL

Entries == \A r \in RunIDs : EntryOK(r)

\* One run moves, and its entry with it.
LEMMA EntryMoves ==
    ASSUME RegistryTypes, Entries, NEW r \in RunIDs, NEW t, NEW n,
           run' = [run EXCEPT ![r] = t], pendingByRun' = [pendingByRun EXCEPT ![r] = n],
           IF t.state \in {"running", "paused"}
           THEN IF n = NoEntry THEN t.pending = 0 ELSE n = t.pending
           ELSE n = NoEntry
    PROVE  Entries'
BY DEF RegistryTypes, Entries, EntryOK, NoEntry

\* One run moves, and its state and backlog mean the same to the recorder.
LEMMA EntryStays ==
    ASSUME RegistryTypes, Entries, NEW r \in RunIDs, NEW t,
           run' = [run EXCEPT ![r] = t], pendingByRun' = pendingByRun,
           t.state \in {"running", "paused"} <=> run[r].state \in {"running", "paused"},
           t.pending = run[r].pending
    PROVE  Entries'
BY DEF RegistryTypes, Entries, EntryOK, NoEntry

\* A command that ends a run deletes its entry; the others leave the entries alone.
LEMMA CommandEntries ==
    ASSUME ServiceInv, Entries, NEW r \in RunIDs, NEW c \in AllCalls, Command(r, c)
    PROVE  Entries'
<1>1. RegistryTypes /\ RunOK(r)
  BY DEF ServiceInv, Types
<1>2. loop[r] = "select"
  BY DEF Command, Query, UpdateControls, SetPaused, FinishRun, Takes
<1>3. run[r] \in RunType
  BY <1>1, <1>2 DEF RunOK, RegistryTypes
<1>4. UNCHANGED <<run, pendingByRun>> => Entries'
  BY DEF Entries, EntryOK
<1>5. CASE Query(r, c)
  BY <1>4, <1>5 DEF Query
<1>6. CASE UpdateControls(r, c)
  <2>1. pendingByRun' = pendingByRun
    BY <1>6 DEF UpdateControls
  <2>2. CASE run' # run
    <3>1. PICK n, s : run' = [run EXCEPT ![r].revision = n, ![r].staged = s]
      BY <1>1, <1>6, <2>2 DEF UpdateControls, RegistryTypes
    <3> DEFINE t == [run[r] EXCEPT !.revision = n, !.staged = s]
    <3>2. run' = [run EXCEPT ![r] = t]
      BY <1>1, <3>1 DEF RegistryTypes
    <3>3. t.state = run[r].state /\ t.pending = run[r].pending
      BY <1>3 DEF RunType
    <3> QED
      BY <1>1, <2>1, <3>2, <3>3, EntryStays
  <2> QED
    BY <1>4, <2>1, <2>2
<1>7. CASE SetPaused(r, c)
  <2>1. pendingByRun' = pendingByRun
    BY <1>7 DEF SetPaused
  <2>2. CASE run' # run
    <3> DEFINE st == IF request[c].paused THEN "paused" ELSE "running"
               t == [run[r] EXCEPT !.state = st]
    <3>1. run' = [run EXCEPT ![r] = t] /\ run[r].state # "finished"
      BY <1>1, <1>7, <2>2 DEF SetPaused, Over, RegistryTypes
    <3>2. /\ t.state \in {"running", "paused"} /\ t.pending = run[r].pending
          /\ run[r].state \in States
      BY <1>3 DEF RunType
    <3> QED
      BY <1>1, <2>1, <3>1, <3>2, EntryStays DEF States
  <2> QED
    BY <1>4, <2>1, <2>2
<1>8. CASE FinishRun(r, c)
  <2> DEFINE t == [run[r] EXCEPT !.state = "finished"]
  <2>1. run' = [run EXCEPT ![r] = t] /\ pendingByRun' = [pendingByRun EXCEPT ![r] = NoEntry]
    BY <1>1, <1>8 DEF FinishRun, ForgetRun, RegistryTypes
  <2>2. t.state = "finished"
    BY <1>3 DEF RunType
  <2> QED
    BY <1>1, <2>1, <2>2, EntryMoves
<1> QED
  BY <1>5, <1>6, <1>7, <1>8 DEF Command

\* A tick writes its own run's entry, or deletes it with the run's end.
LEMMA TickEntries ==
    ASSUME ServiceInv, Entries, NEW r \in RunIDs, Advance(r) \/ AdvanceFails(r)
    PROVE  Entries'
<1>1. RegistryTypes /\ RunOK(r) /\ loop[r] = "select"
  BY DEF ServiceInv, Types, Advance, AdvanceFails, Ticks
<1>2. run[r] \in RunType
  BY <1>1 DEF RunOK, RegistryTypes
<1>3. CASE Advance(r)
  <2> DEFINE s == Step(run[r])
             ends == MaxTicks > 0 /\ s.tick >= MaxTicks
             t == [s EXCEPT !.state = IF ends THEN "finished" ELSE "running"]
             n == IF ends THEN NoEntry ELSE s.pending
  <2>1. /\ run' = [run EXCEPT ![r] = t] /\ pendingByRun' = [pendingByRun EXCEPT ![r] = n]
    BY <1>3 DEF Advance, RecordedBy, ForgetRun, ObservePending
  <2>2. t.state = (IF ends THEN "finished" ELSE "running") /\ t \in RunType
    <3>1. RunShape(run[r]) /\ run[r].state # "finished" /\ run[r].tick < TickBound
      BY <1>1, <1>3 DEF RunOK, Advance, Ticks
    <3>2. (IF ends THEN "finished" ELSE "running") \in States
      BY DEF States
    <3> HIDE DEF ends
    <3> QED
      BY <1>2, <3>1, <3>2, StepGrows
  <2>3. t.pending = s.pending
    OBVIOUS
  <2>4. s.pending \in Nat
    BY <2>2, <2>3 DEF RunType
  <2> HIDE DEF t, s, ends
  <2>5. CASE ends
    BY <1>1, <2>1, <2>2, <2>5, EntryMoves
  <2>6. CASE ~ends
    <3>1. t.state = "running" /\ n = t.pending /\ n # NoEntry
      BY <2>2, <2>3, <2>4, <2>6 DEF NoEntry
    <3> HIDE DEF n
    <3> QED
      BY <1>1, <2>1, <3>1, EntryMoves
  <2> QED
    BY <2>5, <2>6
<1>4. CASE AdvanceFails(r)
  <2>1. pendingByRun' = [pendingByRun EXCEPT ![r] = NoEntry]
    BY <1>4 DEF AdvanceFails, ForgetRun
  <2>2. PICK t : run' = [run EXCEPT ![r] = t] /\ t.state = "finished"
    <3>1. CASE run' = [run EXCEPT ![r] = [Step(run[r]) EXCEPT !.state = "finished"]]
      <4>1. RunShape(run[r]) /\ run[r].state # "finished" /\ run[r].tick < TickBound
        BY <1>1, <1>4 DEF RunOK, AdvanceFails, Ticks
      <4>2. [Step(run[r]) EXCEPT !.state = "finished"].state = "finished"
        BY <1>2, <4>1, StepGrows DEF States
      <4> QED
        BY <3>1, <4>2
    <3>2. ASSUME NEW k \in 0 .. BatchLen(run[r]), NEW t,
                 t = [run[r] EXCEPT !.state = "finished", !.controls = InForce(run[r]),
                                    !.staged = <<>>, !.applied = Recorded(run[r], k),
                                    !.pending = @ + k],
                 run' = [run EXCEPT ![r] = t]
          PROVE  t.state = "finished"
      BY <1>2, <3>2 DEF RunType
    <3> QED
      BY <1>1, <1>4, <3>1, <3>2 DEF AdvanceFails, RegistryTypes
  <2> QED
    BY <1>1, <2>1, <2>2, EntryMoves
<1> QED
  BY <1>3, <1>4

\* A new run has no backlog and no entry.
LEMMA StartEntries ==
    ASSUME ServiceInv, Entries, NEW c \in AllCalls, StartRun(c)
    PROVE  Entries'
<1>1. RegistryTypes /\ CallTypes /\ DaemonInv /\ ~closed /\ pendingByRun' = pendingByRun
  BY DEF ServiceInv, Types, StartRun
<1>2. PICK r \in (IF request[c].id = NoID THEN RunIDs ELSE {request[c].id}) \ runs :
          run' = [run EXCEPT ![r] = FreshRun(ControlsFrom(request[c].controls))]
  BY DEF StartRun
<1>3. r \in RunIDs
  BY <1>1, <1>2 DEF CallTypes
<1>4. run[r] = NoRun
  BY <1>1, <1>2, <1>3 DEF DaemonInv
<1>5. pendingByRun[r] = NoEntry
  BY <1>3, <1>4 DEF Entries, EntryOK, NoRun
<1>6. pendingByRun' = [pendingByRun EXCEPT ![r] = NoEntry]
  BY <1>1, <1>5 DEF RegistryTypes
<1>7. FreshRun(ControlsFrom(request[c].controls)).pending = 0
  BY DEF FreshRun
<1>8. FreshRun(ControlsFrom(request[c].controls)).state = "running"
  BY DEF FreshRun
<1> HIDE DEF FreshRun
<1> QED
  BY <1>1, <1>2, <1>3, <1>6, <1>7, <1>8, EntryMoves

\* The recorder's map agrees with every run, however commands, ticks, failures and
\* shutdown interleave: an unfinished run's entry is its backlog, and a run that is
\* over has none. It is what makes the pending gauge, the sum of the entries, current.
THEOREM EntriesAreCurrent == Spec => [](\A r \in RunIDs : EntryOK(r))
<1>1. Init => Entries
  <2>1. ASSUME Init, NEW r \in RunIDs PROVE EntryOK(r)
    <3>1. pendingByRun[r] = NoEntry /\ (run[r] = NoRun \/ run[r] = FreshRun(Mix))
      BY <2>1 DEF Init
    <3>2. FreshRun(Mix).pending = 0 /\ FreshRun(Mix).state = "running" /\ NoRun.state = "none"
      BY DEF FreshRun, NoRun
    <3> QED
      BY <3>1, <3>2 DEF EntryOK
  <2> QED
    BY <2>1 DEF Entries
<1>2. ASSUME UNCHANGED <<run, pendingByRun>>, Entries PROVE Entries'
  BY <1>2 DEF Entries, EntryOK
<1>3. ASSUME ServiceInv, Entries, Next PROVE Entries'
  <2>1. CASE \E c \in Calls, q \in Requests : Issue(c, q)
    BY <1>2, <1>3, <2>1 DEF Issue, engine
  <2>2. ASSUME NEW c \in AllCalls, Handler(c) PROVE Entries'
    BY <1>2, <1>3, <2>2, StartEntries DEF Handler, StartRefused, Spawn, NilControls, Lookup,
       ListRuns, ListNext, DoReturns, DoFails, engine
  <2>3. CASE \E r \in RunIDs, c \in AllCalls : Command(r, c)
    BY <1>3, <2>3, CommandEntries
  <2>4. ASSUME NEW r \in RunIDs, Loop(r) PROVE Entries'
    BY <1>2, <1>3, <2>4, TickEntries DEF Loop, Quit
  <2>5. CASE Daemon
    BY <1>2, <1>3, <2>5 DEF Daemon, Signal, ListenerFails, HTTPDrained, HTTPTimesOut, GracefulStop,
       CloseRegistry, StopRun, Exit, engine
  <2> QED
    BY <1>3, <2>1, <2>2, <2>3, <2>4, <2>5 DEF Next
<1>4. ServiceInv /\ Entries /\ [Next]_service => Entries'
  BY <1>2, <1>3 DEF service, engine
<1> QED
  BY <1>1, <1>4, ServiceHolds, PTL DEF Spec, Entries

-----------------------------------------------------------------------------
(* The gauge: a sum over the entries, and one over the backlogs.           *)

Existing   == {r \in RunIDs : run[r] # NoRun}
Unfinished == {r \in RunIDs : run[r].state \in {"running", "paused"}}
Observed   == {r \in RunIDs : pendingByRun[r] # NoEntry}
Backlog    == [r \in RunIDs |-> run[r].pending]

\* A step touches one run, or none.
TouchesOne == \E r \in RunIDs : \A q \in RunIDs : q # r => run'[q] = run[q]

\* A step changes one run at most.
LEMMA StepTouchesOne ==
    ASSUME ServiceInv, [Next]_service
    PROVE  UNCHANGED run \/ TouchesOne
<1>0. run = [r \in RunIDs |-> run[r]]
  BY DEF ServiceInv, Types, RegistryTypes
<1>1. ASSUME NEW r \in RunIDs, NEW v, run' = [run EXCEPT ![r] = v] PROVE TouchesOne
  BY <1>0, <1>1 DEF TouchesOne
<1>2. CASE UNCHANGED service
  BY <1>2 DEF service, engine
<1>3. CASE \E c \in Calls, q \in Requests : Issue(c, q)
  BY <1>3 DEF Issue, engine
<1>4. ASSUME NEW c \in AllCalls, Handler(c) PROVE UNCHANGED run \/ TouchesOne
  <2>1. CASE StartRun(c)
    <3>1. request[c].id \in RunIDs \cup {NoID}
      BY DEF ServiceInv, Types, CallTypes
    <3>2. PICK r \in RunIDs : run' = [run EXCEPT ![r] = FreshRun(ControlsFrom(request[c].controls))]
      BY <2>1, <3>1 DEF StartRun
    <3> QED
      BY <1>1, <3>2
  <2> QED
    BY <1>4, <2>1 DEF Handler, StartRefused, Spawn, NilControls, Lookup, ListRuns, ListNext,
       DoReturns, DoFails, engine
<1>5. ASSUME NEW r \in RunIDs, NEW c \in AllCalls, Command(r, c) PROVE UNCHANGED run \/ TouchesOne
  BY <1>0, <1>5 DEF Command, Query, UpdateControls, SetPaused, FinishRun, TouchesOne
<1>6. ASSUME NEW r \in RunIDs, Loop(r) PROVE UNCHANGED run \/ TouchesOne
  <2>1. CASE Advance(r)
    BY <1>1, <2>1 DEF Advance
  <2>2. CASE AdvanceFails(r)
    BY <1>1, <2>2 DEF AdvanceFails
  <2> QED
    BY <1>6, <2>1, <2>2 DEF Loop, Quit
<1>7. CASE Daemon
  BY <1>7 DEF Daemon, Signal, ListenerFails, HTTPDrained, HTTPTimesOut, GracefulStop,
     CloseRegistry, StopRun, Exit, engine
<1> QED
  BY <1>2, <1>3, <1>4, <1>5, <1>6, <1>7 DEF Next

\* However many names there are, finitely many runs have been started.
LEMMA FinitelyManyRuns == Spec => []IsFiniteSet(Existing)
<1>1. Init => IsFiniteSet(Existing)
  <2> SUFFICES ASSUME Init PROVE IsFiniteSet(Existing)
    OBVIOUS
  <2>1. Existing \subseteq Recovered
    BY DEF Init, Existing
  <2> QED
    BY <2>1, ServiceAssumption, FS_Subset
<1>2. ServiceInv /\ IsFiniteSet(Existing) /\ [Next]_service => IsFiniteSet(Existing)'
  <2> SUFFICES ASSUME ServiceInv, IsFiniteSet(Existing), [Next]_service PROVE IsFiniteSet(Existing)'
    OBVIOUS
  <2>1. CASE UNCHANGED run
    BY <2>1 DEF Existing
  <2>2. CASE TouchesOne
    <3>1. PICK r \in RunIDs : Existing' \subseteq Existing \cup {r}
      BY <2>2 DEF TouchesOne, Existing
    <3>2. IsFiniteSet(Existing \cup {r})
      BY FS_AddElement
    <3> QED
      BY <3>1, <3>2, FS_Subset
  <2> QED
    BY <2>1, <2>2, StepTouchesOne
<1> QED
  BY <1>1, <1>2, ServiceHolds, PTL DEF Spec

\* The two sums of PendingIsCurrent, as sums of functions.
LEMMA GaugeIsSum == totalPending = Add(pendingByRun, Observed)
BY DEF totalPending, Add, Observed, MapThenSumSet, MapThenFoldSet

\* The backlog of the unfinished runs as a sum.
LEMMA BacklogIsSum ==
    ASSUME IsFiniteSet(Unfinished)
    PROVE  MapThenSumSet(LAMBDA r : run[r].pending, Unfinished) = Add(Backlog, Unfinished)
<1> DEFINE IsIt(f) == f = [s \in SUBSET Unfinished |->
                             IF s = {} THEN 0 ELSE run[Pick(s)].pending + f[s \ {Pick(s)}]]
           it == CHOOSE f : IsIt(f)
<1>1. MapThenSumSet(LAMBDA r : run[r].pending, Unfinished) = it[Unfinished]
  BY DEF MapThenSumSet, MapThenFoldSet, Pick
<1>2. \A s \in SUBSET Unfinished : s # {} => Backlog[Pick(s)] = run[Pick(s)].pending
  BY PickIsMember DEF Backlog, Unfinished
<1>3. \A f : IsIt(f) <=> IsTable(Backlog, Unfinished, f)
  BY <1>2 DEF IsTable
<1>4. IsIt(Table(Backlog, Unfinished))
  BY <1>3, TableExists
<1> HIDE DEF IsIt
<1>5. IsIt(it)
  BY <1>4
<1>6. it[Unfinished] = Table(Backlog, Unfinished)[Unfinished]
  BY <1>3, <1>5, TableExists, TablesAgree
<1> QED
  BY <1>1, <1>6, AddIsTable

\* The pending gauge is the backlog of the runs that can still catch up, whatever
\* calls, ticks, failures and shutdown have interleaved: a finished run counts for
\* nothing, and a run no tick has observed has nothing to count (ObservePending,
\* ForgetRun, totalPending).
THEOREM GaugeIsCurrent == Spec => []PendingIsCurrent
<1>1. ServiceInv /\ IsFiniteSet(Existing) /\ (\A r \in RunIDs : EntryOK(r)) => PendingIsCurrent
  <2> SUFFICES ASSUME ServiceInv, IsFiniteSet(Existing), \A r \in RunIDs : EntryOK(r)
               PROVE  PendingIsCurrent
    OBVIOUS
  <2>1. \A r \in Unfinished : run[r] # NoRun /\ run[r] \in RunType
    <3>1. NoRun.state = "none"
      BY DEF NoRun
    <3>2. \A r \in RunIDs : run[r] \in RunType \cup {NoRun}
      BY DEF ServiceInv, Types, RegistryTypes
    <3> QED
      BY <3>1, <3>2 DEF Unfinished
  <2>2. IsFiniteSet(Unfinished)
    BY <2>1, FS_Subset DEF Unfinished, Existing
  <2>3. \A r \in Unfinished : Backlog[r] \in Int
    BY <2>1 DEF Backlog, Unfinished, RunType
  <2>4. Observed \in SUBSET Unfinished
    BY DEF Observed, Unfinished, EntryOK
  <2>5. \A r \in Unfinished \ Observed : Backlog[r] = 0
    BY DEF Backlog, Unfinished, Observed, EntryOK
  <2>6. Add(Backlog, Unfinished) = Add(Backlog, Observed)
    BY <2>2, <2>3, <2>4, <2>5, AddSkipsZeros
  <2>7. \A r \in Observed : Backlog[r] = pendingByRun[r]
    BY <2>4 DEF Backlog, Unfinished, Observed, EntryOK
  <2>8. Add(Backlog, Observed) = Add(pendingByRun, Observed)
    BY <2>2, <2>4, <2>7, FS_Subset, AddAgrees
  <2>9. totalPending = Add(Backlog, Unfinished)
    BY <2>6, <2>8, GaugeIsSum
  <2>10. \A r \in RunIDs \ Unfinished : pendingByRun[r] = NoEntry
    BY DEF Unfinished, EntryOK
  <2>11. MapThenSumSet(LAMBDA r : run[r].pending, Unfinished) = Add(Backlog, Unfinished)
    BY <2>2, BacklogIsSum, Zenon
  <2> HIDE DEF totalPending, Add
  <2>12. totalPending = MapThenSumSet(LAMBDA r : run[r].pending, Unfinished)
    BY <2>9, <2>11, Zenon
  <2> QED
    BY <2>10, <2>12, Zenon DEF PendingIsCurrent, Unfinished
<1> QED
  BY <1>1, FinitelyManyRuns, EntriesAreCurrent, ServiceHolds, PTL

-----------------------------------------------------------------------------
(* The load burst.                                                         *)

Phases == {"idle", "starting", "polling", "sampling", "finishing", "waiting", "returned"}

BurstTypes ==
    /\ client \in Phases /\ interrupted \in BOOLEAN /\ timedOut \in BOOLEAN
    /\ mine \in RunIDs \cup {NoID} /\ sample \in Nat

\* What runLoad has asked where it stands.
Phase ==
    /\ client = "idle" => pc["start"] = "idle"
    /\ client \in {"idle", "starting", "polling"} => pc["poll"] = "idle"
    /\ client \in {"idle", "starting", "polling", "sampling", "finishing"} => pc["finish"] = "idle"
    /\ client \in {"idle", "starting"} => mine = NoID
    /\ client \in {"polling", "sampling", "finishing", "waiting"} => mine # NoID
    /\ pc["start"] # "idle" => request["start"].op = "StartRun"
    /\ pc["poll"] # "idle" => request["poll"].op = "Query" /\ request["poll"].id = mine
    /\ pc["finish"] # "idle" =>
          mine # NoID /\ request["finish"].op = "FinishRun" /\ request["finish"].id = mine

\* The run it names is the one its StartRun made.
MineOK == mine # NoID => OK("start", "StartRun") /\ mine = handle["start"]

\* A call by name reaches the run of that name, and is refused only by a registry
\* that does not have it.
NamedOK(c) ==
    /\ pc[c] \in {"sending", "sent"} => handle[c] = request[c].id
    /\ pc[c] = "answered" /\ answer[c].code = "OK" => handle[c] = request[c].id

FinishOK == pc["finish"] = "answered" => answer["finish"].code \in {"OK", "Unavailable"}

SampleOK == sample = 0 \/ (mine # NoID /\ sample <= run[mine].tick)

\* How runLoad returned.
ReturnedOK ==
    /\ outcome = "nil" => mine # NoID /\ OK("finish", "FinishRun")
    /\ client = "returned" =>
          \/ pc["start"] = "idle"
          \/ pc["start"] = "answered" /\ answer["start"].code # "OK"
          \/ mine # NoID /\ OK("finish", "FinishRun")
          \/ timedOut \/ daemon # "serving" \/ (interrupted /\ mine = NoID)

BurstInv ==
    /\ BurstTypes /\ Phase /\ MineOK /\ NamedOK("poll") /\ NamedOK("finish") /\ FinishOK
    /\ SampleOK /\ ReturnedOK

LEMMA BurstCallsApart ==
    {"start", "poll", "finish"} \subseteq AllCalls /\ {"start", "poll", "finish"} \cap Calls = {}
BY ServiceAssumption DEF AllCalls, BurstCalls

\* A command of one run changes no run's tick.
LEMMA CommandTicks ==
    ASSUME RegistryTypes, NEW x \in RunIDs, NEW c \in AllCalls, Command(x, c),
           NEW r \in RunIDs, run[r] # NoRun
    PROVE  run'[r].tick = run[r].tick
<1>1. run \in [RunIDs -> RunType \cup {NoRun}] /\ run[r] \in RunType
  BY DEF RegistryTypes
<1>2. CASE Query(x, c)
  BY <1>2 DEF Query
<1>3. CASE UpdateControls(x, c)
  <2>1. CASE run' = run
    BY <2>1
  <2>2. CASE run' # run
    <3>1. PICK n, s : run' = [run EXCEPT ![x].revision = n, ![x].staged = s]
      BY <1>1, <1>3, <2>2 DEF UpdateControls
    <3> QED
      BY <1>1, <3>1 DEF RunType
  <2> QED
    BY <2>1, <2>2
<1>4. CASE SetPaused(x, c)
  BY <1>1, <1>4 DEF SetPaused, RunType
<1>5. CASE FinishRun(x, c)
  BY <1>1, <1>5 DEF FinishRun, RunType
<1> QED
  BY <1>2, <1>3, <1>4, <1>5 DEF Command

\* A tick moves one run by one.
LEMMA LoopTicks ==
    ASSUME RegistryTypes, \A q \in RunIDs : RunOK(q), NEW x \in RunIDs, Loop(x),
           NEW r \in RunIDs, run[r] # NoRun
    PROVE  run'[r].tick \in {run[r].tick, run[r].tick + 1}
<1>1. run \in [RunIDs -> RunType \cup {NoRun}] /\ run[r] \in RunType
  BY DEF RegistryTypes
<1>2. CASE Quit(x)
  BY <1>2 DEF Quit
<1>3. ASSUME Ticks(x), NEW t, run' = [run EXCEPT ![x] = t],
             t.tick \in {run[x].tick, run[x].tick + 1}
      PROVE  run'[r].tick \in {run[r].tick, run[r].tick + 1}
  BY <1>1, <1>3
<1>4. ASSUME Ticks(x), NEW st, NEW t, t = [Step(run[x]) EXCEPT !.state = st]
      PROVE  t.tick = run[x].tick + 1
  <2>1. run[x] \in RunType
    BY <1>1, <1>4 DEF Ticks, RunOK
  <2>2. DOMAIN Step(run[x]) = DOMAIN run[x] /\ Step(run[x]).tick = run[x].tick + 1
    BY <2>1 DEF Step, RunType
  <2> QED
    BY <1>4, <2>2
<1>5. CASE Advance(x)
  <2>1. PICK st : run' = [run EXCEPT ![x] = [Step(run[x]) EXCEPT !.state = st]]
    BY <1>5 DEF Advance
  <2>2. Ticks(x)
    BY <1>5 DEF Advance
  <2> QED
    BY <1>3, <1>4, <2>1, <2>2
<1>6. CASE AdvanceFails(x)
  <2>1. Ticks(x) /\ run[x] \in RunType
    BY <1>1, <1>6 DEF AdvanceFails, Ticks, RunOK
  <2>2. CASE run' = [run EXCEPT ![x] = [Step(run[x]) EXCEPT !.state = "finished"]]
    BY <1>3, <1>4, <2>1, <2>2
  <2>3. ASSUME NEW k \in 0 .. BatchLen(run[x]), NEW t,
               t = [run[x] EXCEPT !.state = "finished", !.controls = InForce(run[x]),
                                  !.staged = <<>>, !.applied = Recorded(run[x], k),
                                  !.pending = @ + k],
               run' = [run EXCEPT ![x] = t]
        PROVE  run'[r].tick \in {run[r].tick, run[r].tick + 1}
    <3>1. t.tick = run[x].tick
      BY <2>1, <2>3 DEF RunType
    <3> QED
      BY <1>3, <2>1, <2>3, <3>1
  <2> QED
    BY <1>1, <1>6, <2>2, <2>3 DEF AdvanceFails
<1> QED
  BY <1>2, <1>5, <1>6 DEF Loop

\* No run goes back.
LEMMA TicksGrow ==
    ASSUME ServiceInv, Next, NEW r \in RunIDs, run[r] # NoRun
    PROVE  run[r].tick \in Nat /\ run'[r].tick \in Nat /\ run[r].tick <= run'[r].tick
<1>1. RegistryTypes /\ CallTypes /\ DaemonInv /\ \A q \in RunIDs : RunOK(q)
  BY DEF ServiceInv, Types
<1>2. run[r].tick \in Nat
  BY <1>1 DEF RegistryTypes, RunType
<1>3. CASE run' = run
  BY <1>2, <1>3
<1>4. ASSUME NEW c \in AllCalls, StartRun(c) PROVE run'[r] = run[r]
  <2>1. PICK x \in (IF request[c].id = NoID THEN RunIDs ELSE {request[c].id}) \ runs :
            run' = [run EXCEPT ![x] = FreshRun(ControlsFrom(request[c].controls))]
    BY <1>4 DEF StartRun
  <2>2. ~closed /\ x \in RunIDs
    BY <1>1, <1>4, <2>1 DEF StartRun, CallTypes
  <2>3. r # x
    BY <1>1, <2>1, <2>2 DEF DaemonInv
  <2> QED
    BY <1>1, <2>1, <2>3 DEF RegistryTypes
<1>5. ASSUME NEW c \in AllCalls, Handler(c), ~StartRun(c) PROVE run' = run
  BY <1>5 DEF Handler, StartRefused, Spawn, NilControls, Lookup, ListRuns, ListNext, DoReturns,
     DoFails, engine
<1>6. CASE \E x \in RunIDs, c \in AllCalls : Command(x, c)
  BY <1>1, <1>2, <1>6, CommandTicks
<1>7. CASE \E x \in RunIDs : Loop(x)
  BY <1>1, <1>2, <1>7, LoopTicks
<1>8. ASSUME Daemon \/ \E c \in Calls, q \in Requests : Issue(c, q) PROVE run' = run
  BY <1>8 DEF Daemon, Signal, ListenerFails, HTTPDrained, HTTPTimesOut, GracefulStop,
     CloseRegistry, StopRun, Exit, Issue, engine
<1> QED
  BY <1>2, <1>3, <1>4, <1>5, <1>6, <1>7, <1>8 DEF Next

\* The daemon does not return to serving.
LEMMA ServingIsOnce ==
    ASSUME CallTypes, Next, daemon # "serving"
    PROVE  daemon' # "serving"
<1>1. ASSUME UNCHANGED server PROVE daemon' = daemon
  BY <1>1 DEF server
<1>2. CASE \E c \in Calls, q \in Requests : Issue(c, q)
  BY <1>1, <1>2 DEF Issue
<1>3. CASE \E c \in AllCalls : Handler(c)
  BY <1>1, <1>3, HandlerMoves
<1>4. CASE \E r \in RunIDs, c \in AllCalls : Command(r, c)
  BY <1>1, <1>4, CommandMoves
<1>5. CASE \E r \in RunIDs : Loop(r)
  BY <1>1, <1>5 DEF Loop, Advance, AdvanceFails, Quit
<1>6. CASE Daemon
  BY <1>6 DEF Daemon, Signal, ListenerFails, HTTPDrained, HTTPTimesOut, GracefulStop,
     CloseRegistry, StopRun, Exit
<1> QED
  BY <1>2, <1>3, <1>4, <1>5, <1>6 DEF Next

\* A handler that looks a run up by the name it was given.
LEMMA NamedHandler ==
    ASSUME ServiceInv, NEW c \in {"poll", "finish"}, Handler(c), NamedOK(c),
           request[c].op \in {"Query", "FinishRun"}
    PROVE  /\ NamedOK(c)'
           /\ pc'[c] = "answered" =>
                \/ answer'[c].code \in {"OK", "Unavailable"}
                \/ ~closed /\ request[c].id \notin runs
                \/ pc[c] = "sent" /\ reply[c].err # "nil"
<1>1. CallTypes /\ Shape(c) /\ c \in AllCalls
  BY BurstCallsApart DEF ServiceInv, Types, CallsOK, CallOK
<1>2. Moves(c) /\ request'[c] = request[c]
  BY <1>1, HandlerMoves DEF Moves
<1>3. pc[c] \notin {"lookup", "spawning", "listing"}
  BY <1>1 DEF Shape
<1>4. Lookup(c) \/ DoReturns(c) \/ DoFails(c)
  BY <1>3 DEF Handler, StartRefused, StartRun, Spawn, NilControls, ListRuns, ListNext, Called
<1>5. CASE Lookup(c)
  <2>1. CASE Found(request[c].id) = "nil"
    <3>1. handle'[c] = request[c].id /\ pc'[c] = "sending"
      BY <1>1, <1>3, <1>5, <2>1 DEF Lookup, CallTypes, Found, Refuse
    <3> QED
      BY <1>2, <3>1 DEF NamedOK
  <2>2. CASE Found(request[c].id) # "nil"
    <3>1. pc'[c] = "answered" /\ answer'[c].code = toStatus(Found(request[c].id))
      BY <1>1, <1>3, <1>5, <2>2 DEF Lookup, Refuse, Answer, CallTypes
    <3>2. CASE closed
      <4>1. answer'[c].code = "Unavailable"
        BY <3>1, <3>2 DEF Found, toStatus
      <4> QED
        BY <3>1, <4>1 DEF NamedOK
    <3>3. CASE ~closed
      <4>1. request[c].id \notin runs /\ answer'[c].code = "NotFound"
        BY <2>2, <3>1, <3>3 DEF Found, toStatus
      <4> QED
        BY <3>1, <3>3, <4>1 DEF NamedOK
    <3> QED
      BY <3>2, <3>3
  <2> QED
    BY <2>1, <2>2
<1>6. CASE DoReturns(c)
  <2>1. /\ pc[c] = "sent" /\ pc'[c] = "answered" /\ handle'[c] = handle[c]
        /\ answer'[c].code = toStatus(reply[c].err)
    BY <1>1, <1>6 DEF DoReturns, Answer, CallTypes
  <2>2. reply[c].err = "nil" => answer'[c].code = "OK"
    BY <2>1 DEF toStatus
  <2> QED
    BY <1>2, <2>1, <2>2 DEF NamedOK
<1>7. CASE DoFails(c)
  <2>1. pc'[c] = "answered" /\ answer'[c].code = toStatus("ErrRunClosed")
    BY <1>1, <1>7 DEF DoFails, Refuse, Answer, CallTypes
  <2>2. answer'[c].code = "Unavailable"
    BY <2>1 DEF toStatus
  <2> QED
    BY <2>1, <2>2 DEF NamedOK
<1> QED
  BY <1>4, <1>5, <1>6, <1>7

\* A step of the daemon or of another client, seen from a call by name.
LEMMA NamedStays ==
    ASSUME ServiceInv, NEW c \in {"poll", "finish"}, Next, NamedOK(c),
           pc[c] # "idle" => request[c].op \in {"Query", "FinishRun"}
    PROVE  /\ NamedOK(c)'
           /\ pc'[c] = "answered" /\ pc[c] # "answered" =>
                \/ answer'[c].code \in {"OK", "Unavailable"}
                \/ ~closed /\ request[c].id \notin runs
                \/ pc[c] = "sent" /\ reply[c].err # "nil"
<1>1. CallTypes /\ c \in AllCalls /\ c \notin Calls
  BY BurstCallsApart DEF ServiceInv, Types
<1>2. Rests(c) => NamedOK(c)' /\ pc'[c] = pc[c]
  BY DEF Rests, NamedOK
<1>3. ASSUME NEW d \in AllCalls, d # c, Moves(d) PROVE Rests(c)
  BY <1>1, <1>3 DEF Moves
<1>4. CASE \E d \in Calls, q \in Requests : Issue(d, q)
  <2>1. Rests(c)
    BY <1>1, <1>4 DEF Issue, Rests, CallTypes
  <2> QED
    BY <1>2, <2>1
<1>5. ASSUME NEW d \in AllCalls, Handler(d), d # c PROVE Rests(c)
  BY <1>1, <1>3, <1>5, HandlerMoves
<1>6. CASE Handler(c)
  <2>1. pc[c] # "idle"
    BY <1>1, <1>6, HandlerMoves DEF Moves
  <2> QED
    BY <1>6, <2>1, NamedHandler
<1>7. ASSUME NEW r \in RunIDs, NEW d \in AllCalls, Command(r, d), d # c PROVE Rests(c)
  BY <1>1, <1>3, <1>7, CommandMoves
<1>8. ASSUME NEW r \in RunIDs, Command(r, c) PROVE NamedOK(c)' /\ pc'[c] = "sent"
  BY <1>1, <1>8, CommandMoves DEF NamedOK, Moves
<1>9. CASE Daemon \/ \E r \in RunIDs : Loop(r)
  <2>1. Rests(c)
    BY <1>9, OthersRest DEF handlers, Rests
  <2> QED
    BY <1>2, <2>1
<1> QED
  BY <1>2, <1>4, <1>5, <1>6, <1>7, <1>8, <1>9 DEF Next

\* A step of the daemon or of another client leaves the burst's invariant alone.
LEMMA ServiceStepKeeps ==
    ASSUME ServiceInv, BurstInv, Next, UNCHANGED burst
    PROVE  BurstInv'
<1>1. /\ CallTypes /\ {"start", "poll", "finish"} \subseteq AllCalls
      /\ {"start", "poll", "finish"} \cap Calls = {}
  BY BurstCallsApart DEF ServiceInv, Types
<1>2. /\ client' = client /\ interrupted' = interrupted /\ mine' = mine /\ sample' = sample
      /\ timedOut' = timedOut /\ outcome' = outcome
  BY DEF burst
<1>3. ASSUME NEW c \in {"start", "poll", "finish"}
      PROVE  /\ pc[c] = "answered" \/ pc[c] = "idle" => Rests(c)
             /\ pc[c] # "idle" => pc'[c] # "idle" /\ request'[c] = request[c]
  BY <1>1, IdleRests
<1>4. BurstTypes'
  BY <1>2 DEF BurstInv, BurstTypes
<1>5. Phase'
  BY <1>2, <1>3 DEF BurstInv, Phase, Rests
<1>6. mine # NoID => OK("start", "StartRun")' /\ mine = handle'["start"] /\ Rests("start")
  BY <1>3 DEF BurstInv, MineOK, OK, Answered, Rests
<1>7. MineOK'
  BY <1>2, <1>6 DEF MineOK
<1>8. NamedOK("poll")'
  BY NamedStays DEF BurstInv, Phase
<1>9. NamedOK("finish")' /\ FinishOK'
  <2>1. /\ NamedOK("finish")'
        /\ pc'["finish"] = "answered" /\ pc["finish"] # "answered" =>
             \/ answer'["finish"].code \in {"OK", "Unavailable"}
             \/ ~closed /\ request["finish"].id \notin runs
             \/ pc["finish"] = "sent" /\ reply["finish"].err # "nil"
    BY NamedStays DEF BurstInv, Phase
  <2>2. CASE pc["finish"] = "answered"
    BY <1>3, <2>1, <2>2 DEF BurstInv, FinishOK, Rests
  <2>3. CASE pc["finish"] = "idle"
    BY <1>3, <2>1, <2>3 DEF FinishOK, Rests
  <2>4. CASE pc["finish"] \notin {"idle", "answered"}
    <3>1. request["finish"].op = "FinishRun" /\ request["finish"].id = mine
      BY <2>4 DEF BurstInv, Phase
    <3>2. pc["finish"] = "sent" => reply["finish"].err = "nil"
      BY <1>1, <3>1 DEF ServiceInv, CallsOK, CallOK, Shape
    <3>3. mine # NoID
      BY <2>4 DEF BurstInv, Phase
    <3>4. closed \/ mine \in runs
      BY <1>1, <3>3 DEF BurstInv, MineOK, ServiceInv, CallsOK, CallOK, HandleOK
    <3> QED
      BY <2>1, <2>4, <3>1, <3>2, <3>4 DEF FinishOK
  <2> QED
    BY <2>1, <2>2, <2>3, <2>4
<1>10. SampleOK'
  <2>1. ASSUME mine # NoID, sample <= run[mine].tick PROVE sample <= run'[mine].tick
    <3>1. mine \in RunIDs /\ run[mine] # NoRun /\ sample \in Nat
      BY <1>1, <2>1 DEF BurstInv, BurstTypes, MineOK, ServiceInv, CallsOK, CallOK, HandleOK
    <3>2. run[mine].tick \in Nat /\ run'[mine].tick \in Nat /\ run[mine].tick <= run'[mine].tick
      BY <3>1, TicksGrow
    <3> QED
      BY <2>1, <3>1, <3>2
  <2> QED
    BY <1>2, <2>1 DEF BurstInv, SampleOK
<1>11. ReturnedOK'
  <2>1. OK("finish", "FinishRun") => OK("finish", "FinishRun")'
    BY <1>3 DEF OK, Answered, Rests
  <2>2. pc["start"] = "idle" => pc'["start"] = "idle"
    BY <1>3 DEF Rests
  <2>3. pc["start"] = "answered" /\ answer["start"].code # "OK" =>
            pc'["start"] = "answered" /\ answer'["start"].code # "OK"
    BY <1>3 DEF Rests
  <2>4. daemon # "serving" => daemon' # "serving"
    BY <1>1, ServingIsOnce
  <2> QED
    BY <1>2, <2>1, <2>2, <2>3, <2>4 DEF BurstInv, ReturnedOK
<1> QED
  BY <1>4, <1>5, <1>7, <1>8, <1>9, <1>10, <1>11 DEF BurstInv

\* The client issues a call: the invariant of the daemon, and what the call is then.
LEMMA BurstIssues ==
    ASSUME ServiceInv, NEW c \in {"start", "poll", "finish"}, NEW q, Issue(c, q),
           q.id \in RunIDs \cup {NoID}, c = "poll" => q.op = "Query"
    PROVE  /\ ServiceInv' /\ pc'[c] = "called" /\ request'[c] = q
           /\ \A d \in {"start", "poll", "finish"} \ {c} : Rests(d)
           /\ UNCHANGED <<run, daemon, handle>>
<1>1. CallTypes /\ {"start", "poll", "finish"} \subseteq AllCalls
  BY BurstCallsApart DEF ServiceInv, Types
<1>2. ServiceInv'
  BY <1>1, IssueKeeps
<1> QED
  BY <1>1, <1>2 DEF Issue, CallTypes, Rests, engine, server

\* What one call knows is kept by a step in which it rests.
LEMMA NamedRests ==
    ASSUME NEW c \in {"poll", "finish"}, NamedOK(c), Rests(c)
    PROVE  NamedOK(c)'
BY DEF NamedOK, Rests

LEMMA OKRests ==
    ASSUME NEW c, NEW op, Rests(c), OK(c, op)
    PROVE  OK(c, op)'
BY DEF OK, Answered, Rests

LEMMA StartKeeps ==
    ASSUME ServiceInv, BurstInv, Start
    PROVE  ServiceInv' /\ BurstInv'
<1> DEFINE q == [NoRequest EXCEPT !.op = "StartRun", !.id = BurstID, !.controls = BurstControls]
<1>1. /\ client = "idle" /\ mine = NoID /\ pc["start"] = "idle" /\ pc["poll"] = "idle"
      /\ pc["finish"] = "idle"
      /\ interrupted' = interrupted /\ mine' = mine /\ sample' = sample /\ timedOut' = timedOut
  BY DEF Start, BurstInv, Phase
<1>2. CASE Issue("start", q) /\ client' = "starting" /\ UNCHANGED outcome
  <2>1. q.id = BurstID /\ q.op = "StartRun"
    BY DEF NoRequest
  <2> HIDE DEF q
  <2>2. /\ ServiceInv' /\ pc'["start"] = "called" /\ request'["start"] = q
        /\ Rests("poll") /\ Rests("finish") /\ UNCHANGED <<run, daemon, handle>>
    BY <1>2, <2>1, BurstIssues, BurstAssumption
  <2>3. BurstTypes' /\ Phase' /\ MineOK' /\ SampleOK' /\ FinishOK'
    BY <1>1, <1>2, <2>1, <2>2 DEF BurstInv, BurstTypes, Phases, Phase, MineOK, SampleOK, FinishOK,
       Rests
  <2>4. NamedOK("poll")' /\ NamedOK("finish")'
    BY <2>2, NamedRests DEF BurstInv
  <2>5. ReturnedOK'
    BY <1>1, <1>2 DEF BurstInv, ReturnedOK
  <2> QED
    BY <2>2, <2>3, <2>4, <2>5 DEF BurstInv
<1>3. CASE Returns("error") /\ UNCHANGED service
  <2>1. ServiceInv'
    BY <1>3, ServiceRests
  <2>2. /\ client' = "returned" /\ outcome' = "error" /\ UNCHANGED <<run, daemon>>
        /\ UNCHANGED <<pc, request, handle, answer>>
    BY <1>3 DEF Returns, service, handlers, engine, server
  <2> QED
    BY <1>1, <2>1, <2>2 DEF BurstInv, BurstTypes, Phases, Phase, MineOK, NamedOK, FinishOK, SampleOK,
       ReturnedOK, OK, Answered
<1> QED
  BY <1>2, <1>3 DEF Start

\* The rest of the invariant, when the client goes on and the daemon does not.
LEMMA ClientMoves ==
    ASSUME ServiceInv, BurstInv, UNCHANGED service
    PROVE  /\ ServiceInv'
           /\ pc' = pc /\ request' = request /\ handle' = handle /\ answer' = answer /\ run' = run
           /\ daemon' = daemon
           /\ NamedOK("poll")' /\ NamedOK("finish")' /\ FinishOK'
<1>1. /\ pc' = pc /\ request' = request /\ handle' = handle /\ answer' = answer /\ run' = run
      /\ daemon' = daemon
  BY DEF service, handlers, engine, server
<1> QED
  BY <1>1, ServiceRests DEF BurstInv, NamedOK, FinishOK

\* The name StartRun answered is the run it made.
LEMMA StartedNames ==
    ASSUME ServiceInv, OK("start", "StartRun")
    PROVE  answer["start"].value.id = handle["start"] /\ handle["start"] \in RunIDs
<1> DEFINE v == reply["start"].value
<1>1. "start" \in AllCalls
  BY BurstCallsApart
<1>2. /\ Executed("start") /\ request["start"].op = "StartRun"
      /\ answer["start"].value = Sent(v) /\ handle["start"] \in RunIDs
  BY <1>1, AcceptedIsExecuted
<1>3. {"id", "tick", "revision"} \subseteq DOMAIN v /\ v.id = handle["start"]
  BY <1>1, <1>2 DEF ServiceInv, CallsOK, CallOK, ReplyOK
<1>4. Sent(v)["id"] = v["id"]
  BY <1>3, SentFields
<1> QED
  BY <1>2, <1>3, <1>4

\* Whoever finds the connection gone finds the daemon going down.
LEMMA DisconnectedIsDown ==
    ASSUME ServiceInv, Disconnected \/ ~accepting
    PROVE  daemon # "serving"
BY DEF ServiceInv, DaemonInv, Disconnected

LEMMA StartedKeeps ==
    ASSUME ServiceInv, BurstInv, Started
    PROVE  ServiceInv' /\ BurstInv'
<1>1. /\ client = "starting" /\ mine = NoID /\ pc["poll"] = "idle" /\ pc["finish"] = "idle"
      /\ interrupted' = interrupted /\ sample' = sample /\ timedOut' = timedOut
      /\ pc["start"] # "idle" => request["start"].op = "StartRun"
      /\ UNCHANGED service
  BY DEF Started, BurstInv, Phase
<1>2. /\ ServiceInv'
      /\ pc' = pc /\ request' = request /\ handle' = handle /\ answer' = answer /\ run' = run
      /\ daemon' = daemon
      /\ NamedOK("poll")' /\ NamedOK("finish")' /\ FinishOK'
  BY <1>1, ClientMoves
<1>3. CASE /\ pc["start"] = "answered" /\ answer["start"].code = "OK"
           /\ mine' = answer["start"].value.id /\ client' = "polling" /\ UNCHANGED outcome
  <2>1. OK("start", "StartRun")
    BY <1>1, <1>3 DEF OK, Answered
  <2>2. mine' = handle["start"] /\ mine' \in RunIDs
    BY <1>3, <2>1, StartedNames
  <2>3. mine' # NoID
    BY <2>2, RequestAssumption
  <2>4. BurstTypes' /\ Phase' /\ SampleOK'
    BY <1>1, <1>2, <1>3, <2>2, <2>3 DEF BurstInv, BurstTypes, Phases, Phase, SampleOK
  <2>5. MineOK'
    BY <1>2, <2>1, <2>2 DEF MineOK, OK, Answered
  <2>6. ReturnedOK'
    BY <1>1, <1>3 DEF BurstInv, ReturnedOK
  <2> QED
    BY <1>2, <2>4, <2>5, <2>6 DEF BurstInv
<1>4. CASE Returns("error") /\ UNCHANGED mine
  <2>1. \/ pc["start"] = "answered" /\ answer["start"].code # "OK"
        \/ interrupted \/ Disconnected
    BY <1>4 DEF Started, Lost, Returns
  <2>2. Disconnected => daemon # "serving"
    BY DisconnectedIsDown
  <2>3. client' = "returned" /\ outcome' = "error" /\ mine' = NoID
    BY <1>1, <1>4 DEF Returns
  <2>4. ReturnedOK'
    BY <1>1, <1>2, <2>1, <2>2, <2>3 DEF ReturnedOK
  <2>5. BurstTypes' /\ Phase' /\ MineOK' /\ SampleOK'
    BY <1>1, <1>2, <2>3 DEF BurstInv, BurstTypes, Phases, Phase, MineOK, SampleOK
  <2> QED
    BY <1>2, <2>4, <2>5 DEF BurstInv
<1> QED
  BY <1>3, <1>4 DEF Started

\* The client turns to FinishRun, or is interrupted, and asks nothing.
LEMMA TurnsKeep ==
    ASSUME ServiceInv, BurstInv, UNCHANGED service, UNCHANGED <<mine, sample, timedOut, outcome>>,
           \/ /\ client' = "finishing" /\ client \in {"polling", "sampling"}
              /\ interrupted' = interrupted
           \/ client' = client /\ client # "returned" /\ interrupted' = TRUE
    PROVE  ServiceInv' /\ BurstInv'
<1>1. /\ ServiceInv'
      /\ pc' = pc /\ request' = request /\ handle' = handle /\ answer' = answer /\ run' = run
      /\ NamedOK("poll")' /\ NamedOK("finish")' /\ FinishOK'
  BY ClientMoves
<1>2. BurstTypes' /\ Phase' /\ SampleOK'
  BY <1>1 DEF BurstInv, BurstTypes, Phases, Phase, SampleOK
<1>3. MineOK' /\ ReturnedOK'
  BY <1>1 DEF BurstInv, MineOK, ReturnedOK, OK, Answered
<1> QED
  BY <1>1, <1>2, <1>3 DEF BurstInv

LEMMA PollKeeps ==
    ASSUME ServiceInv, BurstInv, Poll
    PROVE  ServiceInv' /\ BurstInv'
<1> DEFINE q == [NoRequest EXCEPT !.op = "Query", !.id = mine]
<1>1. /\ client = "polling" /\ mine # NoID /\ pc["poll"] = "idle" /\ pc["finish"] = "idle"
      /\ interrupted' = interrupted /\ mine' = mine /\ sample' = sample /\ timedOut' = timedOut
      /\ outcome' = outcome /\ mine \in RunIDs \cup {NoID}
  BY DEF Poll, BurstInv, BurstTypes, Phase
<1>2. CASE Issue("poll", q) /\ client' = "sampling"
  <2>1. q.id = mine /\ q.op = "Query"
    BY DEF NoRequest
  <2> HIDE DEF q
  <2>2. /\ ServiceInv' /\ pc'["poll"] = "called" /\ request'["poll"] = q
        /\ Rests("start") /\ Rests("finish") /\ UNCHANGED <<run, daemon, handle>>
    BY <1>1, <1>2, <2>1, BurstIssues
  <2>3. BurstTypes' /\ Phase' /\ SampleOK' /\ FinishOK'
    BY <1>1, <1>2, <2>1, <2>2 DEF BurstInv, BurstTypes, Phases, Phase, SampleOK, FinishOK, Rests
  <2>4. NamedOK("poll")'
    BY <2>2 DEF NamedOK
  <2>5. NamedOK("finish")'
    BY <2>2, NamedRests DEF BurstInv
  <2>6. MineOK'
    BY <1>1, <2>2, OKRests DEF BurstInv, MineOK
  <2>7. ReturnedOK'
    BY <1>1, <1>2, <2>2, OKRests DEF BurstInv, ReturnedOK
  <2> QED
    BY <2>2, <2>3, <2>4, <2>5, <2>6, <2>7 DEF BurstInv
<1>3. CASE client' = "finishing" /\ UNCHANGED service
  BY <1>1, <1>3, TurnsKeep
<1> QED
  BY <1>2, <1>3 DEF Poll

\* The client has read an answer, and will use the call again.
LEMMA PollIsReused ==
    ASSUME ServiceInv, request["poll"].op = "Query",
           pc' = [pc EXCEPT !["poll"] = "idle"], reply' = [reply EXCEPT !["poll"] = NoReply],
           answer' = [answer EXCEPT !["poll"] = NoAnswer],
           UNCHANGED <<registry, engine, request, handle, list, since, server, faults>>
    PROVE  /\ ServiceInv' /\ pc'["poll"] = "idle"
           /\ Rests("start") /\ Rests("finish") /\ UNCHANGED <<run, daemon, handle, request>>
<1>1. CallTypes /\ {"start", "poll", "finish"} \subseteq AllCalls /\ "poll" \notin Calls
  BY BurstCallsApart DEF ServiceInv, Types
<1>2. /\ UNCHANGED <<registry, engine, server>> /\ faults' \in 0 .. MaxFaults
  BY DEF ServiceInv, Types, DaemonTypes
<1>3. /\ World /\ RegistryTypes' /\ DaemonTypes' /\ DaemonInv' /\ OrderInv'
      /\ \A r \in RunIDs : RunOK(r)'
  BY <1>2, EngineRests
<1>4. /\ pc'["poll"] = "idle" /\ reply'["poll"] = NoReply /\ request'["poll"].op = "Query"
      /\ handle'["poll"] = handle["poll"]
      /\ \A d \in AllCalls \ {"poll"} : Rests(d)
  BY <1>1 DEF CallTypes, Rests
<1>5. CallTypes'
  BY <1>1 DEF CallTypes
<1>6. CallOK("poll")'
  <2>1. HandleOK("poll")'
    BY <1>1 DEF ServiceInv, CallsOK, CallOK, HandleOK, registry, engine
  <2> QED
    BY <1>4, <2>1 DEF CallOK, Shape, AnswerOK, ReplyOK, Executed, ListOK
<1>7. \A p \in Calls : OrderOK("poll", p)'
  BY <1>4 DEF OrderOK
<1>8. CallsOK'
  BY <1>1, <1>3, <1>4, <1>6, <1>7, OneCallMoves
<1>9. Rests("start") /\ Rests("finish") /\ UNCHANGED <<run, daemon, handle, request>>
  BY <1>1, <1>4 DEF engine, server
<1> QED
  BY <1>3, <1>4, <1>5, <1>8, <1>9 DEF ServiceInv, Types

LEMMA PolledKeeps ==
    ASSUME ServiceInv, BurstInv, Polled
    PROVE  ServiceInv' /\ BurstInv'
<1>1. /\ client = "sampling" /\ mine # NoID /\ pc["finish"] = "idle"
      /\ interrupted' = interrupted /\ mine' = mine /\ timedOut' = timedOut
      /\ outcome' = outcome /\ mine \in RunIDs
  BY DEF Polled, BurstInv, BurstTypes, Phase
<1>2. CASE /\ pc["poll"] = "answered" /\ answer["poll"].code = "OK"
           /\ sample' = answer["poll"].value.tick
           /\ client' = "polling"
           /\ pc' = [pc EXCEPT !["poll"] = "idle"]
           /\ reply' = [reply EXCEPT !["poll"] = NoReply]
           /\ answer' = [answer EXCEPT !["poll"] = NoAnswer]
           /\ UNCHANGED <<registry, engine, request, handle, list, since, server, faults>>
  <2>1. request["poll"].op = "Query" /\ request["poll"].id = mine /\ handle["poll"] = mine
    BY <1>2 DEF BurstInv, Phase, NamedOK
  <2>2. /\ ServiceInv' /\ pc'["poll"] = "idle"
        /\ Rests("start") /\ Rests("finish") /\ UNCHANGED <<run, daemon, handle, request>>
    BY <1>2, <2>1, PollIsReused
  <2>3. sample' \in Nat /\ sample' <= run[mine].tick
    <3>1. OK("poll", "Query") /\ "poll" \in AllCalls
      BY <1>2, <2>1, BurstCallsApart DEF OK, Answered
    <3>2. sample' = reply["poll"].value.tick /\ Executed("poll")
      BY <1>2, <3>1, QueryFields, AcceptedIsExecuted
    <3> QED
      BY <2>1, <3>1, <3>2 DEF ServiceInv, CallsOK, CallOK, ReplyOK
  <2>4. BurstTypes' /\ SampleOK' /\ FinishOK'
    BY <1>1, <1>2, <2>2, <2>3 DEF BurstInv, BurstTypes, Phases, SampleOK, FinishOK, Rests
  <2>5. Phase'
    BY <1>1, <1>2, <2>2 DEF BurstInv, Phase, Rests
  <2>6. NamedOK("poll")' /\ NamedOK("finish")'
    BY <2>2, NamedRests DEF BurstInv, NamedOK
  <2>7. MineOK'
    BY <1>1, <2>2, OKRests DEF BurstInv, MineOK
  <2>8. ReturnedOK'
    BY <1>1, <1>2, <2>2, OKRests DEF BurstInv, ReturnedOK
  <2> QED
    BY <2>2, <2>4, <2>5, <2>6, <2>7, <2>8 DEF BurstInv
<1>3. CASE client' = "finishing" /\ UNCHANGED <<service, sample>>
  BY <1>1, <1>3, TurnsKeep
<1> QED
  BY <1>2, <1>3 DEF Polled

LEMMA FinishKeeps ==
    ASSUME ServiceInv, BurstInv, Finish
    PROVE  ServiceInv' /\ BurstInv'
<1> DEFINE q == [NoRequest EXCEPT !.op = "FinishRun", !.id = mine]
<1>1. /\ client = "finishing" /\ mine # NoID /\ pc["finish"] = "idle"
      /\ interrupted' = interrupted /\ mine' = mine /\ sample' = sample /\ timedOut' = timedOut
      /\ mine \in RunIDs \cup {NoID}
  BY DEF Finish, BurstInv, BurstTypes, Phase
<1>2. CASE Issue("finish", q) /\ client' = "waiting" /\ UNCHANGED outcome
  <2>1. q.id = mine /\ q.op = "FinishRun"
    BY DEF NoRequest
  <2> HIDE DEF q
  <2>2. /\ ServiceInv' /\ pc'["finish"] = "called" /\ request'["finish"] = q
        /\ Rests("start") /\ Rests("poll") /\ UNCHANGED <<run, daemon, handle>>
    BY <1>1, <1>2, <2>1, BurstIssues
  <2>3. BurstTypes' /\ Phase' /\ SampleOK' /\ FinishOK'
    BY <1>1, <1>2, <2>1, <2>2 DEF BurstInv, BurstTypes, Phases, Phase, SampleOK, FinishOK, Rests
  <2>4. NamedOK("finish")'
    BY <2>2 DEF NamedOK
  <2>5. NamedOK("poll")'
    BY <2>2, NamedRests DEF BurstInv
  <2>6. MineOK'
    BY <1>1, <2>2, OKRests DEF BurstInv, MineOK
  <2>7. ReturnedOK'
    BY <1>1, <1>2 DEF BurstInv, ReturnedOK, OK, Answered
  <2> QED
    BY <2>2, <2>3, <2>4, <2>5, <2>6, <2>7 DEF BurstInv
<1>3. CASE Unreachable /\ Returns("error") /\ UNCHANGED service
  <2>1. /\ ServiceInv'
        /\ pc' = pc /\ request' = request /\ handle' = handle /\ answer' = answer /\ run' = run
        /\ daemon' = daemon
        /\ NamedOK("poll")' /\ NamedOK("finish")' /\ FinishOK'
    BY <1>3, ClientMoves
  <2>2. client' = "returned" /\ outcome' = "error" /\ daemon # "serving"
    BY <1>3, DisconnectedIsDown DEF Returns, Unreachable
  <2>3. BurstTypes' /\ Phase' /\ SampleOK' /\ ReturnedOK'
    BY <1>1, <2>1, <2>2 DEF BurstInv, BurstTypes, Phases, Phase, SampleOK, ReturnedOK
  <2>4. MineOK'
    BY <1>1, <2>1 DEF BurstInv, MineOK, OK, Answered
  <2> QED
    BY <2>1, <2>3, <2>4 DEF BurstInv
<1> QED
  BY <1>2, <1>3 DEF Finish

\* The client returns from FinishRun.
LEMMA FinishedKeeps ==
    ASSUME ServiceInv, BurstInv, Finished \/ FinishGivenUp
    PROVE  ServiceInv' /\ BurstInv'
<1>1. /\ client = "waiting" /\ mine # NoID
      /\ interrupted' = interrupted /\ mine' = mine /\ sample' = sample
      /\ client' = "returned" /\ UNCHANGED service
  BY DEF Finished, FinishGivenUp, Returns, BurstInv, Phase
<1>2. /\ ServiceInv'
      /\ pc' = pc /\ request' = request /\ handle' = handle /\ answer' = answer /\ run' = run
      /\ daemon' = daemon
      /\ NamedOK("poll")' /\ NamedOK("finish")' /\ FinishOK'
  BY <1>1, ClientMoves
<1>3. timedOut' \in BOOLEAN
  BY DEF Finished, FinishGivenUp, BurstInv, BurstTypes
<1>4. BurstTypes' /\ Phase' /\ SampleOK'
  BY <1>1, <1>2, <1>3 DEF BurstInv, BurstTypes, Phases, Phase, SampleOK
<1>5. MineOK'
  BY <1>1, <1>2 DEF BurstInv, MineOK, OK, Answered
<1>6. /\ outcome' = "nil" => pc["finish"] = "answered" /\ answer["finish"].code = "OK"
      /\ \/ pc["finish"] = "answered" \/ Disconnected \/ timedOut' = TRUE
  BY DEF Finished, FinishGivenUp, Returns
<1>7. pc["finish"] = "answered" /\ answer["finish"].code = "OK" => OK("finish", "FinishRun")'
  BY <1>2 DEF BurstInv, Phase, OK, Answered
<1>8. pc["finish"] = "answered" /\ answer["finish"].code # "OK" => daemon # "serving"
  <2>1. ASSUME pc["finish"] = "answered", answer["finish"].code = "Unavailable"
        PROVE  daemon # "serving"
    BY <2>1, BurstCallsApart DEF ServiceInv, CallsOK, CallOK, AnswerOK, DaemonInv
  <2> QED
    BY <2>1 DEF BurstInv, FinishOK
<1>9. Disconnected => daemon # "serving"
  BY DisconnectedIsDown
<1>10. ReturnedOK'
  BY <1>1, <1>2, <1>6, <1>7, <1>8, <1>9 DEF ReturnedOK
<1> QED
  BY <1>2, <1>4, <1>5, <1>10 DEF BurstInv

LEMMA BurstKeeps ==
    ASSUME ServiceInv, BurstInv, [BurstNext]_burstVars
    PROVE  ServiceInv' /\ BurstInv'
<1>1. CASE Next /\ UNCHANGED burst
  BY <1>1, NextKeeps, ServiceStepKeeps
<1>2. CASE Interrupt
  BY <1>2, TurnsKeep DEF Interrupt
<1>3. CASE EndOfPolling
  BY <1>3, TurnsKeep DEF EndOfPolling
<1>4. CASE Client /\ ~EndOfPolling
  BY <1>4, StartKeeps, StartedKeeps, PollKeeps, PolledKeeps, FinishKeeps, FinishedKeeps DEF Client
<1>5. CASE UNCHANGED burstVars
  <2>1. UNCHANGED service /\ UNCHANGED burst
    BY <1>5 DEF burstVars
  <2>2. /\ ServiceInv'
        /\ pc' = pc /\ request' = request /\ handle' = handle /\ answer' = answer /\ run' = run
        /\ daemon' = daemon
        /\ NamedOK("poll")' /\ NamedOK("finish")' /\ FinishOK'
    BY <2>1, ClientMoves
  <2> QED
    BY <2>1, <2>2 DEF burst, BurstInv, BurstTypes, Phase, MineOK, SampleOK, ReturnedOK, OK, Answered
<1> QED
  BY <1>1, <1>2, <1>3, <1>4, <1>5 DEF BurstNext

\* The burst and the daemon, in every state they reach together.
LEMMA BurstHolds == BurstSpec => [](ServiceInv /\ BurstInv)
<1>1. BurstInit => ServiceInv /\ BurstInv
  <2>1. ASSUME BurstInit PROVE BurstInv
    <3>1. \A c \in {"start", "poll", "finish"} : pc[c] = "idle"
      BY <2>1, BurstCallsApart DEF BurstInit, Init
    <3>2. /\ client = "idle" /\ interrupted = FALSE /\ mine = NoID /\ sample = 0
          /\ timedOut = FALSE /\ outcome = "none"
      BY <2>1 DEF BurstInit
    <3> QED
      BY <3>1, <3>2 DEF BurstInv, BurstTypes, Phases, Phase, MineOK, NamedOK, FinishOK, SampleOK,
         ReturnedOK
  <2> QED
    BY <2>1, InitKeeps DEF BurstInit
<1>2. (ServiceInv /\ BurstInv) /\ [BurstNext]_burstVars => (ServiceInv /\ BurstInv)'
  BY BurstKeeps
<1> QED
  BY <1>1, <1>2, PTL DEF BurstSpec

\* The burst ends the run it started: a result it reports is the end of the run, which
\* nothing changes afterwards, and no sample was ahead of it; and when the run goes on
\* after runLoad returned, then FinishRun ran out of its five seconds, or the daemon is
\* going down, or the interrupt came before runLoad had learnt the run's name.
THEOREM BurstEnds == BurstSpec => []BurstEndsItsRun
<1>1. ASSUME ServiceInv, BurstInv PROVE BurstEndsItsRun
  <2>0. {"start", "poll", "finish"} \subseteq AllCalls
    BY BurstCallsApart
  <2>1. ASSUME mine # NoID, OK("finish", "FinishRun")
        PROVE  /\ run[mine].state = "finished" /\ answer["finish"].value = Sent(View(mine))
               /\ sample <= run[mine].tick
    <3>1. handle["finish"] = mine
      BY <1>1, <2>1 DEF BurstInv, NamedOK, Phase, OK, Answered
    <3>2. /\ Executed("finish") /\ request["finish"].op = "FinishRun"
          /\ answer["finish"].value = Sent(reply["finish"].value)
      BY <1>1, <2>0, <2>1, AcceptedIsExecuted
    <3>3. run[mine].state = "finished" /\ reply["finish"].value = View(mine)
      BY <1>1, <2>0, <3>1, <3>2 DEF ServiceInv, CallsOK, CallOK, ReplyOK
    <3>4. run[mine].tick \in Nat
      <4>1. mine \in RunIDs /\ run[mine] # NoRun
        BY <1>1, <2>0, <2>1 DEF BurstInv, BurstTypes, MineOK, ServiceInv, CallsOK, CallOK, HandleOK
      <4> QED
        BY <1>1, <4>1 DEF ServiceInv, Types, RegistryTypes, RunType
    <3>5. sample <= run[mine].tick
      BY <1>1, <3>4 DEF BurstInv, SampleOK
    <3> QED
      BY <3>2, <3>3, <3>5
  <2>2. ASSUME client = "returned", handle["start"] # NoID,
               run[handle["start"]].state # "finished"
        PROVE  timedOut \/ daemon # "serving" \/ (interrupted /\ mine = NoID)
    <3>1. Shape("start") /\ AnswerOK("start") /\ DaemonInv
      BY <1>1, <2>0 DEF ServiceInv, CallsOK, CallOK
    <3>2. pc["start"] # "idle"
      BY <2>2, <3>1 DEF Shape
    <3>3. CASE pc["start"] = "answered" /\ answer["start"].code # "OK"
      <4>1. request["start"].op = "StartRun"
        BY <1>1, <3>2 DEF BurstInv, Phase
      <4>2. answer["start"].code = "Unavailable"
        BY <2>2, <3>1, <3>3, <4>1 DEF AnswerOK
      <4> QED
        BY <3>1, <3>3, <4>2 DEF AnswerOK, DaemonInv
    <3>4. ~(mine # NoID /\ OK("finish", "FinishRun"))
      BY <1>1, <2>1, <2>2 DEF BurstInv, MineOK
    <3> QED
      BY <1>1, <2>2, <3>2, <3>3, <3>4 DEF BurstInv, ReturnedOK
  <2>3. outcome = "nil" => mine # NoID /\ OK("finish", "FinishRun")
    BY <1>1 DEF BurstInv, ReturnedOK
  <2> QED
    BY <2>1, <2>2, <2>3 DEF BurstEndsItsRun
<1>2. ServiceInv /\ BurstInv => BurstEndsItsRun
  BY <1>1
<1> QED
  BY <1>2, BurstHolds, PTL

=============================================================================
