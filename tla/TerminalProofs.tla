--------------------------- MODULE TerminalProofs ---------------------------
(***************************************************************************)
(* The live mode, for every controls of the command line, every set of     *)
(* typed values, every buffer and any number of ticks, faults and lines:   *)
(* what is printed at the end is the end, the reader's copy of the         *)
(* controls is the run's, and the terminal is one more stream of module    *)
(* LiveStream.                                                             *)
(***************************************************************************)
EXTENDS Terminal, TLAPS

-----------------------------------------------------------------------------
(* The summary.                                                            *)

\* FinishRun is answered by a run that has finished, and what it answers is then
\* settled: nothing is folded, ticked or finished any more.
SummaryInv ==
    /\ main = "summingRan" => stage # "ready" \/ state = "finished"
    /\ outcome = "nil" =>
          /\ state = "finished" /\ stage # "finishing"
          /\ summary = [tick |-> tick, folded |-> folded, final |-> TRUE]

\* The run goes on as it may: a finished run does not move, and nothing but finish
\* makes its goroutine ready again.
Settles ==
    /\ state = "finished" /\ stage # "finishing" =>
          /\ state' = "finished" /\ stage' # "finishing" /\ tick' = tick /\ folded' = folded
    /\ stage # "ready" \/ state = "finished" => stage' # "ready" \/ state' = "finished"

\* Whatever step of LiveStream this is.
LEMMA NextSettles ==
    ASSUME [Next]_vars
    PROVE  Settles
<1>1. CASE Advance \/ AdvanceFails \/ Finish \/ CloseRegistry \/ Quit \/ UNCHANGED vars
  BY <1>1 DEF Advance, AdvanceFails, Finish, CloseRegistry, Quit, Settles, run, vars
<1>2. CASE Command
  BY <1>2 DEF Command, FinishRun, SetPaused, Settles, run
<1>3. ASSUME NEW s \in Streams, Dial(s) \/ ConnectionFails(s) \/ Handle(s) PROVE Settles
  <2>1. UNCHANGED <<run, stage>>
    BY <1>3 DEF Dial, ConnectionFails, Handle, Subscribe, Refuse, DoFails, Upgrade, Forward,
       EndStream, Detach
  <2> QED
    BY <2>1 DEF Settles, run
<1> QED
  BY <1>1, <1>2, <1>3 DEF Next

\* Each step of the terminal is a step of LiveStream, or none to it: the terminal is
\* a stream that is dialled, attached, read and closed like any other, and its
\* commands are the commands of any client.
LEMMA TerminalSteps ==
    ASSUME [TerminalNext]_<<vars, terminal>>
    PROVE  [Next]_vars
<1>0. T \in Streams
  BY TerminalAssumption
<1>1. CASE Engine
  BY <1>1 DEF Engine, Next
<1>2. CASE Dials \/ Subscribes \/ Opens \/ TakesFrame \/ Detaches
  BY <1>0, <1>2 DEF Dials, Subscribes, Opens, TakesFrame, Detaches, Next, Handle
<1>3. CASE TakesInterrupt \/ TakesEnd \/ FinishAnswered \/ Returns
  BY <1>3 DEF TakesInterrupt, TakesEnd, FinishAnswered, Returns
<1>4. CASE FinishTaken
  BY <1>4 DEF FinishTaken, Next, Command
<1>5. CASE Closes
  BY <1>0, <1>5 DEF Closes, ConnectionFails, Goto, Next
<1>6. CASE ClosesRegistry
  BY <1>6 DEF ClosesRegistry, Next
<1>7. CASE Interrupt \/ EndOfInput \/ \E l \in Lines : Types(l)
  BY <1>7 DEF Interrupt, EndOfInput, Types
<1>8. CASE CommandTaken
  <2>1. UNCHANGED vars \/ FinishRun \/ SetPaused(line.verb = "pause")
    BY <1>8 DEF CommandTaken
  <2>2. (line.verb = "pause") \in BOOLEAN
    OBVIOUS
  <2> QED
    BY <2>1, <2>2 DEF Next, Command
<1>9. CASE CommandAnswered \/ CommandFails
  BY <1>9 DEF CommandAnswered, CommandFails
<1> QED
  BY <1>1, <1>2, <1>3, <1>4, <1>5, <1>6, <1>7, <1>8, <1>9 DEF TerminalNext, Main, Reader

\* The live mode is the run and the streams of module LiveStream with one stream
\* attached: what is proved of any client's frames, catch-up and close code there
\* holds of the terminal.
THEOREM TerminalIsAStream == TerminalSpec => Spec
<1>1. TerminalInit => Init
  BY DEF TerminalInit
<1>2. [TerminalNext]_<<vars, terminal>> => [Next]_vars
  BY TerminalSteps
<1> QED
  BY <1>1, <1>2, PTL DEF TerminalSpec, Spec

LEMMA SummaryStep ==
    ASSUME SummaryInv, [TerminalNext]_<<vars, terminal>>
    PROVE  SummaryInv'
<1>1. Settles
  BY TerminalSteps, NextSettles
<1>2. ASSUME UNCHANGED <<outcome, summary>>, main' = main \/ main' # "summingRan"
      PROVE  SummaryInv'
  BY <1>1, <1>2 DEF SummaryInv, Settles
<1>3. CASE FinishTaken
  <2>1. /\ UNCHANGED <<outcome, summary>> /\ main' # main
        /\ stage' # "ready" \/ state' = "finished"
    BY <1>3 DEF FinishTaken, FinishRun, vars, run
  <2> QED
    BY <1>1, <2>1 DEF SummaryInv, Settles
<1>4. CASE FinishAnswered
  <2>1. CASE main = "summingRan"
    <3>1. /\ state' = "finished" /\ stage' = "ready" /\ tick' = tick /\ folded' = folded
          /\ summary' = [tick |-> tick, folded |-> folded, final |-> state = "finished"]
          /\ main' = "leaving" /\ state = "finished"
      BY <1>4, <2>1 DEF FinishAnswered, SummaryInv, Leave, vars, run
    <3> QED
      BY <3>1 DEF SummaryInv
  <2>2. CASE main # "summingRan"
    <3>1. UNCHANGED <<outcome, summary>> /\ main' = "select"
      BY <1>4, <2>2 DEF FinishAnswered
    <3> QED
      BY <1>2, <3>1
  <2> QED
    BY <2>1, <2>2
<1>5. CASE TakesFrame
  <2>1. summary' = summary /\ main' # "summingRan" /\ (outcome' = outcome \/ outcome' = "error")
    BY <1>5 DEF TakesFrame, Leave
  <2> QED
    BY <1>1, <2>1 DEF SummaryInv, Settles
<1>6. CASE Dials \/ Subscribes \/ Opens \/ TakesInterrupt \/ TakesEnd \/ Closes \/ Detaches
           \/ ClosesRegistry \/ Returns
  BY <1>2, <1>6 DEF Dials, Subscribes, Opens, TakesInterrupt, TakesEnd, Closes, Detaches,
     ClosesRegistry, Returns, terminal, mainVars
<1>7. CASE Engine \/ Interrupt \/ Reader \/ EndOfInput \/ (\E l \in Lines : Types(l))
           \/ UNCHANGED <<vars, terminal>>
  BY <1>2, <1>7 DEF Engine, Interrupt, Reader, CommandTaken, CommandAnswered, CommandFails,
     EndOfInput, Types, terminal, mainVars
<1> QED
  BY <1>3, <1>4, <1>5, <1>6, <1>7 DEF TerminalNext, Main

\* What is printed at the end is the end: when runLive returns without an error the
\* run has finished and the summary is what it finished with, whichever frames were
\* dropped on the way and whoever else finished the run.
THEOREM TheEndIsPrinted == TerminalSpec => []SummaryShowsTheEnd
<1>1. TerminalInit => SummaryInv
  BY DEF TerminalInit, Init, SummaryInv
<1>2. SummaryInv /\ [TerminalNext]_<<vars, terminal>> => SummaryInv'
  BY SummaryStep
<1>3. SummaryInv => SummaryShowsTheEnd
  BY DEF SummaryInv, SummaryShowsTheEnd
<1> QED
  BY <1>1, <1>2, <1>3, PTL DEF TerminalSpec

-----------------------------------------------------------------------------
(* The reader's copy of the controls.                                      *)

\* Until shutdown the copy is what the run accepted last, or will be once the answer
\* that is on its way has arrived; a goroutine that is gone was told to go, and the
\* reader begins after main has subscribed.
Unread == main \in {"started", "subscribing", "subscribed"} => reader = "off"

CopyInv ==
    /\ Unread
    /\ stage = "done" => quit
    /\ ~quit => IF reader = "ran" THEN Kept = accepted ELSE desired = accepted

LEMMA CopyStep ==
    ASSUME CopyInv, [TerminalNext]_<<vars, terminal>>
    PROVE  CopyInv'
<1>0. Unread'
  <2>1. CASE Main
    BY <2>1 DEF CopyInv, Unread, Main, Dials, Subscribes, Opens, TakesFrame, TakesInterrupt, Leave,
       TakesEnd, FinishTaken, FinishAnswered, Closes, Detaches, ClosesRegistry, Returns, terminal,
       mainVars, readerVars
  <2>2. CASE ~Main
    BY <2>2 DEF CopyInv, Unread, TerminalNext, Engine, Interrupt, Reader, CommandTaken,
       CommandAnswered, CommandFails, Types, EndOfInput, terminal, mainVars, readerVars
  <2> QED
    BY <2>1, <2>2
<1>1. (quit => quit') /\ (stage' = "done" => quit')
  <2>1. [Next]_vars
    BY TerminalSteps
  <2>2. CASE UNCHANGED vars \/ Advance \/ AdvanceFails \/ Finish \/ CloseRegistry \/ Quit
    BY <2>2 DEF CopyInv, vars, Advance, AdvanceFails, Finish, CloseRegistry, Quit
  <2>3. CASE Command
    BY <2>3 DEF CopyInv, Command, FinishRun, SetPaused
  <2>4. ASSUME NEW s \in Streams, Dial(s) \/ ConnectionFails(s) \/ Handle(s)
        PROVE  UNCHANGED <<quit, stage>>
    BY <2>4 DEF Dial, ConnectionFails, Handle, Subscribe, Refuse, DoFails, Upgrade, Forward,
       EndStream, Detach
  <2> QED
    BY <2>1, <2>2, <2>3, <2>4 DEF Next, CopyInv
<1>2. ASSUME UNCHANGED <<line, desired, accepted, rejected>>,
             reader' = reader \/ (reader # "ran" /\ reader' # "ran")
      PROVE  CopyInv'
  BY <1>0, <1>1, <1>2 DEF CopyInv, Kept, Wanted
<1>3. CASE CommandTaken
  <2>1. /\ reader = "calling" /\ reader' = "ran" /\ line' = line /\ desired' = desired
    BY <1>3 DEF CommandTaken
  <2>2. Wanted' = Wanted
    BY <2>1 DEF Wanted
  <2>3. CASE line.verb \in Fields
    <3>1. accepted' = (IF rejected' THEN accepted ELSE Wanted)
      BY <1>3, <2>3 DEF CommandTaken, Fields
    <3> QED
      BY <1>0, <1>1, <2>1, <2>2, <3>1 DEF CopyInv, Kept
  <2>4. CASE line.verb \notin Fields
    <3>1. accepted' = accepted /\ Wanted = desired
      BY <1>3, <2>4 DEF CommandTaken, Wanted
    <3> QED
      BY <1>0, <1>1, <2>1, <2>2, <3>1 DEF CopyInv, Kept
  <2> QED
    BY <2>3, <2>4
<1>4. CASE CommandAnswered
  BY <1>0, <1>1, <1>4 DEF CommandAnswered, CopyInv
<1>5. CASE CommandFails
  BY <1>0, <1>1, <1>5 DEF CommandFails, CopyInv
<1>6. CASE \E l \in Lines : Types(l)
  BY <1>0, <1>1, <1>6 DEF Types, CopyInv
<1>7. CASE Opens
  BY <1>0, <1>1, <1>7 DEF Opens, CopyInv, Unread
<1>8. CASE EndOfInput
  BY <1>2, <1>8 DEF EndOfInput
<1>9. CASE Engine \/ Interrupt \/ UNCHANGED <<vars, terminal>> \/ (Main /\ ~Opens)
  BY <1>2, <1>9 DEF Engine, Interrupt, Main, Dials, Subscribes, TakesFrame, TakesInterrupt,
     TakesEnd, FinishTaken, FinishAnswered, Closes, Detaches, ClosesRegistry, Returns, terminal,
     readerVars
<1> QED
  BY <1>3, <1>4, <1>5, <1>6, <1>7, <1>8, <1>9 DEF TerminalNext, Reader

\* The reader's copy is what the run will run under: between commands it is the
\* controls the run accepted last, so a later line builds on no change that was
\* refused and undoes none that was taken. Only shutdown can part them.
THEOREM CopyIsTheRuns == TerminalSpec => []DesiredIsAccepted
<1>1. TerminalInit => CopyInv
  BY DEF TerminalInit, Init, CopyInv, Unread
<1>2. CopyInv /\ [TerminalNext]_<<vars, terminal>> => CopyInv'
  BY CopyStep
<1>3. CopyInv => DesiredIsAccepted
  BY DEF CopyInv, DesiredIsAccepted
<1> QED
  BY <1>1, <1>2, <1>3, PTL DEF TerminalSpec

=============================================================================
