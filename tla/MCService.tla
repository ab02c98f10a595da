----------------------------- MODULE MCService -----------------------------
(***************************************************************************)
(* Instances of Service for TLC: what clients ask, and two control mixes.  *)
(***************************************************************************)
EXTENDS Service, TLC

CallSymmetry == Permutations(Calls)

Ask(op, id, controls, paused) == [op |-> op, id |-> id, controls |-> controls, paused |-> paused]

\* Every operation, with the mistakes a caller can make.
MixedRequests ==
    {Ask("StartRun", "r2", "light", FALSE), Ask("StartRun", "r2", Nil, FALSE),
     Ask("Query", "r1", Nil, FALSE), Ask("ListRuns", NoID, Nil, FALSE),
     Ask("UpdateControls", "r1", "heavy", FALSE), Ask("UpdateControls", "r1", "bad", FALSE),
     Ask("UpdateControls", "r1", Nil, FALSE),
     Ask("PauseRun", "r1", Nil, TRUE), Ask("PauseRun", "r1", Nil, FALSE),
     Ask("FinishRun", "r1", Nil, FALSE)}

LightAndHeavy == [m \in {"light", "heavy"} |-> IF m = "light" THEN 1 ELSE 2]
OnlyHeavyLags == [m \in {"light", "heavy"} |-> IF m = "light" THEN 0 ELSE 1]
=============================================================================
