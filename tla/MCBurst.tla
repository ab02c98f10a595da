------------------------------ MODULE MCBurst ------------------------------
(***************************************************************************)
(* Instances of Burst for TLC: the burst and one other client on one run.  *)
(***************************************************************************)
EXTENDS Burst

\* What the other client may do to the burst's run.
Disturbances ==
    {[NoRequest EXCEPT !.op = "StartRun", !.id = "r1", !.controls = "heavy"],
     [NoRequest EXCEPT !.op = "FinishRun", !.id = "r1"]}

OneHeavy == [m \in {"heavy"} |-> 2]
OneLags == [m \in {"heavy"} |-> 1]
=============================================================================
