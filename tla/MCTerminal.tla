----------------------------- MODULE MCTerminal -----------------------------
(***************************************************************************)
(* Instances of Terminal for TLC.                                          *)
(***************************************************************************)
EXTENDS Terminal

\* Two weights, so that a second line may leave none at all.
RainAndGrowth == [f \in Fields |-> IF f = "pest" THEN 0 ELSE 1]
=============================================================================
