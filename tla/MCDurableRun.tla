---------------------------- MODULE MCDurableRun ----------------------------
(***************************************************************************)
(* Instances of DurableRun for TLC: sets of control profiles.              *)
(***************************************************************************)
EXTENDS DurableRun

Profile(events, capacity, failEvery) ==
    [events |-> events, capacity |-> capacity, failEvery |-> failEvery]

\* The default: a tick folds all it produced.
Drains == {Profile(2, 0, 0)}

\* As Drains, with updates that change the rate and inject save failures.
DrainsAndInjects == {Profile(2, 0, 0), Profile(1, 0, 2)}

\* A tick folds one record fewer than it produces.
FallsBehind == {Profile(2, 1, 0)}

\* A backlog that a control update lets the run catch up on, and an injected save
\* failure with the update.
BehindThenInjects == {Profile(2, 1, 0), Profile(1, 0, 2)}
=============================================================================
