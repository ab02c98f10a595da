--------------------------- MODULE MCLiveAndBatch ---------------------------
(***************************************************************************)
(* Instances of LiveAndBatch for TLC: three control mixes, fixed draws.    *)
(***************************************************************************)
EXTENDS LiveAndBatch

Mix(events, rain, growth, pest, workers, batch) ==
    [events |-> events, rain |-> rain, growth |-> growth, pest |-> pest,
     workers |-> workers, batch |-> batch]

\* Two mixes that drain, and one that folds two records a tick.
DrainsOrLags == {Mix(3, 1, 1, 1, 0, 0), Mix(1, 2, 0, 1, 0, 1), Mix(2, 0, 2, 1, 2, 1)}

\* A generator's output: nine draws a tick, spread over types and organisms.
Spread == [t \in 0 .. TickBound - 1 |-> [k \in 1 .. 9 |-> (5 * t * t + 3 * t + 7 * k + k * k) % 11]]
=============================================================================
