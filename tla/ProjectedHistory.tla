-------------------------- MODULE ProjectedHistory --------------------------
(***************************************************************************)
(* What a run promises, with no process, disk, snapshot or restart in      *)
(* sight: a history that only ever grows, and a garden that moves through  *)
(* it forwards, taking in the effect of each event once.  This is the      *)
(* README's "the garden is a fold over history" and "a run interrupted ... *)
(* reaches the garden a run that never stopped would have reached".        *)
(***************************************************************************)
EXTENDS Integers, Sequences

VARIABLES
    history,    \* the records
    folded,     \* how many of them the garden has taken in
    garden      \* how often the garden carries each event's effect

\* The organism events among records from + 1 .. to of h.
EventsIn(h, from, to) ==
    {h[i].seq : i \in {j \in from + 1 .. to : h[j].kind = "organism"}}

Init == history = <<>> /\ folded = 0 /\ garden = [e \in {} |-> 1]

\* The garden once it carries the given events as well, each once.
With(events) ==
    [e \in DOMAIN garden \cup events |-> IF e \in DOMAIN garden THEN garden[e] ELSE 1]

\* The history grows by any number of records, and the garden takes in any
\* number of the ones it has not yet: a redelivery of an event it has changes
\* nothing.
Proceed ==
    /\ Len(history) <= Len(history')
    /\ \A i \in 1 .. Len(history) : history'[i] = history[i]
    /\ folded' \in folded .. Len(history')
    /\ garden' = With(EventsIn(history', folded, folded'))

Spec == Init /\ [][Proceed]_<<history, folded, garden>>
=============================================================================
