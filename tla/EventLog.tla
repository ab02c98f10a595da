------------------------------ MODULE EventLog ------------------------------
(***************************************************************************)
(* A run's durable event history: internal/eventlog over the event-spine   *)
(* log.  The spine (its segment files, group file and snapshot files) is   *)
(* an external library; it appears here as the three durable variables     *)
(* and is modelled from how internal/eventlog uses it.                     *)
(*                                                                         *)
(* Offsets count from 0 as in the source: the record at offset o is        *)
(* log[o + 1], so Len(log) is Next(), the offset the next record will be   *)
(* given, and an offset also counts the records below it.  Nothing in the  *)
(* repository compacts a log, so First() is always 0.                      *)
(***************************************************************************)
EXTENDS Integers, Sequences

VARIABLES
    log,        \* durable: the records, in append order
    committed,  \* durable: the offset the projections group last committed
    snaps,      \* durable: offset -> the state saved there
    cursor      \* volatile: the group reader's offset; records below it were delivered

logVars == <<log, committed, snaps, cursor>>

-----------------------------------------------------------------------------
(* Reading.                                                                *)

NextOffset == Len(log)

\* UnprocessedUpTo(n): the offset the reader stops at; n = 0 is unbounded.
UnprocessedUpTo(lg, n) ==
    IF n = 0 \/ cursor + n >= Len(lg) THEN Len(lg) ELSE cursor + n

\* LatestSnapshot: the newest snapshot is the one at the highest offset.
Latest == CHOOSE o \in DOMAIN snaps : \A p \in DOMAIN snaps : p <= o

HasSnapshot == DOMAIN snaps # {}

-----------------------------------------------------------------------------
(* Writing.  Each operator gives the next value of the variables it names. *)

\* Append: one call, one durability decision.
AppendAll(batch) == log' = log \o batch

\* A call that fails, or a crash inside it, leaves a prefix of the batch: "an
\* error does not mean nothing was written".
AppendPrefix(batch, k) == log' = log \o SubSeq(batch, 1, k)

\* Mutant: the snapshot is filed under the tail.
WriteSnapshotAtTail(state) ==
    snaps' = [o \in DOMAIN snaps \cup {NextOffset} |->
                IF o = NextOffset THEN state ELSE snaps[o]]

\* Save, first half: the state goes under the cursor, replacing what was
\* saved at that offset before.
WriteSnapshot(state) ==
    snaps' = [o \in DOMAIN snaps \cup {cursor} |->
                IF o = cursor THEN state ELSE snaps[o]]

\* Save, second half, only after the snapshot is on disk.
Commit == committed' = cursor

\* Mutant: the reader is left where opening the log put it.
MarkFoldedNot == cursor' = committed

\* MarkFolded: the cursor moves to the tail; nothing is committed.
MarkFolded == cursor' = NextOffset

=============================================================================
