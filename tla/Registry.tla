------------------------------ MODULE Registry ------------------------------
(***************************************************************************)
(* The registry of runs and the data directory under it, across the lives  *)
(* of the daemon: StartRun with named and generated IDs, Recover over every *)
(* directory, Close, and what opening a log whose bytes are wrong does      *)
(* (openHistory, Rewind, reposition).                                      *)
(*                                                                         *)
(* Module DurableRun takes one run apart step by step; here a run is       *)
(* coarse.  A tick appends one record and folds it, and a save is one step  *)
(* (a run that keeps up; its crashes inside a save are DurableRun's).       *)
(* What is told apart is whose records a log holds: a record is the start   *)
(* it belongs to (birth) and the life of the daemon that wrote it, so a     *)
(* record that reuses a truncated one's offset differs from it.             *)
(***************************************************************************)
EXTENDS Integers, Sequences, FiniteSets, FiniteSetsExt

CONSTANTS
    MaxIds,         \* bound: run IDs are run-0001 up to this one
    maxIDAttempts,  \* generated IDs tried by one start
    Policies,       \* corrupt policies: a subset of {"refuse", "continue"}
    MaxRecords,     \* bound: records of one log
    MaxBirths,      \* bound: runs started
    MaxLives,       \* bound: lives of the daemon
    MaxDamages,     \* bound: times the disk returns wrong bytes
    MinIntact,      \* the fewest leading records damage leaves readable
    MaxFaults       \* bound: first saves that fail

ASSUME RegistryAssumption ==
    /\ MaxIds \in Nat /\ maxIDAttempts \in Nat \ {0}
    /\ Policies \subseteq {"refuse", "continue"} /\ Policies # {}
    /\ MaxRecords \in Nat /\ MaxBirths \in Nat /\ MaxLives \in Nat
    /\ MaxDamages \in Nat /\ MinIntact \in Nat /\ MaxFaults \in Nat

VARIABLES
    policy,     \* SIGNAL_GARDEN_ON_CORRUPT
    disk,       \* durable: ID -> the run's directory
    phase,      \* the daemon: "down", "recovering", "serving" or "closed"
    queue,      \* directories that Recover has not come to yet
    live,       \* ID -> the run's goroutine, NoRun where there is none
    runs,       \* the registry's map: IDs that lookup finds
    order,      \* the order ListRuns answers in
    nextID,     \* the counter behind generated IDs
    refused,    \* IDs whose recovery failed in this life
    births, lives, damages, faults,  \* how much of each bound was spent
    started,    \* births that were registered
    ended,      \* births that finished
    hurt        \* births that lost records to the disk

daemonVars == <<phase, queue, live, runs, order, nextID, refused>>
spentVars  == <<births, lives, damages, faults>>
ghostVars  == <<started, ended, hurt>>
vars       == <<policy, disk, daemonVars, spentVars, ghostVars>>

Ids == 1 .. MaxIds

NoDirectory == [made |-> FALSE, recs |-> <<>>, good |-> 0, snaps |-> <<>>, commit |-> 0]

NoRun == [birth |-> 0, state |-> "none", fold |-> <<>>, cursor |-> 0, damaged |-> FALSE]

-----------------------------------------------------------------------------
(* A directory: its records, of which the first `good' read back right, its *)
(* snapshots by offset and the group's commit.                              *)

NextOffset(d) == Len(d.recs)

Corrupt(d) == d.good < Len(d.recs)

\* Opening creates the directory and truncates what does not read back.
Opened(d) == [d EXCEPT !.made = TRUE, !.recs = SubSeq(@, 1, d.good)]

Latest(d) == Max(DOMAIN d.snaps)

HasSnapshot(d) == DOMAIN d.snaps # {}

\* ErrStrandedSnapshot: the newest snapshot folded records that are gone.
Stranded(d) == HasSnapshot(d) /\ Latest(d) > NextOffset(d)

\* Rewind, when no snapshot is stranded: the commit follows the tail.
Rewind(d) == [d EXCEPT !.commit = IF @ > NextOffset(d) THEN NextOffset(d) ELSE @]

\* reposition: where the reader starts.  A commit past the tail is no place.
reposition(d) == IF d.commit > NextOffset(d) THEN 0 ELSE d.commit

\* Save: the snapshot goes under the cursor, and the commit follows it.
WithSnapshot(d, at, snapshot) ==
    [d EXCEPT !.snaps = [o \in DOMAIN d.snaps \cup {at} |->
                            IF o = at THEN snapshot ELSE d.snaps[o]]]

Saved(d, run) ==
    [WithSnapshot(d, run.cursor, [birth |-> run.birth, state |-> run.state, fold |-> run.fold])
        EXCEPT !.commit = run.cursor]

\* openHistory: the directory afterwards and whether it may be used.
openHistory(d) ==
    LET o == Opened(d)
    IN  CASE ~Corrupt(d) -> [dir |-> o, ok |-> TRUE]
          [] Corrupt(d) /\ (policy = "refuse" \/ Stranded(o)) -> [dir |-> o, ok |-> FALSE]
          [] OTHER -> [dir |-> Rewind(o), ok |-> TRUE]

\* Mutant: any log that opens will do.
openRunLogAny(d) == IF openHistory(d).ok THEN "claimed" ELSE "failed"

\* openRunLog: a fresh run takes an empty log only.
openRunLog(d) ==
    CASE ~openHistory(d).ok -> "failed"
      [] openHistory(d).ok /\ NextOffset(openHistory(d).dir) > 0 -> "history"
      [] OTHER -> "claimed"

-----------------------------------------------------------------------------
(* Starting a run.                                                         *)

\* Mutant: generated IDs do not skip the IDs in use.
FreeIDsAll == {i \in Ids : i > nextID}

\* generateIDLocked proposes these, lowest first.
FreeIDs == {i \in Ids : i > nextID /\ i \notin runs}

\* claimLogLocked's loop reaches id: every ID before it held history.
Tried(id) == {i \in FreeIDs : i <= id}

Reaches(id) ==
    /\ id \in FreeIDs
    /\ Cardinality(Tried(id)) <= maxIDAttempts
    /\ \A i \in Tried(id) \ {id} : openRunLog(disk[i]) = "history"

\* A log that was tried was opened, whatever came of it.
OpenedBy(ids) == [i \in Ids |-> IF i \in ids THEN openHistory(disk[i]).dir ELSE disk[i]]

FreshRun(id) ==
    [birth |-> births + 1, state |-> "running", fold |-> <<>>,
     cursor |-> reposition(openHistory(disk[id]).dir), damaged |-> Corrupt(disk[id])]

\* The rest of StartRun once a log is claimed: the first save, then the maps.
Begin(id, opened) ==
    /\ openRunLog(disk[id]) = "claimed"
    /\ births < MaxBirths
    /\ disk' = [opened EXCEPT ![id] = Saved(@, FreshRun(id))]
    /\ live' = [live EXCEPT ![id] = FreshRun(id)]
    /\ runs' = runs \cup {id}
    /\ order' = Append(order, id)
    /\ started' = started \cup {births + 1}
    /\ births' = births + 1
    /\ UNCHANGED <<policy, phase, queue, refused, lives, damages, faults, ended, hurt>>

\* The first save fails: nothing was written, or the snapshot was and the
\* commit was not.  The caller gets an error and the run is not registered.
BeginFails(id, opened) ==
    /\ openRunLog(disk[id]) = "claimed"
    /\ births < MaxBirths
    /\ faults < MaxFaults
    /\ \E d \in {opened[id],
                 WithSnapshot(opened[id], FreshRun(id).cursor,
                              [birth |-> births + 1, state |-> "running", fold |-> <<>>])} :
         disk' = [opened EXCEPT ![id] = d]
    /\ births' = births + 1
    /\ faults' = faults + 1
    /\ UNCHANGED <<policy, phase, queue, live, runs, order, refused, lives, damages,
                   ghostVars>>

\* A log that cannot be claimed; opening it may still have truncated it.
Refuse(opened) ==
    /\ disk' = opened
    /\ UNCHANGED <<policy, phase, queue, live, runs, order, refused, spentVars, ghostVars>>

\* StartRun with an ID of the caller's.  (ErrRunExists and ErrRegistryDown
\* change nothing.)
StartRun(id) ==
    /\ phase = "serving"
    /\ id \notin runs
    /\ \/ Begin(id, OpenedBy({id}))
       \/ BeginFails(id, OpenedBy({id}))
       \/ openRunLog(disk[id]) # "claimed" /\ Refuse(OpenedBy({id}))
    /\ UNCHANGED nextID

\* StartRun without one: the search stops at an ID whose log does not hold
\* history, for better or worse, or runs out of attempts.
StartGenerated(id) ==
    /\ phase = "serving"
    /\ Reaches(id)
    /\ nextID' = id
    /\ \/ Begin(id, OpenedBy(Tried(id)))
       \/ BeginFails(id, OpenedBy(Tried(id)))
       \/ openRunLog(disk[id]) = "failed" /\ Refuse(OpenedBy(Tried(id)))
       \/ /\ openRunLog(disk[id]) = "history"
          /\ Cardinality(Tried(id)) = maxIDAttempts
          /\ Refuse(OpenedBy(Tried(id)))

-----------------------------------------------------------------------------
(* A run.                                                                  *)

\* advance: append, read from the cursor, fold; the cadence may ask for a save.
Tick(id) ==
    /\ live[id].state = "running"
    /\ NextOffset(disk[id]) < MaxRecords
    /\ LET run  == live[id]
           recs == Append(disk[id].recs, [birth |-> run.birth, life |-> lives])
           dir  == [disk[id] EXCEPT !.recs = recs, !.good = Len(recs)]
           next == [run EXCEPT !.fold = @ \o SubSeq(recs, run.cursor + 1, Len(recs)),
                               !.cursor = Len(recs)]
       IN  /\ live' = [live EXCEPT ![id] = next]
           /\ \E d \in {dir, Saved(dir, next)} : disk' = [disk EXCEPT ![id] = d]
    /\ UNCHANGED <<policy, phase, queue, runs, order, nextID, refused, spentVars, ghostVars>>

\* finish, by command or at the limit: the final snapshot says "finished".
Finish(id) ==
    /\ live[id].state = "running"
    /\ LET run == [live[id] EXCEPT !.state = "finished"]
       IN  /\ live' = [live EXCEPT ![id] = run]
           /\ disk' = [disk EXCEPT ![id] = Saved(@, run)]
    /\ ended' = ended \cup {live[id].birth}
    /\ UNCHANGED <<policy, phase, queue, runs, order, nextID, refused, spentVars,
                   started, hurt>>

-----------------------------------------------------------------------------
(* The daemon's lives.                                                     *)

\* main: list the directories, then recover, then serve.
Boot ==
    /\ phase = "down"
    /\ lives < MaxLives
    /\ phase' = "recovering"
    /\ queue' = {i \in Ids : disk[i].made}
    /\ lives' = lives + 1
    /\ UNCHANGED <<policy, disk, live, runs, order, nextID, refused, births, damages,
                   faults, ghostVars>>

\* Resume succeeds: there is a snapshot and the log reaches it.
Resumable(d) == HasSnapshot(d) /\ ~Stranded(d)

\* Resume: the newest snapshot and every record after it; the cursor is then
\* marked at the tail.
Resumed(d, damaged) ==
    LET at == Latest(d)
    IN  [birth |-> d.snaps[at].birth, state |-> "running",
         fold |-> d.snaps[at].fold \o SubSeq(d.recs, at + 1, Len(d.recs)),
         cursor |-> NextOffset(d), damaged |-> damaged]

\* recoverOne's registration of a resumed run.
Revive(id, run) ==
    /\ live' = [live EXCEPT ![id] = run]
    /\ runs' = runs \cup {id}
    /\ order' = Append(order, id)
    /\ UNCHANGED refused

\* Mutant: finished runs are recovered too.
RecoverFinished(id) ==
    LET opened == openHistory(disk[id])
    IN  \/ /\ opened.ok /\ Resumable(opened.dir)
           /\ Revive(id, Resumed(opened.dir, Corrupt(disk[id])))
        \/ /\ ~opened.ok \/ ~Resumable(opened.dir)
           /\ refused' = refused \cup {id}
           /\ UNCHANGED <<live, runs, order>>

\* recoverOne: revived, skipped as finished, or failed.
recoverOne(id) ==
    LET opened == openHistory(disk[id])
        state  == opened.dir.snaps[Latest(opened.dir)].state
    IN  \/ /\ opened.ok /\ Resumable(opened.dir) /\ state # "finished"
           /\ Revive(id, Resumed(opened.dir, Corrupt(disk[id])))
        \/ /\ opened.ok /\ Resumable(opened.dir) /\ state = "finished"
           /\ UNCHANGED <<live, runs, order, refused>>
        \/ /\ ~opened.ok \/ ~Resumable(opened.dir)
           /\ refused' = refused \cup {id}
           /\ UNCHANGED <<live, runs, order>>

\* Mutant: the first failure ends the recovery.
LeftAfterFirstError(id) == IF refused' # {} THEN {} ELSE queue \ {id}

\* A failure is collected and the loop goes on.
LeftAfter(id) == queue \ {id}

\* Recover, one directory of its loop, in name order.
Recover ==
    /\ phase = "recovering"
    /\ queue # {}
    /\ LET id == Min(queue)
       IN  /\ recoverOne(id)
           /\ disk' = OpenedBy({id})
           /\ queue' = LeftAfter(id)
    /\ UNCHANGED <<policy, phase, nextID, spentVars, ghostVars>>

Serve ==
    /\ phase = "recovering"
    /\ queue = {}
    /\ phase' = "serving"
    /\ UNCHANGED <<policy, disk, queue, live, runs, order, nextID, refused, spentVars,
                   ghostVars>>

\* Close, under the lock: the maps are emptied and no call is let in.
Close ==
    /\ phase = "serving"
    /\ phase' = "closed"
    /\ runs' = {}
    /\ order' = <<>>
    /\ UNCHANGED <<policy, disk, queue, live, nextID, refused, spentVars, ghostVars>>

\* Close, outside it: the runs' goroutines go one by one, ticking until then.
Quit(id) ==
    /\ phase = "closed"
    /\ live[id] # NoRun
    /\ live' = [live EXCEPT ![id] = NoRun]
    /\ UNCHANGED <<policy, disk, phase, queue, runs, order, nextID, refused, spentVars,
                   ghostVars>>

\* The process exits or dies.
Crash ==
    /\ phase # "down"
    /\ phase' = "down"
    /\ queue' = {}
    /\ live' = [i \in Ids |-> NoRun]
    /\ runs' = {}
    /\ order' = <<>>
    /\ nextID' = 0
    /\ refused' = {}
    /\ UNCHANGED <<policy, disk, spentVars, ghostVars>>

-----------------------------------------------------------------------------
(* The disk and its operator, on a log that nobody has open.               *)

\* Bytes of a log read back wrong from some record on.
Damage(id) ==
    /\ live[id] = NoRun
    /\ damages < MaxDamages
    /\ \E k \in MinIntact .. disk[id].good - 1 : disk' = [disk EXCEPT ![id].good = k]
    /\ damages' = damages + 1
    /\ hurt' = hurt \cup {disk[id].recs[k].birth : k \in 1 .. NextOffset(disk[id])}
    /\ UNCHANGED <<policy, daemonVars, births, lives, faults, started, ended>>

\* The replay command opens a log to read it, and so truncates it.
Replay(id) ==
    /\ live[id] = NoRun
    /\ Corrupt(disk[id])
    /\ disk' = [disk EXCEPT ![id] = Opened(@)]
    /\ UNCHANGED <<policy, daemonVars, spentVars, ghostVars>>

\* What a stranded snapshot leaves to do: delete it deliberately.
DeleteSnapshot(id) ==
    /\ live[id] = NoRun
    /\ Stranded(disk[id])
    /\ disk' = [disk EXCEPT ![id].snaps = [o \in DOMAIN @ \ {Latest(disk[id])} |-> @[o]]]
    /\ UNCHANGED <<policy, daemonVars, spentVars, ghostVars>>

-----------------------------------------------------------------------------
Init ==
    /\ policy \in Policies
    /\ disk = [i \in Ids |-> NoDirectory]
    /\ phase = "down" /\ queue = {}
    /\ live = [i \in Ids |-> NoRun]
    /\ runs = {} /\ order = <<>> /\ nextID = 0 /\ refused = {}
    /\ births = 0 /\ lives = 0 /\ damages = 0 /\ faults = 0
    /\ started = {} /\ ended = {} /\ hurt = {}

Next ==
    \/ Boot \/ Recover \/ Serve \/ Close \/ Crash
    \/ \E id \in Ids :
         \/ StartRun(id) \/ StartGenerated(id)
         \/ Tick(id) \/ Finish(id) \/ Quit(id)
         \/ Damage(id) \/ Replay(id) \/ DeleteSnapshot(id)

Spec == Init /\ [][Next]_vars

-----------------------------------------------------------------------------
(* Properties.                                                             *)

Record == [birth : 1 .. MaxBirths, life : 1 .. MaxLives]

\* Every directory, goroutine and table of the registry has its shape.  The
\* map never holds an ID without a goroutine behind it, and ListRuns' order
\* names the IDs of the map and no others.
TypeOK ==
    /\ policy \in Policies
    /\ phase \in {"down", "recovering", "serving", "closed"}
    /\ queue \subseteq Ids /\ refused \subseteq Ids
    /\ runs \subseteq {i \in Ids : live[i] # NoRun}
    /\ \A i \in Ids :
         /\ DOMAIN disk[i] = DOMAIN NoDirectory
         /\ \A k \in 1 .. NextOffset(disk[i]) : disk[i].recs[k] \in Record
         /\ disk[i].good \in 0 .. NextOffset(disk[i])
         /\ disk[i].commit \in 0 .. MaxRecords
         /\ DOMAIN disk[i].snaps \subseteq 0 .. MaxRecords
         /\ live[i].state \in {"none", "running", "finished"}
    /\ {order[k] : k \in 1 .. Len(order)} = runs
    /\ nextID \in 0 .. MaxIds
    /\ births \in 0 .. MaxBirths /\ lives \in 0 .. MaxLives
    /\ damages \in 0 .. MaxDamages /\ faults \in 0 .. MaxFaults
    /\ started \cup ended \cup hurt \subseteq 1 .. MaxBirths

\* A served garden is the fold of exactly the records its log holds, in a log
\* that holds no other run's: StartRun must not join an existing history
\* (openRunLog), and Recover must not fold a snapshot of records that are gone
\* (Rewind, Restore), through damage, refusals, replays and deleted snapshots.
ServesItsLog ==
    \A i \in Ids :
        live[i] # NoRun =>
            /\ live[i].fold = disk[i].recs
            /\ \A k \in 1 .. NextOffset(disk[i]) : disk[i].recs[k].birth = live[i].birth

\* "A run that cannot be recovered does not stop the ones that can": once the
\* daemon serves, a directory whose newest snapshot is of an unfinished run has
\* that run live, unless its own recovery failed.  A start that failed in this
\* life, after its snapshot was written, waits for the next one.
RecoverableRunsReturn ==
    phase = "serving" =>
        \A i \in Ids :
            LET d == disk[i]
            IN  /\ Resumable(d)
                /\ d.snaps[Latest(d)].state = "running"
                /\ d.snaps[Latest(d)].birth \in started \ ended
                => i \in runs \cup refused

\* A finished run "ended on purpose": no later life of the daemon runs it
\* again (recoverOne's skip), unless its disk lost what said so.
FinishedStayFinished ==
    \A i \in Ids : live[i].state = "running" => live[i].birth \notin ended \ hurt

\* A run that was registered is still on disk under its identity until it ends:
\* no start of another run, under any ID, takes its directory from it.
StartedRunsSurvive ==
    \A b \in started \ ended :
        \E i \in Ids : HasSnapshot(disk[i]) /\ disk[i].snaps[Latest(disk[i])].birth = b

=============================================================================
