--------------------------- MODULE RegistryProofs ---------------------------
(***************************************************************************)
(* The registry, for any number of IDs, records, lives, damaged logs and   *)
(* failed saves, and for both corrupt policies: what a live run serves is  *)
(* its log, no directory changes hands, finished runs stay finished and    *)
(* the others return.  All of it as long as damage leaves the first record *)
(* of a log readable (MinIntact > 0): a log truncated to nothing looks     *)
(* empty to openRunLog, and the next start takes it.                       *)
(***************************************************************************)
EXTENDS Registry, WellFoundedInduction, SequenceTheorems, TLAPS

-----------------------------------------------------------------------------
(* The newest and the lowest.                                              *)

\* Max of a bounded set of numbers is its greatest element.
LEMMA MaxIsGreatest ==
    ASSUME NEW N \in Nat, NEW S \in SUBSET (0 .. N), S # {}
    PROVE  Max(S) \in S /\ \A y \in S : y <= Max(S)
<1> DEFINE T == {N - x : x \in S}
<1>1. T \subseteq Nat /\ T # {}
  <2>1. \A x \in S : x \in Nat /\ N - x \in Nat
    OBVIOUS
  <2>2. \A t \in T : t \in Nat
    BY <2>1
  <2>3. \E t : t \in T
    OBVIOUS
  <2> QED
    BY <2>2, <2>3
<1>2. PICK m \in T : \A y \in T : ~(<<y, m>> \in OpToRel(<, Nat))
  BY <1>1, NatLessThanWellFounded, WFMin
<1>3. PICK x \in S : m = N - x
  BY <1>2
<1>4. \A y \in S : x >= y
  <2> SUFFICES ASSUME NEW y \in S, ~(x >= y) PROVE FALSE
    OBVIOUS
  <2>1. N - y \in T /\ N - y < m
    BY <1>3
  <2> QED
    BY <2>1, <1>1, <1>2 DEF OpToRel
<1>5. Max(S) \in S /\ \A y \in S : Max(S) >= y
  BY <1>4 DEF Max
<1> QED
  BY <1>5

\* Min of a set of numbers is one of them.
LEMMA MinIsMember ==
    ASSUME NEW S \in SUBSET Nat, S # {}
    PROVE  Min(S) \in S
<1>1. PICK x \in S : \A y \in S : ~(<<y, x>> \in OpToRel(<, Nat))
  BY NatLessThanWellFounded, WFMin
<1>2. \A y \in S : x =< y
  <2> SUFFICES ASSUME NEW y \in S, ~(x =< y) PROVE FALSE
    OBVIOUS
  <2>1. x \in Nat /\ y \in Nat /\ y < x
    OBVIOUS
  <2> QED
    BY <2>1, <1>1 DEF OpToRel
<1> QED
  BY <1>2 DEF Min

-----------------------------------------------------------------------------
(* The inductive invariant.                                                *)

\* A record, a snapshot, a directory and a run, without the bounds of a small
\* instance.
Rec  == [birth : Nat, life : Nat]
Snap == [birth : Nat, state : {"running", "finished"}, fold : Seq(Rec)]

IsSnaps(s) ==
    /\ s = [o \in DOMAIN s |-> s[o]] /\ DOMAIN s \subseteq 0 .. MaxRecords
    /\ \A o \in DOMAIN s : s[o] \in Snap

IsDir(d) ==
    /\ d = [made |-> d.made, recs |-> d.recs, good |-> d.good, snaps |-> d.snaps,
            commit |-> d.commit]
    /\ d.made \in BOOLEAN /\ d.recs \in Seq(Rec) /\ d.good \in Nat /\ d.commit \in Nat
    /\ IsSnaps(d.snaps)

IsLive(run) ==
    /\ run = [birth |-> run.birth, state |-> run.state, fold |-> run.fold,
              cursor |-> run.cursor, damaged |-> run.damaged]
    /\ run.birth \in Nat /\ run.state \in {"running", "finished"}
    /\ run.fold \in Seq(Rec) /\ run.cursor \in Nat

\* The fold is of exactly the first n records.
Shows(fold, recs, n) == Len(fold) = n /\ \A k \in 1 .. n : fold[k] = recs[k]

\* A directory belongs to the run whose first save made its oldest snapshot.
Owned(d) == 0 \in DOMAIN d.snaps

Owner(d) == d.snaps[0].birth

\* Everything in it is its owner's, and every snapshot that the log reaches is
\* of the records in the log.  Damage leaves a first record, so an empty log
\* never had one.
Sound(d) ==
    /\ d.good <= Len(d.recs) /\ Len(d.recs) <= MaxRecords
    /\ Len(d.recs) > 0 => d.good > 0
    /\ Len(d.recs) > 0 \/ DOMAIN d.snaps # {} => Owned(d) /\ d.made
    /\ \A o \in DOMAIN d.snaps : d.snaps[o].birth = Owner(d)
    /\ \A k \in 1 .. Len(d.recs) : d.recs[k].birth = Owner(d)
    /\ \A o \in DOMAIN d.snaps : o <= Len(d.recs) => Shows(d.snaps[o].fold, d.recs, o)
    /\ Len(d.recs) = 0 => \A o \in DOMAIN d.snaps : o = 0

\* A live run has folded its log to the end, and no snapshot is ahead of it.
Serves(run, d) ==
    run # NoRun =>
        /\ IsLive(run) /\ Owned(d) /\ run.birth = Owner(d)
        /\ d.good = Len(d.recs) /\ \A o \in DOMAIN d.snaps : o <= Len(d.recs)
        /\ run.cursor = Len(d.recs) /\ Shows(run.fold, d.recs, Len(d.recs))

DirOK(i) == IsDir(disk[i]) /\ Sound(disk[i]) /\ Serves(live[i], disk[i])

\* The newest snapshot of a directory.
IsLatest(d, o) == o \in DOMAIN d.snaps /\ \A p \in DOMAIN d.snaps : p <= o

SaysFinished(d) ==
    \E o \in DOMAIN d.snaps :
        IsLatest(d, o) /\ o <= Len(d.recs) /\ d.snaps[o].state = "finished"

\* A snapshot that says finished is of a run that finished; and a run that
\* finished says so in its newest snapshot, as long as the disk keeps it.
EndOK(i) ==
    /\ \A o \in DOMAIN disk[i].snaps :
          disk[i].snaps[o].state = "finished" => Owner(disk[i]) \in ended
    /\ Owned(disk[i]) /\ Owner(disk[i]) \in ended \ hurt =>
          /\ disk[i].good = Len(disk[i].recs)
          /\ SaysFinished(disk[i])
          /\ live[i] # NoRun => live[i].state = "finished"

\* A run that was registered and has not ended is in the map once Recover has
\* come to it, or was refused; and then there are records to show for it.
WaitOK(i) ==
    phase \in {"recovering", "serving"} /\ i \notin queue /\ i \notin runs =>
        (Owned(disk[i]) /\ Owner(disk[i]) \in started \ ended =>
            i \in refused /\ Len(disk[i].recs) > 0)

\* The tables: a run is live only while a process holds it, and is in the map
\* unless Recover has not come to it or Close has been called.
TableInv ==
    /\ disk = [i \in Ids |-> disk[i]] /\ live = [i \in Ids |-> live[i]]
    /\ phase \in {"down", "recovering", "serving", "closed"}
    /\ queue \subseteq Ids /\ runs \subseteq Ids
    /\ lives \in Nat
    /\ phase # "recovering" => queue = {}
    /\ \A i \in Ids : live[i] # NoRun => phase # "down" /\ i \notin queue
    /\ phase \in {"recovering", "serving"} => \A i \in Ids : live[i] # NoRun => i \in runs

\* Births are given out once: to one directory, and no second time; and a run
\* that was registered and has not ended has its directory.
BirthInv ==
    /\ births \in Nat /\ started \subseteq 1 .. births /\ ended \subseteq 1 .. births
    /\ \A i \in Ids : Owned(disk[i]) => Owner(disk[i]) \in 1 .. births
    /\ \A i, j \in Ids :
          Owned(disk[i]) /\ Owned(disk[j]) /\ Owner(disk[i]) = Owner(disk[j]) => i = j
    /\ \A b \in started \ ended : \E i \in Ids : Owned(disk[i]) /\ Owner(disk[i]) = b

RegistryInv ==
    TableInv /\ BirthInv /\ \A i \in Ids : DirOK(i) /\ EndOK(i) /\ WaitOK(i)

-----------------------------------------------------------------------------
(* Directories.                                                            *)

\* The newest snapshot is the one Latest names.
LEMMA LatestIsNewest ==
    ASSUME NEW d, IsDir(d), HasSnapshot(d)
    PROVE  /\ IsLatest(d, Latest(d))
           /\ \A o : IsLatest(d, o) => o = Latest(d)
<1>1. DOMAIN d.snaps \in SUBSET (0 .. MaxRecords) /\ DOMAIN d.snaps # {}
  BY DEF IsDir, IsSnaps, HasSnapshot
<1>2. IsLatest(d, Latest(d))
  BY <1>1, MaxIsGreatest, RegistryAssumption DEF IsLatest, Latest
<1>3. ASSUME NEW o, IsLatest(d, o) PROVE o = Latest(d)
  <2>1. o \in DOMAIN d.snaps /\ Latest(d) \in DOMAIN d.snaps /\ o <= Latest(d) /\ Latest(d) <= o
    BY <1>2, <1>3 DEF IsLatest
  <2>2. o \in Int /\ Latest(d) \in Int
    BY <2>1, <1>1, RegistryAssumption
  <2> QED
    BY <2>1, <2>2
<1> QED
  BY <1>2, <1>3

\* What opening a log keeps: its snapshots, its readable records, its owner.
Opens(d, e) ==
    /\ IsDir(e) /\ Sound(e) /\ e.snaps = d.snaps /\ e.good = d.good
    /\ Len(d.recs) > 0 => Len(e.recs) > 0
    /\ d.good = Len(d.recs) => e.recs = d.recs

\* A log that was left alone.
LEMMA Alone ==
    ASSUME NEW d, IsDir(d), Sound(d)
    PROVE  Opens(d, d)
BY DEF Opens

\* Opened truncates to what reads back.
LEMMA OpenedOpens ==
    ASSUME NEW d, IsDir(d), Sound(d)
    PROVE  /\ Opens(d, Opened(d)) /\ Len(Opened(d).recs) = d.good /\ Opened(d).made = TRUE
           /\ Len(Opened(d).recs) > 0 => Len(d.recs) > 0
<1> DEFINE e == Opened(d)
<1>1. d.recs \in Seq(Rec) /\ d.good \in Nat /\ Len(d.recs) \in Nat /\ d.good <= Len(d.recs)
  BY DEF IsDir, Sound
<1>2. /\ e.made = TRUE /\ e.recs = SubSeq(d.recs, 1, d.good) /\ e.good = d.good
      /\ e.snaps = d.snaps /\ e.commit = d.commit
      /\ e = [made |-> e.made, recs |-> e.recs, good |-> e.good, snaps |-> e.snaps,
              commit |-> e.commit]
  <2>1. d = [made |-> d.made, recs |-> d.recs, good |-> d.good, snaps |-> d.snaps,
             commit |-> d.commit]
    BY DEF IsDir
  <2>2. PICK m, r, g, s, c : d = [made |-> m, recs |-> r, good |-> g, snaps |-> s, commit |-> c]
    BY <2>1
  <2>3. e = [made |-> TRUE, recs |-> SubSeq(r, 1, g), good |-> g, snaps |-> s, commit |-> c]
    <3>1. e = [d EXCEPT !.made = TRUE, !.recs = SubSeq(d.recs, 1, d.good)]
      BY DEF Opened
    <3>2. d.recs = r /\ d.good = g
      BY <2>2
    <3>3. e = [d EXCEPT !.made = TRUE, !.recs = SubSeq(r, 1, g)]
      BY <3>1, <3>2
    <3> HIDE DEF e
    <3> QED
      BY <2>2, <3>3
  <2> QED
    BY <2>2, <2>3
<1> HIDE DEF e
<1>3. e.recs \in Seq(Rec) /\ Len(e.recs) = d.good /\ \A k \in 1 .. d.good : e.recs[k] = d.recs[k]
  BY <1>1, <1>2, SubSeqProperties
<1>4. IsDir(e)
  BY <1>2, <1>3 DEF IsDir
<1>5. Sound(e)
  <2>1. \A o \in DOMAIN d.snaps : o \in Nat
    BY RegistryAssumption DEF IsDir, IsSnaps
  <2>2. \A o \in DOMAIN d.snaps : o <= Len(e.recs) => Shows(d.snaps[o].fold, e.recs, o)
    BY <1>1, <1>3, <2>1 DEF Sound, Shows
  <2>3. Len(e.recs) <= MaxRecords /\ (Len(e.recs) > 0 => Len(d.recs) > 0)
    BY <1>1, <1>3, RegistryAssumption DEF Sound
  <2>4. \A k \in 1 .. Len(e.recs) : e.recs[k].birth = Owner(d)
    BY <1>1, <1>3 DEF Sound
  <2>5. Len(e.recs) = 0 => Len(d.recs) = 0
    BY <1>1, <1>3 DEF Sound
  <2> QED
    BY <1>1, <1>2, <1>3, <2>2, <2>3, <2>4, <2>5 DEF Sound, Owned, Owner
<1>6. d.good = Len(d.recs) => e.recs = d.recs
  BY <1>1, <1>3, SeqEqual
<1>7. Len(d.recs) > 0 => Len(e.recs) > 0
  BY <1>1, <1>3 DEF Sound
<1> QED
  BY <1>1, <1>2, <1>3, <1>4, <1>5, <1>6, <1>7 DEF Opens, e

\* openHistory opens, and then at most moves the commit back.
LEMMA OpenHistoryOpens ==
    ASSUME NEW d, IsDir(d), Sound(d)
    PROVE  /\ Opens(d, openHistory(d).dir)
           /\ Len(openHistory(d).dir.recs) = d.good
           /\ openHistory(d).dir.made = TRUE
           /\ openHistory(d).ok = FALSE => Corrupt(d)
<1> DEFINE o == Opened(d)
<1>1. /\ Opens(d, o) /\ Len(o.recs) = d.good /\ o.made = TRUE
  BY OpenedOpens
<1>2. IsDir(o)
  BY <1>1 DEF Opens
<1>3. /\ openHistory(d).dir = o \/ openHistory(d).dir = Rewind(o)
      /\ openHistory(d).ok = FALSE => Corrupt(d)
  BY DEF openHistory
<1>4. CASE openHistory(d).dir = o
  BY <1>1, <1>3, <1>4
<1>5. CASE openHistory(d).dir = Rewind(o)
  <2> HIDE DEF o
  <2> DEFINE r == Rewind(o)
  <2>1. /\ r.made = o.made /\ r.recs = o.recs /\ r.good = o.good /\ r.snaps = o.snaps
        /\ r.commit \in {o.commit, Len(o.recs)}
        /\ r = [made |-> r.made, recs |-> r.recs, good |-> r.good, snaps |-> r.snaps,
                commit |-> r.commit]
    <3> HIDE DEF Rec, IsSnaps
    <3> QED
      BY <1>2 DEF IsDir, Rewind, NextOffset
  <2> HIDE DEF r
  <2>2. IsDir(r)
    <3>1. Len(o.recs) \in Nat
      BY <1>1, <1>2 DEF IsDir
    <3> QED
      BY <2>1, <3>1, <1>2 DEF IsDir
  <2>3. Sound(r)
    BY <1>1, <2>1 DEF Opens, Sound, Owned, Owner
  <2>4. Opens(d, r)
    BY <1>1, <2>1, <2>2, <2>3 DEF Opens
  <2> QED
    BY <1>1, <1>3, <1>5, <2>1, <2>4 DEF r
<1> QED
  BY <1>3, <1>4, <1>5

\* openRunLog lets a start have a log that is empty, and was before it was
\* opened: the cursor starts at the beginning, and the only snapshot can be the
\* first one.
LEMMA ClaimedIsEmpty ==
    ASSUME NEW d, IsDir(d), Sound(d), openRunLog(d) = "claimed"
    PROVE  /\ Len(d.recs) = 0 /\ d.good = 0
           /\ Len(openHistory(d).dir.recs) = 0
           /\ reposition(openHistory(d).dir) = 0
           /\ \A o \in DOMAIN d.snaps : o = 0
<1> DEFINE e == openHistory(d).dir
<1>1. Opens(d, e) /\ Len(e.recs) = d.good
  BY OpenHistoryOpens
<1>2. d.good \in Nat /\ Len(d.recs) \in Nat /\ e.commit \in Nat
  BY <1>1 DEF Opens, IsDir
<1>3. ~(Len(e.recs) > 0)
  BY DEF openRunLog, NextOffset
<1> HIDE DEF e
<1>4. Len(e.recs) = 0 /\ d.good = 0
  BY <1>1, <1>2, <1>3
<1>5. Len(d.recs) = 0
  BY <1>2, <1>4 DEF Sound
<1>6. \A o \in DOMAIN d.snaps : o = 0
  BY <1>5 DEF Sound
<1>7. reposition(e) = 0
  BY <1>2, <1>4 DEF reposition, NextOffset
<1> QED
  BY <1>4, <1>5, <1>6, <1>7 DEF e

\* What a snapshot written to a directory changes there.
LEMMA SnapshotWritten ==
    ASSUME NEW d, IsDir(d), NEW at \in 0 .. MaxRecords, NEW s \in Snap,
           NEW e, e = WithSnapshot(d, at, s)
    PROVE  /\ IsDir(e) /\ e.made = d.made /\ e.recs = d.recs /\ e.good = d.good
           /\ DOMAIN e.snaps = DOMAIN d.snaps \cup {at} /\ e.snaps[at] = s
           /\ \A o \in DOMAIN d.snaps : o # at => e.snaps[o] = d.snaps[o]
<1> DEFINE new == [o \in DOMAIN d.snaps \cup {at} |-> IF o = at THEN s ELSE d.snaps[o]]
<1>1. IsSnaps(new)
  BY DEF IsDir, IsSnaps
<1>2. e = [d EXCEPT !.snaps = new]
  BY DEF WithSnapshot
<1>3. /\ DOMAIN new = DOMAIN d.snaps \cup {at} /\ new[at] = s
      /\ \A o \in DOMAIN d.snaps : o # at => new[o] = d.snaps[o]
  OBVIOUS
<1> HIDE DEF new
<1>4. PICK m, r, g, p, c : d = [made |-> m, recs |-> r, good |-> g, snaps |-> p, commit |-> c]
  BY DEF IsDir
<1>5. e = [made |-> m, recs |-> r, good |-> g, snaps |-> new, commit |-> c]
  BY <1>2, <1>4
<1>6. /\ e.made = d.made /\ e.recs = d.recs /\ e.good = d.good /\ e.commit = d.commit
      /\ e.snaps = new
      /\ e = [made |-> e.made, recs |-> e.recs, good |-> e.good, snaps |-> e.snaps,
              commit |-> e.commit]
  BY <1>4, <1>5
<1>7. IsDir(e)
  BY <1>1, <1>6 DEF IsDir
<1> QED
  BY <1>3, <1>6, <1>7

\* And what a whole Save does, whose commit follows.
LEMMA SaveWritten ==
    ASSUME NEW d, IsDir(d), NEW run, IsLive(run), run.cursor \in 0 .. MaxRecords,
           NEW e, e = Saved(d, run)
    PROVE  /\ IsDir(e) /\ e.made = d.made /\ e.recs = d.recs /\ e.good = d.good
           /\ DOMAIN e.snaps = DOMAIN d.snaps \cup {run.cursor}
           /\ e.snaps[run.cursor] = [birth |-> run.birth, state |-> run.state, fold |-> run.fold]
           /\ \A o \in DOMAIN d.snaps : o # run.cursor => e.snaps[o] = d.snaps[o]
<1> DEFINE s == [birth |-> run.birth, state |-> run.state, fold |-> run.fold]
           w == WithSnapshot(d, run.cursor, s)
<1>1. s \in Snap
  BY DEF Snap, IsLive
<1>2. e = [w EXCEPT !.commit = run.cursor]
  BY DEF Saved
<1> HIDE DEF s, w
<1>3. w = WithSnapshot(d, run.cursor, s)
  BY DEF w
<1>4. /\ IsDir(w) /\ w.made = d.made /\ w.recs = d.recs /\ w.good = d.good
      /\ DOMAIN w.snaps = DOMAIN d.snaps \cup {run.cursor} /\ w.snaps[run.cursor] = s
      /\ \A o \in DOMAIN d.snaps : o # run.cursor => w.snaps[o] = d.snaps[o]
  BY <1>1, <1>3, SnapshotWritten
<1>5. PICK m, r, g, p, c : w = [made |-> m, recs |-> r, good |-> g, snaps |-> p, commit |-> c]
  BY <1>4 DEF IsDir
<1>6. e = [made |-> m, recs |-> r, good |-> g, snaps |-> p, commit |-> run.cursor]
  BY <1>2, <1>5
<1>7. /\ e.made = w.made /\ e.recs = w.recs /\ e.good = w.good /\ e.snaps = w.snaps
      /\ e.commit = run.cursor
      /\ e = [made |-> e.made, recs |-> e.recs, good |-> e.good, snaps |-> e.snaps,
              commit |-> e.commit]
  BY <1>5, <1>6
<1>8. IsDir(e)
  BY <1>4, <1>7 DEF IsDir
<1> QED
  BY <1>4, <1>7, <1>8 DEF s

-----------------------------------------------------------------------------
(* What a step leaves alone.                                               *)

\* The step is about another run: this one's log is at most opened, and only
\* when nobody serves it.
Aside(i) ==
    /\ Opens(disk[i], disk'[i]) /\ live'[i] = live[i]
    /\ live[i] # NoRun => disk'[i] = disk[i]

\* Its place in the tables does not get worse.
Unmoved(i) ==
    /\ phase' = phase
    /\ i \notin queue' => i \notin queue
    /\ i \notin runs' => i \notin runs
    /\ i \in refused => i \in refused'
    /\ Owned(disk[i]) /\ Owner(disk[i]) \in started' => Owner(disk[i]) \in started
    /\ Owned(disk[i]) /\ Owner(disk[i]) \in ended' => Owner(disk[i]) \in ended
    /\ ended \subseteq ended' /\ hurt \subseteq hurt'

\* Then what held of it holds on.
LEMMA OthersKeep ==
    ASSUME NEW i \in Ids, DirOK(i), EndOK(i), WaitOK(i), Aside(i), Unmoved(i)
    PROVE  DirOK(i)' /\ EndOK(i)' /\ WaitOK(i)'
<1> DEFINE d == disk[i]
           e == disk'[i]
<1>1. /\ IsDir(e) /\ Sound(e) /\ e.snaps = d.snaps /\ e.good = d.good
      /\ Len(d.recs) > 0 => Len(e.recs) > 0
      /\ d.good = Len(d.recs) => e.recs = d.recs
  BY DEF Aside, Opens
<1>2. Owned(e) = Owned(d) /\ Owner(e) = Owner(d)
  BY <1>1 DEF Owned, Owner
<1>3. DirOK(i)'
  BY <1>1 DEF Aside, DirOK, Serves
<1>4. EndOK(i)'
  <2>1. \A o \in DOMAIN e.snaps : e.snaps[o].state = "finished" => Owner(e) \in ended'
    BY <1>1, <1>2 DEF EndOK, Unmoved
  <2>2. ASSUME Owned(e), Owner(e) \in ended' \ hurt'
        PROVE  /\ e.good = Len(e.recs) /\ SaysFinished(e)
               /\ live'[i] # NoRun => live'[i].state = "finished"
    <3>1. Owned(d) /\ Owner(d) \in ended \ hurt
      BY <1>2, <2>2 DEF Unmoved
    <3>2. d.good = Len(d.recs) /\ SaysFinished(d) /\ (live[i] # NoRun => live[i].state = "finished")
      BY <3>1 DEF EndOK
    <3>3. SaysFinished(e)
      BY <1>1, <3>2 DEF SaysFinished, IsLatest
    <3> QED
      BY <1>1, <3>2, <3>3 DEF Aside
  <2> QED
    BY <2>1, <2>2 DEF EndOK
<1>5. WaitOK(i)'
  <2>1. ASSUME phase' \in {"recovering", "serving"}, i \notin queue', i \notin runs',
               Owned(e), Owner(e) \in started' \ ended'
        PROVE  i \in refused' /\ Len(e.recs) > 0
    <3>1. /\ phase \in {"recovering", "serving"} /\ i \notin queue /\ i \notin runs
          /\ Owned(d) /\ Owner(d) \in started \ ended
      BY <1>2, <2>1 DEF Unmoved
    <3>2. i \in refused /\ Len(d.recs) > 0
      BY <3>1 DEF WaitOK
    <3> QED
      BY <1>1, <3>2 DEF Unmoved
  <2> QED
    BY <2>1 DEF WaitOK
<1> QED
  BY <1>3, <1>4, <1>5

\* No directory changes hands, except an unowned or given up one that becomes
\* the newest start's.
LEMMA BirthsKept ==
    ASSUME BirthInv, NEW id \in Ids,
           births' = births \/ births' = births + 1,
           \A j \in Ids \ {id} : disk'[j].snaps = disk[j].snaps,
           Owned(disk'[id]) => \/ Owned(disk[id]) /\ Owner(disk'[id]) = Owner(disk[id])
                               \/ births' = births + 1 /\ Owner(disk'[id]) = births',
           Owned(disk[id]) /\ Owner(disk[id]) \in started' \ ended' =>
               Owned(disk'[id]) /\ Owner(disk'[id]) = Owner(disk[id]),
           \/ started' = started
           \/ /\ started' = started \cup {births'} /\ births' = births + 1
              /\ Owned(disk'[id]) /\ Owner(disk'[id]) = births',
           ended \subseteq ended', ended' \subseteq 1 .. births
    PROVE  BirthInv'
<1>1. births \in Nat /\ births' \in Nat /\ births <= births'
  BY DEF BirthInv
<1>2. started' \subseteq 1 .. births' /\ ended' \subseteq 1 .. births'
  <2>1. 1 .. births \subseteq 1 .. births' /\ started \subseteq 1 .. births
    BY <1>1 DEF BirthInv
  <2>2. births' = births + 1 => births' \in 1 .. births'
    BY <1>1
  <2> QED
    BY <2>1, <2>2
<1>3. \A j \in Ids \ {id} : Owned(disk'[j]) = Owned(disk[j]) /\ Owner(disk'[j]) = Owner(disk[j])
  BY DEF Owned, Owner
<1>4. \A j \in Ids : Owned(disk'[j]) => Owner(disk'[j]) \in 1 .. births'
  BY <1>1, <1>3 DEF BirthInv
<1>5. ASSUME NEW i \in Ids, NEW j \in Ids, Owned(disk'[i]), Owned(disk'[j]),
             Owner(disk'[i]) = Owner(disk'[j]), i # j
      PROVE  FALSE
  <2>1. \A x \in Ids \ {id} : Owned(disk'[x]) => Owner(disk'[x]) \in 1 .. births
    BY <1>3 DEF BirthInv
  <2>2. births + 1 \notin 1 .. births
    BY <1>1
  <2>3. CASE i = id
    BY <1>3, <1>5, <2>1, <2>2, <2>3 DEF BirthInv
  <2>4. CASE j = id
    BY <1>3, <1>5, <2>1, <2>2, <2>4 DEF BirthInv
  <2>5. CASE i # id /\ j # id
    BY <1>3, <1>5, <2>5 DEF BirthInv
  <2> QED
    BY <2>3, <2>4, <2>5
<1>6. ASSUME NEW b \in started' \ ended'
      PROVE  \E i \in Ids : Owned(disk'[i]) /\ Owner(disk'[i]) = b
  <2>1. CASE b \in started
    <3>1. PICK i \in Ids : Owned(disk[i]) /\ Owner(disk[i]) = b
      BY <1>6, <2>1 DEF BirthInv
    <3> QED
      BY <1>3, <1>6, <3>1
  <2>2. CASE b \notin started
    BY <1>6, <2>2
  <2> QED
    BY <2>1, <2>2
<1> QED
  BY <1>1, <1>2, <1>4, <1>5, <1>6 DEF BirthInv

\* A step is settled by the tables, the births and the runs it is about.
LEMMA Assemble ==
    ASSUME RegistryInv, TableInv', BirthInv', NEW S,
           \A j \in Ids : j \notin S => Aside(j) /\ Unmoved(j),
           \A j \in Ids : j \in S => DirOK(j)' /\ EndOK(j)' /\ WaitOK(j)'
    PROVE  RegistryInv'
<1>1. ASSUME NEW j \in Ids PROVE DirOK(j)' /\ EndOK(j)' /\ WaitOK(j)'
  <2>1. CASE j \in S
    BY <2>1
  <2>2. CASE j \notin S
    <3>1. DirOK(j) /\ EndOK(j) /\ WaitOK(j) /\ Aside(j) /\ Unmoved(j)
      BY <2>2 DEF RegistryInv
    <3> QED
      BY <3>1, OthersKeep
  <2> QED
    BY <2>1, <2>2
<1> QED
  BY <1>1 DEF RegistryInv

\* Logs were opened, and nothing else happened, but perhaps a birth given out
\* for nothing.
LEMMA OpeningKeeps ==
    ASSUME RegistryInv, NEW id \in Ids,
           \A j \in Ids : Opens(disk[j], disk'[j]) /\ (live[j] # NoRun => disk'[j] = disk[j]),
           disk' = [j \in Ids |-> disk'[j]],
           births' = births \/ births' = births + 1,
           UNCHANGED <<phase, queue, live, runs, refused, lives, ghostVars>>
    PROVE  RegistryInv'
<1>1. TableInv'
  BY DEF RegistryInv, TableInv
<1>2. \A j \in Ids : disk'[j].snaps = disk[j].snaps
  BY DEF Opens
<1>3. BirthInv'
  <2>1. /\ BirthInv /\ ended \subseteq 1 .. births
    BY DEF RegistryInv, BirthInv
  <2>2. started' = started /\ ended' = ended
    BY DEF ghostVars
  <2>3. Owned(disk'[id]) = Owned(disk[id]) /\ Owner(disk'[id]) = Owner(disk[id])
    BY <1>2 DEF Owned, Owner
  <2> QED
    BY <1>2, <2>1, <2>2, <2>3, BirthsKept
<1>4. \A j \in Ids : Aside(j) /\ Unmoved(j)
  BY DEF Aside, Unmoved, ghostVars
<1> DEFINE S == {}
<1>5. \A j \in Ids : j \notin S => Aside(j) /\ Unmoved(j)
  BY <1>4
<1>6. \A j \in Ids : j \in S => DirOK(j)' /\ EndOK(j)' /\ WaitOK(j)'
  OBVIOUS
<1> HIDE DEF S
<1> QED
  BY <1>1, <1>3, <1>5, <1>6, Assemble

\* OpenedBy opens the logs it is given.
LEMMA OpenedByOpens ==
    ASSUME RegistryInv, NEW T, \A j \in Ids : j \in T => live[j] = NoRun
    PROVE  /\ OpenedBy(T) = [j \in Ids |-> OpenedBy(T)[j]]
           /\ \A j \in Ids : /\ Opens(disk[j], OpenedBy(T)[j])
                             /\ live[j] # NoRun => OpenedBy(T)[j] = disk[j]
                             /\ j \in T => OpenedBy(T)[j] = openHistory(disk[j]).dir
<1>1. \A j \in Ids : OpenedBy(T)[j] = IF j \in T THEN openHistory(disk[j]).dir ELSE disk[j]
  BY DEF OpenedBy
<1>2. \A j \in Ids : Opens(disk[j], openHistory(disk[j]).dir) /\ Opens(disk[j], disk[j])
  BY OpenHistoryOpens, Alone DEF RegistryInv, DirOK
<1>3. OpenedBy(T) = [j \in Ids |-> OpenedBy(T)[j]]
  BY DEF OpenedBy
<1> QED
  BY <1>1, <1>2, <1>3

\* A log that cannot be claimed.
LEMMA RefuseKeeps ==
    ASSUME RegistryInv, NEW id \in Ids, NEW T, \A j \in Ids : j \in T => live[j] = NoRun,
           Refuse(OpenedBy(T))
    PROVE  RegistryInv'
<1>1. disk' = OpenedBy(T)
  BY DEF Refuse
<1>2. /\ disk' = [j \in Ids |-> disk'[j]]
      /\ \A j \in Ids : Opens(disk[j], disk'[j]) /\ (live[j] # NoRun => disk'[j] = disk[j])
  BY <1>1, OpenedByOpens
<1>3. births' = births /\ UNCHANGED <<phase, queue, live, runs, refused, lives, ghostVars>>
  BY DEF Refuse, spentVars
<1> QED
  BY <1>2, <1>3, OpeningKeeps

-----------------------------------------------------------------------------
(* Starting a run.                                                         *)

\* The directory of a run that was just started.
Fresh(e, b) ==
    /\ IsDir(e) /\ e.made /\ Len(e.recs) = 0 /\ e.good = 0
    /\ DOMAIN e.snaps = {0}
    /\ e.snaps[0] = [birth |-> b, state |-> "running", fold |-> <<>>]

LEMMA FreshIsSound ==
    ASSUME NEW b \in Nat, NEW e, Fresh(e, b)
    PROVE  Sound(e) /\ Owned(e) /\ Owner(e) = b /\ e.snaps[0].state = "running"
<1>1. /\ e.snaps[0].birth = b /\ e.snaps[0].fold = <<>> /\ e.snaps[0].state = "running"
  BY DEF Fresh
<1>2. Shows(e.snaps[0].fold, e.recs, 0)
  BY <1>1 DEF Shows
<1> QED
  BY <1>1, <1>2, RegistryAssumption DEF Fresh, Sound, Owned, Owner

\* The log a start claims, and the run it makes of it.
LEMMA FreshRunFacts ==
    ASSUME RegistryInv, NEW id \in Ids, openRunLog(disk[id]) = "claimed"
    PROVE  /\ IsLive(FreshRun(id)) /\ FreshRun(id).cursor = 0
           /\ FreshRun(id).birth = births + 1 /\ FreshRun(id).state = "running"
           /\ FreshRun(id).fold = <<>> /\ FreshRun(id) # NoRun
<1>1. reposition(openHistory(disk[id]).dir) = 0
  BY ClaimedIsEmpty DEF RegistryInv, DirOK
<1>2. births \in Nat
  BY DEF RegistryInv, BirthInv
<1>3. FreshRun(id) = [birth |-> births + 1, state |-> "running", fold |-> <<>>,
                      cursor |-> 0, damaged |-> Corrupt(disk[id])]
  BY <1>1 DEF FreshRun
<1> QED
  BY <1>2, <1>3 DEF IsLive, NoRun

\* What a successful or a half-done first save leaves.
LEMMA FirstSave ==
    ASSUME RegistryInv, NEW id \in Ids, NEW T, id \in T,
           \A j \in Ids : j \in T => live[j] = NoRun,
           openRunLog(disk[id]) = "claimed",
           NEW e,
           \/ e = Saved(OpenedBy(T)[id], FreshRun(id))
           \/ e = WithSnapshot(OpenedBy(T)[id], FreshRun(id).cursor,
                               [birth |-> births + 1, state |-> "running", fold |-> <<>>])
    PROVE  Fresh(e, births + 1)
<1> DEFINE o == OpenedBy(T)[id]
           s == [birth |-> births + 1, state |-> "running", fold |-> <<>>]
<1>1. o = openHistory(disk[id]).dir /\ Opens(disk[id], o)
  BY OpenedByOpens
<1>2. IsDir(disk[id]) /\ Sound(disk[id])
  BY DEF RegistryInv, DirOK
<1>3. /\ IsDir(o) /\ Len(o.recs) = 0 /\ o.good = 0 /\ o.made = TRUE
      /\ \A x \in DOMAIN o.snaps : x = 0
  <2>1. /\ Len(openHistory(disk[id]).dir.recs) = 0 /\ disk[id].good = 0
        /\ \A x \in DOMAIN disk[id].snaps : x = 0
    BY <1>2, ClaimedIsEmpty
  <2>2. openHistory(disk[id]).dir.made = TRUE
    BY <1>2, OpenHistoryOpens
  <2>3. IsDir(o) /\ o.good = disk[id].good /\ o.snaps = disk[id].snaps
    BY <1>1 DEF Opens
  <2> HIDE DEF o
  <2> QED
    BY <1>1, <2>1, <2>2, <2>3
<1>4. births \in Nat /\ 0 \in 0 .. MaxRecords
  BY RegistryAssumption DEF RegistryInv, BirthInv
<1>5. s \in Snap
  BY <1>4 DEF Snap
<1>6. /\ IsLive(FreshRun(id)) /\ FreshRun(id).cursor = 0 /\ FreshRun(id).birth = births + 1
      /\ FreshRun(id).state = "running" /\ FreshRun(id).fold = <<>>
  BY FreshRunFacts
<1> HIDE DEF o
<1>7. /\ IsDir(e) /\ e.made = o.made /\ e.recs = o.recs /\ e.good = o.good
      /\ DOMAIN e.snaps = DOMAIN o.snaps \cup {0} /\ e.snaps[0] = s
  <2>1. CASE e = Saved(o, FreshRun(id))
    BY <1>3, <1>4, <1>6, <2>1, SaveWritten
  <2>2. CASE e = WithSnapshot(o, 0, s)
    <3> HIDE DEF s
    <3> QED
      BY <1>3, <1>4, <1>5, <2>2, SnapshotWritten
  <2> QED
    BY <1>6, <2>1, <2>2 DEF o
<1> QED
  BY <1>3, <1>7 DEF Fresh

\* A claimed log is not one that a registered run still waits for: an empty log
\* is always recovered, so its run would be in the map.
LEMMA ClaimedIsGivenUp ==
    ASSUME RegistryInv, phase = "serving", NEW id \in Ids, id \notin runs,
           openRunLog(disk[id]) = "claimed"
    PROVE  ~(Owned(disk[id]) /\ Owner(disk[id]) \in started \ ended)
<1>1. Len(disk[id].recs) = 0
  BY ClaimedIsEmpty DEF RegistryInv, DirOK
<1>2. WaitOK(id) /\ id \notin queue
  BY DEF RegistryInv, TableInv
<1> QED
  BY <1>1, <1>2 DEF WaitOK

\* The directory changes hands: to a birth that nobody has had.
LEMMA HandedOver ==
    ASSUME RegistryInv, phase = "serving", NEW id \in Ids, id \notin runs,
           openRunLog(disk[id]) = "claimed",
           Fresh(disk'[id], births + 1), births' = births + 1,
           \A j \in Ids : j # id => Opens(disk[j], disk'[j]),
           started' = started \/ started' = started \cup {births + 1}, ended' = ended
    PROVE  BirthInv'
<1>1. BirthInv /\ births \in Nat /\ ended \subseteq 1 .. births /\ started \subseteq 1 .. births
  BY DEF RegistryInv, BirthInv
<1>2. Owned(disk'[id]) /\ Owner(disk'[id]) = births'
  BY <1>1, FreshIsSound
<1>3. \A j \in Ids \ {id} : disk'[j].snaps = disk[j].snaps
  BY DEF Opens
<1>4. ~(Owned(disk[id]) /\ Owner(disk[id]) \in started' \ ended')
  <2>1. Owned(disk[id]) => Owner(disk[id]) # births + 1
    BY <1>1 DEF BirthInv
  <2>2. ~(Owned(disk[id]) /\ Owner(disk[id]) \in started \ ended)
    BY ClaimedIsGivenUp
  <2> QED
    BY <2>1, <2>2
<1> QED
  BY <1>1, <1>2, <1>3, <1>4, BirthsKept

\* The other runs, when one is started.
LEMMA OthersWhenStarted ==
    ASSUME RegistryInv, NEW id \in Ids, NEW j \in Ids, j # id,
           Opens(disk[j], disk'[j]), live[j] # NoRun => disk'[j] = disk[j],
           live'[j] = live[j],
           runs' = runs \/ runs' = runs \cup {id},
           started' = started \/ started' = started \cup {births + 1},
           UNCHANGED <<phase, queue, refused, ended, hurt>>
    PROVE  Aside(j) /\ Unmoved(j)
<1>1. Owned(disk[j]) => Owner(disk[j]) # births + 1
  BY DEF RegistryInv, BirthInv
<1>2. Aside(j)
  BY DEF Aside
<1>3. Unmoved(j)
  BY <1>1 DEF Unmoved
<1> QED
  BY <1>2, <1>3

\* The rest of StartRun.
LEMMA BeginKeeps ==
    ASSUME RegistryInv, phase = "serving", NEW id \in Ids, id \notin runs,
           NEW T, id \in T, \A j \in Ids : j \in T => live[j] = NoRun, Begin(id, OpenedBy(T))
    PROVE  RegistryInv'
<1> DEFINE opened == OpenedBy(T)
           run == FreshRun(id)
<1>1. /\ openRunLog(disk[id]) = "claimed"
      /\ disk' = [opened EXCEPT ![id] = Saved(opened[id], run)]
      /\ live' = [live EXCEPT ![id] = run] /\ runs' = runs \cup {id}
      /\ started' = started \cup {births + 1} /\ births' = births + 1
      /\ UNCHANGED <<phase, queue, refused, lives, ended, hurt>>
  BY DEF Begin
<1>2. /\ opened = [j \in Ids |-> opened[j]]
      /\ \A j \in Ids : Opens(disk[j], opened[j]) /\ (live[j] # NoRun => opened[j] = disk[j])
  BY OpenedByOpens
<1>3. Fresh(Saved(opened[id], run), births + 1)
  BY <1>1, FirstSave
<1>4. /\ IsLive(run) /\ run.cursor = 0 /\ run.birth = births + 1 /\ run.state = "running"
      /\ run.fold = <<>> /\ run # NoRun
  BY <1>1, FreshRunFacts
<1>5. TableInv
  BY DEF RegistryInv
<1> HIDE DEF opened, run
<1>6. /\ disk' = [j \in Ids |-> disk'[j]] /\ live' = [j \in Ids |-> live'[j]]
      /\ Fresh(disk'[id], births + 1) /\ live'[id] = run
      /\ \A j \in Ids : j # id => /\ Opens(disk[j], disk'[j]) /\ live'[j] = live[j]
                                  /\ live[j] # NoRun => disk'[j] = disk[j]
  BY <1>1, <1>2, <1>3, <1>5 DEF TableInv
<1>7. TableInv'
  <2>1. \A j \in Ids : live'[j] # NoRun => j \in runs'
    BY <1>1, <1>5, <1>6 DEF TableInv
  <2> QED
    BY <1>1, <1>5, <1>6, <2>1 DEF TableInv
<1>8. BirthInv'
  BY <1>1, <1>6, HandedOver
<1>9. births \in Nat /\ births + 1 \notin ended
  BY DEF RegistryInv, BirthInv
<1>10. /\ Sound(disk'[id]) /\ Owned(disk'[id]) /\ Owner(disk'[id]) = births + 1
       /\ disk'[id].snaps[0].state = "running"
  BY <1>6, <1>9, FreshIsSound
<1>11. DirOK(id)'
  <2>1. /\ IsDir(disk'[id]) /\ Len(disk'[id].recs) = 0 /\ disk'[id].good = 0
        /\ DOMAIN disk'[id].snaps = {0}
    BY <1>6 DEF Fresh
  <2>2. Shows(run.fold, disk'[id].recs, 0)
    BY <1>4 DEF Shows
  <2>3. Serves(run, disk'[id])
    BY <1>4, <1>10, <2>1, <2>2 DEF Serves
  <2> QED
    BY <1>6, <1>10, <2>1, <2>3 DEF DirOK
<1>12. EndOK(id)'
  <2>1. DOMAIN disk'[id].snaps = {0}
    BY <1>6 DEF Fresh
  <2> QED
    BY <1>1, <1>9, <1>10, <2>1 DEF EndOK
<1>13. WaitOK(id)'
  BY <1>1 DEF WaitOK
<1>14. \A j \in Ids : j \notin {id} => Aside(j) /\ Unmoved(j)
  <2> SUFFICES ASSUME NEW j \in Ids, j # id PROVE Aside(j) /\ Unmoved(j)
    OBVIOUS
  <2> QED
    BY <1>1, <1>6, OthersWhenStarted
<1> DEFINE S == {id}
<1>15. /\ \A j \in Ids : j \notin S => Aside(j) /\ Unmoved(j)
       /\ \A j \in Ids : j \in S => DirOK(j)' /\ EndOK(j)' /\ WaitOK(j)'
  BY <1>11, <1>12, <1>13, <1>14
<1> HIDE DEF S
<1> QED
  BY <1>7, <1>8, <1>15, Assemble

\* A start whose first save fails: the log was opened, and perhaps holds the
\* snapshot of a run that nobody was told about.
LEMMA BeginFailsKeeps ==
    ASSUME RegistryInv, phase = "serving", NEW id \in Ids, id \notin runs,
           NEW T, id \in T, \A j \in Ids : j \in T => live[j] = NoRun,
           BeginFails(id, OpenedBy(T))
    PROVE  RegistryInv'
<1> DEFINE opened == OpenedBy(T)
           s == [birth |-> births + 1, state |-> "running", fold |-> <<>>]
           w == WithSnapshot(opened[id], FreshRun(id).cursor, s)
<1>1. PICK d \in {opened[id], w} : disk' = [opened EXCEPT ![id] = d]
  BY DEF BeginFails
<1>2. /\ openRunLog(disk[id]) = "claimed" /\ births' = births + 1
      /\ UNCHANGED <<phase, queue, live, runs, refused, lives, ghostVars>>
  BY DEF BeginFails
<1>3. /\ opened = [j \in Ids |-> opened[j]]
      /\ \A j \in Ids : Opens(disk[j], opened[j]) /\ (live[j] # NoRun => opened[j] = disk[j])
  BY OpenedByOpens
<1>4. Fresh(w, births + 1)
  BY <1>2, FirstSave
<1> HIDE DEF opened, w, s
<1>5. CASE d = opened[id]
  <2>1. disk' = opened
    BY <1>1, <1>3, <1>5
  <2> QED
    BY <1>2, <1>3, <2>1, OpeningKeeps
<1>6. CASE d = w
  <2>1. TableInv
    BY DEF RegistryInv
  <2>2. /\ disk' = [j \in Ids |-> disk'[j]] /\ Fresh(disk'[id], births + 1)
        /\ \A j \in Ids : j # id => /\ Opens(disk[j], disk'[j])
                                    /\ live[j] # NoRun => disk'[j] = disk[j]
    BY <1>1, <1>3, <1>4, <1>6
  <2>3. TableInv'
    BY <1>2, <2>1, <2>2 DEF TableInv
  <2>4. started' = started /\ ended' = ended /\ hurt' = hurt
    BY <1>2 DEF ghostVars
  <2>5. BirthInv'
    BY <1>2, <2>2, <2>4, HandedOver
  <2>6. births \in Nat /\ births + 1 \notin ended /\ births + 1 \notin started
    BY DEF RegistryInv, BirthInv
  <2>7. /\ Sound(disk'[id]) /\ Owned(disk'[id]) /\ Owner(disk'[id]) = births + 1
        /\ disk'[id].snaps[0].state = "running" /\ IsDir(disk'[id])
        /\ DOMAIN disk'[id].snaps = {0}
    BY <2>2, <2>6, FreshIsSound DEF Fresh
  <2>8. DirOK(id)'
    BY <1>2, <2>7 DEF DirOK, Serves
  <2>9. EndOK(id)'
    BY <2>4, <2>6, <2>7 DEF EndOK
  <2>10. WaitOK(id)'
    BY <2>4, <2>6, <2>7 DEF WaitOK
  <2>11. \A j \in Ids : j \notin {id} => Aside(j) /\ Unmoved(j)
    <3> SUFFICES ASSUME NEW j \in Ids, j # id PROVE Aside(j) /\ Unmoved(j)
      OBVIOUS
    <3> QED
      BY <1>2, <2>2, <2>4, OthersWhenStarted
  <2> DEFINE S == {id}
  <2>12. /\ \A j \in Ids : j \notin S => Aside(j) /\ Unmoved(j)
         /\ \A j \in Ids : j \in S => DirOK(j)' /\ EndOK(j)' /\ WaitOK(j)'
    BY <2>8, <2>9, <2>10, <2>11
  <2> HIDE DEF S
  <2> QED
    BY <2>3, <2>5, <2>12, Assemble
<1> QED
  BY <1>1, <1>5, <1>6

\* StartRun, with the caller's ID and with a generated one.
LEMMA StartKeeps ==
    ASSUME RegistryInv, NEW id \in Ids, StartRun(id) \/ StartGenerated(id)
    PROVE  RegistryInv'
<1>1. phase = "serving" /\ id \notin runs
  BY DEF StartRun, StartGenerated, Reaches, FreeIDs
<1>2. \A j \in Ids : j \notin runs => live[j] = NoRun
  BY <1>1 DEF RegistryInv, TableInv
<1>3. ASSUME NEW T, id \in T, \A j \in T : j \notin runs,
             Begin(id, OpenedBy(T)) \/ BeginFails(id, OpenedBy(T)) \/ Refuse(OpenedBy(T))
      PROVE  RegistryInv'
  <2>1. \A j \in Ids : j \in T => live[j] = NoRun
    BY <1>2, <1>3
  <2>2. CASE Begin(id, OpenedBy(T))
    BY <1>1, <1>3, <2>1, <2>2, BeginKeeps
  <2>3. CASE BeginFails(id, OpenedBy(T))
    BY <1>1, <1>3, <2>1, <2>3, BeginFailsKeeps
  <2>4. CASE Refuse(OpenedBy(T))
    BY <1>3, <2>1, <2>4, RefuseKeeps
  <2> QED
    BY <1>3, <2>2, <2>3, <2>4
<1>4. CASE StartRun(id)
  <2> DEFINE T == {id}
  <2>1. Begin(id, OpenedBy(T)) \/ BeginFails(id, OpenedBy(T)) \/ Refuse(OpenedBy(T))
    BY <1>4 DEF StartRun
  <2>2. id \in T /\ \A j \in T : j \notin runs
    BY <1>1
  <2> HIDE DEF T
  <2> QED
    BY <1>3, <2>1, <2>2
<1>5. CASE StartGenerated(id)
  <2> DEFINE T == Tried(id)
  <2>1. Begin(id, OpenedBy(T)) \/ BeginFails(id, OpenedBy(T)) \/ Refuse(OpenedBy(T))
    BY <1>5 DEF StartGenerated
  <2>2. id \in FreeIDs /\ id <= id
    BY <1>5, RegistryAssumption DEF StartGenerated, Reaches, Ids
  <2>3. id \in T /\ \A j \in T : j \notin runs
    BY <2>2 DEF Tried, FreeIDs
  <2> HIDE DEF T
  <2> QED
    BY <1>3, <2>1, <2>3
<1> QED
  BY <1>4, <1>5

-----------------------------------------------------------------------------
(* A run.                                                                  *)

\* One run moves, with its directory, and the tables stay.
LEMMA OneRunMoves ==
    ASSUME RegistryInv, NEW id \in Ids,
           disk' = [j \in Ids |-> disk'[j]], live' = [j \in Ids |-> live'[j]],
           \A j \in Ids : j # id => disk'[j] = disk[j] /\ live'[j] = live[j],
           live[id] = NoRun => live'[id] = NoRun,
           Owned(disk'[id]) = Owned(disk[id]),
           Owned(disk[id]) => Owner(disk'[id]) = Owner(disk[id]),
           Len(disk[id].recs) > 0 => Len(disk'[id].recs) > 0,
           UNCHANGED <<phase, queue, runs, refused, births, lives, started>>,
           hurt \subseteq hurt',
           \/ ended' = ended
           \/ Owned(disk[id]) /\ ended' = ended \cup {Owner(disk[id])},
           DirOK(id)', EndOK(id)'
    PROVE  RegistryInv'
<1>1. TableInv /\ BirthInv /\ WaitOK(id)
  BY DEF RegistryInv
<1>2. TableInv'
  <2>1. \A j \in Ids : live'[j] # NoRun => live[j] # NoRun
    OBVIOUS
  <2> QED
    BY <1>1, <2>1 DEF TableInv
<1>3. ended \subseteq ended' /\ ended' \subseteq 1 .. births
  BY <1>1 DEF BirthInv
<1>4. BirthInv'
  <2>1. \A j \in Ids \ {id} : disk'[j].snaps = disk[j].snaps
    OBVIOUS
  <2> QED
    BY <1>1, <1>3, <2>1, BirthsKept
<1>5. WaitOK(id)'
  <2>1. ASSUME phase' \in {"recovering", "serving"}, id \notin queue', id \notin runs',
               Owned(disk'[id]), Owner(disk'[id]) \in started' \ ended'
        PROVE  id \in refused' /\ Len(disk'[id].recs) > 0
    <3>1. /\ phase \in {"recovering", "serving"} /\ id \notin queue /\ id \notin runs
          /\ Owned(disk[id]) /\ Owner(disk[id]) \in started \ ended
      BY <1>3, <2>1
    <3>2. id \in refused /\ Len(disk[id].recs) > 0
      BY <1>1, <3>1 DEF WaitOK
    <3> QED
      BY <3>2
  <2> QED
    BY <2>1 DEF WaitOK
<1>6. ASSUME NEW j \in Ids, j # id PROVE Aside(j) /\ Unmoved(j)
  <2>1. Opens(disk[j], disk'[j])
    BY <1>6, Alone DEF RegistryInv, DirOK
  <2>2. Owned(disk[j]) /\ Owned(disk[id]) => Owner(disk[j]) # Owner(disk[id])
    BY <1>1, <1>6 DEF BirthInv
  <2> QED
    BY <1>3, <1>6, <2>1, <2>2 DEF Aside, Unmoved
<1> DEFINE S == {id}
<1>7. /\ \A j \in Ids : j \notin S => Aside(j) /\ Unmoved(j)
      /\ \A j \in Ids : j \in S => DirOK(j)' /\ EndOK(j)' /\ WaitOK(j)'
  BY <1>5, <1>6
<1> HIDE DEF S
<1> QED
  BY <1>2, <1>4, <1>7, Assemble

\* A Save by a run that has folded its log.
LEMMA SaveSound ==
    ASSUME NEW d, IsDir(d), Sound(d), NEW run, run # NoRun, Serves(run, d),
           NEW e, e = Saved(d, run)
    PROVE  /\ IsDir(e) /\ Sound(e) /\ Serves(run, e) /\ Owned(e) /\ Owner(e) = Owner(d)
           /\ e.recs = d.recs /\ e.good = d.good
           /\ IsLatest(e, Len(d.recs)) /\ e.snaps[Len(d.recs)].state = run.state
           /\ \A o \in DOMAIN e.snaps :
                 o # Len(d.recs) => o \in DOMAIN d.snaps /\ e.snaps[o] = d.snaps[o]
<1> DEFINE n == Len(d.recs)
<1>1. /\ n \in Nat /\ n <= MaxRecords /\ IsLive(run) /\ run.cursor = n /\ run.birth = Owner(d)
      /\ Owned(d) /\ d.good = n /\ (\A o \in DOMAIN d.snaps : o <= n)
      /\ Shows(run.fold, d.recs, n)
  BY DEF IsDir, Sound, Serves
<1>2. /\ IsDir(e) /\ e.made = d.made /\ e.recs = d.recs /\ e.good = d.good
      /\ DOMAIN e.snaps = DOMAIN d.snaps \cup {n}
      /\ e.snaps[n] = [birth |-> run.birth, state |-> run.state, fold |-> run.fold]
      /\ \A o \in DOMAIN d.snaps : o # n => e.snaps[o] = d.snaps[o]
  <2>1. run.cursor \in 0 .. MaxRecords
    BY <1>1, RegistryAssumption
  <2> QED
    BY <1>1, <2>1, SaveWritten
<1> HIDE DEF n
<1>3. e.snaps[n].birth = Owner(d) /\ e.snaps[n].state = run.state /\ e.snaps[n].fold = run.fold
  BY <1>1, <1>2
<1>4. Owned(e) /\ Owner(e) = Owner(d)
  BY <1>1, <1>2, <1>3 DEF Owned, Owner
<1>5. \A o \in DOMAIN e.snaps : o = n \/ (o \in DOMAIN d.snaps /\ e.snaps[o] = d.snaps[o])
  BY <1>2
<1>6. Sound(e)
  <2>1. \A o \in DOMAIN e.snaps : e.snaps[o].birth = Owner(e)
    BY <1>3, <1>4, <1>5 DEF Sound
  <2>2. \A o \in DOMAIN e.snaps : o <= Len(e.recs) => Shows(e.snaps[o].fold, e.recs, o)
    BY <1>1, <1>2, <1>3, <1>5 DEF Sound, n
  <2>3. Len(e.recs) = 0 => \A o \in DOMAIN e.snaps : o = 0
    BY <1>2, <1>5 DEF Sound, n
  <2>4. e.made /\ \A k \in 1 .. Len(e.recs) : e.recs[k].birth = Owner(e)
    BY <1>1, <1>2, <1>4 DEF Sound, Owned
  <2>5. e.good <= Len(e.recs) /\ Len(e.recs) <= MaxRecords /\ (Len(e.recs) > 0 => e.good > 0)
    BY <1>2 DEF Sound
  <2> QED
    BY <1>4, <2>1, <2>2, <2>3, <2>4, <2>5 DEF Sound
<1>7. \A o \in DOMAIN e.snaps : o <= n
  BY <1>1, <1>5
<1>8. Serves(run, e)
  BY <1>1, <1>2, <1>4, <1>7 DEF Serves, n
<1>9. IsLatest(e, n)
  BY <1>2, <1>7 DEF IsLatest
<1> QED
  BY <1>2, <1>3, <1>4, <1>5, <1>6, <1>8, <1>9 DEF n

\* A run that is running has not ended, unless the disk forgot that it had; so a
\* step of it need not keep what EndOK says of ended runs.
LEMMA RunningHasNotEnded ==
    ASSUME NEW i \in Ids, DirOK(i), EndOK(i), live[i].state = "running"
    PROVE  /\ live[i] # NoRun /\ Owned(disk[i]) /\ Owner(disk[i]) \notin ended \ hurt
           /\ live[i].birth = Owner(disk[i])
<1>1. live[i] # NoRun
  BY DEF NoRun
<1>2. Owned(disk[i]) /\ live[i].birth = Owner(disk[i])
  BY <1>1 DEF DirOK, Serves
<1> QED
  BY <1>1, <1>2 DEF EndOK

\* finish.
LEMMA FinishKeeps ==
    ASSUME RegistryInv, NEW id \in Ids, Finish(id)
    PROVE  RegistryInv'
<1> DEFINE d == disk[id]
           run == [live[id] EXCEPT !.state = "finished"]
<1>1. DirOK(id) /\ EndOK(id) /\ TableInv
  BY DEF RegistryInv
<1>2. /\ live[id].state = "running" /\ live' = [live EXCEPT ![id] = run]
      /\ disk' = [disk EXCEPT ![id] = Saved(d, run)]
      /\ ended' = ended \cup {live[id].birth}
      /\ UNCHANGED <<phase, queue, runs, refused, births, lives, started, hurt>>
  BY DEF Finish, spentVars
<1>3. live[id] # NoRun /\ Owned(d) /\ live[id].birth = Owner(d)
  BY <1>1, <1>2, RunningHasNotEnded
<1>4. /\ IsDir(d) /\ Sound(d) /\ IsLive(live[id]) /\ d.good = Len(d.recs)
      /\ (\A o \in DOMAIN d.snaps : o <= Len(d.recs))
      /\ live[id].cursor = Len(d.recs) /\ Shows(live[id].fold, d.recs, Len(d.recs))
  BY <1>1, <1>3 DEF DirOK, Serves
<1>5. /\ IsLive(run) /\ run.birth = live[id].birth /\ run.fold = live[id].fold
      /\ run.cursor = live[id].cursor /\ run.state = "finished" /\ run # NoRun
  <2>1. PICK b, s, f, c, g : live[id] = [birth |-> b, state |-> s, fold |-> f, cursor |-> c,
                                         damaged |-> g]
    BY <1>4 DEF IsLive
  <2>2. run = [birth |-> b, state |-> "finished", fold |-> f, cursor |-> c, damaged |-> g]
    BY <2>1
  <2>3. /\ run.birth = live[id].birth /\ run.fold = live[id].fold
        /\ run.cursor = live[id].cursor /\ run.state = "finished"
        /\ run = [birth |-> run.birth, state |-> run.state, fold |-> run.fold,
                  cursor |-> run.cursor, damaged |-> run.damaged]
    BY <2>1, <2>2
  <2> HIDE DEF run
  <2>4. run # NoRun
    BY <2>3 DEF NoRun
  <2> QED
    BY <1>4, <2>3, <2>4 DEF IsLive
<1> HIDE DEF d, run
<1>6. Serves(run, d)
  BY <1>3, <1>4, <1>5 DEF Serves
<1> DEFINE e == Saved(d, run)
<1>7. /\ IsDir(e) /\ Sound(e) /\ Serves(run, e) /\ Owned(e) /\ Owner(e) = Owner(d)
      /\ e.recs = d.recs /\ e.good = d.good
      /\ IsLatest(e, Len(d.recs)) /\ e.snaps[Len(d.recs)].state = "finished"
      /\ \A o \in DOMAIN e.snaps :
            o # Len(d.recs) => o \in DOMAIN d.snaps /\ e.snaps[o] = d.snaps[o]
  BY <1>4, <1>5, <1>6, SaveSound
<1> HIDE DEF e
<1>8. /\ disk' = [j \in Ids |-> disk'[j]] /\ live' = [j \in Ids |-> live'[j]]
      /\ \A j \in Ids : j # id => disk'[j] = disk[j] /\ live'[j] = live[j]
      /\ disk'[id] = e /\ live'[id] = run
  BY <1>1, <1>2 DEF TableInv, e
<1>9. DirOK(id)'
  BY <1>7, <1>8 DEF DirOK
<1>10. ended' = ended \cup {Owner(d)}
  BY <1>2, <1>3
<1>11. EndOK(id)'
  <2>1. Len(d.recs) \in Nat
    BY <1>4 DEF IsDir
  <2>2. SaysFinished(e)
    <3>1. Len(d.recs) \in DOMAIN e.snaps /\ Len(d.recs) <= Len(e.recs)
      BY <1>7, <2>1 DEF IsLatest
    <3> QED
      BY <1>7, <3>1 DEF SaysFinished
  <2> QED
    BY <1>4, <1>5, <1>7, <1>8, <1>10, <2>2 DEF EndOK
<1> QED
  BY <1>2, <1>3, <1>7, <1>8, <1>9, <1>10, <1>11, OneRunMoves DEF d

\* A directory with new records, and a run with a new fold.
WithRecords(d, r, g) == [d EXCEPT !.recs = r, !.good = g]

Folded(run, f, c) == [run EXCEPT !.fold = f, !.cursor = c]

DirChanged(e, d, r, g) ==
    IsDir(e) /\ e.made = d.made /\ e.recs = r /\ e.good = g /\ e.snaps = d.snaps

RunChanged(e, run, f, c) ==
    /\ IsLive(e) /\ e.birth = run.birth /\ e.state = run.state /\ e.fold = f
    /\ e.cursor = c

LEMMA DirFields ==
    ASSUME NEW d, IsDir(d), NEW r \in Seq(Rec), NEW g \in Nat,
           NEW e, e = WithRecords(d, r, g)
    PROVE  DirChanged(e, d, r, g)
<1>1. PICK m, q, h, p, c : d = [made |-> m, recs |-> q, good |-> h, snaps |-> p, commit |-> c]
  BY DEF IsDir
<1>2. e = [made |-> m, recs |-> r, good |-> g, snaps |-> p, commit |-> c]
  BY <1>1 DEF WithRecords
<1>3. /\ e.made = d.made /\ e.recs = r /\ e.good = g /\ e.snaps = d.snaps /\ e.commit = d.commit
      /\ e = [made |-> e.made, recs |-> e.recs, good |-> e.good, snaps |-> e.snaps,
              commit |-> e.commit]
  BY ONLY <1>1, <1>2
<1> QED
  BY <1>3 DEF IsDir, DirChanged

LEMMA RunFields ==
    ASSUME NEW run, IsLive(run), NEW f \in Seq(Rec), NEW c \in Nat,
           NEW e, e = Folded(run, f, c)
    PROVE  RunChanged(e, run, f, c)
<1>1. PICK b, s, h, q, g : run = [birth |-> b, state |-> s, fold |-> h, cursor |-> q,
                                  damaged |-> g]
  BY DEF IsLive
<1>2. e = [birth |-> b, state |-> s, fold |-> f, cursor |-> c, damaged |-> g]
  BY <1>1 DEF Folded
<1>3. /\ e.birth = run.birth /\ e.state = run.state /\ e.fold = f /\ e.cursor = c
      /\ e = [birth |-> e.birth, state |-> e.state, fold |-> e.fold, cursor |-> e.cursor,
              damaged |-> e.damaged]
  BY ONLY <1>1, <1>2
<1> QED
  BY <1>3 DEF IsLive, RunChanged

\* advance, on the run and its log: one record of the run's own, folded.
LEMMA TickServes ==
    ASSUME NEW d, IsDir(d), Sound(d), NEW run, run # NoRun, Serves(run, d),
           Len(d.recs) < MaxRecords, NEW rec \in Rec, rec.birth = run.birth,
           NEW recs, recs = Append(d.recs, rec),
           NEW more, more = run.fold \o SubSeq(recs, run.cursor + 1, Len(recs))
    PROVE  /\ recs \in Seq(Rec) /\ Len(recs) \in Nat /\ more \in Seq(Rec)
           /\ \A dir, next :
                 /\ IsDir(dir) /\ dir.made = d.made /\ dir.recs = recs
                 /\ dir.good = Len(recs) /\ dir.snaps = d.snaps
                 /\ IsLive(next) /\ next.birth = run.birth /\ next.fold = more
                 /\ next.cursor = Len(recs)
                 => Sound(dir) /\ Serves(next, dir) /\ Len(dir.recs) > 0
<1> DEFINE n == Len(d.recs)
<1>1. /\ n \in Nat /\ n <= MaxRecords /\ IsLive(run) /\ run.cursor = n /\ run.birth = Owner(d)
      /\ Owned(d) /\ d.good = n /\ (\A o \in DOMAIN d.snaps : o <= n)
      /\ Len(run.fold) = n /\ (\A k \in 1 .. n : run.fold[k] = d.recs[k])
      /\ d.recs \in Seq(Rec) /\ run.fold \in Seq(Rec)
  BY DEF IsDir, Sound, Serves, Shows, IsLive
<1>2. /\ recs \in Seq(Rec) /\ Len(recs) = n + 1 /\ recs[n + 1] = rec
      /\ \A k \in 1 .. n : recs[k] = d.recs[k]
  BY <1>1, AppendProperties
<1>3. /\ SubSeq(recs, n + 1, n + 1) \in Seq(Rec) /\ Len(SubSeq(recs, n + 1, n + 1)) = 1
      /\ SubSeq(recs, n + 1, n + 1)[1] = rec
  BY <1>1, <1>2, SubSeqProperties
<1>4. more \in Seq(Rec) /\ Len(more) = n + 1 /\ \A k \in 1 .. n + 1 : more[k] = recs[k]
  <2>1. more = run.fold \o SubSeq(recs, n + 1, n + 1)
    BY <1>1, <1>2
  <2> DEFINE t == SubSeq(recs, n + 1, n + 1)
  <2> HIDE DEF n, t
  <2>2. /\ more \in Seq(Rec) /\ Len(more) = n + 1
        /\ \A k \in 1 .. n : more[k] = run.fold[k]
        /\ more[n + 1] = t[1]
    <3>1. run.fold \in Seq(Rec) /\ t \in Seq(Rec) /\ Len(run.fold) = n /\ Len(t) = 1
          /\ n \in Nat /\ more = run.fold \o t
      BY <1>1, <1>3, <2>1 DEF t
    <3>2. /\ more \in Seq(Rec) /\ Len(more) = Len(run.fold) + Len(t)
          /\ \A k \in 1 .. Len(run.fold) + Len(t) :
                more[k] = IF k <= Len(run.fold) THEN run.fold[k] ELSE t[k - Len(run.fold)]
      BY ONLY <3>1, ConcatProperties
    <3>3. /\ \A k \in 1 .. n : k \in 1 .. n + 1 /\ k <= n
          /\ n + 1 \in 1 .. n + 1 /\ ~(n + 1 <= n) /\ (n + 1) - n = 1
      BY ONLY <3>1
    <3> QED
      BY ONLY <3>1, <3>2, <3>3
  <2>3. \A k \in 1 .. n + 1 : k \in 1 .. n \/ k = n + 1
    BY <1>1
  <2> QED
    BY <1>1, <1>2, <1>3, <2>2, <2>3 DEF t
<1> HIDE DEF n
<1>5. SUFFICES ASSUME NEW dir, IsDir(dir), dir.made = d.made, dir.recs = recs,
                      dir.good = n + 1, dir.snaps = d.snaps,
                      NEW next, IsLive(next), next.birth = run.birth, next.fold = more,
                      next.cursor = n + 1
               PROVE  Sound(dir) /\ Serves(next, dir) /\ Len(dir.recs) > 0
  <2>1. recs \in Seq(Rec) /\ Len(recs) \in Nat /\ more \in Seq(Rec)
    BY <1>1, <1>2, <1>4
  <2> QED
    BY <1>2, <2>1
<1>6. Owned(dir) /\ Owner(dir) = Owner(d)
  BY <1>1, <1>5 DEF Owned, Owner
<1>7. Sound(dir)
  <2>1. \A k \in 1 .. n + 1 : recs[k].birth = Owner(d)
    <3>1. \A k \in 1 .. n + 1 : k \in 1 .. n \/ k = n + 1
      BY <1>1
    <3>2. \A k \in 1 .. n : d.recs[k].birth = Owner(d)
      BY DEF Sound, n
    <3> QED
      BY <1>1, <1>2, <3>1, <3>2
  <2>2. \A o \in DOMAIN d.snaps : o \in Nat
    BY RegistryAssumption DEF IsDir, IsSnaps
  <2>3. \A o \in DOMAIN d.snaps : Shows(d.snaps[o].fold, recs, o)
    <3>1. \A o \in DOMAIN d.snaps : Shows(d.snaps[o].fold, d.recs, o)
      BY <1>1 DEF Sound, n
    <3>2. \A o \in DOMAIN d.snaps : \A k \in 1 .. o : k \in 1 .. n
      BY <1>1, <2>2
    <3> QED
      BY <1>2, <3>1, <3>2 DEF Shows
  <2>4. dir.made
    BY <1>1, <1>5 DEF Sound, Owned
  <2>5. n + 1 <= MaxRecords
    BY <1>1, RegistryAssumption DEF n
  <2> QED
    BY <1>1, <1>2, <1>5, <1>6, <2>1, <2>3, <2>4, <2>5 DEF Sound
<1>8. Serves(next, dir)
  <2>1. Shows(more, recs, n + 1)
    BY <1>4 DEF Shows
  <2>2. \A o \in DOMAIN d.snaps : o <= n + 1
    BY <1>1, RegistryAssumption DEF IsDir, IsSnaps
  <2> QED
    BY <1>1, <1>2, <1>5, <1>6, <2>1, <2>2 DEF Serves
<1> QED
  BY <1>1, <1>2, <1>5, <1>7, <1>8

\* advance, with or without the save that the cadence asks for.
LEMMA TickKeeps ==
    ASSUME RegistryInv, NEW id \in Ids, Tick(id)
    PROVE  RegistryInv'
<1> DEFINE d == disk[id]
           run == live[id]
           rec == [birth |-> run.birth, life |-> lives]
           recs == Append(d.recs, rec)
           more == run.fold \o SubSeq(recs, run.cursor + 1, Len(recs))
           dir == [d EXCEPT !.recs = recs, !.good = Len(recs)]
           next == [run EXCEPT !.fold = more, !.cursor = Len(recs)]
<1>1. DirOK(id) /\ EndOK(id) /\ TableInv
  BY DEF RegistryInv
<1>2. /\ run.state = "running" /\ Len(d.recs) < MaxRecords
      /\ live' = [live EXCEPT ![id] = next]
      /\ \E e \in {dir, Saved(dir, next)} : disk' = [disk EXCEPT ![id] = e]
      /\ UNCHANGED <<phase, queue, runs, refused, births, lives, started, ended, hurt>>
  BY DEF Tick, NextOffset, spentVars, ghostVars
<1>3. run # NoRun /\ Owned(d) /\ run.birth = Owner(d) /\ Owner(d) \notin ended \ hurt
  BY <1>1, <1>2, RunningHasNotEnded
<1>4. IsDir(d) /\ Sound(d) /\ Serves(run, d) /\ IsLive(run)
  BY <1>1, <1>3 DEF DirOK, Serves
<1>5. rec \in Rec /\ rec.birth = run.birth
  BY <1>1, <1>4 DEF Rec, IsLive, TableInv
<1>6. /\ IsDir(dir) /\ Sound(dir) /\ Serves(next, dir) /\ next # NoRun
      /\ dir.snaps = d.snaps /\ Len(dir.recs) > 0 /\ next.state = run.state
  <2> HIDE DEF rec, d, run
  <2>1. /\ recs \in Seq(Rec) /\ Len(recs) \in Nat /\ more \in Seq(Rec)
        /\ \A e, f :
              /\ IsDir(e) /\ e.made = d.made /\ e.recs = recs
              /\ e.good = Len(recs) /\ e.snaps = d.snaps
              /\ IsLive(f) /\ f.birth = run.birth /\ f.fold = more /\ f.cursor = Len(recs)
              => Sound(e) /\ Serves(f, e) /\ Len(e.recs) > 0
    BY <1>2, <1>3, <1>4, <1>5, TickServes
  <2> HIDE DEF recs, more
  <2> DEFINE l == Len(recs)
  <2>2. dir = WithRecords(d, recs, l) /\ next = Folded(run, more, l)
    BY DEF WithRecords, Folded
  <2>3. l \in Nat /\ recs \in Seq(Rec) /\ more \in Seq(Rec)
    BY <2>1
  <2> HIDE DEF dir, next, l
  <2>4. /\ IsDir(dir) /\ dir.made = d.made /\ dir.recs = recs /\ dir.good = l
        /\ dir.snaps = d.snaps
    <3>1. DirChanged(dir, d, recs, l)
      BY <1>4, <2>2, <2>3, DirFields
    <3> QED
      BY <3>1 DEF DirChanged
  <2>5. /\ IsLive(next) /\ next.birth = run.birth /\ next.state = run.state
        /\ next.fold = more /\ next.cursor = l
    <3>1. RunChanged(next, run, more, l)
      BY <1>4, <2>2, <2>3, RunFields
    <3> QED
      BY <3>1 DEF RunChanged
  <2>6. next # NoRun
    BY <2>5 DEF IsLive, NoRun
  <2> QED
    BY <2>1, <2>4, <2>5, <2>6 DEF l
<1>7. PICK e \in {dir, Saved(dir, next)} : disk' = [disk EXCEPT ![id] = e]
  BY <1>2
<1>8. Owned(dir) /\ Owner(dir) = Owner(d)
  <2> HIDE DEF dir, d
  <2> QED
    BY <1>3, <1>6 DEF Owned, Owner
<1> HIDE DEF dir, next, recs, rec, more
<1>9. /\ IsDir(e) /\ Sound(e) /\ Serves(next, e) /\ Owned(e) /\ Owner(e) = Owner(d)
      /\ Len(e.recs) > 0
      /\ \A o \in DOMAIN e.snaps : \/ e.snaps[o].state = "running"
                                   \/ o \in DOMAIN d.snaps /\ e.snaps[o] = d.snaps[o]
  <2>1. CASE e = dir
    BY <1>6, <1>8, <2>1
  <2>2. CASE e = Saved(dir, next)
    <3>1. /\ IsDir(e) /\ Sound(e) /\ Serves(next, e) /\ Owned(e) /\ Owner(e) = Owner(dir)
          /\ e.recs = dir.recs /\ e.snaps[Len(dir.recs)].state = next.state
          /\ \A o \in DOMAIN e.snaps :
                o # Len(dir.recs) => o \in DOMAIN dir.snaps /\ e.snaps[o] = dir.snaps[o]
      BY <1>6, <2>2, SaveSound
    <3> QED
      BY <1>2, <1>6, <1>8, <3>1
  <2> QED
    BY <1>7, <2>1, <2>2
<1>10. /\ disk' = [j \in Ids |-> disk'[j]] /\ live' = [j \in Ids |-> live'[j]]
       /\ \A j \in Ids : j # id => disk'[j] = disk[j] /\ live'[j] = live[j]
       /\ disk'[id] = e /\ live'[id] = next
  BY <1>1, <1>2, <1>7 DEF TableInv
<1>11. DirOK(id)'
  BY <1>9, <1>10 DEF DirOK
<1>12. EndOK(id)'
  <2>1. \A o \in DOMAIN e.snaps : e.snaps[o].state = "finished" => Owner(e) \in ended
    BY <1>1, <1>9 DEF EndOK
  <2> QED
    BY <1>2, <1>3, <1>9, <1>10, <2>1 DEF EndOK
<1> QED
  BY <1>2, <1>3, <1>9, <1>10, <1>11, <1>12, OneRunMoves

-----------------------------------------------------------------------------
(* The disk and its operator.                                              *)

\* Damage: the owner of the log is hurt, and its first record still reads.
LEMMA DamageKeeps ==
    ASSUME MinIntact > 0, RegistryInv, NEW id \in Ids, Damage(id)
    PROVE  RegistryInv'
<1> DEFINE d == disk[id]
<1>1. DirOK(id) /\ EndOK(id) /\ TableInv
  BY DEF RegistryInv
<1>2. /\ live[id] = NoRun
      /\ hurt' = hurt \cup {d.recs[k].birth : k \in 1 .. Len(d.recs)}
      /\ UNCHANGED <<phase, queue, runs, refused, births, lives, started, ended, live>>
  BY DEF Damage, daemonVars, NextOffset
<1>3. PICK k \in MinIntact .. d.good - 1 : disk' = [disk EXCEPT ![id].good = k]
  BY Zenon DEF Damage
<1>4. /\ IsDir(d) /\ Sound(d) /\ d.recs \in Seq(Rec) /\ d.good \in Nat /\ Len(d.recs) \in Nat
      /\ d.good <= Len(d.recs)
  BY <1>1 DEF DirOK, IsDir, Sound
<1>5. k \in Nat /\ k > 0 /\ k < Len(d.recs) /\ 1 \in 1 .. Len(d.recs)
  <2>1. MinIntact \in Nat /\ MinIntact > 0 /\ k \in MinIntact .. d.good - 1
    BY <1>3, RegistryAssumption
  <2> HIDE DEF d
  <2>2. k \in Nat /\ k > 0 /\ k < d.good
    BY <1>4, <2>1
  <2> QED
    BY <1>4, <2>2
<1> DEFINE e == disk'[id]
<1>6. /\ disk' = [j \in Ids |-> disk'[j]] /\ live' = [j \in Ids |-> live'[j]]
      /\ \A j \in Ids : j # id => disk'[j] = disk[j] /\ live'[j] = live[j]
      /\ e = [d EXCEPT !.good = k] /\ live'[id] = NoRun
  BY <1>1, <1>2, <1>3 DEF TableInv
<1> HIDE DEF d, e
<1>7. /\ e.made = d.made /\ e.recs = d.recs /\ e.good = k /\ e.snaps = d.snaps
      /\ e.commit = d.commit
      /\ e = [made |-> e.made, recs |-> e.recs, good |-> e.good, snaps |-> e.snaps,
              commit |-> e.commit]
  <2>1. PICK m, q, h, p, c : d = [made |-> m, recs |-> q, good |-> h, snaps |-> p, commit |-> c]
    BY <1>4 DEF IsDir
  <2>2. e = [made |-> m, recs |-> q, good |-> k, snaps |-> p, commit |-> c]
    BY <1>6, <2>1
  <2> QED
    BY ONLY <2>1, <2>2
<1>8. IsDir(e)
  BY <1>4, <1>5, <1>7 DEF IsDir
<1>9. Sound(e) /\ Owned(e) = Owned(d) /\ Owner(e) = Owner(d)
  <2>1. Owned(e) = Owned(d) /\ Owner(e) = Owner(d)
    BY <1>7 DEF Owned, Owner
  <2> QED
    BY <1>4, <1>5, <1>7, <2>1 DEF Sound
<1>10. DirOK(id)'
  BY <1>6, <1>8, <1>9 DEF DirOK, Serves, e
<1>11. Owner(e) \in hurt'
  <2>1. d.recs[1].birth = Owner(d)
    BY <1>4, <1>5 DEF Sound
  <2> QED
    BY <1>2, <1>5, <1>9, <2>1
<1>12. EndOK(id)'
  <2>1. \A o \in DOMAIN e.snaps : e.snaps[o].state = "finished" => Owner(e) \in ended'
    BY <1>1, <1>2, <1>7, <1>9 DEF EndOK, d
  <2> QED
    BY <1>11, <2>1 DEF EndOK, e
<1>13. hurt \subseteq hurt'
  BY <1>2
<1>14. Len(disk[id].recs) > 0 => Len(disk'[id].recs) > 0
  BY <1>7 DEF d, e
<1> QED
  BY <1>2, <1>6, <1>9, <1>10, <1>12, <1>13, <1>14, OneRunMoves DEF d, e

\* Replay: the log was opened.
LEMMA ReplayKeeps ==
    ASSUME RegistryInv, NEW id \in Ids, Replay(id)
    PROVE  RegistryInv'
<1>1. TableInv /\ \A j \in Ids : IsDir(disk[j]) /\ Sound(disk[j])
  BY DEF RegistryInv, DirOK
<1>2. /\ live[id] = NoRun /\ disk' = [disk EXCEPT ![id] = Opened(disk[id])]
      /\ births' = births /\ UNCHANGED <<phase, queue, live, runs, refused, lives, ghostVars>>
  BY DEF Replay, daemonVars, spentVars
<1>3. /\ Opens(disk[id], Opened(disk[id]))
      /\ \A j \in Ids : Opens(disk[j], disk[j])
  BY <1>1, OpenedOpens, Alone
<1>4. /\ disk' = [j \in Ids |-> disk'[j]]
      /\ \A j \in Ids : Opens(disk[j], disk'[j]) /\ (live[j] # NoRun => disk'[j] = disk[j])
  BY <1>1, <1>2, <1>3 DEF TableInv
<1> QED
  BY <1>2, <1>4, OpeningKeeps

\* DeleteSnapshot: the log has records, so the stranded snapshot is not the
\* owner's first; and a run that ended unhurt has none stranded.
LEMMA DeleteSnapshotKeeps ==
    ASSUME RegistryInv, NEW id \in Ids, DeleteSnapshot(id)
    PROVE  RegistryInv'
<1> DEFINE d == disk[id]
           at == Latest(d)
           left == [o \in DOMAIN d.snaps \ {at} |-> d.snaps[o]]
           e == [d EXCEPT !.snaps = left]
<1>1. DirOK(id) /\ EndOK(id) /\ TableInv
  BY DEF RegistryInv
<1>2. /\ live[id] = NoRun /\ HasSnapshot(d) /\ at > Len(d.recs)
      /\ disk' = [disk EXCEPT ![id] = e]
      /\ UNCHANGED <<phase, queue, runs, refused, births, lives, started, ended, hurt, live>>
  BY DEF DeleteSnapshot, Stranded, NextOffset, daemonVars, spentVars, ghostVars
<1>3. IsDir(d) /\ Sound(d) /\ Len(d.recs) \in Nat /\ IsSnaps(d.snaps)
  BY <1>1 DEF DirOK, IsDir
<1>4. IsLatest(d, at) /\ \A o : IsLatest(d, o) => o = at
  BY <1>2, <1>3, LatestIsNewest
<1>5. at \in Nat /\ at # 0 /\ Owned(d)
  <2>1. at \in DOMAIN d.snaps /\ at \in Nat
    BY <1>3, <1>4, RegistryAssumption DEF IsLatest, IsSnaps
  <2>2. at # 0
    BY <1>2, <1>3, <2>1
  <2> QED
    BY <1>2, <1>3, <2>1, <2>2 DEF Sound, HasSnapshot
<1>6. /\ DOMAIN left = DOMAIN d.snaps \ {at} /\ (\A o \in DOMAIN left : left[o] = d.snaps[o])
      /\ IsSnaps(left)
  BY <1>3 DEF IsSnaps
<1>7. /\ disk' = [j \in Ids |-> disk'[j]] /\ live' = [j \in Ids |-> live'[j]]
      /\ \A j \in Ids : j # id => disk'[j] = disk[j] /\ live'[j] = live[j]
      /\ disk'[id] = e /\ live'[id] = NoRun
  BY <1>1, <1>2 DEF TableInv
<1> HIDE DEF left, at
<1>8. /\ IsDir(e) /\ e.made = d.made /\ e.recs = d.recs /\ e.good = d.good /\ e.snaps = left
  <2>1. PICK m, q, h, p, c : d = [made |-> m, recs |-> q, good |-> h, snaps |-> p, commit |-> c]
    BY <1>3 DEF IsDir
  <2>2. e = [made |-> m, recs |-> q, good |-> h, snaps |-> left, commit |-> c]
    BY <2>1
  <2> HIDE DEF e
  <2>3. /\ e.made = d.made /\ e.recs = d.recs /\ e.good = d.good /\ e.snaps = left
        /\ e.commit = d.commit
        /\ e = [made |-> e.made, recs |-> e.recs, good |-> e.good, snaps |-> e.snaps,
                commit |-> e.commit]
    BY ONLY <2>1, <2>2
  <2> HIDE DEF d
  <2> QED
    BY <1>3, <1>6, <2>3 DEF IsDir
<1> HIDE DEF e, d
<1>9. Owned(e) /\ Owner(e) = Owner(d)
  BY <1>5, <1>6, <1>8 DEF Owned, Owner
<1>10. Sound(e)
  <2>1. \A o \in DOMAIN e.snaps : o \in DOMAIN d.snaps /\ e.snaps[o] = d.snaps[o]
    BY <1>6, <1>8
  <2> QED
    BY <1>3, <1>5, <1>8, <1>9, <2>1 DEF Sound
<1>11. DirOK(id)'
  BY <1>7, <1>8, <1>10 DEF DirOK, Serves
<1>12. Owner(d) \notin ended \ hurt
  <2> SUFFICES ASSUME Owner(d) \in ended \ hurt PROVE FALSE
    OBVIOUS
  <2>1. PICK o \in DOMAIN d.snaps : IsLatest(d, o) /\ o <= Len(d.recs)
    BY <1>1, <1>5 DEF EndOK, SaysFinished, d
  <2>2. o = at
    BY <1>4, <2>1
  <2> QED
    BY <1>2, <1>3, <1>5, <2>1, <2>2
<1>13. EndOK(id)'
  <2>1. \A o \in DOMAIN e.snaps : e.snaps[o].state = "finished" => Owner(e) \in ended
    BY <1>1, <1>6, <1>8, <1>9 DEF EndOK, d
  <2> QED
    BY <1>2, <1>7, <1>9, <1>12, <2>1 DEF EndOK
<1>14. /\ Owned(disk'[id]) = Owned(disk[id]) /\ Owner(disk'[id]) = Owner(disk[id])
       /\ Len(disk[id].recs) > 0 => Len(disk'[id].recs) > 0
  BY <1>5, <1>7, <1>8, <1>9 DEF d
<1>15. ended' = ended /\ hurt \subseteq hurt'
  BY <1>2
<1> QED
  BY <1>2, <1>7, <1>11, <1>13, <1>14, <1>15, OneRunMoves

-----------------------------------------------------------------------------
(* The daemon's lives.                                                     *)

\* Quit: a goroutine goes.
LEMMA QuitKeeps ==
    ASSUME RegistryInv, NEW id \in Ids, Quit(id)
    PROVE  RegistryInv'
<1>1. DirOK(id) /\ EndOK(id) /\ TableInv
  BY DEF RegistryInv
<1>2. /\ live' = [live EXCEPT ![id] = NoRun]
      /\ UNCHANGED <<disk, phase, queue, runs, refused, births, lives, started, ended, hurt>>
  BY DEF Quit, spentVars, ghostVars
<1>3. /\ disk' = [j \in Ids |-> disk'[j]] /\ live' = [j \in Ids |-> live'[j]]
      /\ \A j \in Ids : j # id => disk'[j] = disk[j] /\ live'[j] = live[j]
      /\ disk'[id] = disk[id] /\ live'[id] = NoRun
  BY <1>1, <1>2 DEF TableInv
<1>4. DirOK(id)'
  BY <1>1, <1>3 DEF DirOK, Serves
<1>5. EndOK(id)'
  BY <1>1, <1>2, <1>3 DEF EndOK
<1> QED
  BY <1>2, <1>3, <1>4, <1>5, OneRunMoves

\* Boot, Serve, Close and Crash leave the disk and the births alone.
LEMMA LivesKeep ==
    ASSUME RegistryInv, Boot \/ Serve \/ Close \/ Crash
    PROVE  RegistryInv'
<1>1. TableInv /\ BirthInv /\ \A i \in Ids : DirOK(i) /\ EndOK(i) /\ WaitOK(i)
  BY DEF RegistryInv
<1>2. UNCHANGED <<disk, births, started, ended, hurt>>
  BY DEF Boot, Serve, Close, Crash, spentVars, ghostVars
<1>3. BirthInv'
  BY <1>1, <1>2 DEF BirthInv
<1>4. live' = [i \in Ids |-> live'[i]] /\ \A i \in Ids : live'[i] = live[i] \/ live'[i] = NoRun
  BY <1>1 DEF Boot, Serve, Close, Crash, TableInv
<1>5. \A i \in Ids : DirOK(i)' /\ EndOK(i)'
  <2> SUFFICES ASSUME NEW i \in Ids PROVE DirOK(i)' /\ EndOK(i)'
    OBVIOUS
  <2>1. DirOK(i)'
    BY <1>1, <1>2, <1>4 DEF DirOK, Serves
  <2>2. EndOK(i)'
    BY <1>1, <1>2, <1>4 DEF EndOK
  <2> QED
    BY <2>1, <2>2
<1>6. TableInv' /\ \A i \in Ids : WaitOK(i)'
  <2>1. CASE Boot
    <3>1. TableInv'
      BY <1>1, <2>1 DEF TableInv, Boot
    <3>2. \A i \in Ids : Owned(disk[i]) => disk[i].made
      BY <1>1 DEF DirOK, Sound, Owned
    <3>3. \A i \in Ids : WaitOK(i)'
      BY <1>2, <2>1, <3>2 DEF Boot, WaitOK
    <3> QED
      BY <3>1, <3>3
  <2>2. CASE Serve
    <3>1. TableInv'
      BY <1>1, <2>2 DEF TableInv, Serve, spentVars
    <3>2. \A i \in Ids : WaitOK(i)'
      BY <1>1, <1>2, <2>2 DEF Serve, WaitOK
    <3> QED
      BY <3>1, <3>2
  <2>3. CASE Close
    BY <1>1, <2>3 DEF TableInv, WaitOK, Close, spentVars
  <2>4. CASE Crash
    BY <1>1, <2>4 DEF TableInv, WaitOK, Crash, spentVars
  <2> QED
    BY <2>1, <2>2, <2>3, <2>4
<1> QED
  BY <1>3, <1>5, <1>6 DEF RegistryInv

\* Resume rebuilds what the log holds: the newest snapshot is of the records
\* before it, and the rest are folded.
LEMMA ResumedServes ==
    ASSUME NEW e, IsDir(e), Sound(e), e.good = Len(e.recs), Resumable(e), NEW damaged,
           NEW run, run = Resumed(e, damaged)
    PROVE  Serves(run, e) /\ run # NoRun /\ run.state = "running"
<1> DEFINE n == Len(e.recs)
           at == Latest(e)
           f == e.snaps[at].fold
           tail == SubSeq(e.recs, at + 1, n)
           more == f \o tail
<1>1. n \in Nat /\ e.recs \in Seq(Rec) /\ HasSnapshot(e) /\ ~(at > n)
  BY DEF IsDir, Resumable, Stranded, NextOffset
<1>2. IsLatest(e, at)
  BY <1>1, LatestIsNewest
<1>3. at \in DOMAIN e.snaps /\ at \in Nat /\ at <= n /\ e.snaps[at] \in Snap
  BY <1>1, <1>2, RegistryAssumption DEF IsLatest, IsDir, IsSnaps
<1>4. /\ Owned(e) /\ e.snaps[at].birth = Owner(e) /\ Shows(f, e.recs, at)
      /\ f \in Seq(Rec) /\ Owner(e) \in Nat
  <2>1. f \in Seq(Rec) /\ e.snaps[at].birth \in Nat
    BY <1>3 DEF Snap
  <2> QED
    BY <1>3, <2>1 DEF Sound
<1>5. run = [birth |-> e.snaps[at].birth, state |-> "running", fold |-> more, cursor |-> n,
             damaged |-> damaged]
  BY DEF Resumed, NextOffset
<1> HIDE DEF n, at, f, tail, more
<1>6. Len(f) = at /\ \A k \in 1 .. at : f[k] = e.recs[k]
  BY <1>4 DEF Shows
<1>7. /\ tail \in Seq(Rec) /\ Len(tail) = n - at
      /\ \A k \in 1 .. n - at : tail[k] = e.recs[at + k]
  <2>1. \A i \in at + 1 .. n : e.recs[i] \in Rec
    BY <1>1, <1>3, ElementOfSeq DEF n
  <2>2. at + 1 \in 1 .. n + 1 /\ n \in at .. n
    BY <1>1, <1>3
  <2>3. /\ tail \in Seq(Rec)
        /\ Len(tail) = IF at + 1 <= n THEN n - (at + 1) + 1 ELSE 0
        /\ \A k \in 1 .. n - (at + 1) + 1 : tail[k] = e.recs[at + 1 + k - 1]
    BY <1>1, <1>3, <2>1, <2>2, SubSeqProperties DEF tail, n
  <2>4. n - (at + 1) + 1 = n - at /\ (~(at + 1 <= n) => n - at = 0)
    BY <1>1, <1>3
  <2>5. \A k \in 1 .. n - at : at + 1 + k - 1 = at + k
    BY <1>1, <1>3
  <2> QED
    BY <2>3, <2>4, <2>5
<1>8. more \in Seq(Rec) /\ Len(more) = n /\ \A k \in 1 .. n : more[k] = e.recs[k]
  <2>1. /\ more \in Seq(Rec) /\ Len(more) = Len(f) + Len(tail)
        /\ \A k \in 1 .. Len(f) + Len(tail) :
              more[k] = IF k <= Len(f) THEN f[k] ELSE tail[k - Len(f)]
    BY <1>4, <1>7, ConcatProperties DEF more
  <2>2. Len(f) + Len(tail) = n
    BY <1>1, <1>3, <1>6, <1>7
  <2>3. ASSUME NEW k \in 1 .. n PROVE more[k] = e.recs[k]
    <3>1. CASE k <= at
      <4>1. k \in 1 .. at
        BY <1>3, <2>3, <3>1
      <4> QED
        BY <1>6, <2>1, <2>2, <2>3, <3>1, <4>1
    <3>2. CASE ~(k <= at)
      <4>1. k - at \in 1 .. n - at /\ at + (k - at) = k
        BY <1>1, <1>3, <2>3, <3>2
      <4>2. more[k] = tail[k - at]
        BY <1>6, <2>1, <2>2, <2>3, <3>2
      <4> QED
        BY <1>7, <4>1, <4>2
    <3> QED
      BY <3>1, <3>2
  <2> QED
    BY <2>1, <2>2, <2>3
<1>9. /\ run.birth = Owner(e) /\ run.state = "running" /\ run.fold = more /\ run.cursor = n
      /\ run = [birth |-> run.birth, state |-> run.state, fold |-> run.fold,
                cursor |-> run.cursor, damaged |-> run.damaged]
  <2>1. e.snaps[at].birth = Owner(e)
    BY <1>4
  <2> QED
    BY ONLY <1>5, <2>1
<1>10. IsLive(run) /\ run # NoRun
  BY <1>1, <1>4, <1>8, <1>9 DEF IsLive, NoRun
<1>11. \A o \in DOMAIN e.snaps : o <= n
  <2>1. \A o \in DOMAIN e.snaps : o \in Nat /\ o <= at
    BY <1>2, RegistryAssumption DEF IsLatest, IsDir, IsSnaps
  <2> QED
    BY <1>1, <1>3, <2>1
<1>12. Serves(run, e)
  BY <1>4, <1>8, <1>9, <1>10, <1>11 DEF Serves, Shows, n
<1> QED
  BY <1>9, <1>10, <1>12

\* An empty log that holds a run is always recovered.
LEMMA EmptyIsResumed ==
    ASSUME NEW d, IsDir(d), Sound(d), Len(d.recs) = 0, Owned(d),
           NEW e, e = openHistory(d).dir
    PROVE  openHistory(d).ok = TRUE /\ Resumable(e)
<1>1. d.good \in Nat /\ d.good <= 0
  BY DEF IsDir, Sound
<1>2. ~Corrupt(d)
  BY <1>1 DEF Corrupt
<1>3. openHistory(d).ok = TRUE
  BY <1>2 DEF openHistory
<1>4. IsDir(e) /\ e.snaps = d.snaps /\ Len(e.recs) = d.good
  BY OpenHistoryOpens DEF Opens
<1>5. HasSnapshot(e) /\ \A o \in DOMAIN e.snaps : o = 0
  BY <1>4 DEF HasSnapshot, Sound, Owned
<1>6. Latest(e) = 0
  BY <1>4, <1>5, LatestIsNewest DEF IsLatest
<1> QED
  BY <1>1, <1>3, <1>4, <1>5, <1>6 DEF Resumable, Stranded, NextOffset

\* recoverOne, as far as the invariant sees it: the run is revived, or it had
\* ended, or it is refused and has records.
LEMMA RecoveredOne ==
    ASSUME NEW id \in Ids, IsDir(disk[id]), Sound(disk[id]), EndOK(id), recoverOne(id),
           NEW e, e = openHistory(disk[id]).dir,
           live = [j \in Ids |-> live[j]]
    PROVE  \/ /\ \E run : /\ Serves(run, e) /\ run # NoRun /\ run.state = "running"
                          /\ live' = [live EXCEPT ![id] = run]
              /\ Owner(e) \notin ended \ hurt /\ runs' = runs \cup {id} /\ refused' = refused
           \/ /\ Owned(e) => Owner(e) \in ended
              /\ UNCHANGED <<live, runs, refused>>
           \/ /\ Owned(e) => Len(e.recs) > 0
              /\ refused' = refused \cup {id} /\ UNCHANGED <<live, runs>>
<1> DEFINE d == disk[id]
           at == Latest(e)
           ok == openHistory(d).ok
<1>1. Opens(d, e) /\ Len(e.recs) = d.good
  BY OpenHistoryOpens
<1>2. /\ IsDir(e) /\ Sound(e) /\ e.good = Len(e.recs) /\ e.snaps = d.snaps
      /\ Owned(e) = Owned(d) /\ Owner(e) = Owner(d)
  BY <1>1 DEF Opens, Owned, Owner
<1>3. ASSUME Resumable(e)
      PROVE  IsLatest(e, at) /\ (\A o : IsLatest(e, o) => o = at) /\ Owned(e)
  <2>1. HasSnapshot(e)
    BY <1>3 DEF Resumable
  <2> QED
    BY <1>2, <2>1, LatestIsNewest DEF Sound, HasSnapshot
<1>4. CASE /\ ok /\ Resumable(e) /\ e.snaps[at].state # "finished"
           /\ Revive(id, Resumed(e, Corrupt(d)))
  <2> DEFINE run == Resumed(e, Corrupt(d))
  <2>1. Serves(run, e) /\ run # NoRun /\ run.state = "running"
    BY <1>2, <1>4, ResumedServes
  <2>2. Owner(e) \notin ended \ hurt
    <3> SUFFICES ASSUME Owner(e) \in ended \ hurt PROVE FALSE
      OBVIOUS
    <3>1. SaysFinished(d)
      BY <1>2, <1>3, <1>4 DEF EndOK
    <3>2. PICK o \in DOMAIN e.snaps : IsLatest(e, o) /\ e.snaps[o].state = "finished"
      BY <1>2, <3>1 DEF SaysFinished, IsLatest
    <3> QED
      BY <1>3, <1>4, <3>2
  <2> HIDE DEF run
  <2>3. live' = [live EXCEPT ![id] = run] /\ runs' = runs \cup {id} /\ refused' = refused
    BY <1>4 DEF Revive, run
  <2> QED
    BY <2>1, <2>2, <2>3
<1>5. CASE /\ ok /\ Resumable(e) /\ e.snaps[at].state = "finished"
           /\ UNCHANGED <<live, runs, order, refused>>
  <2>1. at \in DOMAIN d.snaps /\ d.snaps[at].state = "finished"
    BY <1>2, <1>3, <1>5 DEF IsLatest
  <2>2. Owner(e) \in ended
    BY <1>2, <2>1 DEF EndOK
  <2> QED
    BY <1>5, <2>2
<1>6. CASE /\ ~ok \/ ~Resumable(e)
           /\ refused' = refused \cup {id} /\ UNCHANGED <<live, runs, order>>
  <2>1. Len(e.recs) \in Nat /\ Len(d.recs) \in Nat
    BY <1>2 DEF IsDir
  <2>2. ASSUME Owned(e), ~(Len(d.recs) > 0) PROVE FALSE
    <3>1. Len(d.recs) = 0 /\ Owned(d) /\ IsDir(d) /\ Sound(d)
      BY <1>2, <2>1, <2>2
    <3>2. openHistory(d).ok = TRUE /\ Resumable(e)
      BY <3>1, EmptyIsResumed
    <3> QED
      BY <1>6, <3>2
  <2>3. Owned(e) => Len(e.recs) > 0
    BY <1>1, <2>2 DEF Opens
  <2> QED
    BY <1>6, <2>3
<1> QED
  BY <1>4, <1>5, <1>6 DEF recoverOne

\* Recover, one directory.
LEMMA RecoverKeeps ==
    ASSUME RegistryInv, Recover
    PROVE  RegistryInv'
<1>1. TableInv /\ queue # {} /\ queue \in SUBSET Nat
  BY DEF Recover, RegistryInv, TableInv, Ids
<1>2. PICK id \in Ids : id \in queue /\ id = Min(queue)
  BY <1>1, MinIsMember DEF TableInv
<1>3. /\ phase = "recovering" /\ recoverOne(id) /\ disk' = OpenedBy({id}) /\ queue' = queue \ {id}
      /\ UNCHANGED <<phase, lives, births, started, ended, hurt>>
  BY <1>2 DEF Recover, LeftAfter, spentVars, ghostVars
<1>4. live[id] = NoRun
  BY <1>1, <1>2 DEF TableInv
<1>dir. PICK e : e = openHistory(disk[id]).dir
  OBVIOUS
<1> DEFINE T == {id}
<1>5. /\ DirOK(id) /\ EndOK(id) /\ IsDir(disk[id]) /\ Sound(disk[id])
      /\ \A j \in Ids : IsDir(disk[j]) /\ Sound(disk[j])
  BY <1>2 DEF RegistryInv, DirOK
<1>6. /\ disk' = [j \in Ids |-> disk'[j]] /\ disk'[id] = e
      /\ \A j \in Ids : Opens(disk[j], disk'[j])
      /\ \A j \in Ids : j # id => disk'[j] = disk[j]
  <2>1. disk' = OpenedBy(T) /\ \A j \in Ids : j \in T => live[j] = NoRun
    BY <1>3, <1>4
  <2>2. id \in T
    OBVIOUS
  <2>3. \A j \in Ids : j # id => disk'[j] = disk[j]
    BY <1>3 DEF OpenedBy
  <2> HIDE DEF T
  <2> QED
    BY <1>2, <1>dir, <2>1, <2>2, <2>3, OpenedByOpens
<1>7. /\ IsDir(e) /\ Sound(e) /\ e.snaps = disk[id].snaps /\ Owned(e) = Owned(disk[id])
      /\ Owner(e) = Owner(disk[id]) /\ e.good = disk[id].good
      /\ disk[id].good = Len(disk[id].recs) => e.recs = disk[id].recs
  BY <1>2, <1>6 DEF Opens, Owned, Owner
<1>8. live = [j \in Ids |-> live[j]]
  BY <1>1 DEF TableInv
<1>9. \/ /\ \E run : /\ Serves(run, e) /\ run # NoRun /\ run.state = "running"
                     /\ live' = [live EXCEPT ![id] = run]
         /\ Owner(e) \notin ended \ hurt /\ runs' = runs \cup {id} /\ refused' = refused
      \/ /\ Owned(e) => Owner(e) \in ended
         /\ UNCHANGED <<live, runs, refused>>
      \/ /\ Owned(e) => Len(e.recs) > 0
         /\ refused' = refused \cup {id} /\ UNCHANGED <<live, runs>>
  BY <1>2, <1>3, <1>dir, <1>5, <1>8, RecoveredOne
<1>10. /\ live' = [j \in Ids |-> live'[j]] /\ runs \subseteq runs' /\ runs' \subseteq runs \cup {id}
       /\ refused \subseteq refused'
       /\ \A j \in Ids : j # id => live'[j] = live[j]
       /\ live'[id] # NoRun => id \in runs'
  BY <1>2, <1>4, <1>8, <1>9
<1>11. TableInv'
  <2>1. \A j \in Ids : live'[j] # NoRun => j \in runs' /\ j \notin queue'
    BY <1>1, <1>3, <1>10 DEF TableInv
  <2> QED
    BY <1>1, <1>2, <1>3, <1>6, <1>10, <2>1 DEF TableInv
<1>12. BirthInv'
  <2>1. BirthInv /\ ended \subseteq 1 .. births /\ births' = births
    BY <1>3 DEF RegistryInv, BirthInv
  <2>2. \A j \in Ids \ {id} : disk'[j].snaps = disk[j].snaps
    BY <1>6
  <2> QED
    BY <1>2, <1>3, <1>6, <1>7, <2>1, <2>2, BirthsKept
<1>13. DirOK(id)'
  BY <1>2, <1>4, <1>6, <1>7, <1>8, <1>9 DEF DirOK, Serves
<1>14. EndOK(id)'
  <2>1. \A o \in DOMAIN e.snaps : e.snaps[o].state = "finished" => Owner(e) \in ended
    BY <1>5, <1>7 DEF EndOK
  <2>2. ASSUME Owned(e), Owner(e) \in ended \ hurt
        PROVE  /\ e.good = Len(e.recs) /\ SaysFinished(e) /\ live'[id] = NoRun
    <3>1. disk[id].good = Len(disk[id].recs) /\ SaysFinished(disk[id])
      BY <1>5, <1>7, <2>2 DEF EndOK
    <3>2. SaysFinished(e) /\ e.good = Len(e.recs)
      BY <1>7, <3>1 DEF SaysFinished, IsLatest
    <3> QED
      BY <1>4, <1>9, <2>2, <3>2
  <2> QED
    BY <1>3, <1>6, <2>1, <2>2 DEF EndOK
<1>15. WaitOK(id)'
  BY <1>3, <1>6, <1>9 DEF WaitOK
<1>16. \A j \in Ids : j # id => Aside(j) /\ Unmoved(j)
  <2> SUFFICES ASSUME NEW j \in Ids, j # id PROVE Aside(j) /\ Unmoved(j)
    OBVIOUS
  <2>1. Aside(j)
    BY <1>6, <1>10 DEF Aside
  <2>2. Unmoved(j)
    BY <1>3, <1>10 DEF Unmoved
  <2> QED
    BY <2>1, <2>2
<1>17. /\ \A j \in Ids : j \notin T => Aside(j) /\ Unmoved(j)
       /\ \A j \in Ids : j \in T => DirOK(j)' /\ EndOK(j)' /\ WaitOK(j)'
  BY <1>13, <1>14, <1>15, <1>16
<1> HIDE DEF T
<1> QED
  BY <1>11, <1>12, <1>17, Assemble

-----------------------------------------------------------------------------
(* The theorems.                                                           *)

LEMMA InitRegistryInv == Init => RegistryInv
<1> SUFFICES ASSUME Init PROVE RegistryInv
  OBVIOUS
<1>1. \A i \in Ids : disk[i] = NoDirectory /\ live[i] = NoRun
  BY DEF Init
<1>2. /\ NoDirectory.made = FALSE /\ NoDirectory.recs = <<>> /\ NoDirectory.good = 0
      /\ NoDirectory.snaps = <<>> /\ NoDirectory.commit = 0
      /\ NoDirectory = [made |-> NoDirectory.made, recs |-> NoDirectory.recs,
                        good |-> NoDirectory.good, snaps |-> NoDirectory.snaps,
                        commit |-> NoDirectory.commit]
  BY DEF NoDirectory
<1>3. DOMAIN <<>> = {} /\ <<>> = [o \in DOMAIN <<>> |-> <<>>[o]] /\ <<>> \in Seq(Rec) /\ Len(<<>>) = 0
  OBVIOUS
<1>4. IsDir(NoDirectory) /\ Sound(NoDirectory) /\ ~Owned(NoDirectory)
  <2>1. IsDir(NoDirectory)
    <3>1. IsSnaps(<<>>)
      BY <1>3 DEF IsSnaps
    <3>2. /\ NoDirectory.made \in BOOLEAN /\ NoDirectory.recs \in Seq(Rec)
          /\ NoDirectory.good \in Nat /\ NoDirectory.commit \in Nat
      <4>1. NoDirectory.made \in BOOLEAN
        BY <1>2, Zenon
      <4>2. NoDirectory.recs \in Seq(Rec)
        BY <1>2, <1>3, Zenon
      <4> QED
        BY <1>2, <4>1, <4>2
    <3>3. IsSnaps(NoDirectory.snaps)
      BY <1>2, <3>1
    <3> QED
      BY <1>2, <3>2, <3>3 DEF IsDir
  <2>2. Sound(NoDirectory)
    BY <1>2, <1>3, RegistryAssumption DEF Sound
  <2> QED
    BY <1>2, <1>3, <2>1, <2>2 DEF Owned
<1>5. \A i \in Ids : DirOK(i) /\ EndOK(i) /\ WaitOK(i)
  BY <1>1, <1>2, <1>3, <1>4 DEF DirOK, EndOK, WaitOK, Serves
<1>6. TableInv
  BY DEF Init, TableInv
<1>7. BirthInv
  BY <1>1, <1>4 DEF Init, BirthInv
<1> QED
  BY <1>5, <1>6, <1>7 DEF RegistryInv

LEMMA NextRegistryInv ==
    ASSUME MinIntact > 0, RegistryInv, [Next]_vars
    PROVE  RegistryInv'
<1>1. CASE Boot \/ Serve \/ Close \/ Crash
  BY <1>1, LivesKeep
<1>2. CASE Recover
  BY <1>2, RecoverKeeps
<1>3. ASSUME NEW id \in Ids, StartRun(id) \/ StartGenerated(id) PROVE RegistryInv'
  BY <1>3, StartKeeps
<1>4. ASSUME NEW id \in Ids, Tick(id) PROVE RegistryInv'
  BY <1>4, TickKeeps
<1>5. ASSUME NEW id \in Ids, Finish(id) PROVE RegistryInv'
  BY <1>5, FinishKeeps
<1>6. ASSUME NEW id \in Ids, Quit(id) PROVE RegistryInv'
  BY <1>6, QuitKeeps
<1>7. ASSUME NEW id \in Ids, Damage(id) PROVE RegistryInv'
  BY <1>7, DamageKeeps
<1>8. ASSUME NEW id \in Ids, Replay(id) PROVE RegistryInv'
  BY <1>8, ReplayKeeps
<1>9. ASSUME NEW id \in Ids, DeleteSnapshot(id) PROVE RegistryInv'
  BY <1>9, DeleteSnapshotKeeps
<1>10. CASE UNCHANGED vars
  <2>1. UNCHANGED <<disk, phase, queue, live, runs, refused, births, lives, started, ended, hurt>>
    BY <1>10 DEF vars, daemonVars, spentVars, ghostVars
  <2> QED
    BY <2>1 DEF RegistryInv, TableInv, BirthInv, DirOK, EndOK, WaitOK
<1> QED
  BY <1>1, <1>2, <1>3, <1>4, <1>5, <1>6, <1>7, <1>8, <1>9, <1>10 DEF Next

\* The inductive invariant holds as long as damage leaves a log its first record.
THEOREM RegistryHolds == MinIntact > 0 => (Spec => []RegistryInv)
<1> SUFFICES ASSUME MinIntact > 0 PROVE Spec => []RegistryInv
  OBVIOUS
<1>1. Init => RegistryInv
  BY InitRegistryInv
<1>2. RegistryInv /\ [Next]_vars => RegistryInv'
  BY NextRegistryInv
<1> QED
  BY <1>1, <1>2, PTL DEF Spec

\* A live run serves exactly its own log: through starts on old directories,
\* truncated logs, deleted snapshots and recoveries, nothing is folded that the
\* log does not hold, and no log holds two runs (openRunLog, recoverOne).
THEOREM RunsServeTheirLogs == MinIntact > 0 => (Spec => []ServesItsLog)
<1> SUFFICES ASSUME MinIntact > 0 PROVE Spec => []ServesItsLog
  OBVIOUS
<1>1. RegistryInv => ServesItsLog
  <2> SUFFICES ASSUME RegistryInv, NEW i \in Ids, live[i] # NoRun
               PROVE  /\ live[i].fold = disk[i].recs
                      /\ \A k \in 1 .. NextOffset(disk[i]) : disk[i].recs[k].birth = live[i].birth
    BY DEF ServesItsLog
  <2>1. /\ Sound(disk[i]) /\ live[i].birth = Owner(disk[i])
        /\ disk[i].recs \in Seq(Rec) /\ live[i].fold \in Seq(Rec)
        /\ Len(live[i].fold) = Len(disk[i].recs)
        /\ \A k \in 1 .. Len(disk[i].recs) : live[i].fold[k] = disk[i].recs[k]
    BY DEF RegistryInv, DirOK, IsDir, Serves, IsLive, Shows
  <2>2. live[i].fold = disk[i].recs
    BY <2>1, SeqEqual
  <2> QED
    BY <2>1, <2>2 DEF Sound, NextOffset
<1> QED
  BY <1>1, RegistryHolds, PTL

\* A run that was registered and has not ended is on disk under its identity: no
\* start of another run, by any ID, takes its directory (claimLogLocked).
THEOREM NoDirectoryIsTaken == MinIntact > 0 => (Spec => []StartedRunsSurvive)
<1> SUFFICES ASSUME MinIntact > 0 PROVE Spec => []StartedRunsSurvive
  OBVIOUS
<1>1. RegistryInv => StartedRunsSurvive
  <2> SUFFICES ASSUME RegistryInv, NEW b \in started \ ended
               PROVE  \E i \in Ids : /\ HasSnapshot(disk[i])
                                     /\ disk[i].snaps[Latest(disk[i])].birth = b
    BY DEF StartedRunsSurvive
  <2>1. PICK i \in Ids : Owned(disk[i]) /\ Owner(disk[i]) = b
    BY DEF RegistryInv, BirthInv
  <2>2. HasSnapshot(disk[i]) /\ IsDir(disk[i]) /\ Sound(disk[i])
    BY <2>1 DEF RegistryInv, DirOK, Owned, HasSnapshot
  <2>3. Latest(disk[i]) \in DOMAIN disk[i].snaps
    BY <2>2, LatestIsNewest DEF IsLatest
  <2>4. disk[i].snaps[Latest(disk[i])].birth = b
    BY <2>1, <2>2, <2>3 DEF Sound
  <2> QED
    BY <2>2, <2>4
<1> QED
  BY <1>1, RegistryHolds, PTL

\* Once the daemon serves, every unfinished run that can be resumed is in the
\* map or was refused by its own recovery: one failure never hides another run
\* (Recover's loop).
THEOREM EveryRunReturns == MinIntact > 0 => (Spec => []RecoverableRunsReturn)
<1> SUFFICES ASSUME MinIntact > 0 PROVE Spec => []RecoverableRunsReturn
  OBVIOUS
<1>1. RegistryInv => RecoverableRunsReturn
  <2> SUFFICES ASSUME RegistryInv, phase = "serving", NEW i \in Ids, Resumable(disk[i]),
                      disk[i].snaps[Latest(disk[i])].birth \in started \ ended
               PROVE  i \in runs \cup refused
    BY DEF RecoverableRunsReturn
  <2>1. HasSnapshot(disk[i]) /\ IsDir(disk[i]) /\ Sound(disk[i]) /\ WaitOK(i) /\ i \notin queue
    BY DEF RegistryInv, DirOK, Resumable, TableInv
  <2>2. Latest(disk[i]) \in DOMAIN disk[i].snaps
    BY <2>1, LatestIsNewest DEF IsLatest
  <2>3. Owned(disk[i]) /\ disk[i].snaps[Latest(disk[i])].birth = Owner(disk[i])
    BY <2>1, <2>2 DEF Sound
  <2> QED
    BY <2>1, <2>3 DEF WaitOK
<1> QED
  BY <1>1, RegistryHolds, PTL

\* No later life of the daemon runs a finished run again, unless its disk lost
\* what said so (recoverOne's skip).
THEOREM FinishedRunsRest == MinIntact > 0 => (Spec => []FinishedStayFinished)
<1> SUFFICES ASSUME MinIntact > 0 PROVE Spec => []FinishedStayFinished
  OBVIOUS
<1>1. RegistryInv => FinishedStayFinished
  BY RunningHasNotEnded DEF RegistryInv, FinishedStayFinished
<1> QED
  BY <1>1, RegistryHolds, PTL

=============================================================================
