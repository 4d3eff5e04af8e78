------------------------ MODULE CheckpointLineProofs ------------------------
(***************************************************************************)
(* Theorems of the lines of training: every snapshot is of one line, and   *)
(* a session continues the advertised one, for every number of saves,      *)
(* sessions and snapshots, until a machine is lost with a snapshot         *)
(* committed and not advertised.  What is advertised of a finished run     *)
(* stands when its stage is run again, and the sessions implement          *)
(* CheckpointHistory, both without exception.                              *)
(***************************************************************************)
EXTENDS CheckpointProofs, SequenceTheorems

\* What the snapshots declare step s to be, and what the disk has of it.
Declared(s) == {snaps[v][s] : v \in {u \in Versions : Present(u) /\ s \in Names(u)}}
OnDisk(s) == {local[s], localBak[s]} \cap Contents
Held(s) == Declared(s) \cup OnDisk(s)

\* A session that has loaded what it continues.
Running == pc \notin {"down", "restore", "replace", "resume"}

\* A checkpoint of step s was trained for s steps, wherever it is.
Everywhere(s) == Held(s) \cup ({store[s], aside[s]} \cap Contents)
LengthInv == \A s \in Steps : \A c \in Everywhere(s) : Len(c.line) = s

\* No snapshot up to the advertised one reaches further, and one about to be
\* advertised reaches as far as any other.
ReachInv ==
    /\ \A v \in Versions : Present(v) /\ v <= latest =>
           \A s \in Names(v) : \E t \in Names(latest) : s <= t
    /\ pc = "advertise" =>
           \A v \in Versions : Present(v) /\ v > latest =>
               \A s \in Names(v) : \E t \in Names(LastVersion) : s <= t

\* An interrupted replacement is of an advertised checkpoint and is over when the
\* session resumes, with every advertised checkpoint on the disk.
RestoreInv ==
    /\ \A s \in Steps : localBak[s] # None =>
           /\ pc \in {"down", "restore", "replace"}
           /\ latest # 0 /\ s \in Names(latest)
           /\ pc # "down" => s \in todo
    /\ pc \in {"restore", "replace"} =>
           /\ latest # 0 /\ todo \subseteq Names(latest)
           /\ Names(latest) \ todo \subseteq Complete(local)
    /\ pc = "resume" /\ latest # 0 => Names(latest) \subseteq Complete(local)

\* What a synchronisation keeps and need not copy is the disk's or a snapshot's.
ReuseInv == pc \in {"upload", "swap"} => \A s \in KeepNow \ todo : store[s] \in Held(s)

\* The newest checkpoint a session has trained or loaded stays on its disk.
CurrentInv == Running /\ line # << >> => Len(line) \in Steps /\ local[Len(line)] \in Contents

\* All that snapshots declare and the disk has is one line ...
OneLine ==
    \A s, t \in Steps : s <= t => \A c \in Held(s), d \in Held(t) : SubSeq(d.line, 1, s) = c.line

\* ... none of it beyond what LATEST declares or the disk has ...
WithinReach ==
    \A s \in Referenced : \/ latest # 0 /\ \E t \in Names(latest) : s <= t
                          \/ \E t \in Complete(local) : s <= t

\* ... and the session's own line continues it.
Continues ==
    Running => \A s \in Steps : \A c \in Held(s) : s <= Len(line) /\ SubSeq(line, 1, s) = c.line

LineInv == ~stray => OneLine /\ WithinReach /\ Continues

LIInv == LengthInv /\ ReachInv /\ RestoreInv /\ ReuseInv /\ CurrentInv /\ LineInv

-----------------------------------------------------------------------------
\* A line is its own prefix, and training on keeps the prefixes there were.
LEMMA WholePrefix == ASSUME NEW l \in Seq(Sessions) PROVE SubSeq(l, 1, Len(l)) = l
OBVIOUS

LEMMA PrefixStays ==
    ASSUME NEW l \in Seq(Sessions), NEW x \in Sessions, NEW s \in Nat, s <= Len(l)
    PROVE  SubSeq(Append(l, x), 1, s) = SubSeq(l, 1, s)
<1>1. Append(l, x) \in Seq(Sessions) /\ Len(Append(l, x)) = Len(l) + 1
  OBVIOUS
<1>2. \A i \in 1..s : Append(l, x)[i] = l[i]
  OBVIOUS
<1> QED BY <1>1, <1>2

\* What is declared or on the disk is a content.
LEMMA HeldIsContent == ASSUME TypeOK, NEW s \in Steps PROVE Held(s) \subseteq Contents
BY DEF TypeOK, Held, Declared, OnDisk

\* What the snapshots declare depends on them alone.
LEMMA SameDeclared ==
    ASSUME UNCHANGED snaps PROVE \A s \in Steps : Declared(s)' = Declared(s)
BY DEF Declared, Present, Names

\* After a commit the snapshots declare only what they did and what was kept.
LEMMA CommitDeclares ==
    ASSUME TypeOK, SnapshotInv, SyncCommit
    PROVE  /\ Referenced' \subseteq Referenced \cup (KeepNow \cap Complete(store))
           /\ \A s \in Steps :
                  Declared(s)' \subseteq Declared(s) \cup
                      (IF s \in KeepNow \cap Complete(store) THEN {store[s]} ELSE {})
<1>1. PICK new \in Versions : new = LastVersion + 1
  BY CommitStep
<1>2. /\ Names(new)' = KeepNow \cap Complete(store)
      /\ \A s \in KeepNow \cap Complete(store) : snaps'[new][s] = store[s]
      /\ \A v \in Versions : v # new => snaps'[v] = snaps[v]
  BY <1>1, CommitStep DEF Names
<1> QED BY <1>1, <1>2 DEF Declared, Present, Names, Referenced

\* A step that is not a commit adds no snapshot and takes away at most whole ones,
\* never the advertised one.
LEMMA SnapshotsShrink ==
    ASSUME IInv, [Next]_vars, ~SyncCommit
    PROVE  /\ \A v \in Versions :
                  Present(v)' => Names(v)' = {} \/ (Present(v) /\ snaps'[v] = snaps[v])
           /\ latest # 0 => snaps'[latest] = snaps[latest]
<1> USE DEF durable, disk, run
<1>0. latest # 0 => latest \in DOMAIN snaps
  BY BoundsAssumption DEF IInv, TypeOK, Versions
<1>1. \A v \in OldVersions : v # latest
  BY BoundsAssumption DEF OldVersions, IInv, TypeOK, Versions
<1>2. CASE UNCHANGED snaps
  BY <1>2 DEF Present, Names
<1>3. ASSUME NEW v \in Versions, PruneSnapshot(v)
      PROVE  /\ \A u \in Versions :
                    Present(u)' => Names(u)' = {} \/ (Present(u) /\ snaps'[u] = snaps[u])
             /\ latest # 0 => snaps'[latest] = snaps[latest]
  <2>1. snaps'[v] = None /\ v # latest /\ \A u \in DOMAIN snaps : u # v => snaps'[u] = snaps[u]
    BY <1>1, <1>3 DEF PruneSnapshot, IInv, TypeOK
  <2> QED BY <1>0, <2>1 DEF Present, Names, IInv, TypeOK
<1>4. ASSUME NEW v \in OldVersions, snaps' = [snaps EXCEPT ![v] = << >>]
      PROVE  /\ \A u \in Versions :
                    Present(u)' => Names(u)' = {} \/ (Present(u) /\ snaps'[u] = snaps[u])
             /\ latest # 0 => snaps'[latest] = snaps[latest]
  <2>1. DOMAIN << >> = {} /\ v \in DOMAIN snaps
    BY DEF OldVersions, IInv, TypeOK
  <2>2. Names(v)' = {} /\ v # latest /\ \A u \in DOMAIN snaps : u # v => snaps'[u] = snaps[u]
    BY <1>1, <1>4, <2>1 DEF Names
  <2> QED BY <1>0, <2>2 DEF Present, Names, IInv, TypeOK
<1>5. CASE Stopped
  BY <1>2, <1>4, <1>5 DEF Stopped, HalfDropped
<1> QED
  BY <1>2, <1>3, <1>5
  DEF Next, Restore, Train, Sync, vars, Start, RestoreCopy, RestoreAside, RestorePlace,
      RestoreFinish, Resume, Save, Rotate, Trained, SelectBest, WriteSummary, SyncPlan,
      UploadCopy, UploadAside, UploadPlace, SyncAdvertise, PruneStore, PruneDebris, SyncDone,
      SessionEnds, MachineLost

LEMMA OnlyCommitDeclares ==
    ASSUME IInv, [Next]_vars, ~SyncCommit
    PROVE  Referenced' \subseteq Referenced /\ \A s \in Steps : Declared(s)' \subseteq Declared(s)
BY SnapshotsShrink DEF Declared, Present, Names, Referenced

\* What comes to the disk is what a save makes and what a restore places.
LEMMA WhatReachesTheDisk ==
    ASSUME IInv, [Next]_vars, NEW s \in Steps, NEW c \in OnDisk(s)'
    PROVE  \/ c \in OnDisk(s)
           \/ Save /\ s = Len(line) + 1 /\ c = local'[s]
           \/ RestorePlace(s) /\ c = store[s]
<1> USE DEF durable, disk, run, IInv, TypeOK
<1>0. c \in Contents /\ c \in {local'[s], localBak'[s]} /\ c # None /\ c # Broken
  BY ContentAssumption DEF OnDisk
<1>1. CASE UNCHANGED <<local, localBak>>
  BY <1>0, <1>1 DEF OnDisk
<1>2. ASSUME NEW t \in Steps, RestoreCopy(t)
      PROVE  c \in OnDisk(s)
  BY <1>0, <1>2 DEF RestoreCopy, OnDisk
<1>3. ASSUME NEW t \in Steps, RestoreAside(t)
      PROVE  c \in OnDisk(s)
  BY <1>0, <1>3 DEF RestoreAside, OnDisk
<1>4. ASSUME NEW t \in Steps, RestorePlace(t)
      PROVE  c \in OnDisk(s) \/ (RestorePlace(s) /\ c = store[s])
  <2>1. CASE t = s
    BY <1>0, <1>4, <2>1 DEF RestorePlace, OnDisk
  <2>2. CASE t # s
    BY <1>0, <1>4, <2>2 DEF RestorePlace, OnDisk
  <2> QED BY <2>1, <2>2
<1>5. CASE RestoreFinish
  BY <1>0, <1>5 DEF RestoreFinish, OnDisk
<1>6. CASE Save
  BY <1>0, <1>6 DEF Save, OnDisk
<1>7. CASE Rotate
  BY <1>0, <1>7 DEF Rotate, OnDisk
<1>8. CASE SessionEnds
  BY <1>0, <1>8 DEF SessionEnds, HalfSaved, OnDisk
<1>9. CASE MachineLost
  BY <1>0, <1>9 DEF MachineLost
<1> QED
  BY <1>1, <1>2, <1>3, <1>4, <1>5, <1>6, <1>7, <1>8, <1>9
  DEF Next, Restore, Train, Sync, vars, Start, Resume, Trained, SelectBest, WriteSummary,
      SyncPlan, UploadCopy, UploadAside, UploadPlace, SyncCommit, SyncAdvertise, PruneStore,
      PruneDebris, PruneSnapshot, SyncDone

\* What comes to the store was there, set aside, or on the disk.
LEMMA WhatReachesTheStore ==
    ASSUME IInv, [Next]_vars, NEW s \in Steps, NEW c \in {store'[s], aside'[s]} \cap Contents
    PROVE  c \in Everywhere(s)
<1> USE DEF durable, disk, run, IInv, TypeOK
<1>0. c \in Contents /\ c # None /\ c # Broken
  BY ContentAssumption
<1>1. CASE UNCHANGED <<store, aside>>
  BY <1>0, <1>1 DEF Everywhere
<1>2. ASSUME NEW t \in Steps, UploadCopy(t) PROVE c \in Everywhere(s)
  BY <1>0, <1>2 DEF UploadCopy, Everywhere
<1>3. ASSUME NEW t \in Steps, UploadAside(t) PROVE c \in Everywhere(s)
  BY <1>0, <1>3 DEF UploadAside, Everywhere
<1>4. ASSUME NEW t \in Steps, UploadPlace(t) PROVE c \in Everywhere(s)
  BY <1>0, <1>4 DEF UploadPlace, Everywhere, Held, OnDisk
<1>5. ASSUME NEW t \in Steps, PruneStore(t) PROVE c \in Everywhere(s)
  BY <1>0, <1>5 DEF PruneStore, Everywhere
<1>6. CASE PruneDebris
  BY <1>0, <1>6 DEF PruneDebris, Everywhere
<1>7. CASE Stopped
  BY <1>0, <1>7 DEF Stopped, HalfPruned, Everywhere
<1> QED
  BY <1>1, <1>2, <1>3, <1>4, <1>5, <1>6, <1>7
  DEF Next, Restore, Train, Sync, vars, Start, RestoreCopy, RestoreAside, RestorePlace,
      RestoreFinish, Resume, Save, Rotate, Trained, SelectBest, WriteSummary, SyncPlan,
      SyncCommit, SyncAdvertise, PruneSnapshot, SyncDone, SessionEnds, MachineLost

\* A save makes a checkpoint of its own step, and nothing else makes one.
LEMMA LengthStep == ASSUME IInv, LengthInv, [Next]_vars PROVE LengthInv'
<1> SUFFICES ASSUME NEW s \in Steps, NEW c \in Everywhere(s)', c \notin Everywhere(s)
             PROVE  Len(c.line) = s
  BY DEF LengthInv
<1>1. c \in Held(s)'
  BY WhatReachesTheStore DEF Everywhere
<1>2. c \in Contents
  <2>1. TypeOK'
    BY TypeStep DEF IInv
  <2> QED BY <1>1, <2>1 DEF TypeOK, Held, Declared, OnDisk
<1>3. CASE c \in Declared(s)'
  <2>1. SyncCommit => c \in Everywhere(s)
    BY <1>2, <1>3, CommitDeclares DEF IInv, Everywhere, Held
  <2> QED BY <1>3, <2>1, OnlyCommitDeclares DEF Everywhere, Held
<1>4. CASE c \in OnDisk(s)'
  <2>1. Save /\ s = Len(line) + 1 /\ c = local'[s]
    BY <1>2, <1>4, WhatReachesTheDisk DEF Everywhere, Held
  <2>2. c.line = line' /\ line' = Append(line, session) /\ line \in Seq(Sessions)
    BY <2>1 DEF Save, IInv, TypeOK
  <2>3. session \in Sessions
    BY <2>1 DEF Save, IInv, TypeOK
  <2> QED BY <2>1, <2>2, <2>3
<1> QED BY <1>1, <1>3, <1>4 DEF Held

-----------------------------------------------------------------------------
\* What the versions from the rollback's on declare are candidates of the next one.
LEMMA RetainedAreCandidates ==
    ASSUME IInv, NEW v \in Versions, Present(v), v >= latest - 1
    PROVE  Names(v) \subseteq Candidates
<1>1. Resolves(v)
  BY DEF IInv, SnapshotInv, RetainedSnapshotsResolve
<1>2. \A s \in Names(v) : store[s] \in Contents
  BY <1>1 DEF Resolves, IInv, TypeOK
<1> QED BY <1>2, ContentAssumption DEF Candidates, Referenced

\* The advertised snapshot reaches as far as every earlier one.
LEMMA ReachStep == ASSUME IInv, ReachInv, [Next]_vars PROVE ReachInv'
<1> USE DEF durable, disk, run
<1>0. latest \in 0..MaxSnapshot /\ LastVersion \in 0..MaxSnapshot /\ MaxSnapshot \in Nat
  BY LastVersionIsLast, BoundsAssumption DEF IInv, TypeOK
<1>1. CASE SyncCommit
  <2>1. PICK new \in Versions : new = LastVersion + 1
    BY <1>1, CommitStep DEF IInv
  <2>2. /\ LastVersion' = new /\ Names(new)' = KeepNow \cap Complete(store)
        /\ \A v \in Versions : v # new => snaps'[v] = snaps[v]
        /\ latest' = latest /\ latest < new
    <3>1. latest # 0 => Present(latest)
      BY DEF IInv, SnapshotInv
    <3>2. latest <= LastVersion
      BY <1>0, <3>1, LastVersionIsLast DEF Present
    <3> QED BY <1>0, <1>1, <2>1, <3>2, CommitStep DEF SyncCommit, IInv
  <2>3. KeepNow \subseteq Complete(store)
    BY <1>1 DEF SyncCommit, IInv, UploadInv
  <2>4. \A v \in Versions : Present(v)' /\ v <= latest' =>
            \A s \in Names(v)' : \E t \in Names(latest)' : s <= t
    <3> SUFFICES ASSUME NEW v \in Versions, Present(v)', v <= latest, NEW s \in Names(v)'
                 PROVE  \E t \in Names(latest)' : s <= t
      BY <2>2
    <3>1. v # new /\ latest # new /\ latest \in Versions
      BY <1>0, <2>2 DEF Versions
    <3>2. Present(v) /\ s \in Names(v) /\ Names(latest)' = Names(latest)
      BY <2>2, <3>1 DEF Present, Names
    <3> QED BY <3>2 DEF ReachInv
  <2>5. \A v \in Versions : Present(v)' /\ v > latest' =>
            \A s \in Names(v)' : \E t \in Names(LastVersion)' : s <= t
    <3> SUFFICES ASSUME NEW v \in Versions, Present(v)', v > latest, NEW s \in Names(v)'
                 PROVE  \E t \in KeepNow : s <= t
      BY <2>2, <2>3 DEF Names
    <3>1. CASE v = new
      <4>1. s \in KeepNow /\ s \in Nat
        BY <2>2, <3>1, KeepNowKeepsNewest DEF IInv, Steps
      <4> QED BY <4>1
    <3>2. CASE v # new
      <4>1. Present(v) /\ s \in Names(v) /\ v >= latest - 1
        BY <1>0, <2>2, <3>2 DEF Present, Names, Versions
      <4> QED BY <4>1, RetainedAreCandidates, KeepNowKeepsNewest DEF IInv
    <3> QED BY <3>1, <3>2
  <2> QED BY <2>4, <2>5 DEF ReachInv
<1>2. CASE SyncAdvertise
  <2>1. latest' = LastVersion /\ snaps' = snaps /\ pc' # "advertise" /\ pc = "advertise"
    BY <1>2 DEF SyncAdvertise
  <2> SUFFICES ASSUME NEW v \in Versions, Present(v), v <= LastVersion, NEW s \in Names(v)
               PROVE  \E t \in Names(LastVersion) : s <= t
    BY <2>1 DEF ReachInv, Present, Names
  <2>2. CASE v > latest
    BY <2>1, <2>2 DEF ReachInv
  <2>3. CASE ~(v > latest)
    <3>1. v <= latest /\ latest # 0
      BY <1>0, <2>3 DEF Versions
    <3>2. PICK t \in Names(latest) : s <= t
      BY <3>1 DEF ReachInv
    <3>3. PICK u \in Names(LastVersion) : t <= u
      BY <2>1, <3>1 DEF IInv, CommitInv
    <3>4. s \in Nat /\ t \in Nat /\ u \in Nat
      BY <2>1, <3>1 DEF IInv, TypeOK, SnapshotInv, CommitInv, Present, Steps
    <3> QED BY <3>2, <3>3, <3>4
  <2> QED BY <2>2, <2>3
<1>3. CASE ~SyncCommit /\ ~SyncAdvertise
  <2>1. latest' = latest
    BY <1>3
    DEF Next, Restore, Train, Sync, vars, Start, RestoreCopy, RestoreAside, RestorePlace,
        RestoreFinish, Resume, Save, Rotate, Trained, SelectBest, WriteSummary, SyncPlan,
        UploadCopy, UploadAside, UploadPlace, PruneStore, PruneDebris, PruneSnapshot, SyncDone,
        SessionEnds, MachineLost, Stopped
  <2>2. ASSUME NEW v \in Versions, Present(v)', v <= latest, NEW s \in Names(v)'
        PROVE  \E t \in Names(latest)' : s <= t
    <3>1. Present(v) /\ s \in Names(v)
      BY <1>3, <2>2, SnapshotsShrink DEF Names
    <3>2. Names(latest)' = Names(latest)
      <4>1. latest # 0
        BY <1>0, <2>2 DEF Versions
      <4> QED BY <1>3, <2>1, <4>1, SnapshotsShrink DEF Names
    <3> QED BY <2>2, <3>1, <3>2 DEF ReachInv
  <2>3. CASE UNCHANGED vars
    BY <2>3 DEF ReachInv, vars, Present, Names, LastVersion
  <2>4. CASE pc' # "advertise"
    BY <2>1, <2>2, <2>4 DEF ReachInv
  <2> QED BY <1>3, <2>3, <2>4, OnlyCommitsAdvertise
<1> QED BY <1>1, <1>2, <1>3

-----------------------------------------------------------------------------
\* Where a session that has loaded what it continues comes from.
LEMMA HowItRuns ==
    ASSUME [Next]_vars, Running', ~Resume
    PROVE  /\ Running /\ localBak' = localBak
           /\ Save \/ line' = line
           /\ Save \/ Rotate \/ local' = local
<1> USE DEF Running, durable, disk, run
<1>1. ASSUME Start \/ RestoreFinish \/ Stopped PROVE FALSE
  BY <1>1 DEF Start, RestoreFinish, Stopped
<1>2. ASSUME NEW s \in Steps, RestoreCopy(s) \/ RestoreAside(s) \/ RestorePlace(s) PROVE FALSE
  BY <1>2 DEF RestoreCopy, RestoreAside, RestorePlace
<1>3. CASE Train
  BY <1>3 DEF Train, Save, Rotate, Trained, SelectBest, WriteSummary
<1>4. CASE Sync
  BY <1>4 DEF Sync, SyncPlan, UploadCopy, UploadAside, UploadPlace, SyncCommit, SyncAdvertise,
              PruneStore, PruneDebris, PruneSnapshot, SyncDone
<1>5. CASE UNCHANGED vars
  BY <1>5 DEF vars
<1> QED BY <1>1, <1>2, <1>3, <1>4, <1>5 DEF Next, Restore, SessionEnds, MachineLost

\* A restore leaves every advertised checkpoint on the disk and nothing half replaced.
LEMMA RestoreStep == ASSUME IInv, RestoreInv, [Next]_vars PROVE RestoreInv'
<1> USE DEF durable, disk, run, RestoreInv, IInv, TypeOK
<1>1. CASE Start
  <2>1. /\ UNCHANGED <<local, localBak, latest, snaps>> /\ pc = "down"
        /\ IF latest = 0 THEN pc' = "resume" ELSE pc' = "restore" /\ todo' = Names(latest)
    BY <1>1 DEF Start
  <2> QED BY <2>1 DEF Names
<1>2. ASSUME NEW s \in Steps, RestoreCopy(s) PROVE RestoreInv'
  <2>1. /\ UNCHANGED <<latest, snaps, todo>> /\ pc = "restore" /\ pc' = "replace" /\ s \in todo
        /\ localBak'[s] = None /\ \A t \in Steps : t # s => localBak'[t] = localBak[t]
        /\ \A t \in Steps : t # s => local'[t] = local[t]
    BY <1>2 DEF RestoreCopy, First
  <2> QED BY <2>1 DEF Names, Complete
<1>3. ASSUME NEW s \in Steps, RestoreAside(s) PROVE RestoreInv'
  <2>1. /\ UNCHANGED <<latest, snaps, todo>> /\ pc = "replace" /\ pc' = pc /\ s \in todo
        /\ \A t \in Steps : t # s => localBak'[t] = localBak[t]
        /\ \A t \in Steps : t # s => local'[t] = local[t]
    BY <1>3 DEF RestoreAside, First
  <2> QED BY <2>1 DEF Names, Complete
<1>4. ASSUME NEW s \in Steps, RestorePlace(s) PROVE RestoreInv'
  <2>1. /\ UNCHANGED <<latest, snaps>> /\ pc = "replace" /\ pc' = "restore" /\ s \in todo
        /\ localBak'[s] = None /\ \A t \in Steps : t # s => localBak'[t] = localBak[t]
        /\ local'[s] = store[s] /\ \A t \in Steps : t # s => local'[t] = local[t]
        /\ todo' = todo \ {s}
    BY <1>4 DEF RestorePlace, First
  <2>2. latest # 0 /\ s \in Names(latest) /\ store[s] \in Contents
    BY <2>1, LatestResolves
  <2> QED BY <2>1, <2>2 DEF Names, Complete
<1>5. CASE RestoreFinish
  <2>1. /\ UNCHANGED <<latest, snaps, localBak>> /\ pc = "restore" /\ pc' = "resume" /\ todo = {}
        /\ \A t \in Steps : t \notin Superseded => local'[t] = local[t]
    BY <1>5 DEF RestoreFinish
  <2>2. \A t \in Superseded : t \notin Names(latest)
    BY DEF Superseded
  <2>3. Names(latest) \subseteq Complete(local)'
    BY <2>1, <2>2 DEF Complete
  <2> QED BY <2>1, <2>3 DEF Names
<1>6. CASE Running'
  <2>1. CASE Resume
    BY <1>6, <2>1 DEF Resume, Running
  <2>2. CASE ~Resume
    <3>1. Running /\ localBak' = localBak
      BY <1>6, <2>2, HowItRuns
    <3> QED BY <1>6, <3>1 DEF Running
  <2> QED BY <2>1, <2>2
<1>7. CASE SessionEnds \/ MachineLost
  <2>1. pc' = "down" /\ latest' = latest /\ \A s \in Steps : localBak'[s] # None => localBak[s] # None
    BY <1>7 DEF SessionEnds, MachineLost, Stopped
  <2>2. latest # 0 => Names(latest)' = Names(latest)
    <3>1. ~SyncCommit
      BY <2>1 DEF SyncCommit
    <3> QED BY <2>1, <3>1, SnapshotsShrink DEF Names
  <2> QED BY <2>1, <2>2
<1>8. CASE UNCHANGED vars
  BY <1>8 DEF vars, Names, Complete
<1>9. ASSUME Train \/ Sync PROVE Running' \/ UNCHANGED vars
  <2>1. CASE Train
    BY <2>1 DEF Running, Train, Save, Rotate, Trained, SelectBest, WriteSummary
  <2>2. CASE Sync
    BY <2>2 DEF Running, Sync, SyncPlan, UploadCopy, UploadAside, UploadPlace, SyncCommit,
                SyncAdvertise, PruneStore, PruneDebris, PruneSnapshot, SyncDone
  <2> QED BY <1>9, <2>1, <2>2
<1>10. Resume => Running'
  BY DEF Resume, Running
<1> QED
  BY <1>1, <1>2, <1>3, <1>4, <1>5, <1>6, <1>7, <1>8, <1>9, <1>10 DEF Next, Restore

\* The digest that a snapshot is known to declare is declared.
LEMMA KnownIsDeclared ==
    ASSUME NEW s \in Referenced PROVE KnownDigest(s) \in Declared(s)
<1> DEFINE V == {v \in Versions : Present(v) /\ s \in Names(v)}
<1>1. V \in SUBSET (0..MaxSnapshot) /\ V # {} /\ MaxSnapshot \in Nat
  BY BoundsAssumption DEF Versions, Referenced
<1>2. MaxOf(V) \in V
  <2> HIDE DEF V
  <2> QED BY <1>1, MaxOfIsMax
<1> QED BY <1>2 DEF KnownDigest, Declared

\* What a snapshot in the making will take from the store is the disk's or a snapshot's.
LEMMA ReuseStep == ASSUME IInv, ReuseInv, [Next]_vars PROVE ReuseInv'
<1> USE DEF durable, disk, run
<1>1. CASE UNCHANGED vars
  BY <1>1
  DEF ReuseInv, vars, Held, Declared, OnDisk, Referenced, Names, Present, KeepNow, Candidates, Dirs
<1>2. CASE SyncPlan
  <2>1. KeepNow' = KeepNow /\ \A s \in Steps : Held(s)' = Held(s)
    BY <1>2 DEF SyncPlan, Held, Declared, OnDisk, Referenced, Names, Present, KeepNow, Candidates,
                Dirs
  <2>2. ASSUME NEW s \in KeepNow \ todo' PROVE s \in Steps /\ store[s] \in Held(s)
    <3>1. s \in Steps /\ Reusable(s)
      BY <1>2, <2>2, KeepNowKeepsNewest DEF SyncPlan, IInv
    <3>2. CASE local[s] # None
      BY <3>1, <3>2 DEF Reusable, Held, OnDisk
    <3>3. CASE local[s] = None
      BY <3>1, <3>3, KnownIsDeclared DEF Reusable, Held
    <3> QED BY <3>1, <3>2, <3>3
  <2> QED BY <1>2, <2>1, <2>2 DEF ReuseInv, SyncPlan
<1>3. ASSUME NEW s \in Steps, UploadCopy(s) \/ UploadAside(s) \/ UploadPlace(s) PROVE ReuseInv'
  <2>1. KeepNow' = KeepNow /\ KeepNow \subseteq Steps /\ \A t \in Steps : Held(t)' = Held(t)
    <3>1. \A t \in Steps : Held(t)' = Held(t)
      BY <1>3 DEF UploadCopy, UploadAside, UploadPlace, Held, Declared, OnDisk, Names, Present
    <3> QED BY <1>3, <3>1, CopiesKeepThePlan, KeepNowKeepsNewest DEF IInv
  <2>2. /\ s \in todo /\ pc \in {"upload", "swap"}
        /\ \A t \in Steps : t # s => store'[t] = store[t]
    BY <1>3 DEF UploadCopy, UploadAside, UploadPlace, First, IInv, TypeOK
  <2>3. CASE todo' = todo
    BY <2>1, <2>2, <2>3 DEF ReuseInv
  <2>4. CASE UploadPlace(s)
    <3>1. todo' = todo \ {s} /\ store'[s] = local[s] /\ local[s] \in Contents
      BY <2>4 DEF UploadPlace, IInv, TypeOK
    <3>2. store'[s] \in Held(s)
      BY <3>1 DEF Held, OnDisk
    <3> QED BY <2>1, <2>2, <3>1, <3>2 DEF ReuseInv
  <2> QED BY <1>3, <2>3, <2>4 DEF UploadCopy, UploadAside
<1>4. CASE pc' \notin {"upload", "swap"}
  BY <1>4 DEF ReuseInv
<1> QED BY <1>1, <1>2, <1>3, <1>4, OnlySyncCopies

\* The newest checkpoint of a session survives what its trainer rotates out.
LEMMA CurrentStep == ASSUME IInv, LengthInv, CurrentInv, [Next]_vars PROVE CurrentInv'
<1> USE DEF durable, disk, run, IInv, TypeOK
<1> SUFFICES ASSUME Running', line' # << >>
             PROVE  Len(line') \in Steps /\ local'[Len(line')] \in Contents
  BY DEF CurrentInv
<1>1. CASE Resume
  <2>1. Complete(local) # {} /\ line' = local[MaxOf(Complete(local))].line /\ local' = local
    BY <1>1 DEF Resume
  <2>2. MaxOf(Complete(local)) \in Complete(local)
    BY <2>1, NewestStep DEF Complete
  <2>3. Len(line') = MaxOf(Complete(local))
    BY <2>1, <2>2 DEF LengthInv, Everywhere, Held, OnDisk, Complete
  <2> QED BY <2>1, <2>2, <2>3 DEF Complete
<1>2. CASE Save
  <2>1. /\ line' = Append(line, session) /\ line \in Seq(Sessions) /\ Len(line) + 1 \in Steps
        /\ session \in Sessions
    BY <1>2, BoundsAssumption DEF Save, Steps
  <2>2. Len(line') = Len(line) + 1 /\ line' \in Seq(Sessions)
    BY <2>1
  <2>3. [line |-> line', best |-> best'] \in Contents
    BY <1>2, <2>1, <2>2 DEF Save, Contents
  <2> QED BY <1>2, <2>1, <2>2, <2>3 DEF Save
<1>3. CASE ~Resume /\ ~Save
  <2>1. Running /\ line' = line /\ (Rotate \/ local' = local)
    BY <1>3, HowItRuns
  <2>2. Len(line) \in Steps /\ local[Len(line)] \in Contents
    BY <2>1 DEF CurrentInv
  <2>3. Len(line) \notin RotatedOut
    BY DEF RotatedOut
  <2> QED BY <2>1, <2>2, <2>3 DEF Rotate
<1> QED BY <1>1, <1>2, <1>3

-----------------------------------------------------------------------------
\* Only a save makes something that was neither declared nor on the disk.
LEMMA OnlySaveMakes ==
    ASSUME IInv, RestoreInv, ReuseInv, [Next]_vars, NEW s \in Steps, NEW c \in Held(s)'
    PROVE  c \in Held(s) \/ (Save /\ s = Len(line) + 1 /\ c = local'[s])
<1>1. CASE c \in Declared(s)'
  <2>1. CASE SyncCommit
    <3>1. s \in KeepNow \cap Complete(store) => store[s] \in Held(s)
      BY <2>1 DEF SyncCommit, ReuseInv
    <3> QED BY <1>1, <2>1, <3>1, CommitDeclares DEF IInv, Held
  <2>2. CASE ~SyncCommit
    BY <1>1, <2>2, OnlyCommitDeclares DEF Held
  <2> QED BY <2>1, <2>2
<1>2. CASE c \in OnDisk(s)'
  <2>1. ASSUME RestorePlace(s) PROVE store[s] \in Held(s)
    <3>1. latest # 0 /\ s \in Names(latest)
      BY <2>1 DEF RestorePlace, First, RestoreInv
    <3>2. Present(latest) /\ latest \in Versions /\ store[s] = snaps[latest][s]
      BY <3>1, LatestResolves DEF Present
    <3> QED BY <3>1, <3>2 DEF Held, Declared
  <2> QED BY <1>2, <2>1, WhatReachesTheDisk DEF Held
<1> QED BY <1>1, <1>2 DEF Held

\* What a save makes: one step more of the session's own line.
LEMMA WhatASaveMakes ==
    ASSUME IInv, Save
    PROVE  /\ Running /\ line \in Seq(Sessions) /\ session \in Sessions
           /\ line' = Append(line, session) /\ line' \in Seq(Sessions) /\ Len(line') = Len(line) + 1
           /\ local'[Len(line) + 1].line = line'
<1>1. line \in Seq(Sessions) /\ session \in Sessions /\ line' = Append(line, session)
  BY DEF Save, IInv, TypeOK
<1>2. Len(line) + 1 \in Steps
  BY <1>1, BoundsAssumption DEF Save, Steps
<1> QED BY <1>1, <1>2 DEF Save, Running, IInv, TypeOK

\* What is declared and on the disk stays one line, which the session continues.
LEMMA OneLineStep ==
    ASSUME IInv, LIInv, [Next]_vars, ~stray PROVE OneLine'
<1> USE DEF LIInv
<1> SUFFICES ASSUME NEW s \in Steps, NEW t \in Steps, s <= t, NEW c \in Held(s)', NEW d \in Held(t)'
             PROVE  SubSeq(d.line, 1, s) = c.line
  BY DEF OneLine
<1>0. s \in Nat /\ t \in Nat
  BY DEF Steps
<1>1. CASE c \in Held(s) /\ d \in Held(t)
  BY <1>1 DEF LineInv, OneLine
<1>2. CASE c \in Held(s) /\ d \notin Held(t)
  <2>1. Save /\ t = Len(line) + 1 /\ d = local'[t]
    BY <1>2, OnlySaveMakes
  <2>2. d.line = line' /\ line' = Append(line, session) /\ Running
    BY <2>1, WhatASaveMakes
  <2>3. s <= Len(line) /\ SubSeq(line, 1, s) = c.line
    BY <1>2, <2>2 DEF LineInv, Continues
  <2> QED BY <1>0, <2>1, <2>2, <2>3, WhatASaveMakes, PrefixStays
<1>3. CASE c \notin Held(s) /\ d \in Held(t)
  <2>1. Save /\ s = Len(line) + 1
    BY <1>3, OnlySaveMakes
  <2>2. Running /\ Len(line) \in Nat
    BY <2>1, WhatASaveMakes
  <2>3. t <= Len(line)
    BY <1>3, <2>2 DEF LineInv, Continues
  <2> QED BY <1>0, <2>1, <2>2, <2>3
<1>4. CASE c \notin Held(s) /\ d \notin Held(t)
  <2>1. Save /\ s = Len(line) + 1 /\ t = s /\ c = local'[s] /\ d = local'[s]
    BY <1>4, OnlySaveMakes
  <2>2. c.line = line' /\ d.line = line' /\ Len(line') = s /\ line' \in Seq(Sessions)
    BY <2>1, WhatASaveMakes
  <2> QED BY <2>2, WholePrefix
<1> QED BY <1>1, <1>2, <1>3, <1>4

\* A session that resumes loads a checkpoint that reaches as far as all there is.
LEMMA ContinuesStep ==
    ASSUME IInv, LIInv, [Next]_vars, ~stray PROVE Continues'
<1> USE DEF LIInv
<1> SUFFICES ASSUME Running', NEW s \in Steps, NEW c \in Held(s)'
             PROVE  s <= Len(line') /\ SubSeq(line', 1, s) = c.line
  BY DEF Continues
<1>0. s \in Nat
  BY DEF Steps
<1>1. CASE Resume
  <2>1. c \in Held(s)
    BY <1>1, OnlySaveMakes DEF Resume, Save
  <2>2. \E t \in Complete(local) : s <= t
    <3>1. CASE c \in Declared(s)
      <4>1. s \in Referenced
        BY <3>1 DEF Declared, Referenced
      <4>2. latest # 0 => Names(latest) \subseteq Complete(local)
        BY <1>1 DEF Resume, RestoreInv
      <4> QED BY <4>1, <4>2 DEF LineInv, WithinReach
    <3>2. CASE c \in OnDisk(s)
      <4>1. localBak[s] = None
        BY <1>1 DEF Resume, RestoreInv
      <4>2. s \in Complete(local)
        BY <3>2, <4>1, ContentAssumption DEF OnDisk, Complete
      <4> QED BY <1>0, <4>2
    <3> QED BY <2>1, <3>1, <3>2 DEF Held
  <2> DEFINE m == MaxOf(Complete(local))
  <2>3. m \in Complete(local) /\ \A t \in Complete(local) : t <= m
    BY <2>2, NewestStep DEF Complete
  <2>4. m \in Steps /\ m \in Nat /\ s <= m
    BY <1>0, <2>2, <2>3 DEF Complete, Steps
  <2>5. local[m] \in Held(m)
    BY <2>3 DEF Complete, Held, OnDisk
  <2>6. line' = local[m].line
    BY <1>1, <2>3 DEF Resume
  <2> HIDE DEF m
  <2>7. Len(line') = m
    BY <2>4, <2>5, <2>6 DEF LengthInv, Everywhere
  <2>8. SubSeq(line', 1, s) = c.line
    BY <2>1, <2>4, <2>5, <2>6 DEF LineInv, OneLine
  <2> QED BY <2>4, <2>7, <2>8
<1>2. CASE ~Resume /\ ~Save
  <2>1. Running /\ line' = line /\ c \in Held(s)
    BY <1>2, HowItRuns, OnlySaveMakes
  <2> QED BY <2>1 DEF LineInv, Continues
<1>3. CASE Save
  <2>1. CASE c \in Held(s)
    <3>1. s <= Len(line) /\ SubSeq(line, 1, s) = c.line
      BY <1>3, <2>1, WhatASaveMakes DEF LineInv, Continues
    <3>2. SubSeq(line', 1, s) = SubSeq(line, 1, s)
      BY <1>0, <1>3, <3>1, WhatASaveMakes, PrefixStays
    <3>3. s <= Len(line')
      BY <1>0, <1>3, <3>1, WhatASaveMakes
    <3> QED BY <3>1, <3>2, <3>3
  <2>2. CASE c \notin Held(s)
    <3>1. s = Len(line) + 1 /\ c = local'[s]
      BY <2>2, OnlySaveMakes
    <3>2. c.line = line' /\ Len(line') = s /\ line' \in Seq(Sessions)
      BY <1>3, <3>1, WhatASaveMakes
    <3> QED BY <1>0, <3>2, WholePrefix
  <2> QED BY <2>1, <2>2
<1> QED BY <1>1, <1>2, <1>3

\* What a running session's snapshots reference is within its newest checkpoint.
LEMMA RunningReaches ==
    ASSUME IInv, CurrentInv, Continues, Running, NEW s \in Referenced
    PROVE  s <= Len(line) /\ Len(line) \in Complete(local)
<1>1. PICK c \in Held(s) : s \in Steps
  BY ReferencesAreSteps DEF IInv, Held, Declared, Referenced
<1>2. s <= Len(line) /\ s \in Nat /\ s >= 1
  BY <1>1 DEF Continues, Steps
<1>3. line # << >>
  BY <1>2
<1> QED BY <1>2, <1>3 DEF CurrentInv, Complete

\* A machine that was lost with a snapshot unadvertised stays lost.
LEMMA StrayStays == ASSUME [Next]_vars, stray PROVE stray'
<1> USE DEF durable, disk, run
<1> QED
  BY DEF Next, Restore, Train, Sync, vars, Start, RestoreCopy, RestoreAside, RestorePlace,
         RestoreFinish, Resume, Save, Rotate, Trained, SelectBest, WriteSummary, SyncPlan,
         UploadCopy, UploadAside, UploadPlace, SyncCommit, SyncAdvertise, PruneStore, PruneDebris,
         PruneSnapshot, SyncDone, SessionEnds, MachineLost

\* Nothing referenced goes out of reach: what a restore moves or removes is no newer
\* than LATEST, and a lost disk had nothing that LATEST did not reach.
LEMMA WithinReachStep ==
    ASSUME IInv, LIInv, [Next]_vars, CurrentInv', Continues', IInv', ~stray' PROVE WithinReach'
<1> USE DEF LIInv, durable, disk, run
<1>0. ~stray
  BY StrayStays
<1>1. CASE Running'
  <2>1. ASSUME NEW s \in Referenced' PROVE s <= Len(line') /\ Len(line') \in Complete(local)'
    <3>0. PICK v \in Versions : Present(v)' /\ s \in Names(v)'
      BY <2>1 DEF Referenced
    <3>1. s \in Steps /\ snaps'[v][s] \in Held(s)'
      BY <3>0 DEF IInv, TypeOK, Held, Declared
    <3>2. s <= Len(line') /\ s \in Nat /\ s >= 1
      BY <1>1, <3>1 DEF Continues, Steps
    <3>3. line' # << >>
      BY <3>2
    <3> QED BY <1>1, <3>2, <3>3 DEF CurrentInv, Complete
  <2> QED BY <2>1 DEF WithinReach
<1>2. CASE UNCHANGED vars
  BY <1>0, <1>2 DEF vars, LineInv, WithinReach, Referenced, Present, Names, Complete
<1>3. CASE ~Running' /\ ~UNCHANGED vars
  <2>1. \/ Start \/ \E s \in Steps : RestoreCopy(s) \/ RestoreAside(s) \/ RestorePlace(s)
        \/ RestoreFinish \/ SessionEnds \/ MachineLost
    <3>1. ASSUME Train \/ Sync PROVE Running'
      <4>1. CASE Train
        BY <4>1 DEF Running, Train, Save, Rotate, Trained, SelectBest, WriteSummary
      <4>2. CASE Sync
        BY <1>3, <4>2
        DEF Running, vars, Sync, SyncPlan, UploadCopy, UploadAside, UploadPlace, SyncCommit,
            SyncAdvertise, PruneStore, PruneDebris, PruneSnapshot, SyncDone
      <4> QED BY <3>1, <4>1, <4>2
    <3>2. Resume => Running'
      BY DEF Resume, Running
    <3> QED BY <1>3, <3>1, <3>2 DEF Next, Restore
  <2>2. latest' = latest /\ ~SyncCommit
    BY <2>1
    DEF Start, RestoreCopy, RestoreAside, RestorePlace, RestoreFinish, SessionEnds, MachineLost,
        Stopped, SyncCommit
  <2>3. Referenced' \subseteq Referenced /\ (latest # 0 => Names(latest)' = Names(latest))
    BY <2>2, OnlyCommitDeclares, SnapshotsShrink DEF Names
  <2> SUFFICES ASSUME NEW s \in Referenced
               PROVE  \/ latest # 0 /\ \E t \in Names(latest) : s <= t
                      \/ \E t \in Complete(local)' : s <= t
    BY <2>2, <2>3 DEF WithinReach
  <2>4. \/ latest # 0 /\ \E t \in Names(latest) : s <= t
        \/ \E t \in Complete(local) : s <= t
    BY <1>0 DEF LineInv, WithinReach
  <2>5. s \in Nat /\ \A t \in Steps : t \in Nat
    BY ReferencesAreSteps DEF IInv, Steps
  <2>6. ASSUME NEW t \in Superseded, s <= t, pc = "restore"
        PROVE  latest # 0 /\ \E u \in Names(latest) : s <= u
    <3>1. latest # 0 /\ Names(latest) # {} /\ Names(latest) \subseteq Steps
      BY <2>6, LatestResolves DEF RestoreInv
    <3>2. MaxOf(Names(latest)) \in Names(latest)
      BY <3>1, NewestStep
    <3>3. t <= MaxOf(Names(latest)) /\ t \in Steps
      BY <2>6 DEF Superseded, Dirs
    <3>4. s <= MaxOf(Names(latest))
      <4>1. MaxOf(Names(latest)) \in Nat /\ t \in Nat
        BY <2>5, <3>1, <3>2, <3>3
      <4> QED BY <2>5, <2>6, <3>3, <4>1
    <3> QED BY <3>1, <3>2, <3>4
  <2>7. CASE Start
    BY <2>4, <2>7 DEF Start, Complete
  <2>8. ASSUME NEW r \in Steps, RestoreCopy(r) \/ RestoreAside(r) \/ RestorePlace(r)
        PROVE  \/ latest # 0 /\ \E t \in Names(latest) : s <= t
               \/ \E t \in Complete(local)' : s <= t
    <3>1. /\ latest # 0 /\ r \in Names(latest)
          /\ \A t \in Steps : t # r => local'[t] = local[t]
      BY <2>8 DEF RestoreCopy, RestoreAside, RestorePlace, First, RestoreInv, IInv, TypeOK
    <3> QED BY <2>4, <3>1 DEF Complete
  <2>9. CASE RestoreFinish
    <3>1. pc = "restore" /\ \A t \in Steps : t \notin Superseded => local'[t] = local[t]
      BY <2>9 DEF RestoreFinish
    <3> QED BY <2>4, <2>6, <3>1 DEF Complete
  <2>10. CASE SessionEnds
    <3>1. \A t \in Steps : t \notin HalfDone => local'[t] = local[t]
      BY <2>10 DEF SessionEnds, HalfSaved, IInv, TypeOK
    <3>2. CASE Running
      <4>1. s <= Len(line) /\ Len(line) \in Complete(local)
        BY <1>0, <3>2, RunningReaches DEF LineInv
      <4>2. Len(line) \notin HalfDone
        <5>1. Len(line) \in Nat
          BY <2>5, <4>1 DEF Complete
        <5> QED BY <3>2, <5>1 DEF Running, HalfDone, RotatedOut
      <4> QED BY <3>1, <4>1, <4>2 DEF Complete
    <3>3. CASE ~Running
      <4>1. HalfDone = {} \/ (HalfDone = Superseded /\ pc = "restore")
        BY <3>3 DEF Running, HalfDone
      <4> QED BY <2>4, <2>6, <3>1, <4>1 DEF Complete
    <3> QED BY <3>2, <3>3
  <2>11. CASE MachineLost
    <3>1. ~(LastVersion > latest)
      BY <2>11 DEF MachineLost
    <3>2. PICK v \in Versions : Present(v) /\ s \in Names(v)
      BY DEF Referenced
    <3>3. v <= latest /\ latest # 0
      <4>1. v <= LastVersion /\ LastVersion \in 0..MaxSnapshot /\ latest \in 0..MaxSnapshot
        BY <3>2, LastVersionIsLast DEF IInv, TypeOK
      <4> QED BY <3>1, <4>1, BoundsAssumption DEF Versions
    <3> QED BY <3>2, <3>3 DEF ReachInv
  <2> QED BY <2>1, <2>7, <2>8, <2>9, <2>10, <2>11
<1> QED BY <1>1, <1>2, <1>3

-----------------------------------------------------------------------------
LEMMA InitLIInv == Init => LIInv
<1> SUFFICES ASSUME Init PROVE LIInv
  OBVIOUS
<1>1. \A v \in Versions : ~Present(v)
  BY DEF Init, Present
<1>2. \A s \in Steps : Everywhere(s) = {}
  BY <1>1, ContentAssumption DEF Init, Everywhere, Held, Declared, OnDisk
<1>3. Referenced = {} /\ \A s \in Steps : Held(s) = {}
  BY <1>1, <1>2 DEF Referenced, Everywhere
<1>4. LengthInv /\ LineInv
  BY <1>2, <1>3 DEF LengthInv, LineInv, OneLine, WithinReach, Continues
<1>5. ReachInv /\ RestoreInv /\ ReuseInv /\ CurrentInv
  BY <1>1 DEF Init, ReachInv, RestoreInv, ReuseInv, CurrentInv, Running
<1> QED BY <1>4, <1>5 DEF LIInv

\* The invariant of the lines holds in every reachable state.
THEOREM LineInvariant == Spec => []LIInv
<1>1. IInv /\ IInv' /\ LIInv /\ [Next]_vars => LIInv'
  <2> SUFFICES ASSUME IInv, IInv', LIInv, [Next]_vars PROVE LIInv'
    OBVIOUS
  <2>1. LengthInv' /\ ReachInv' /\ RestoreInv' /\ ReuseInv' /\ CurrentInv'
    BY LengthStep, ReachStep, RestoreStep, ReuseStep, CurrentStep DEF LIInv
  <2>2. ~stray' => OneLine' /\ Continues' /\ WithinReach'
    BY <2>1, StrayStays, OneLineStep, ContinuesStep, WithinReachStep
  <2> QED BY <2>1, <2>2 DEF LIInv, LineInv
<1> QED BY InitLIInv, <1>1, IInvariant, PTL DEF Spec

\* No snapshot mixes the checkpoints of two lines of training: what it takes from
\* the store for a step is what the disk or an earlier snapshot has of that step.
THEOREM SnapshotsAreAlwaysOneLine == Spec => []SnapshotsAreOneLine
<1>1. IInv /\ LIInv => SnapshotsAreOneLine
  <2> SUFFICES ASSUME IInv, LIInv, ~stray, NEW v \in Versions, Present(v),
                      NEW s \in Names(v), NEW t \in Names(v), s <= t
               PROVE  SubSeq(snaps[v][t].line, 1, s) = snaps[v][s].line
    BY DEF SnapshotsAreOneLine
  <2>1. /\ s \in Steps /\ t \in Steps
        /\ snaps[v][s] \in Held(s) /\ snaps[v][t] \in Held(t)
    BY DEF IInv, TypeOK, Held, Declared
  <2> QED BY <2>1 DEF LIInv, LineInv, OneLine
<1> QED BY <1>1, IInvariant, LineInvariant, PTL

\* A session trains on from the newest advertised checkpoint or from one after it:
\* what it resumes reaches as far as all that snapshots declare and the disk has.
THEOREM SessionsResumeAdvertised == Spec => []ResumesAdvertised
<1>1. IInv /\ LIInv => ResumesAdvertised
  <2> DEFINE m == MaxOf(Names(latest))
             c == snaps[latest][m]
  <2> SUFFICES ASSUME IInv, LIInv, pc = "train", latest # 0, ~stray
               PROVE  Len(c.line) <= Len(line) /\ SubSeq(line, 1, Len(c.line)) = c.line
    BY DEF ResumesAdvertised
  <2>1. Present(latest) /\ latest \in Versions /\ m \in Names(latest) /\ m \in Steps
    BY LatestResolves, NewestStep DEF Present
  <2>2. c \in Held(m)
    BY <2>1 DEF Held, Declared
  <2> HIDE DEF m, c
  <2>3. Len(c.line) = m
    BY <2>1, <2>2 DEF LIInv, LengthInv, Everywhere
  <2>4. m <= Len(line) /\ SubSeq(line, 1, m) = c.line
    BY <2>1, <2>2 DEF LIInv, LineInv, Continues, Running
  <2> QED BY <2>3, <2>4
<1> QED BY <1>1, IInvariant, LineInvariant, PTL

-----------------------------------------------------------------------------
\* After the training's end a synchronisation names no other newest checkpoint.
ModeInv ==
    /\ mode # "save" => /\ Len(line) = MaxStep
                        /\ pc \in {"plan", "upload", "swap", "advertise", "prune", "select", "summary", "done"}
    /\ pc = "select" => mode # "save"
    /\ pc \in {"summary", "done"} => mode = "best"
    /\ pc = "summary" => OldVersions = {}

\* The newest checkpoint of a session names the session's best one.
BestNamedInv == Running /\ line # << >> => local[Len(line)].best = best

\* The run's last checkpoint, once the session has it, is what it advertises.
CarryInv ==
    Len(line) = MaxStep =>
        /\ pc \in {"upload", "swap"} /\ MaxStep \notin todo => store[MaxStep] = local[MaxStep]
        /\ pc = "advertise" =>
               MaxStep \in Names(LastVersion) /\ snaps[LastVersion][MaxStep] = local[MaxStep]
        /\ pc \in {"prune", "select", "summary", "done"} =>
               /\ latest # 0 /\ MaxStep \in Names(latest)
               /\ snaps[latest][MaxStep] = local[MaxStep]

\* What a snapshot shows of a finished run: its best checkpoint beside the last one.
Shows(v) == MaxStep \in Names(v) /\ (summary \in Names(v) \/ Names(v) = {MaxStep})

\* After a summary the last checkpoint is advertised, every copy of it names the
\* best one that the summary names, and no session trains.
FinishedInv ==
    summary # None =>
        /\ latest # 0 /\ Shows(latest)
        /\ pc = "advertise" => Shows(LastVersion)
        /\ \A c \in Held(MaxStep) : c.best = summary
        /\ Running => Len(line) = MaxStep
        /\ mode = "save" => pc \in {"down", "restore", "replace", "resume", "train"}

FinishInv == ModeInv /\ BestNamedInv /\ CarryInv /\ FinishedInv

\* The newest candidate of a session that has the run's last checkpoint is that one.
LEMMA LastIsKept ==
    ASSUME TypeOK, MaxStep \in Dirs(local)
    PROVE  /\ MaxStep \in KeepNow /\ MaxOf(Candidates) = MaxStep
           /\ mode = "final" /\ latest # 0 /\ Names(latest) # {} /\ Names(latest) \subseteq Steps
                  /\ MaxStep \in Names(latest) => KeepNow = {MaxStep}
<1>1. MaxStep \in Candidates /\ Candidates \subseteq Steps
  BY KeepNowKeepsNewest DEF Candidates, Dirs
<1>2. MaxStep \in Nat /\ \A t \in Steps : t \in Nat /\ t <= MaxStep
  BY BoundsAssumption DEF Steps
<1>3. ASSUME NEW S \in SUBSET Steps, MaxStep \in S PROVE MaxOf(S) = MaxStep
  <2>1. MaxOf(S) \in S /\ MaxStep <= MaxOf(S)
    BY <1>3, NewestStep
  <2>2. MaxOf(S) \in Nat /\ MaxOf(S) <= MaxStep
    BY <1>2, <2>1
  <2> QED BY <1>2, <2>1, <2>2
<1>4. MaxOf(Candidates) = MaxStep
  BY <1>1, <1>3
<1>5. MaxStep \in KeepNow
  BY <1>1, <1>4 DEF KeepNow, Keep
<1>6. ASSUME mode = "final", latest # 0, Names(latest) \subseteq Steps, MaxStep \in Names(latest)
      PROVE  KeepNow = {MaxStep}
  <2>1. MaxOf(Names(latest)) = MaxStep /\ MaxStep # 0
    BY <1>3, <1>6, BoundsAssumption
  <2>2. None \notin Candidates
    BY <1>1, ContentAssumption
  <2> QED BY <1>1, <1>4, <1>6, <2>1, <2>2 DEF KeepNow, Keep
<1> QED BY <1>4, <1>5, <1>6

LEMMA ModeStep == ASSUME IInv, ModeInv, [Next]_vars PROVE ModeInv'
<1> USE DEF durable, disk, run
<1>1. CASE Restore
  BY <1>1 DEF ModeInv, Restore, Start, RestoreCopy, RestoreAside, RestorePlace, RestoreFinish, Resume
<1>2. CASE Train
  BY <1>2 DEF ModeInv, Train, Save, Rotate, Trained, SelectBest, WriteSummary
<1>3. CASE Sync
  <2>1. CASE SyncDone
    BY <2>1 DEF ModeInv, SyncDone, OldVersions, Present, IInv, TypeOK
  <2>2. CASE ~SyncDone
    BY <1>3, <2>2
    DEF ModeInv, Sync, SyncPlan, UploadCopy, UploadAside, UploadPlace, SyncCommit, SyncAdvertise,
        PruneStore, PruneDebris, PruneSnapshot
  <2> QED BY <2>1, <2>2
<1>4. CASE Stopped
  BY <1>4 DEF ModeInv, Stopped
<1>5. CASE UNCHANGED vars
  BY <1>5 DEF ModeInv, vars, OldVersions, Present
<1> QED BY <1>1, <1>2, <1>3, <1>4, <1>5 DEF Next, SessionEnds, MachineLost

LEMMA BestNamedStep ==
    ASSUME IInv, LengthInv, CurrentInv, BestNamedInv, [Next]_vars PROVE BestNamedInv'
<1> USE DEF durable, disk, run, IInv, TypeOK
<1> SUFFICES ASSUME Running', line' # << >> PROVE local'[Len(line')].best = best'
  BY DEF BestNamedInv
<1>1. CASE Resume
  <2>1. /\ Complete(local) # {} /\ local' = local
        /\ line' = local[MaxOf(Complete(local))].line /\ best' = local[MaxOf(Complete(local))].best
    BY <1>1 DEF Resume
  <2>2. MaxOf(Complete(local)) \in Complete(local)
    BY <2>1, NewestStep DEF Complete
  <2>3. Len(line') = MaxOf(Complete(local))
    BY <2>1, <2>2 DEF LengthInv, Everywhere, Held, OnDisk, Complete
  <2> QED BY <2>1, <2>3
<1>2. CASE Save
  <2>1. /\ line' = Append(line, session) /\ line \in Seq(Sessions) /\ Len(line) + 1 \in Steps
        /\ session \in Sessions
    BY <1>2, BoundsAssumption DEF Save, Steps
  <2>2. Len(line') = Len(line) + 1
    BY <2>1
  <2> QED BY <1>2, <2>1, <2>2 DEF Save
<1>3. CASE ~Resume /\ ~Save
  <2>1. Running /\ line' = line /\ (Rotate \/ local' = local)
    BY <1>3, HowItRuns
  <2>2. Len(line) \in Steps /\ local[Len(line)].best = best
    BY <2>1 DEF CurrentInv, BestNamedInv
  <2>3. Len(line) \notin RotatedOut
    BY DEF RotatedOut
  <2>4. local'[Len(line)] = local[Len(line)]
    BY <2>1, <2>2, <2>3 DEF Rotate
  <2>5. best' = best
    BY <1>3, <2>1, Zenon
    DEF Running, Next, Restore, Train, Sync, vars, Start, RestoreCopy, RestoreAside, RestorePlace,
        RestoreFinish, Rotate, Trained, SelectBest, WriteSummary, SyncPlan, UploadCopy,
        UploadAside, UploadPlace, SyncCommit, SyncAdvertise, PruneStore, PruneDebris,
        PruneSnapshot, SyncDone, SessionEnds, MachineLost, Stopped
  <2> QED BY <2>1, <2>2, <2>4, <2>5
<1> QED BY <1>1, <1>2, <1>3

\* A synchronisation takes the run's last checkpoint from the disk that has it.
LEMMA CarryStep ==
    ASSUME IInv, CurrentInv, CarryInv, ModeInv, [Next]_vars PROVE CarryInv'
<1> USE DEF durable, disk, run
<1>0. MaxStep \in Steps /\ MaxStep # 0
  BY BoundsAssumption DEF Steps
<1>1. CASE UNCHANGED vars
  BY <1>1 DEF CarryInv, vars, Names, LastVersion, Present
<1>2. CASE pc' \notin {"upload", "swap", "advertise", "prune", "select", "summary", "done"}
  BY <1>2 DEF CarryInv
<1> SUFFICES ASSUME Len(line') = MaxStep, ~UNCHANGED vars,
                    pc' \in {"upload", "swap", "advertise", "prune", "select", "summary", "done"}
             PROVE  CarryInv'
  BY <1>1, <1>2 DEF CarryInv
<1>3. line' = line /\ local' = local /\ (Sync \/ WriteSummary)
  <2>1. ~Restore /\ ~SessionEnds /\ ~MachineLost
    BY DEF Restore, Start, RestoreCopy, RestoreAside, RestorePlace, RestoreFinish, Resume,
           SessionEnds, MachineLost, Stopped
  <2>2. ASSUME Train PROVE WriteSummary
    BY <2>2 DEF Train, Save, Rotate, Trained, SelectBest
  <2>3. WriteSummary => line' = line /\ local' = local
    BY DEF WriteSummary
  <2>4. Sync => line' = line /\ local' = local
    BY DEF Sync, SyncPlan, UploadCopy, UploadAside, UploadPlace, SyncCommit, SyncAdvertise,
           PruneStore, PruneDebris, PruneSnapshot, SyncDone
  <2> QED BY <2>1, <2>2, <2>3, <2>4 DEF Next
<1>4. Len(line) = MaxStep /\ MaxStep \in Dirs(local) /\ local[MaxStep] \in Contents
  <2>1. Running
    BY <1>3 DEF Running, WriteSummary, Sync, SyncPlan, UploadCopy, UploadAside, UploadPlace,
                SyncCommit, SyncAdvertise, PruneStore, PruneDebris, PruneSnapshot, SyncDone
  <2>2. line # << >>
    <3>1. Len(<< >>) = 0
      OBVIOUS
    <3> QED BY <1>0, <1>3, <3>1
  <2> QED BY <1>3, <2>1, <2>2, ContentAssumption DEF CurrentInv, Dirs
<1>5. MaxStep \in KeepNow
  BY <1>4, LastIsKept DEF IInv
<1>6. CASE SyncPlan
  <2>1. pc' = "upload" /\ store' = store /\ local' = local /\ todo' = {s \in KeepNow : ~Reusable(s)}
    BY <1>6 DEF SyncPlan
  <2>2. MaxStep \notin todo' => store[MaxStep] = local[MaxStep]
    BY <1>4, <1>5, <2>1, ContentAssumption DEF Reusable
  <2> QED BY <2>1, <2>2 DEF CarryInv
<1>7. ASSUME NEW s \in Steps, UploadCopy(s) \/ UploadAside(s) \/ UploadPlace(s) PROVE CarryInv'
  <2>1. /\ s \in todo /\ pc \in {"upload", "swap"} /\ pc' \in {"upload", "swap"} /\ local' = local
        /\ \A t \in Steps : t # s => store'[t] = store[t]
    BY <1>7 DEF UploadCopy, UploadAside, UploadPlace, First, IInv, TypeOK
  <2>2. CASE todo' = todo
    BY <1>0, <1>4, <2>1, <2>2 DEF CarryInv
  <2>3. CASE UploadPlace(s)
    <3>1. todo' = todo \ {s} /\ store'[s] = local[s]
      BY <2>3 DEF UploadPlace, IInv, TypeOK
    <3> QED BY <1>0, <1>4, <2>1, <3>1 DEF CarryInv
  <2> QED BY <1>7, <2>2, <2>3 DEF UploadCopy, UploadAside
<1>8. CASE SyncCommit
  <2>1. pc = "upload" /\ pc' = "advertise" /\ todo = {} /\ store[MaxStep] = local[MaxStep]
    BY <1>4, <1>8 DEF SyncCommit, CarryInv
  <2>2. MaxStep \in KeepNow \cap Complete(store)
    BY <1>0, <1>4, <1>5, <2>1 DEF Complete
  <2>3. /\ LastVersion' = LastVersion + 1 /\ Names(LastVersion)' = KeepNow \cap Complete(store)
        /\ snaps'[LastVersion + 1][MaxStep] = store[MaxStep]
    BY <1>8, <2>2, CommitStep DEF IInv
  <2> QED BY <1>3, <2>1, <2>2, <2>3 DEF CarryInv
<1>9. CASE SyncAdvertise
  <2>1. /\ latest' = LastVersion /\ snaps' = snaps /\ pc = "advertise" /\ pc' = "prune"
        /\ LastVersion # 0
    BY <1>9 DEF SyncAdvertise, IInv, CommitInv, Present, Versions
  <2> QED BY <1>3, <1>4, <2>1 DEF CarryInv, Names
<1>10. CASE pc \in {"prune", "select", "summary", "done"} /\ pc' \in {"prune", "select", "summary", "done"}
  <2>1. latest' = latest /\ ~SyncCommit
    BY <1>3, <1>10
    DEF WriteSummary, Sync, SyncPlan, UploadCopy, UploadAside, UploadPlace, SyncCommit,
        SyncAdvertise, PruneStore, PruneDebris, PruneSnapshot, SyncDone
  <2>2. latest # 0 /\ MaxStep \in Names(latest) /\ snaps[latest][MaxStep] = local[MaxStep]
    BY <1>4, <1>10 DEF CarryInv
  <2>3. snaps'[latest] = snaps[latest]
    BY <2>1, <2>2, SnapshotsShrink
  <2> QED BY <1>3, <1>10, <2>1, <2>2, <2>3 DEF CarryInv, Names
<1>11. WriteSummary \/ PruneDebris \/ SyncDone \/ (\E s \in Steps : PruneStore(s))
           \/ (\E v \in Versions : PruneSnapshot(v)) => pc \in {"prune", "select", "summary", "done"}
  BY DEF WriteSummary, PruneDebris, SyncDone, PruneStore, PruneSnapshot
<1>12. WriteSummary \/ PruneDebris \/ SyncDone \/ (\E s \in Steps : PruneStore(s))
           \/ (\E v \in Versions : PruneSnapshot(v)) => pc' \in {"prune", "select", "summary", "done"}
  <2>1. SyncDone => pc' # "upload" /\ pc' # "swap" /\ pc' # "advertise"
    BY DEF SyncDone
  <2> QED BY <2>1 DEF WriteSummary, PruneDebris, PruneStore, PruneSnapshot
<1> QED BY <1>3, <1>6, <1>7, <1>8, <1>9, <1>10, <1>11, <1>12 DEF Sync

\* The summary is of the run's last checkpoint: of no other is there a copy.
LEMMA SummaryNames ==
    ASSUME IInv, LIInv, ModeInv, BestNamedInv, CarryInv, pc = "summary"
    PROVE  /\ Len(line) = MaxStep /\ latest # 0 /\ MaxStep \in Names(latest) /\ best \in Names(latest)
           /\ \A c \in Held(MaxStep) : c.best = best
<1>1. Len(line) = MaxStep /\ mode = "best" /\ OldVersions = {} /\ MaxStep \in Steps /\ MaxStep # 0
  BY BoundsAssumption DEF ModeInv, Steps
<1>2. line # << >>
  <2>1. Len(<< >>) = 0
    OBVIOUS
  <2> QED BY <1>1, <2>1
<1>3. local[MaxStep].best = best
  BY <1>1, <1>2 DEF BestNamedInv, Running
<1>4. latest # 0 /\ MaxStep \in Names(latest) /\ snaps[latest][MaxStep] = local[MaxStep]
  BY <1>1 DEF CarryInv
<1>5. store[MaxStep] = local[MaxStep]
  BY <1>4, LatestResolves
<1>6. ASSUME NEW c \in Declared(MaxStep) PROVE c = local[MaxStep]
  <2>1. PICK v \in Versions : Present(v) /\ MaxStep \in Names(v) /\ c = snaps[v][MaxStep]
    BY DEF Declared
  <2>2. v >= latest - 1
    BY <1>1, <2>1, BoundsAssumption DEF OldVersions, IInv, TypeOK, Versions
  <2> QED BY <1>5, <2>1, <2>2 DEF IInv, SnapshotInv, RetainedSnapshotsResolve, Resolves
<1>7. ASSUME NEW c \in OnDisk(MaxStep) PROVE c = local[MaxStep]
  <2>1. localBak[MaxStep] = None
    BY <1>1 DEF LIInv, RestoreInv
  <2> QED BY <2>1, ContentAssumption DEF OnDisk
<1>8. best \in Names(latest)
  BY DEF IInv, BestInv
<1> QED BY <1>1, <1>3, <1>4, <1>6, <1>7, <1>8 DEF Held

\* After a summary the synchronisations keep the last checkpoint, and the best one too
\* when they pin it.
LEMMA FinishedCommit ==
    ASSUME IInv, LIInv, FinishInv, SyncCommit, summary # None
    PROVE  Shows(LastVersion)'
<1>1. /\ Len(line) = MaxStep /\ pc = "upload" /\ todo = {} /\ MaxStep \in Steps /\ MaxStep # 0
      /\ latest # 0 /\ MaxStep \in Names(latest) /\ mode # "save"
  BY BoundsAssumption DEF SyncCommit, FinishInv, FinishedInv, Shows, Running, Steps
<1>2. local[MaxStep] \in Contents /\ MaxStep \in Dirs(local) /\ local[MaxStep].best = best
  <2>1. Len(<< >>) = 0 /\ Running
    BY <1>1 DEF Running
  <2>2. line # << >>
    BY <1>1, <2>1
  <2> QED BY <1>1, <2>1, <2>2, ContentAssumption
          DEF LIInv, CurrentInv, FinishInv, BestNamedInv, Dirs
<1>3. KeepNow \subseteq Complete(store)
  BY <1>1 DEF IInv, UploadInv
<1>4. Names(LastVersion)' = KeepNow /\ summary' = summary
  BY <1>3, CommitStep DEF IInv, SyncCommit
<1>5. MaxStep \in KeepNow
  BY <1>2, LastIsKept DEF IInv
<1>6. CASE mode = "final"
  <2>1. KeepNow = {MaxStep}
    BY <1>1, <1>2, <1>6, LastIsKept, LatestResolves DEF IInv
  <2> QED BY <1>4, <2>1 DEF Shows
<1>7. CASE mode = "best"
  <2>1. best \in Steps /\ local[best] \in Contents
    BY <1>1, <1>7 DEF IInv, BestInv
  <2>2. best \in KeepNow
    BY <1>7, <2>1, ContentAssumption DEF KeepNow, Keep, Candidates, Dirs
  <2>3. best = summary
    BY <1>1, <1>2 DEF FinishInv, FinishedInv, Held, OnDisk
  <2> QED BY <1>4, <1>5, <2>2, <2>3 DEF Shows
<1> QED BY <1>1, <1>6, <1>7 DEF IInv, TypeOK

\* A finished run stays finished, whatever its reruns do and wherever they stop.
LEMMA FinishedStep ==
    ASSUME IInv, IInv', LIInv, FinishInv, CarryInv', ModeInv', [Next]_vars PROVE FinishedInv'
<1> USE DEF durable, disk, run
<1>0. MaxStep \in Steps /\ MaxStep \in Nat /\ MaxStep # 0 /\ \A t \in Steps : t <= MaxStep
  BY BoundsAssumption DEF Steps
<1>1. CASE WriteSummary
  <2>1. /\ pc = "summary" /\ pc' = "done" /\ summary' = best
        /\ UNCHANGED <<latest, snaps, local, localBak, line, mode>>
    BY <1>1 DEF WriteSummary
  <2>2. Held(MaxStep)' = Held(MaxStep) /\ Names(latest)' = Names(latest)
    BY <2>1 DEF Held, Declared, OnDisk, Present, Names
  <2>3. mode = "best"
    BY <2>1 DEF FinishInv, ModeInv
  <2> QED BY <2>1, <2>2, <2>3, SummaryNames DEF FinishInv, FinishedInv, Shows
<1>2. CASE ~WriteSummary
  <2>1. summary' = summary
    BY <1>2
    DEF Next, Restore, Train, Sync, vars, Start, RestoreCopy, RestoreAside, RestorePlace,
        RestoreFinish, Resume, Save, Rotate, Trained, SelectBest, SyncPlan, UploadCopy,
        UploadAside, UploadPlace, SyncCommit, SyncAdvertise, PruneStore, PruneDebris,
        PruneSnapshot, SyncDone, SessionEnds, MachineLost, Stopped
  <2> SUFFICES ASSUME summary # None PROVE FinishedInv'
    BY <2>1 DEF FinishedInv
  <2>2. latest # 0 /\ Shows(latest) /\ \A c \in Held(MaxStep) : c.best = summary
    BY DEF FinishInv, FinishedInv
  <2>3. ~Save
    <3>1. Save => Running /\ Len(line) + 1 <= MaxStep
      BY DEF Save, Running
    <3> QED BY <1>0, <3>1 DEF FinishInv, FinishedInv
  <2>4. \A c \in Held(MaxStep)' : c.best = summary
    BY <1>0, <2>2, <2>3, OnlySaveMakes DEF LIInv
  <2>5. Running' => Len(line') = MaxStep
    <3> SUFFICES ASSUME Running' PROVE Len(line') = MaxStep
      OBVIOUS
    <3>1. CASE Resume
      <4>1. MaxStep \in Complete(local)
        BY <2>2, <3>1 DEF Resume, LIInv, RestoreInv, Shows
      <4>2. MaxOf(Complete(local)) \in Complete(local) /\ MaxStep <= MaxOf(Complete(local))
        BY <4>1, NewestStep DEF Complete
      <4>3. MaxOf(Complete(local)) = MaxStep
        <5>1. MaxOf(Complete(local)) \in Nat /\ MaxOf(Complete(local)) <= MaxStep
          BY <1>0, <4>2 DEF Complete, Steps
        <5> QED BY <1>0, <4>2, <5>1
      <4>4. line' = local[MaxStep].line
        BY <3>1, <4>1, <4>3 DEF Resume
      <4> QED BY <4>1, <4>4 DEF LIInv, LengthInv, Everywhere, Held, OnDisk, Complete
    <3>2. CASE ~Resume
      <4>1. Running /\ line' = line
        BY <2>3, <3>2, HowItRuns
      <4> QED BY <4>1 DEF FinishInv, FinishedInv
    <3> QED BY <3>1, <3>2
  <2>6. mode' = "save" => pc' \in {"down", "restore", "replace", "resume", "train"}
    <3>1. mode = "save" => pc \in {"down", "restore", "replace", "resume", "train"}
      BY DEF FinishInv, FinishedInv
    <3>2. CASE Restore
      BY <3>1, <3>2 DEF Restore, Start, RestoreCopy, RestoreAside, RestorePlace, RestoreFinish, Resume
    <3>3. CASE Train
      BY <1>2, <2>3, <3>1, <3>3 DEF Train, Rotate, Trained, SelectBest, FinishInv, ModeInv
    <3>4. CASE Sync
      BY <3>1, <3>4
      DEF Sync, SyncPlan, UploadCopy, UploadAside, UploadPlace, SyncCommit, SyncAdvertise,
          PruneStore, PruneDebris, PruneSnapshot, SyncDone
    <3>5. CASE Stopped
      BY <3>5 DEF Stopped
    <3>6. CASE UNCHANGED vars
      BY <3>1, <3>6 DEF vars
    <3> QED BY <3>2, <3>3, <3>4, <3>5, <3>6 DEF Next, SessionEnds, MachineLost
  <2>7. (latest' # 0 /\ Shows(latest)') /\ (pc' = "advertise" => Shows(LastVersion)')
    <3>1. CASE SyncCommit
      <4>1. latest' = latest /\ snaps'[latest] = snaps[latest]
        BY <2>2, <3>1, CommitStep DEF SyncCommit, IInv, SnapshotInv, Present
      <4> QED BY <2>1, <2>2, <3>1, <4>1, FinishedCommit DEF Shows, Names
    <3>2. CASE SyncAdvertise
      <4>1. /\ latest' = LastVersion /\ snaps' = snaps /\ pc = "advertise" /\ pc' = "prune"
            /\ LastVersion # 0
        BY <3>2 DEF SyncAdvertise, IInv, CommitInv, Present, Versions
      <4>2. Shows(LastVersion)
        BY <4>1 DEF FinishInv, FinishedInv
      <4> QED BY <2>1, <4>1, <4>2 DEF Shows, Names
    <3>3. CASE ~SyncCommit /\ ~SyncAdvertise
      <4>1. latest' = latest
        BY <3>3
        DEF Next, Restore, Train, Sync, vars, Start, RestoreCopy, RestoreAside, RestorePlace,
            RestoreFinish, Resume, Save, Rotate, Trained, SelectBest, WriteSummary, SyncPlan,
            UploadCopy, UploadAside, UploadPlace, PruneStore, PruneDebris, PruneSnapshot, SyncDone,
            SessionEnds, MachineLost, Stopped
      <4>2. snaps'[latest] = snaps[latest]
        BY <2>2, <3>3, SnapshotsShrink
      <4>3. latest' # 0 /\ Shows(latest)'
        BY <2>1, <2>2, <4>1, <4>2 DEF Shows, Names
      <4>4. CASE UNCHANGED vars
        BY <2>1, <4>3, <4>4 DEF FinishInv, FinishedInv, vars, Shows, Names, LastVersion, Present
      <4>5. CASE pc' # "advertise"
        BY <4>3, <4>5
      <4> QED BY <3>3, <4>4, <4>5, OnlyCommitsAdvertise
    <3> QED BY <3>1, <3>2, <3>3
  <2> QED BY <2>1, <2>4, <2>5, <2>6, <2>7 DEF FinishedInv
<1> QED BY <1>1, <1>2

\* A rerun after the summary is of the run that the summary reports.
THEOREM FinishInvariant == Spec => []FinishInv
<1>1. Init => FinishInv
  <2> SUFFICES ASSUME Init PROVE FinishInv
    OBVIOUS
  <2>1. Len(line) # MaxStep
    BY BoundsAssumption DEF Init
  <2> QED BY <2>1 DEF Init, FinishInv, ModeInv, BestNamedInv, CarryInv, FinishedInv, Running
<1>2. IInv /\ IInv' /\ LIInv /\ FinishInv /\ [Next]_vars => FinishInv'
  <2> SUFFICES ASSUME IInv, IInv', LIInv, FinishInv, [Next]_vars PROVE FinishInv'
    OBVIOUS
  <2>1. ModeInv' /\ BestNamedInv' /\ CarryInv'
    BY ModeStep, BestNamedStep, CarryStep DEF FinishInv, LIInv
  <2> QED BY <2>1, FinishedStep DEF FinishInv
<1> QED BY <1>1, <1>2, IInvariant, LineInvariant, PTL DEF Spec

\* A stage that is run again after its summary trains no other ending and advertises
\* the last checkpoint that the summary was written of, wherever the rerun stops.
THEOREM FinishedRunAlwaysStands == Spec => []FinishedRunStands
<1>1. IInv /\ FinishInv => FinishedRunStands
  <2> SUFFICES ASSUME IInv, FinishInv, summary # None PROVE FinishedRunStands
    BY DEF FinishedRunStands
  <2>1. latest # 0 /\ Shows(latest) /\ \A c \in Held(MaxStep) : c.best = summary
    BY DEF FinishInv, FinishedInv
  <2>2. Present(latest) /\ Resolves(latest)
    BY <2>1, LatestResolves
  <2>3. snaps[latest][MaxStep].best = summary
    BY <2>1, <2>2 DEF Shows, Held, Declared, Present
  <2> QED BY <2>1, <2>2, <2>3 DEF FinishedRunStands, Shows
<1> QED BY <1>1, IInvariant, FinishInvariant, PTL

-----------------------------------------------------------------------------
\* Only the flip of LATEST changes what a reader of LATEST finds.
LEMMA AdvertisedStands ==
    ASSUME IInv, IInv', UNCHANGED latest, latest # 0 => snaps'[latest] = snaps[latest]
    PROVE  Advertised' = Advertised
<1>1. CASE latest = 0
  BY <1>1 DEF Advertised
<1>2. CASE latest # 0
  <2>1. \A s \in Names(latest) : store[s] = snaps[latest][s]
    BY <1>2, LatestResolves
  <2>2. Names(latest)' = Names(latest)
    BY <1>2 DEF Names
  <2>3. \A s \in Names(latest) : store'[s] = snaps'[latest][s]
    <3>1. /\ latest' # 0 /\ Present(latest)' /\ latest' >= latest' - 1
      BY <1>2, BoundsAssumption DEF IInv, SnapshotInv, TypeOK
    <3>2. Resolves(latest)'
      BY <3>1 DEF IInv, SnapshotInv, RetainedSnapshotsResolve, Present
    <3> QED BY <2>2, <3>2 DEF Resolves, Names
  <2> QED BY <2>1, <2>2, <2>3 DEF Advertised
<1> QED BY <1>1, <1>2

\* Every step of a session shows a reader a step of the abstract history or nothing.
LEMMA HistoryStep ==
    ASSUME IInv, IInv', LIInv, FinishInv, [Next]_vars
    PROVE  [History!Next]_(History!hvars)
<1> USE DEF durable, disk, run
<1>1. CASE SyncAdvertise
  <2>1. summary' = summary
    BY <1>1 DEF SyncAdvertise
  <2>2. /\ latest' = LastVersion /\ store' = store /\ snaps' = snaps /\ Names(latest)' = Names(LastVersion)
        /\ LastVersion # 0 /\ Present(LastVersion) /\ Names(LastVersion) # {}
        /\ Names(LastVersion) \subseteq Steps
        /\ \A s \in Names(LastVersion) : store[s] \in Contents
    <3>1. Present(LastVersion) /\ Names(LastVersion) # {} /\ Resolves(LastVersion)
      BY <1>1 DEF SyncAdvertise, IInv, CommitInv
    <3> QED BY <1>1, <3>1 DEF SyncAdvertise, Resolves, Present, Versions, Names, IInv, TypeOK
  <2>3. Advertised' = [s \in Steps |-> IF s \in Names(LastVersion) THEN store[s] ELSE None]
    BY <2>2 DEF Advertised
  <2>4. /\ Advertised' \in [Steps -> Contents \cup {None}]
        /\ {s \in Steps : Advertised'[s] # None} = Names(LastVersion)
    BY <2>2, <2>3, ContentAssumption
  <2>5. {s \in Steps : Advertised[s] # None} = IF latest = 0 THEN {} ELSE Names(latest)
    BY LatestResolves, ContentAssumption DEF Advertised
  <2>6. \A s \in {t \in Steps : Advertised[t] # None} :
          \E t \in {u \in Steps : Advertised'[u] # None} : s <= t
    BY <1>1, <2>4, <2>5 DEF IInv, CommitInv, SyncAdvertise
  <2>7. \A s \in {t \in Steps : Advertised[t] # None} \cap {u \in Steps : Advertised'[u] # None} :
          Advertised'[s] = Advertised[s]
    BY <2>3, <2>4, <2>5 DEF Advertised
  <2>8. summary # None => \A s \in {t \in Steps : Advertised'[t] # None} :
                               \E t \in {u \in Steps : Advertised[u] # None} : s <= t
    <3>1. summary # None => latest # 0 /\ MaxStep \in Names(latest)
      BY DEF FinishInv, FinishedInv, Shows
    <3> QED BY <2>2, <2>4, <2>5, <3>1, BoundsAssumption DEF Steps
  <2>9. History!Advertise
    BY <2>1, <2>2, <2>4, <2>6, <2>7, <2>8 DEF History!Advertise, History!Shown
  <2> QED BY <2>9 DEF History!Next
<1>2. CASE WriteSummary
  <2>1. summary' = best /\ latest # 0 /\ best \in Names(latest)
    BY <1>2 DEF WriteSummary, IInv, BestInv
  <2>2. best \in Steps /\ Advertised[best] # None
    BY <2>1, LatestResolves, ContentAssumption DEF Advertised
  <2>3. Advertised' = Advertised
    BY <1>2, AdvertisedStands DEF WriteSummary
  <2>4. History!Finish
    BY <2>1, <2>2, <2>3 DEF History!Finish, History!Shown
  <2> QED BY <2>4 DEF History!Next
<1>3. ASSUME summary' = summary, latest' = latest, latest # 0 => snaps'[latest] = snaps[latest]
      PROVE  UNCHANGED History!hvars
  BY <1>3, AdvertisedStands DEF History!hvars
<1>4. CASE SyncCommit
  <2>1. latest # 0 => snaps'[latest] = snaps[latest]
    BY <1>4, CommitStep DEF IInv, SnapshotInv, Present
  <2> QED BY <1>3, <1>4, <2>1 DEF SyncCommit
<1>5. ASSUME NEW v \in Versions, PruneSnapshot(v) PROVE UNCHANGED History!hvars
  <2>1. latest # v
    BY <1>5, BoundsAssumption DEF PruneSnapshot, OldVersions, IInv, TypeOK, Versions
  <2> QED BY <1>3, <1>5, <2>1 DEF PruneSnapshot
<1>6. CASE Stopped
  <2>1. latest # 0 => snaps'[latest] = snaps[latest]
    <3>1. \A v \in OldVersions : v # latest
      BY BoundsAssumption DEF OldVersions, IInv, TypeOK, Versions
    <3>2. latest # 0 => latest \in DOMAIN snaps
      BY BoundsAssumption DEF IInv, TypeOK, Versions
    <3> QED BY <1>6, <3>1, <3>2 DEF Stopped, HalfDropped
  <2> QED BY <1>3, <1>6, <2>1 DEF Stopped
<1>7. CASE UNCHANGED <<summary, latest, snaps>>
  BY <1>3, <1>7
<1> QED
  BY <1>1, <1>2, <1>4, <1>5, <1>6, <1>7
  DEF Next, Restore, Train, Sync, vars, Start, RestoreCopy, RestoreAside, RestorePlace,
      RestoreFinish, Resume, Save, Rotate, Trained, SelectBest, SyncPlan, UploadCopy, UploadAside,
      UploadPlace, PruneStore, PruneDebris, SyncDone, SessionEnds, MachineLost

\* What a reader of durable storage sees is the abstract history.
THEOREM Refinement == Spec => ImplementsHistory
<1>1. Init => History!Init
  BY DEF Init, History!Init, Advertised
<1> QED
  BY <1>1, HistoryStep, IInvariant, LineInvariant, FinishInvariant, PTL
  DEF Spec, ImplementsHistory, History!Spec

=============================================================================
