-------------------------- MODULE CheckpointProofs --------------------------
(***************************************************************************)
(* Theorems of the durable checkpoints, for every number of saves,         *)
(* sessions and snapshots and every budget.                                *)
(***************************************************************************)
EXTENDS DurableCheckpoints, FiniteSetTheorems, WellFoundedInduction, TLAPS

\* LATEST names a snapshot that names a checkpoint, and what is retained resolves.
SnapshotInv ==
    /\ latest # 0 => Present(latest) /\ Names(latest) # {}
    /\ RetainedSnapshotsResolve

\* While checkpoints are copied, none of them is a snapshot's, and those to
\* keep that are not still to be copied are complete.
UploadInv ==
    pc \in {"upload", "swap"} =>
        /\ todo \cap Referenced = {}
        /\ KeepNow \ todo \subseteq Complete(store)

\* A snapshot about to be advertised reaches as far as the one advertised.
CommitInv ==
    pc = "advertise" =>
        /\ Present(LastVersion) /\ Names(LastVersion) # {}
        /\ latest # 0 => \A s \in Names(latest) : \E t \in Names(LastVersion) : s <= t

\* Pinning the best: it is on the disk, then declared, then advertised.
BestInv ==
    /\ mode = "best" /\ pc \in {"plan", "upload", "swap"} => best \in Steps /\ local[best] \in Contents
    /\ mode = "best" /\ pc = "advertise" => best \in Names(LastVersion)
    /\ mode = "best" /\ pc = "prune" => latest # 0 /\ best \in Names(latest)
    /\ pc \in {"summary", "done"} => latest # 0 /\ best \in Names(latest)

IInv == TypeOK /\ SnapshotInv /\ UploadInv /\ CommitInv /\ BestInv

-----------------------------------------------------------------------------
\* A bounded nonempty set of numbers has the maximum that MaxOf names.
LEMMA MaxOfIsMax ==
    ASSUME NEW N \in Nat, NEW S \in SUBSET (0..N), S # {}
    PROVE  MaxOf(S) \in S /\ \A y \in S : y <= MaxOf(S)
<1> DEFINE T == {n \in 0..N : N - n \in S}
           R == OpToRel(<, Nat)
<1>0. PICK z \in S : TRUE
  OBVIOUS
<1>1. T \in SUBSET Nat /\ T # {}
  <2>1. N - z \in 0..N /\ N - (N - z) = z
    OBVIOUS
  <2>2. N - z \in T
    BY <2>1
  <2>3. T \in SUBSET Nat
    OBVIOUS
  <2> HIDE DEF T, R
  <2> QED BY <2>2, <2>3
<1>2. PICK m \in T : \A y \in T : ~(<<y, m>> \in R)
  BY <1>1, WFMin, NatLessThanWellFounded, Zenon
<1>3. ASSUME NEW x \in Nat, NEW y \in Nat, x < y PROVE <<x, y>> \in R
  <2>1. <<x, y>> \in Nat \X Nat /\ <<x, y>>[1] < <<x, y>>[2]
    BY <1>3
  <2> HIDE DEF R
  <2>2. R = {ss \in Nat \X Nat : ss[1] < ss[2]}
    BY Zenon DEF R, OpToRel
  <2> QED BY <2>1, <2>2
<1>4. \A y \in S : y <= N - m
  <2>1. SUFFICES ASSUME NEW y \in S, ~(y <= N - m) PROVE FALSE
    OBVIOUS
  <2>2. N - y \in T /\ N - y \in Nat /\ m \in Nat /\ N - y < m
    <3>1. N - y \in 0..N /\ N - (N - y) = y /\ m \in 0..N
      OBVIOUS
    <3> QED BY <2>1, <3>1
  <2> HIDE DEF R, T
  <2> QED BY <1>2, <1>3, <2>2
<1>5. \E x \in S : \A y \in S : y <= x
  BY <1>4
<1> HIDE DEF T, R
<1> QED BY <1>5 DEF MaxOf

\* LastVersion is the highest version there is, 0 without one.
LEMMA LastVersionIsLast ==
    /\ LastVersion \in 0..MaxSnapshot
    /\ \A v \in Versions : Present(v) => v <= LastVersion
    /\ LastVersion # 0 => Present(LastVersion)
<1> DEFINE S == {0} \cup {v \in Versions : Present(v)}
<1>1. S \in SUBSET (0..MaxSnapshot) /\ S # {} /\ MaxSnapshot \in Nat
  BY BoundsAssumption DEF Versions
<1>2. MaxOf(S) \in S /\ \A y \in S : y <= MaxOf(S)
  <2> HIDE DEF S
  <2> QED BY <1>1, MaxOfIsMax
<1> QED BY <1>1, <1>2 DEF LastVersion

\* The same of the next state.
LEMMA LastVersionIsLastAfter ==
    /\ LastVersion' \in 0..MaxSnapshot
    /\ \A v \in Versions : Present(v)' => v <= LastVersion'
    /\ LastVersion' # 0 => Present(LastVersion)'
<1> DEFINE S == {0} \cup {v \in Versions : Present(v)'}
<1>1. S \in SUBSET (0..MaxSnapshot) /\ S # {} /\ MaxSnapshot \in Nat
  BY BoundsAssumption DEF Versions
<1>2. MaxOf(S) \in S /\ \A y \in S : y <= MaxOf(S)
  <2> HIDE DEF S
  <2> QED BY <1>1, MaxOfIsMax
<1> QED BY <1>1, <1>2 DEF LastVersion

\* The newest of a set of steps.
LEMMA NewestStep ==
    ASSUME NEW S \in SUBSET Steps, S # {}
    PROVE  MaxOf(S) \in S /\ \A t \in S : t <= MaxOf(S)
<1>1. S \in SUBSET (0..MaxStep) /\ MaxStep \in Nat
  BY BoundsAssumption DEF Steps
<1> QED BY <1>1, MaxOfIsMax

\* What a synchronisation keeps are candidates, the newest among them.
LEMMA KeepNowKeepsNewest ==
    ASSUME TypeOK
    PROVE  /\ Candidates \subseteq Steps /\ KeepNow \subseteq Candidates
           /\ \A s \in Candidates : \E t \in KeepNow : s <= t
<1>1. Candidates \subseteq Steps
  BY DEF TypeOK, Candidates, Dirs, Referenced
<1>2. CASE Candidates = {}
  BY <1>2 DEF KeepNow, Keep
<1>3. CASE Candidates # {}
  <2>1. MaxOf(Candidates) \in Candidates /\ \A s \in Candidates : s <= MaxOf(Candidates)
    BY <1>1, <1>3, NewestStep
  <2>2. \A older \in SUBSET Candidates : older # {} => MaxOf(older) \in Candidates
    BY <1>1, NewestStep
  <2> QED BY <1>1, <1>3, <2>1, <2>2 DEF KeepNow, Keep
<1> QED BY <1>1, <1>2, <1>3

-----------------------------------------------------------------------------
\* Type correctness is kept by every step of a session and by its end.
LEMMA TypeStep == ASSUME TypeOK, [Next]_vars PROVE TypeOK'
<1> USE DEF TypeOK, durable, disk, run, Dir
<1>0. CASE UNCHANGED vars
  BY <1>0 DEF vars, Present, Names
<1>s. ASSUME UNCHANGED snaps
      PROVE \A v \in Versions : Present(v)' => /\ Names(v)' \subseteq Steps
                                               /\ snaps'[v] \in [Names(v)' -> Contents]
  BY <1>s DEF Present, Names
<1>1. CASE Start
  <2>1. todo' \subseteq Steps
    <3>1. CASE latest = 0
      BY <1>1, <3>1 DEF Start
    <3>2. CASE latest # 0
      BY <1>1, <3>2 DEF Start, Resolves, Present
    <3> QED BY <3>1, <3>2
  <2>2. session' \in 0..MaxSession /\ session' \in Sessions
    BY <1>1, BoundsAssumption DEF Start, Sessions
  <2> QED BY <1>1, <1>s, <2>1, <2>2 DEF Start
<1>2. ASSUME NEW s \in Steps, RestoreCopy(s) \/ RestoreAside(s) \/ RestorePlace(s) PROVE TypeOK'
  BY <1>2, <1>s DEF RestoreCopy, RestoreAside, RestorePlace
<1>3. CASE RestoreFinish
  BY <1>3, <1>s DEF RestoreFinish
<1>4. CASE Resume
  <2>1. line' \in Seq(Sessions) /\ best' \in Steps \cup {None}
    <3>1. CASE Complete(local) = {}
      BY <1>4, <3>1 DEF Resume
    <3>2. CASE Complete(local) # {}
      <4>1. MaxOf(Complete(local)) \in Complete(local)
        BY <3>2, NewestStep DEF Complete
      <4>2. local[MaxOf(Complete(local))] \in Contents
        BY <4>1 DEF Complete
      <4> QED BY <1>4, <3>2, <4>2 DEF Resume, Contents
    <3> QED BY <3>1, <3>2
  <2> QED BY <1>4, <1>s, <2>1 DEF Resume
<1>5. CASE Save
  <2>1. Len(line) + 1 \in Steps
    BY <1>5, BoundsAssumption DEF Save, Steps
  <2>2. line' \in Seq(Sessions) /\ best' \in Steps
    BY <1>5, <2>1 DEF Save
  <2>3. [line |-> line', best |-> best'] \in Contents
    BY <2>2 DEF Contents
  <2> QED BY <1>5, <1>s, <2>1, <2>2, <2>3 DEF Save
<1>6. CASE Rotate
  BY <1>6, <1>s DEF Rotate
<1>7. CASE Trained \/ SelectBest
  BY <1>7, <1>s DEF Trained, SelectBest
<1>8. CASE WriteSummary
  BY <1>8, <1>s DEF WriteSummary
<1>9. CASE SyncPlan
  <2>1. todo' \subseteq Steps
    <3>2. KeepNow \subseteq Steps
      BY KeepNowKeepsNewest
    <3> QED BY <1>9, <3>2 DEF SyncPlan
  <2> QED BY <1>9, <1>s, <2>1 DEF SyncPlan
<1>10. ASSUME NEW s \in Steps, UploadCopy(s) \/ UploadAside(s) \/ UploadPlace(s) PROVE TypeOK'
  BY <1>10, <1>s DEF UploadCopy, UploadAside, UploadPlace
<1>11. CASE SyncCommit
  BY <1>11, LastVersionIsLast, BoundsAssumption
     DEF SyncCommit, Present, Names, Complete, Versions
<1>12. CASE SyncAdvertise
  BY <1>12, <1>s, LastVersionIsLast DEF SyncAdvertise
<1>13. ASSUME NEW s \in Steps, PruneStore(s) PROVE TypeOK'
  BY <1>13, <1>s DEF PruneStore
<1>14. CASE PruneDebris
  BY <1>14, <1>s DEF PruneDebris
<1>15. ASSUME NEW v \in Versions, PruneSnapshot(v) PROVE TypeOK'
  BY <1>15 DEF PruneSnapshot, Present, Names
<1>16. CASE SyncDone
  BY <1>16, <1>s DEF SyncDone
<1>17. CASE SessionEnds \/ MachineLost
  <2>1. store' \in [Steps -> Dir]
    BY <1>17 DEF SessionEnds, MachineLost, Stopped, HalfPruned
  <2>2. local' \in [Steps -> Dir]
    BY <1>17 DEF SessionEnds, MachineLost, HalfSaved
  <2>3. \A v \in Versions : Present(v)' => /\ Names(v)' \subseteq Steps
                                           /\ snaps'[v] \in [Names(v)' -> Contents]
    <3>1. CASE snaps' = snaps
      BY <3>1, <1>s
    <3>2. ASSUME NEW u \in Versions, snaps' = [snaps EXCEPT ![u] = << >>]
          PROVE \A v \in Versions : Present(v)' => /\ Names(v)' \subseteq Steps
                                                   /\ snaps'[v] \in [Names(v)' -> Contents]
      <4>1. << >> = [s \in {} |-> s] /\ DOMAIN << >> = {}
        OBVIOUS
      <4>2. << >> \in [{} -> Contents]
        BY <4>1
      <4> SUFFICES ASSUME NEW v \in Versions, Present(v)'
                   PROVE Names(v)' \subseteq Steps /\ snaps'[v] \in [Names(v)' -> Contents]
        OBVIOUS
      <4>3. CASE v = u /\ v \in DOMAIN snaps
        BY <3>2, <4>1, <4>2, <4>3 DEF Names
      <4>4. CASE ~(v = u /\ v \in DOMAIN snaps)
        <5>1. snaps'[v] = snaps[v]
          BY <3>2, <4>4
        <5> QED BY <5>1 DEF Names, Present
      <4> QED BY <4>3, <4>4
    <3> QED BY <1>17, <3>1, <3>2 DEF SessionEnds, MachineLost, Stopped, HalfDropped, OldVersions
  <2>4. stray' \in BOOLEAN
    <3>1. CASE SessionEnds
      BY <3>1 DEF SessionEnds
    <3>2. CASE MachineLost
      BY <3>2, Zenon DEF MachineLost
    <3> QED BY <1>17, <3>1, <3>2
  <2>5. line' \in Seq(Sessions)
    <3>1. << >> \in Seq(Sessions)
      OBVIOUS
    <3> QED BY <1>17, <3>1 DEF SessionEnds, MachineLost, Stopped
  <2>6. DOMAIN snaps' = Versions
    BY <1>17 DEF SessionEnds, MachineLost, Stopped, HalfDropped
  <2> QED BY <1>17, <2>1, <2>2, <2>3, <2>4, <2>5, <2>6 DEF SessionEnds, MachineLost, Stopped
<1> QED
  BY <1>0, <1>1, <1>2, <1>3, <1>4, <1>5, <1>6, <1>7, <1>8, <1>9, <1>10, <1>11, <1>12, <1>13,
     <1>14, <1>15, <1>16, <1>17 DEF Next, Restore, Train, Sync

-----------------------------------------------------------------------------
\* Snapshots reference steps of the run.
LEMMA ReferencesAreSteps == ASSUME TypeOK PROVE Referenced \subseteq Steps /\ Kept \subseteq Steps
BY DEF TypeOK, Referenced, Kept

\* The steps that leave the snapshots and LATEST alone, and the store's copy of
\* every checkpoint that a snapshot references.
LEMMA SnapshotsUntouched ==
    ASSUME TypeOK, SnapshotInv, UNCHANGED <<snaps, latest>>,
           \A s \in Referenced : store'[s] = store[s]
    PROVE  SnapshotInv'
<1>1. \A v \in Versions : Present(v) => Names(v) \subseteq Referenced
  BY DEF Referenced
<1> QED BY <1>1 DEF SnapshotInv, RetainedSnapshotsResolve, Resolves, Present, Names

\* What LATEST and the rollback version reference is not prunable.
LEMMA PrunableIsNotKept ==
    ASSUME TypeOK, SnapshotInv, UNCHANGED <<snaps, latest>>,
           \A s \in Kept : store'[s] = store[s]
    PROVE  SnapshotInv'
<1>1. \A v \in Versions : Present(v) /\ v >= latest - 1 => Names(v) \subseteq Kept
  BY DEF Kept
<1> QED BY <1>1 DEF SnapshotInv, RetainedSnapshotsResolve, Resolves, Present, Names

\* A synchronisation's commit: one version more, which is the last.
LEMMA CommitStep ==
    ASSUME TypeOK, SnapshotInv, SyncCommit
    PROVE  /\ LastVersion + 1 \in Versions /\ LastVersion' = LastVersion + 1
           /\ Present(LastVersion)' /\ Names(LastVersion)' = KeepNow \cap Complete(store)
           /\ \A s \in KeepNow \cap Complete(store) : snaps'[LastVersion + 1][s] = store[s]
           /\ \A v \in Versions : v # LastVersion + 1 => snaps'[v] = snaps[v]
           /\ latest # LastVersion + 1
<1> DEFINE names == KeepNow \cap Complete(store)
           added == [s \in names |-> store[s]]
<1>0. PICK new \in Versions : new = LastVersion + 1
  BY LastVersionIsLast, BoundsAssumption DEF SyncCommit, Versions
<1>1. LastVersion \in 0..MaxSnapshot /\ latest \in 0..MaxSnapshot
  BY LastVersionIsLast DEF TypeOK
<1>2. DOMAIN added = names /\ \A s \in names : added[s] = store[s]
  OBVIOUS
<1>3. snaps' = [snaps EXCEPT ![new] = added]
  BY <1>0 DEF SyncCommit
<1>4. added \in [names -> Contents] /\ names \in SUBSET Steps
  BY DEF Complete
<1>5. added # None
  BY <1>4, ContentAssumption
<1> HIDE DEF names, added
<1>6. snaps'[new] = added /\ \A v \in Versions : v # new => snaps'[v] = snaps[v]
  BY <1>0, <1>3 DEF TypeOK
<1>7. Present(new)'
  BY <1>5, <1>6 DEF Present
<1>8. LastVersion' = new
  <2>1. LastVersion' \in 0..MaxSnapshot /\ new <= LastVersion'
        /\ (LastVersion' # 0 => Present(LastVersion)')
    BY <1>7, LastVersionIsLastAfter
  <2>2. ASSUME LastVersion' # new PROVE FALSE
    <3>1. LastVersion' \in Versions /\ snaps'[LastVersion'] = snaps[LastVersion']
          /\ snaps'[LastVersion'] # None
      BY <1>0, <1>1, <1>6, <2>1, <2>2, BoundsAssumption DEF Present, Versions
    <3>2. LastVersion' <= LastVersion
      BY <3>1, LastVersionIsLast DEF Present
    <3> QED BY <1>0, <1>1, <2>1, <3>1, <3>2
  <2> QED BY <2>2
<1>9. latest # new
  BY <1>0, <1>1, LastVersionIsLast DEF SnapshotInv, Present, Versions
<1> QED BY <1>0, <1>1, <1>2, <1>6, <1>7, <1>8, <1>9 DEF Names, names

\* LATEST resolves, and what is kept for it stays, through every step.
LEMMA SnapshotStep == ASSUME IInv, [Next]_vars PROVE SnapshotInv'
<1> USE DEF IInv, durable, disk, run
<1>0. CASE UNCHANGED <<store, snaps, latest>>
  BY <1>0 DEF SnapshotInv, RetainedSnapshotsResolve, Resolves, Present, Names
<1>1. ASSUME NEW s \in Steps, UploadCopy(s) \/ UploadAside(s) \/ UploadPlace(s)
      PROVE  SnapshotInv'
  <2>1. s \notin Referenced
    BY <1>1 DEF UploadInv, UploadCopy, UploadAside, UploadPlace, First
  <2>2. UNCHANGED <<snaps, latest>> /\ \A t \in Referenced : store'[t] = store[t]
    BY <1>1, <2>1, ReferencesAreSteps DEF UploadCopy, UploadAside, UploadPlace, TypeOK
  <2> QED BY <2>2, SnapshotsUntouched
<1>2. CASE SyncCommit
  <2>1. PICK new \in Versions : new = LastVersion + 1
    BY <1>2, CommitStep
  <2>2. snaps'[new] # None /\ DOMAIN snaps'[new] = KeepNow \cap Complete(store)
        /\ \A s \in KeepNow \cap Complete(store) : snaps'[new][s] = store[s]
    BY <1>2, <2>1, CommitStep DEF Present, Names
  <2>3. \A v \in Versions : v # new => snaps'[v] = snaps[v]
    BY <1>2, <2>1, CommitStep
  <2>4. latest # new /\ store' = store /\ latest' = latest
    BY <1>2, <2>1, CommitStep DEF SyncCommit
  <2> QED BY <2>2, <2>3, <2>4 DEF SnapshotInv, RetainedSnapshotsResolve, Resolves, Present, Names
<1>3. CASE SyncAdvertise
  <2>1. /\ latest' = LastVersion /\ store' = store /\ snaps' = snaps
        /\ Present(LastVersion) /\ Names(LastVersion) # {}
    BY <1>3 DEF SyncAdvertise, CommitInv
  <2>2. latest <= LastVersion /\ LastVersion \in Nat /\ latest \in Nat
    BY LastVersionIsLast, BoundsAssumption DEF SnapshotInv, Present, TypeOK
  <2>3. \A v \in Versions : Present(v) /\ v >= LastVersion - 1 => Resolves(v)
    BY <2>2 DEF SnapshotInv, RetainedSnapshotsResolve, Versions
  <2> QED BY <2>1, <2>3 DEF SnapshotInv, RetainedSnapshotsResolve, Resolves, Present, Names
<1>4. ASSUME NEW s \in Steps, PruneStore(s) PROVE SnapshotInv'
  <2>1. UNCHANGED <<snaps, latest>> /\ \A t \in Kept : store'[t] = store[t]
    BY <1>4 DEF PruneStore, Prunable
  <2> QED BY <2>1, PrunableIsNotKept
<1>5. ASSUME NEW v \in Versions, PruneSnapshot(v) PROVE SnapshotInv'
  <2>1. v < latest - 1 /\ store' = store /\ latest' = latest /\ snaps'[v] = None
        /\ \A u \in Versions : u # v => snaps'[u] = snaps[u]
    BY <1>5 DEF PruneSnapshot, OldVersions, TypeOK
  <2>2. latest # v /\ v \in Nat /\ latest \in Nat
    BY <2>1, BoundsAssumption DEF Versions, TypeOK
  <2>3. \A u \in Versions : u >= latest - 1 => u # v
    BY <2>1, <2>2
  <2>4. \A u \in Versions : Present(u)' /\ u >= latest' - 1 => Resolves(u)'
    <3> SUFFICES ASSUME NEW u \in Versions, Present(u)', u >= latest' - 1
                 PROVE  Resolves(u)'
      OBVIOUS
    <3>1. snaps'[u] = snaps[u] /\ u >= latest - 1
      BY <2>1, <2>3
    <3>2. Resolves(u)
      BY <3>1 DEF SnapshotInv, RetainedSnapshotsResolve, Present
    <3> QED BY <2>1, <3>1, <3>2 DEF Resolves, Present, Names
  <2>5. latest # 0 => Present(latest)' /\ Names(latest)' # {}
    BY <2>1, <2>2 DEF SnapshotInv, Present, Names
  <2> QED BY <2>1, <2>4, <2>5 DEF SnapshotInv, RetainedSnapshotsResolve
<1>6. CASE Stopped
  <2>1. latest' = latest /\ store' \in HalfPruned /\ snaps' \in HalfDropped
    BY <1>6 DEF Stopped
  <2>2. \A t \in Kept : store'[t] = store[t]
    BY <2>1, ReferencesAreSteps DEF HalfPruned, Prunable, TypeOK
  <2>3. CASE snaps' = snaps
    BY <2>1, <2>2, <2>3, PrunableIsNotKept
  <2>4. ASSUME NEW u \in OldVersions, snaps' = [snaps EXCEPT ![u] = << >>]
        PROVE  SnapshotInv'
    <3>1. u < latest - 1 /\ u \in Nat /\ latest \in Nat
      BY BoundsAssumption DEF OldVersions, TypeOK, Versions
    <3>2. \A v \in Versions : v # u => snaps'[v] = snaps[v]
      BY <2>4
    <3>3. \A v \in Versions : Present(v) /\ v >= latest - 1 => Names(v) \subseteq Kept
      BY DEF Kept
    <3>4. latest # u
      BY <3>1
    <3>5. \A v \in Versions : v >= latest - 1 => v # u
      BY <3>1
    <3>6. latest # 0 => latest >= latest - 1
      BY <3>1
    <3> QED
      BY <2>1, <2>2, <3>2, <3>3, <3>4, <3>5, <3>6
      DEF SnapshotInv, RetainedSnapshotsResolve, Resolves, Present, Names
  <2> QED BY <2>1, <2>3, <2>4 DEF HalfDropped
<1> QED
  BY <1>0, <1>1, <1>2, <1>3, <1>4, <1>5, <1>6
  DEF Next, Restore, Train, Sync, vars, Start, RestoreCopy, RestoreAside, RestorePlace,
      RestoreFinish, Resume, Save, Rotate, Trained, SelectBest, WriteSummary, SyncPlan,
      PruneDebris, SyncDone, SessionEnds, MachineLost

-----------------------------------------------------------------------------
\* Copying a checkpoint changes neither what the snapshots reference and the store
\* has of it nor what the synchronisation will keep.
LEMMA CopiesKeepThePlan ==
    ASSUME IInv, NEW s \in Steps, UploadCopy(s) \/ UploadAside(s) \/ UploadPlace(s)
    PROVE  /\ Referenced' = Referenced /\ KeepNow' = KeepNow
           /\ \A t \in Referenced : store'[t] = store[t]
<1> USE DEF IInv, disk, run
<1>1. s \notin Referenced
  BY DEF UploadInv, UploadCopy, UploadAside, UploadPlace, First
<1>2. /\ \A t \in Steps : t # s => store'[t] = store[t]
      /\ UNCHANGED <<snaps, latest, local, mode, best>>
  BY DEF UploadCopy, UploadAside, UploadPlace, TypeOK
<1>3. Referenced' = Referenced
  BY <1>2 DEF Referenced, Names, Present
<1>4. \A t \in Referenced : store'[t] = store[t]
  BY <1>1, <1>2, ReferencesAreSteps
<1>5. Candidates' = Candidates
  BY <1>2, <1>3, <1>4 DEF Candidates, Dirs
<1>6. KeepNow' = KeepNow
  BY <1>2, <1>5 DEF KeepNow, Names
<1> QED BY <1>3, <1>4, <1>6

\* Only a synchronisation's plan and its copies lead to copying.
LEMMA OnlySyncCopies ==
    ASSUME [Next]_vars, pc' \in {"upload", "swap"}
    PROVE  \/ UNCHANGED vars
           \/ SyncPlan
           \/ \E s \in Steps : UploadCopy(s) \/ UploadAside(s) \/ UploadPlace(s)
<1> USE DEF durable, disk, run
<1>1. ASSUME NEW s \in Steps, RestoreCopy(s) \/ RestoreAside(s) \/ RestorePlace(s) PROVE FALSE
  BY <1>1 DEF RestoreCopy, RestoreAside, RestorePlace
<1>2. ASSUME Start \/ RestoreFinish \/ Resume \/ Train PROVE FALSE
  BY <1>2 DEF Start, RestoreFinish, Resume, Train, Save, Rotate, Trained, SelectBest,
               WriteSummary
<1>3. ASSUME NEW s \in Steps, PruneStore(s) PROVE FALSE
  BY <1>3 DEF PruneStore
<1>4. ASSUME NEW v \in Versions, PruneSnapshot(v) PROVE FALSE
  BY <1>4 DEF PruneSnapshot
<1>5. ASSUME SyncCommit \/ SyncAdvertise \/ PruneDebris \/ SyncDone \/ SessionEnds \/ MachineLost
      PROVE FALSE
  BY <1>5 DEF SyncCommit, SyncAdvertise, PruneDebris, SyncDone, SessionEnds, MachineLost,
               Stopped
<1> QED BY <1>1, <1>2, <1>3, <1>4, <1>5 DEF Next, Restore, Sync

\* While checkpoints are copied, what is kept and not to be copied is complete.
LEMMA UploadStep == ASSUME IInv, [Next]_vars PROVE UploadInv'
<1> USE DEF IInv, durable, disk, run
<1>0. CASE UNCHANGED vars
  BY <1>0 DEF UploadInv, vars, Referenced, Names, Present, KeepNow, Candidates, Complete, Dirs
<1>1. CASE SyncPlan
  <2>1. \A s \in KeepNow \ todo' : s \in Complete(store)
    BY <1>1, KeepNowKeepsNewest DEF SyncPlan, Reusable, Complete
  <2>2. todo' \cap Referenced = {}
    BY <1>1 DEF SyncPlan
  <2>3. Referenced' = Referenced /\ KeepNow' = KeepNow /\ Complete(store)' = Complete(store)
    BY <1>1 DEF SyncPlan, Referenced, Names, Present, KeepNow, Candidates, Complete, Dirs
  <2> QED BY <2>1, <2>2, <2>3 DEF UploadInv
<1>2. ASSUME NEW s \in Steps, UploadCopy(s) \/ UploadAside(s) \/ UploadPlace(s)
      PROVE  UploadInv'
  <2>1. s \in todo /\ s \notin Referenced /\ pc \in {"upload", "swap"}
    BY <1>2 DEF UploadInv, UploadCopy, UploadAside, UploadPlace, First
  <2>2. /\ \A t \in Steps : t # s => store'[t] = store[t]
        /\ UNCHANGED <<snaps, latest, local, mode, best>>
    BY <1>2 DEF UploadCopy, UploadAside, UploadPlace, TypeOK
  <2>3. Referenced' = Referenced /\ KeepNow' = KeepNow
    BY <1>2, CopiesKeepThePlan
  <2>7. CASE todo' = todo
    BY <2>1, <2>2, <2>3, <2>7 DEF UploadInv, Complete
  <2>8. CASE UploadPlace(s)
    <3>1. todo' = todo \ {s} /\ store'[s] \in Contents
      BY <2>8 DEF UploadPlace, TypeOK
    <3> QED BY <2>1, <2>2, <2>3, <3>1 DEF UploadInv, Complete
  <2> QED BY <1>2, <2>7, <2>8 DEF UploadCopy, UploadAside
<1>3. CASE pc' \notin {"upload", "swap"}
  BY <1>3 DEF UploadInv
<1> QED BY <1>0, <1>1, <1>2, <1>3, OnlySyncCopies

\* Only a commit leads to advertising.
LEMMA OnlyCommitsAdvertise ==
    ASSUME [Next]_vars, pc' = "advertise"
    PROVE  SyncCommit \/ UNCHANGED vars
<1> USE DEF durable, disk, run
<1>1. ASSUME NEW s \in Steps, RestoreCopy(s) \/ RestoreAside(s) \/ RestorePlace(s) PROVE FALSE
  BY <1>1 DEF RestoreCopy, RestoreAside, RestorePlace
<1>2. ASSUME Start \/ RestoreFinish \/ Resume \/ Train PROVE FALSE
  BY <1>2 DEF Start, RestoreFinish, Resume, Train, Save, Rotate, Trained, SelectBest,
               WriteSummary
<1>3. ASSUME NEW s \in Steps, UploadCopy(s) \/ UploadAside(s) \/ UploadPlace(s) PROVE FALSE
  BY <1>3 DEF UploadCopy, UploadAside, UploadPlace
<1>4. ASSUME NEW s \in Steps, PruneStore(s) PROVE FALSE
  BY <1>4 DEF PruneStore
<1>5. ASSUME NEW v \in Versions, PruneSnapshot(v) PROVE FALSE
  BY <1>5 DEF PruneSnapshot
<1>6. ASSUME SyncPlan \/ SyncAdvertise \/ PruneDebris \/ SyncDone \/ SessionEnds \/ MachineLost
      PROVE FALSE
  BY <1>6 DEF SyncPlan, SyncAdvertise, PruneDebris, SyncDone, SessionEnds, MachineLost,
               Stopped
<1> QED BY <1>1, <1>2, <1>3, <1>4, <1>5, <1>6 DEF Next, Restore, Sync

\* A snapshot is advertised only with a checkpoint as new as the newest advertised.
LEMMA CommitInvStep == ASSUME IInv, [Next]_vars PROVE CommitInv'
<1> USE DEF IInv, durable, disk, run
<1>1. CASE SyncCommit
  <2>1. /\ Present(LastVersion)' /\ Names(LastVersion)' = KeepNow \cap Complete(store)
        /\ latest' = latest /\ (latest # 0 => Names(latest)' = Names(latest))
        /\ KeepNow \cap Complete(store) # {}
    BY <1>1, CommitStep DEF SyncCommit, Names, SnapshotInv, Present
  <2>2. KeepNow \subseteq Complete(store)
    BY <1>1 DEF SyncCommit, UploadInv
  <2>3. latest # 0 => Names(latest) \subseteq Candidates
    <3>1. SUFFICES ASSUME latest # 0, NEW s \in Names(latest) PROVE s \in Candidates
      OBVIOUS
    <3>2. Present(latest) /\ Resolves(latest)
      <4>1. Present(latest) /\ latest >= latest - 1
        BY <3>1, BoundsAssumption DEF SnapshotInv, TypeOK
      <4> QED BY <4>1 DEF SnapshotInv, RetainedSnapshotsResolve, Present
    <3>3. store[s] = snaps[latest][s] /\ snaps[latest][s] \in Contents
      BY <3>1, <3>2 DEF Resolves, TypeOK, Present
    <3>4. s \in Referenced
      BY <3>1, <3>2 DEF Referenced, Present
    <3> QED BY <3>3, <3>4, ContentAssumption DEF Candidates
  <2>4. latest # 0 => \A s \in Names(latest) : \E t \in KeepNow : s <= t
    BY <2>3, KeepNowKeepsNewest
  <2> QED BY <2>1, <2>2, <2>4 DEF CommitInv
<1>2. CASE pc' # "advertise"
  BY <1>2 DEF CommitInv
<1>3. CASE UNCHANGED vars
  BY <1>3 DEF CommitInv, vars, Present, Names, LastVersion
<1> QED BY <1>1, <1>2, <1>3, OnlyCommitsAdvertise

-----------------------------------------------------------------------------
\* The best checkpoint stays on the disk, then in the snapshot, then in LATEST.
LEMMA BestStep == ASSUME IInv, [Next]_vars PROVE BestInv'
<1> USE DEF IInv, durable, disk, run
<1>0. CASE UNCHANGED vars
  BY <1>0 DEF BestInv, vars, Present, Names, LastVersion
<1>1. CASE Start \/ RestoreFinish \/ Resume
  BY <1>1 DEF BestInv, Start, RestoreFinish, Resume
<1>2. ASSUME NEW s \in Steps, RestoreCopy(s) \/ RestoreAside(s) \/ RestorePlace(s) PROVE BestInv'
  BY <1>2 DEF BestInv, RestoreCopy, RestoreAside, RestorePlace
<1>3. CASE Save \/ Rotate \/ Trained
  BY <1>3 DEF BestInv, Save, Rotate, Trained
<1>4. CASE SelectBest
  BY <1>4 DEF BestInv, SelectBest, TypeOK
<1>5. CASE WriteSummary
  BY <1>5 DEF BestInv, WriteSummary, Names
<1>6. CASE SyncPlan
  BY <1>6 DEF BestInv, SyncPlan
<1>7. ASSUME NEW s \in Steps, UploadCopy(s) \/ UploadAside(s) \/ UploadPlace(s) PROVE BestInv'
  BY <1>7 DEF BestInv, UploadCopy, UploadAside, UploadPlace
<1>8. CASE SyncCommit
  <2>1. mode = "best" => best \in KeepNow \cap Complete(store)
    <3>1. SUFFICES ASSUME mode = "best" PROVE best \in KeepNow \cap Complete(store)
      OBVIOUS
    <3>2. best \in Steps /\ local[best] \in Contents
      BY <1>8, <3>1 DEF BestInv, SyncCommit
    <3>3. best \in Candidates
      BY <3>2, ContentAssumption DEF Candidates, Dirs
    <3>4. best \in KeepNow
      BY <3>1, <3>3 DEF KeepNow, Keep
    <3> QED BY <1>8, <3>4 DEF SyncCommit, UploadInv
  <2>2. Names(LastVersion)' = KeepNow \cap Complete(store)
    BY <1>8, CommitStep
  <2> QED BY <1>8, <2>1, <2>2 DEF BestInv, SyncCommit
<1>9. CASE SyncAdvertise
  <2>1. latest' = LastVersion /\ LastVersion # 0 /\ Names(latest)' = Names(LastVersion)
    BY <1>9 DEF SyncAdvertise, CommitInv, Present, Versions, Names
  <2> QED BY <1>9, <2>1 DEF BestInv, SyncAdvertise
<1>10. ASSUME NEW s \in Steps, PruneStore(s) PROVE BestInv'
  BY <1>10 DEF BestInv, PruneStore, Names
<1>11. CASE PruneDebris
  BY <1>11 DEF BestInv, PruneDebris, Names
<1>12. ASSUME NEW v \in Versions, PruneSnapshot(v) PROVE BestInv'
  <2>1. latest' = latest /\ (latest # 0 => snaps'[latest] = snaps[latest])
    BY <1>12, BoundsAssumption DEF PruneSnapshot, OldVersions, TypeOK, Versions
  <2> QED BY <1>12, <2>1 DEF BestInv, PruneSnapshot, Names
<1>13. CASE SyncDone
  BY <1>13 DEF BestInv, SyncDone, TypeOK, Names
<1>14. CASE Stopped
  BY <1>14 DEF BestInv, Stopped
<1> QED
  BY <1>0, <1>1, <1>2, <1>3, <1>4, <1>5, <1>6, <1>7, <1>8, <1>9, <1>10, <1>11, <1>12, <1>13,
     <1>14 DEF Next, Restore, Train, Sync, SessionEnds, MachineLost

LEMMA InitIInv == Init => IInv
<1> SUFFICES ASSUME Init PROVE IInv
  OBVIOUS
<1> USE DEF Init
<1>1. TypeOK
  <2>1. << >> \in Seq(Sessions)
    OBVIOUS
  <2>2. [s \in Steps |-> None] \in [Steps -> Dir]
    BY DEF Dir
  <2>3. latest \in 0..MaxSnapshot /\ session \in 0..MaxSession
    BY BoundsAssumption
  <2>4. \A v \in Versions : ~Present(v)
    BY DEF Present
  <2> QED BY <2>1, <2>2, <2>3, <2>4 DEF TypeOK
<1>2. SnapshotInv
  BY DEF SnapshotInv, RetainedSnapshotsResolve, Present
<1>3. UploadInv /\ CommitInv /\ BestInv
  BY DEF UploadInv, CommitInv, BestInv
<1> QED BY <1>1, <1>2, <1>3 DEF IInv

\* The inductive invariant holds in every reachable state.
THEOREM IInvariant == Spec => []IInv
<1>1. IInv /\ [Next]_vars => IInv'
  <2> SUFFICES ASSUME IInv, [Next]_vars PROVE IInv'
    OBVIOUS
  <2>1. TypeOK'
    BY TypeStep DEF IInv
  <2> QED BY <2>1, SnapshotStep, UploadStep, CommitInvStep, BestStep DEF IInv
<1> QED BY InitIInv, <1>1, PTL DEF Spec

\* The variables keep their types.
THEOREM TypeCorrect == Spec => []TypeOK
<1>1. IInv => TypeOK
  BY DEF IInv
<1> QED BY <1>1, IInvariant, PTL

\* The advertised snapshot, the rollback and one in the making always resolve.
THEOREM RetainedSnapshotsAlwaysResolve == Spec => []RetainedSnapshotsResolve
<1>1. IInv => RetainedSnapshotsResolve
  BY DEF IInv, SnapshotInv
<1> QED BY <1>1, IInvariant, PTL

\* LATEST itself resolves.
LEMMA LatestResolves ==
    ASSUME IInv, latest # 0
    PROVE  /\ Present(latest) /\ Resolves(latest) /\ Names(latest) # {} /\ Names(latest) \subseteq Steps
           /\ \A s \in Names(latest) : store[s] = snaps[latest][s] /\ snaps[latest][s] \in Contents
<1>1. Present(latest) /\ latest >= latest - 1 /\ Names(latest) # {}
  BY BoundsAssumption DEF IInv, SnapshotInv, TypeOK
<1>2. Resolves(latest)
  BY <1>1 DEF IInv, SnapshotInv, RetainedSnapshotsResolve, Present
<1> QED BY <1>1, <1>2 DEF Resolves, IInv, TypeOK, Present

-----------------------------------------------------------------------------
\* While checkpoints are copied, the budget has room for all that the snapshots
\* reference and all that the one in the making will.
RoomInv ==
    pc \in {"upload", "swap"} =>
        Cardinality((Referenced \cap Dirs(store)) \cup KeepNow) <= Budget

BudgetInv == RoomInv /\ SnapshotsFitBudget

\* A set of steps is finite, and none of its subsets is larger.
LEMMA StepSets ==
    ASSUME NEW S \in SUBSET Steps
    PROVE  /\ IsFiniteSet(S) /\ Cardinality(S) \in Nat
           /\ \A T \in SUBSET S : Cardinality(T) <= Cardinality(S)
<1>1. IsFiniteSet(Steps)
  BY FS_Interval, BoundsAssumption DEF Steps
<1>2. IsFiniteSet(S)
  BY <1>1, FS_Subset
<1> QED BY <1>2, FS_Subset, FS_CardinalityType

\* What the snapshots reference fits as long as it is part of what did.
LEMMA LessFits ==
    ASSUME NEW S \in SUBSET Steps, Cardinality(S) <= Budget,
           (Referenced \cap Dirs(store))' \subseteq S
    PROVE  SnapshotsFitBudget'
<1> DEFINE T == (Referenced \cap Dirs(store))'
<1>0. T \in SUBSET S /\ T \in SUBSET Steps
  OBVIOUS
<1>1. Cardinality(T) \in Nat /\ Cardinality(T) <= Cardinality(S) /\ Cardinality(S) \in Nat
  <2> HIDE DEF T
  <2> QED BY <1>0, StepSets
<1>2. Cardinality(T) <= Budget
  <2> HIDE DEF T
  <2> QED BY <1>1, BoundsAssumption
<1> QED BY <1>2 DEF SnapshotsFitBudget

\* The plan counts all that stays in the store until LATEST moves.
LEMMA PlanHasRoom ==
    ASSUME IInv, SyncPlan
    PROVE  Cardinality((Referenced \cap Dirs(store)) \cup KeepNow) <= Budget
<1> DEFINE pending == {s \in KeepNow : ~Reusable(s)}
           all == (Referenced \cap Dirs(store)) \cup KeepNow
<1>1. KeepNow \subseteq Steps /\ Referenced \subseteq Steps
  BY KeepNowKeepsNewest, ReferencesAreSteps DEF IInv
<1>2. pending \in SUBSET Steps /\ Protected \in SUBSET Steps
  BY <1>1 DEF Protected
<1>3. all \subseteq Protected \cup pending
  BY ContentAssumption DEF Protected, Dirs, Reusable
<1>4. Cardinality(Protected) + Cardinality(pending) <= Budget
  BY DEF SyncPlan
<1> HIDE DEF pending, all
<1>5. /\ IsFiniteSet(Protected) /\ IsFiniteSet(pending)
      /\ Cardinality(Protected) \in Nat /\ Cardinality(pending) \in Nat
  BY <1>2, StepSets
<1>6. Cardinality(Protected \cup pending) <= Cardinality(Protected) + Cardinality(pending)
  <2>1. /\ Cardinality(Protected \cup pending)
             = Cardinality(Protected) + Cardinality(pending) - Cardinality(Protected \cap pending)
        /\ Cardinality(Protected \cap pending) \in Nat
    BY <1>2, <1>5, FS_Union, StepSets
  <2> QED BY <1>5, <2>1
<1>7. /\ Cardinality(all) <= Cardinality(Protected \cup pending)
      /\ Cardinality(all) \in Nat /\ Cardinality(Protected \cup pending) \in Nat
  <2>1. Protected \cup pending \in SUBSET Steps /\ all \in SUBSET (Protected \cup pending)
    BY <1>2, <1>3
  <2> QED BY <2>1, StepSets
<1>8. Cardinality(all) <= Budget
  BY <1>4, <1>5, <1>6, <1>7, BoundsAssumption
<1> QED BY <1>8 DEF all

\* The room is taken by the plan and kept by the copies.
LEMMA RoomStep == ASSUME IInv, RoomInv, [Next]_vars PROVE RoomInv'
<1>1. CASE UNCHANGED vars
  BY <1>1
  DEF RoomInv, vars, durable, disk, run, Referenced, Names, Present, KeepNow, Candidates, Dirs
<1>2. CASE SyncPlan
  <2>1. Referenced' = Referenced /\ KeepNow' = KeepNow /\ Dirs(store)' = Dirs(store)
    BY <1>2
    DEF SyncPlan, durable, disk, Referenced, Names, Present, KeepNow, Candidates, Dirs
  <2> QED BY <1>2, <2>1, PlanHasRoom DEF RoomInv
<1>3. ASSUME NEW s \in Steps, UploadCopy(s) \/ UploadAside(s) \/ UploadPlace(s) PROVE RoomInv'
  <2>1. Referenced' = Referenced /\ KeepNow' = KeepNow /\ \A t \in Referenced : store'[t] = store[t]
    BY <1>3, CopiesKeepThePlan
  <2>2. (Referenced \cap Dirs(store))' = Referenced \cap Dirs(store)
    BY <2>1 DEF Dirs
  <2>3. pc \in {"upload", "swap"}
    BY <1>3 DEF UploadCopy, UploadAside, UploadPlace
  <2> QED BY <2>1, <2>2, <2>3 DEF RoomInv
<1>4. CASE pc' \notin {"upload", "swap"}
  BY <1>4 DEF RoomInv
<1> QED BY <1>1, <1>2, <1>3, <1>4, OnlySyncCopies

\* A commit adds what the plan made room for; every other step only takes away.
LEMMA BudgetStep == ASSUME IInv, BudgetInv, [Next]_vars PROVE BudgetInv'
<1> USE DEF durable, disk, run
<1> SUFFICES SnapshotsFitBudget'
  BY RoomStep DEF BudgetInv
<1>1. ASSUME (Referenced \cap Dirs(store))' \subseteq Referenced \cap Dirs(store)
      PROVE  SnapshotsFitBudget'
  <2>1. Referenced \cap Dirs(store) \in SUBSET Steps
    BY DEF Dirs
  <2> QED BY <1>1, <2>1, LessFits DEF BudgetInv, SnapshotsFitBudget
<1>2. CASE UNCHANGED <<store, snaps>>
  <2>1. Referenced' = Referenced
    BY <1>2 DEF Referenced, Names, Present
  <2> QED BY <1>1, <1>2, <2>1 DEF Dirs
<1>3. ASSUME NEW s \in Steps, UploadCopy(s) \/ UploadAside(s) \/ UploadPlace(s)
      PROVE  SnapshotsFitBudget'
  BY <1>1, <1>3, CopiesKeepThePlan DEF Dirs
<1>4. CASE SyncCommit
  <2> DEFINE all == (Referenced \cap Dirs(store)) \cup KeepNow
  <2>1. all \in SUBSET Steps
    BY KeepNowKeepsNewest DEF IInv, Dirs
  <2>2. Cardinality(all) <= Budget
    BY <1>4 DEF SyncCommit, BudgetInv, RoomInv
  <2>3. Referenced' \subseteq Referenced \cup KeepNow
    <3>1. PICK new \in Versions : new = LastVersion + 1
      BY <1>4, CommitStep DEF IInv
    <3>2. Names(new)' \subseteq KeepNow /\ \A v \in Versions : v # new => snaps'[v] = snaps[v]
      BY <1>4, <3>1, CommitStep DEF IInv, Names
    <3> QED BY <3>1, <3>2 DEF Referenced, Present, Names
  <2>4. (Referenced \cap Dirs(store))' \subseteq all
    BY <1>4, <2>3 DEF SyncCommit, Dirs
  <2> HIDE DEF all
  <2> QED BY <2>1, <2>2, <2>4, LessFits
<1>5. ASSUME NEW s \in Steps, PruneStore(s) PROVE SnapshotsFitBudget'
  BY <1>1, <1>5 DEF PruneStore, IInv, TypeOK, Referenced, Names, Present, Dirs
<1>6. ASSUME NEW v \in Versions, PruneSnapshot(v) PROVE SnapshotsFitBudget'
  <2>1. store' = store /\ snaps'[v] = None /\ \A u \in Versions : u # v => snaps'[u] = snaps[u]
    BY <1>6 DEF PruneSnapshot, IInv, TypeOK
  <2>2. Referenced' \subseteq Referenced
    BY <2>1 DEF Referenced, Names, Present
  <2> QED BY <1>1, <2>1, <2>2 DEF Dirs
<1>7. CASE Stopped
  <2>1. Dirs(store)' \subseteq Dirs(store)
    BY <1>7 DEF Stopped, HalfPruned, Prunable, IInv, TypeOK, Dirs
  <2>2. Referenced' \subseteq Referenced
    <3>1. CASE snaps' = snaps
      BY <3>1 DEF Referenced, Names, Present
    <3>2. ASSUME NEW u \in OldVersions, snaps' = [snaps EXCEPT ![u] = << >>]
          PROVE  Referenced' \subseteq Referenced
      <4>1. DOMAIN << >> = {}
        OBVIOUS
      <4>2. u \in DOMAIN snaps
        BY DEF OldVersions, IInv, TypeOK
      <4>3. Names(u)' = {} /\ \A v \in Versions : v # u => snaps'[v] = snaps[v]
        BY <3>2, <4>1, <4>2 DEF Names
      <4> QED BY <4>3 DEF Referenced, Names, Present
    <3> QED BY <1>7, <3>1, <3>2 DEF Stopped, HalfDropped
  <2> QED BY <1>1, <2>1, <2>2 DEF Dirs
<1> QED
  BY <1>2, <1>3, <1>4, <1>5, <1>6, <1>7
  DEF Next, Restore, Train, Sync, vars, Start, RestoreCopy, RestoreAside, RestorePlace,
      RestoreFinish, Resume, Save, Rotate, Trained, SelectBest, WriteSummary, SyncPlan,
      SyncAdvertise, PruneDebris, SyncDone, SessionEnds, MachineLost

\* What all snapshots together keep in durable storage fits its budget: a
\* synchronisation reserves room for what it adds before it copies anything.
THEOREM SnapshotsAlwaysFitBudget == Spec => []SnapshotsFitBudget
<1>1. Init => BudgetInv
  <2> SUFFICES ASSUME Init PROVE BudgetInv
    OBVIOUS
  <2>1. Referenced \cap Dirs(store) = {}
    BY DEF Init, Dirs
  <2>2. Cardinality(Referenced \cap Dirs(store)) <= Budget
    BY <2>1, FS_EmptySet, BoundsAssumption
  <2> QED BY <2>2 DEF Init, BudgetInv, RoomInv, SnapshotsFitBudget
<1>2. IInv /\ BudgetInv /\ [Next]_vars => BudgetInv'
  BY BudgetStep
<1>3. BudgetInv => SnapshotsFitBudget
  BY DEF BudgetInv
<1> QED BY <1>1, <1>2, <1>3, IInvariant, PTL DEF Spec

=============================================================================
