------------------------- MODULE DurableCheckpoints -------------------------
(***************************************************************************)
(* Full training of the speech recogniser on rented machines: one session  *)
(* at a time restores the checkpoints that durable storage advertises,     *)
(* trains, and copies every checkpoint it saves back, into a store that    *)
(* numbered snapshots reference and LATEST points into.  A session may end *)
(* between any two file operations, with its machine's disk or without it. *)
(*                                                                         *)
(* A checkpoint's bytes are told apart by the sessions that trained the    *)
(* steps up to it (a repeated step never has the same bytes: its log has   *)
(* the times of day) and by the best step its trainer state names.  A      *)
(* raised error ends the stage and leaves what a crash at that point       *)
(* leaves, so a refusal is a guard that fails and SessionEnds.             *)
(***************************************************************************)
EXTENDS Integers, Sequences, FiniteSets

CONSTANTS
    None,
    Broken,        \* a checkpoint directory with files missing
    MaxStep,       \* the run's max_steps, in saves
    MaxSession,    \* bound: sessions
    MaxSnapshot,   \* bound: snapshot versions
    Budget         \* the durable budget, in checkpoints

ASSUME BoundsAssumption ==
    MaxStep \in Nat \ {0} /\ MaxSession \in Nat /\ MaxSnapshot \in Nat /\ Budget \in Nat
ASSUME NoneAssumption == None # Broken

Steps == 1..MaxStep
Sessions == 1..MaxSession
Versions == 1..MaxSnapshot
Contents == [line : Seq(Sessions), best : Steps]

ASSUME ContentAssumption ==
    /\ None \notin Contents /\ Broken \notin Contents /\ None \notin Steps
    /\ \A S \in SUBSET Steps : None \notin [S -> Contents]

VARIABLES
    store,     \* ckpts/: the content of each checkpoint directory, Broken or None
    aside,     \* ckpts/*.bak_replace
    staged,    \* ckpts/*.tmp_copy: steps
    snaps,     \* snapshots/: the digest of each checkpoint a version declares, or None
    latest,    \* LATEST: a version, 0 before the first one
    summary,   \* the best step that the last full_train_summary.json names, or None
    local,     \* the checkpoint directories on the session's own disk
    localBak,  \* their .bak_replace while one is replaced
    localFp,   \* there is a full_experiment_fingerprint.json beside them
    session,   \* sessions so far
    pc,        \* where the session is
    line,      \* the sessions that trained the steps so far
    best,      \* the step with the best metric so far, or None
    mode,      \* why the session synchronises: at a save, at the end, or to pin the best
    todo,      \* the checkpoints still to copy
    stray      \* history: a machine was lost with a snapshot committed, not advertised

durable == <<store, aside, staged, snaps, latest, summary>>
disk == <<local, localBak, localFp>>
run == <<session, pc, line, best, mode, todo>>
vars == <<durable, disk, run, stray>>

MaxOf(S) == CHOOSE x \in S : \A y \in S : y <= x

Dirs(f) == {s \in Steps : f[s] # None}
Complete(f) == {s \in Steps : f[s] \in Contents}
Present(v) == v \in Versions /\ snaps[v] # None
Names(v) == DOMAIN snaps[v]
Referenced == UNION {Names(v) : v \in {u \in Versions : Present(u)}}

\* Every checkpoint the snapshot declares is in the store with its digest.
Resolves(v) == Present(v) /\ \A s \in Names(v) : store[s] = snaps[v][s]

\* Checkpoints are copied in the order of their steps.
First(s) == s \in todo /\ \A t \in todo : s <= t

\* Something is there, so a missing LATEST is not a fresh start.
Residue == Referenced # {} \/ Dirs(store) # {} \/ Dirs(aside) # {} \/ staged # {}

-----------------------------------------------------------------------------
Init ==
    /\ store = [s \in Steps |-> None] /\ aside = [s \in Steps |-> None] /\ staged = {}
    /\ snaps = [v \in Versions |-> None] /\ latest = 0 /\ summary = None
    /\ local = [s \in Steps |-> None] /\ localBak = [s \in Steps |-> None] /\ localFp = FALSE
    /\ session = 0 /\ pc = "down" /\ line = << >> /\ best = None /\ mode = "save" /\ todo = {}
    /\ stray = FALSE

\* A session begins: restore's checks, all before it touches the disk.
Start ==
    /\ pc = "down"
    /\ session < MaxSession
    /\ Dirs(local) # {} => localFp
    /\ latest = 0 => ~Residue
    /\ latest # 0 => Resolves(latest)
    /\ session' = session + 1
    /\ todo' = IF latest = 0 THEN {} ELSE Names(latest)
    /\ pc' = IF latest = 0 THEN "resume" ELSE "restore"
    /\ UNCHANGED <<durable, disk, line, best, mode, stray>>

\* What an interrupted replacement left of s is put right, and the copy is made.
RestoreCopy(s) ==
    /\ pc = "restore" /\ First(s)
    /\ local' = [local EXCEPT ![s] = IF @ = None THEN localBak[s] ELSE @]
    /\ localBak' = [localBak EXCEPT ![s] = None]
    /\ pc' = "replace"
    /\ UNCHANGED <<durable, localFp, session, line, best, mode, todo, stray>>

RestoreAside(s) ==
    /\ pc = "replace" /\ First(s)
    /\ local[s] # None
    /\ localBak' = [localBak EXCEPT ![s] = local[s]]
    /\ local' = [local EXCEPT ![s] = None]
    /\ UNCHANGED <<durable, localFp, run, stray>>

RestorePlace(s) ==
    /\ pc = "replace" /\ First(s)
    /\ local[s] = None
    /\ local' = [local EXCEPT ![s] = store[s]]
    /\ localBak' = [localBak EXCEPT ![s] = None]
    /\ todo' = todo \ {s}
    /\ pc' = "restore"
    /\ UNCHANGED <<durable, localFp, session, line, best, mode, stray>>

\* Checkpoints that are neither the snapshot's nor newer than it, unless the
\* disk is ahead of the snapshot and has an identity.  (Whether it is was decided
\* before the copies, which add nothing newer than the snapshot.)
Superseded ==
    LET newest == MaxOf(Names(latest)) IN
    IF ~localFp \/ MaxOf(Dirs(local)) <= newest
    THEN {s \in Dirs(local) : s <= newest /\ s \notin Names(latest)} ELSE {}

RestoreFinish ==
    /\ pc = "restore" /\ todo = {}
    /\ local' = [s \in Steps |-> IF s \in Superseded THEN None ELSE local[s]]
    /\ localFp' = TRUE
    /\ pc' = "resume"
    /\ UNCHANGED <<durable, localBak, session, line, best, mode, todo, stray>>

\* Variant for the checks: directory names sort the wrong way round.
ResumeByName ==
    LET from == Complete(local) IN
    /\ pc = "resume"
    /\ Cardinality(Referenced \cap Dirs(store)) + 1 <= Budget
    /\ localFp' = TRUE
    /\ line' = IF from = {} THEN << >> ELSE local[CHOOSE s \in from : \A t \in from : s <= t].line
    /\ best' = IF from = {} THEN None ELSE local[CHOOSE s \in from : \A t \in from : s <= t].best
    /\ pc' = "train"
    /\ UNCHANGED <<durable, local, localBak, session, mode, todo, stray>>

\* The trainer loads the newest complete checkpoint, or the base model.
Resume ==
    LET from == Complete(local) IN
    /\ pc = "resume"
    /\ Cardinality(Referenced \cap Dirs(store)) + 1 <= Budget
    /\ localFp' = TRUE
    /\ line' = IF from = {} THEN << >> ELSE local[MaxOf(from)].line
    /\ best' = IF from = {} THEN None ELSE local[MaxOf(from)].best
    /\ pc' = "train"
    /\ UNCHANGED <<durable, local, localBak, session, mode, todo, stray>>

-----------------------------------------------------------------------------
\* The next checkpoint is evaluated and saved.
Save ==
    LET s == Len(line) + 1 IN
    /\ pc = "train"
    /\ s <= MaxStep
    /\ line' = Append(line, session)
    /\ best' \in {s} \cup ({best} \ {None})
    /\ local' = [local EXCEPT ![s] = [line |-> line', best |-> best']]
    /\ pc' = "rotate"
    /\ UNCHANGED <<durable, localBak, localFp, session, mode, todo, stray>>

\* The trainer keeps two checkpoints of its own, the best among them.
RotatedOut ==
    LET older == Dirs(local) \ {Len(line)} IN
    IF older = {} THEN {} ELSE older \ {IF best \in older THEN best ELSE MaxOf(older)}

\* Then the callback synchronises, if the best checkpoint is still there.
Rotate ==
    /\ pc = "rotate"
    /\ local' = [s \in Steps |-> IF s \in RotatedOut THEN None ELSE local[s]]
    /\ local[best] # None
    /\ mode' = "save" /\ pc' = "plan"
    /\ UNCHANGED <<durable, localBak, localFp, session, line, best, todo, stray>>

\* max_steps reached: one more synchronisation, which names no best.
Trained ==
    /\ pc = "train"
    /\ Len(line) = MaxStep
    /\ mode' = "final" /\ pc' = "plan"
    /\ UNCHANGED <<durable, disk, session, line, best, todo, stray>>

\* The best checkpoint is loaded once more and pinned by a last synchronisation.
SelectBest ==
    /\ pc = "select"
    /\ best # None
    /\ local[best] \in Contents
    /\ mode' = "best" /\ pc' = "plan"
    /\ UNCHANGED <<durable, disk, session, line, best, todo, stray>>

\* Whatever the stage's status, which is decided after it.
WriteSummary ==
    /\ pc = "summary"
    /\ summary' = best
    /\ pc' = "done"
    /\ UNCHANGED <<store, aside, staged, snaps, latest, disk, session, line, best, mode, todo, stray>>

-----------------------------------------------------------------------------
\* Variant for the checks: ordinary step-ordered retention.
KeepByStep(candidates, bestStep, lkgStep) ==
    LET older == candidates \ {MaxOf(candidates)} IN
    {MaxOf(candidates)} \cup (IF older = {} THEN {} ELSE {MaxOf(older)})

\* plan_checkpoint_retention: the newest, the best and the one before, if they are candidates.
Keep(candidates, bestStep, lkgStep) ==
    LET newest == MaxOf(candidates)
        first == {newest} \cup ({bestStep} \cap candidates)
        older == candidates \ first
        previous == IF lkgStep # 0 THEN {lkgStep} \cap candidates
                    ELSE IF older = {} THEN {} ELSE {MaxOf(older)} IN
    IF candidates = {} THEN {} ELSE first \cup previous

\* The digest the newest snapshot that declares s has for it.
KnownDigest(s) == snaps[MaxOf({v \in Versions : Present(v) /\ s \in Names(v)})][s]

\* Variant for the checks: a complete directory of the same name is good enough.
ReusableByName(s) == store[s] \in Contents

\* The store's copy is the local one, or, without a local one, the one a snapshot declares.
Reusable(s) ==
    /\ store[s] \in Contents
    /\ IF local[s] # None THEN store[s] = local[s]
       ELSE s \in Referenced /\ store[s] = KnownDigest(s)

Candidates == Dirs(local) \cup {s \in Referenced : store[s] # None}

KeepNow ==
    Keep(Candidates, IF mode = "final" THEN None ELSE best,
         IF latest = 0 THEN 0 ELSE MaxOf(Names(latest)))

\* Variant for the checks: the rollback's own checkpoints are not counted.
ProtectedByLatest ==
    {s \in (IF latest = 0 THEN {} ELSE Names(latest)) \cup KeepNow : store[s] # None}

\* What stays in the store until LATEST moves: all that a snapshot references
\* and all that the next one will.
Protected == {s \in Referenced \cup KeepNow : store[s] # None}

\* Variant for the checks: what a snapshot references is replaced when it differs.
SyncPlanReplaces ==
    LET pending == {s \in KeepNow : ~Reusable(s)} IN
    /\ pc = "plan"
    /\ latest = 0 => ~Residue
    /\ latest # 0 => Resolves(latest)
    /\ \A s \in pending : local[s] # None
    /\ Cardinality(Protected) + Cardinality(pending) <= Budget
    /\ todo' = pending
    /\ pc' = "upload"
    /\ UNCHANGED <<durable, disk, session, line, best, mode, stray>>

\* All of a synchronisation's checks; nothing is written before they pass.
SyncPlan ==
    LET pending == {s \in KeepNow : ~Reusable(s)} IN
    /\ pc = "plan"
    /\ latest = 0 => ~Residue
    /\ latest # 0 => Resolves(latest)
    /\ pending \cap Referenced = {}
    /\ \A s \in pending : local[s] # None
    /\ Cardinality(Protected) + Cardinality(pending) <= Budget
    /\ todo' = pending
    /\ pc' = "upload"
    /\ UNCHANGED <<durable, disk, session, line, best, mode, stray>>

UploadCopy(s) ==
    /\ pc = "upload" /\ First(s)
    /\ store' = [store EXCEPT ![s] = IF @ = None THEN aside[s] ELSE @]
    /\ aside' = [aside EXCEPT ![s] = None]
    /\ staged' = staged \cup {s}
    /\ pc' = "swap"
    /\ UNCHANGED <<snaps, latest, summary, disk, session, line, best, mode, todo, stray>>

UploadAside(s) ==
    /\ pc = "swap" /\ First(s)
    /\ store[s] # None
    /\ aside' = [aside EXCEPT ![s] = store[s]]
    /\ store' = [store EXCEPT ![s] = None]
    /\ UNCHANGED <<staged, snaps, latest, summary, disk, run, stray>>

\* The staged copy was checked to be complete.
UploadPlace(s) ==
    /\ pc = "swap" /\ First(s)
    /\ store[s] = None
    /\ local[s] \in Contents
    /\ store' = [store EXCEPT ![s] = local[s]]
    /\ aside' = [aside EXCEPT ![s] = None]
    /\ staged' = staged \ {s}
    /\ todo' = todo \ {s}
    /\ pc' = "upload"
    /\ UNCHANGED <<snaps, latest, summary, disk, session, line, best, mode, stray>>

\* The highest version there is, advertised or not.
LastVersion == MaxOf({0} \cup {v \in Versions : Present(v)})

\* The next snapshot is renamed into place, not yet advertised.
SyncCommit ==
    /\ pc = "upload" /\ todo = {}
    /\ KeepNow \cap Complete(store) # {}
    /\ LastVersion < MaxSnapshot
    /\ snaps' = [snaps EXCEPT ![LastVersion + 1] =
                    [s \in KeepNow \cap Complete(store) |-> store[s]]]
    /\ pc' = "advertise"
    /\ UNCHANGED <<store, aside, staged, latest, summary, disk, session, line, best, mode, todo, stray>>

SyncAdvertise ==
    /\ pc = "advertise"
    /\ Resolves(LastVersion)
    /\ latest' = LastVersion
    /\ pc' = "prune"
    /\ UNCHANGED <<store, aside, staged, snaps, summary, disk, session, line, best, mode, todo, stray>>

\* Variant for the checks: only the new snapshot keeps what it references.
KeptByLatest == UNION {Names(v) : v \in {u \in Versions : Present(u) /\ u >= latest}}

\* The new snapshot and the version before it keep what they reference.
Kept == UNION {Names(v) : v \in {u \in Versions : Present(u) /\ u >= latest - 1}}

Prunable == Dirs(store) \ Kept
OldVersions == {v \in Versions : Present(v) /\ v < latest - 1}

PruneStore(s) ==
    /\ pc = "prune"
    /\ s \in Prunable /\ \A t \in Prunable : s <= t
    /\ store' = [store EXCEPT ![s] = None]
    /\ UNCHANGED <<aside, staged, snaps, latest, summary, disk, run, stray>>

PruneDebris ==
    /\ pc = "prune"
    /\ Prunable = {} /\ (staged # {} \/ Dirs(aside) # {})
    /\ staged' = {} /\ aside' = [s \in Steps |-> None]
    /\ UNCHANGED <<store, snaps, latest, summary, disk, run, stray>>

PruneSnapshot(v) ==
    /\ pc = "prune"
    /\ Prunable = {} /\ staged = {} /\ Dirs(aside) = {}
    /\ v \in OldVersions /\ \A u \in OldVersions : v <= u
    /\ snaps' = [snaps EXCEPT ![v] = None]
    /\ UNCHANGED <<store, aside, staged, latest, summary, disk, run, stray>>

SyncDone ==
    /\ pc = "prune"
    /\ Prunable = {} /\ staged = {} /\ Dirs(aside) = {} /\ OldVersions = {}
    /\ pc' = IF mode = "save" THEN "train" ELSE IF mode = "final" THEN "select" ELSE "summary"
    /\ UNCHANGED <<durable, disk, session, line, best, mode, todo, stray>>

-----------------------------------------------------------------------------
\* What a session leaves when it stops in the middle of a save or of a removal.
HalfDone ==
    CASE pc = "train" /\ Len(line) < MaxStep -> {Len(line) + 1}
      [] pc = "restore" /\ todo = {} -> Superseded
      [] pc = "rotate" -> RotatedOut
      [] OTHER -> {}
HalfSaved == {local} \cup {[local EXCEPT ![s] = Broken] : s \in HalfDone}
HalfPruned ==
    {store} \cup {[store EXCEPT ![s] = Broken] : s \in {t \in Prunable : pc = "prune"}}
HalfDropped ==
    {snaps} \cup {[snaps EXCEPT ![v] = << >>] :
                      v \in {u \in OldVersions : pc = "prune" /\ Prunable = {}}}

\* The session stops, by an error, a crash or at its end, and its process's memory
\* is gone.  A stage that wrote its summary may be run again: the history written
\* after it can fail, and any status but SUCCESS fails the stage.
Stopped ==
    /\ pc # "down"
    /\ pc' = "down" /\ line' = << >> /\ best' = None /\ mode' = "save" /\ todo' = {}
    /\ store' \in HalfPruned
    /\ snaps' \in HalfDropped
    /\ UNCHANGED <<aside, staged, latest, summary, session>>

SessionEnds ==
    /\ Stopped
    /\ local' \in HalfSaved
    /\ UNCHANGED <<localBak, localFp, stray>>

\* The machine goes away and its disk with it.
MachineLost ==
    /\ Stopped
    /\ local' = [s \in Steps |-> None] /\ localBak' = [s \in Steps |-> None] /\ localFp' = FALSE
    /\ stray' = (stray \/ LastVersion > latest)

Restore ==
    \/ Start
    \/ \E s \in Steps : RestoreCopy(s) \/ RestoreAside(s) \/ RestorePlace(s)
    \/ RestoreFinish \/ Resume

Train == Save \/ Rotate \/ Trained \/ SelectBest \/ WriteSummary

Sync ==
    \/ SyncPlan
    \/ \E s \in Steps : UploadCopy(s) \/ UploadAside(s) \/ UploadPlace(s)
    \/ SyncCommit \/ SyncAdvertise
    \/ \E s \in Steps : PruneStore(s)
    \/ PruneDebris
    \/ \E v \in Versions : PruneSnapshot(v)
    \/ SyncDone

Next == Restore \/ Train \/ Sync \/ SessionEnds \/ MachineLost

Spec == Init /\ [][Next]_vars

-----------------------------------------------------------------------------
Dir == Contents \cup {Broken, None}

TypeOK ==
    /\ store \in [Steps -> Dir] /\ aside \in [Steps -> Dir] /\ staged \subseteq Steps
    /\ DOMAIN snaps = Versions
    /\ \A v \in Versions : Present(v) => /\ Names(v) \subseteq Steps
                                         /\ snaps[v] \in [Names(v) -> Contents]
    /\ latest \in 0..MaxSnapshot /\ summary \in Steps \cup {None}
    /\ local \in [Steps -> Dir] /\ localBak \in [Steps -> Dir] /\ localFp \in BOOLEAN
    /\ session \in 0..MaxSession /\ (pc # "down" => session \in Sessions) /\ stray \in BOOLEAN
    /\ line \in Seq(Sessions) /\ best \in Steps \cup {None}
    /\ todo \subseteq Steps /\ mode \in {"save", "final", "best"}

\* LATEST, the version kept for a rollback and a version committed but not yet
\* advertised all resolve, whenever a session ends: what is uploaded, replaced
\* and pruned is never theirs.
RetainedSnapshotsResolve ==
    \A v \in Versions : Present(v) /\ v >= latest - 1 => Resolves(v)

\* The checkpoints a snapshot declares are of one line of training: an orphan
\* of an earlier attempt is never published beside its repetition.  (Once a
\* committed snapshot outlived its session's disk unadvertised, it may be.)
SnapshotsAreOneLine ==
    ~stray => \A v \in Versions : Present(v) =>
        \A s, t \in Names(v) : s <= t => SubSeq(snaps[v][t].line, 1, s) = snaps[v][s].line

\* The checkpoints that all snapshots together keep in the store, the rollback's
\* and those of an interrupted synchronisation included, fit the budget.
SnapshotsFitBudget == Cardinality(Referenced \cap Dirs(store)) <= Budget

\* A session that has begun to train continues the newest checkpoint advertised,
\* or one after it: no restore lets it fork or fall back, with the same exception.
ResumesAdvertised ==
    (pc = "train" /\ latest # 0 /\ ~stray) =>
        LET c == snaps[latest][MaxOf(Names(latest))] IN
        Len(c.line) <= Len(line) /\ SubSeq(line, 1, Len(c.line)) = c.line

\* A stage run again after its summary neither trains another ending nor contradicts
\* the summary: LATEST still has the run's last checkpoint, which names the same best
\* one, beside it unless a synchronisation at the end of training came last.
FinishedRunStands ==
    summary # None =>
        /\ latest # 0 /\ Resolves(latest)
        /\ MaxStep \in Names(latest) /\ snaps[latest][MaxStep].best = summary
        /\ summary \in Names(latest) \/ Names(latest) = {MaxStep}

\* The best checkpoint that the newest advertised one names is still stored.
\* (asr_full_train.py:909 says that retention always protects it.)
BestIsKept ==
    latest # 0 => snaps[latest][MaxOf(Names(latest))].best \in Complete(store)

\* What a reader of LATEST finds in the store.
Advertised ==
    [s \in Steps |-> IF latest # 0 /\ s \in Names(latest) THEN store[s] ELSE None]

History == INSTANCE CheckpointHistory WITH advertised <- Advertised, finished <- summary

ImplementsHistory == History!Spec

=============================================================================
